---------------------------- MODULE MCCheckpoint ----------------------------
(* Checkpoint on the root chain and one sub-agent chain, which share the     *)
(* queue and are flushed one after the other.                                *)
EXTENDS Checkpoint

CONSTANTS c1
=============================================================================
