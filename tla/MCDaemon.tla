------------------------------ MODULE MCDaemon ------------------------------
(* Daemon on a store that starts empty. *)
EXTENDS Daemon

CONSTANTS a

MCGen   == 1..(MaxAdvance + 1)
MCPrior == {{}}
=============================================================================
