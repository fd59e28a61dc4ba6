----------------------------- MODULE MCRotation -----------------------------
(* Two rotations; four receipts are enough for a chain that ends, is rotated *)
(* and goes on, and for a root chain beside the chain of an agent.           *)
EXTENDS Rotation
=============================================================================
