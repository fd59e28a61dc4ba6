-------------------------- MODULE MCDaemonEmitter --------------------------
(* Two goroutines and three calls: one can win the dial race, one can lose   *)
(* it, and a third call can carry the drops of both.                         *)
EXTENDS DaemonEmitter
=============================================================================
