----------------------------- MODULE ReceiptLog -----------------------------
(***************************************************************************)
(* What the receipt store promises its readers, whoever writes to it: one  *)
(* log per chain, which only ever grows at its end, one receipt at a time, *)
(* and in which no receipt occurs twice.  The position of a receipt in its *)
(* log is its sequence number (the first is 1).                            *)
(*                                                                         *)
(* Nothing here is translated from a function: it is the contract that     *)
(* Pipeline and Daemon are shown to implement.                             *)
(***************************************************************************)
EXTENDS Naturals, Sequences

CONSTANTS Chain,   \* chain ids
          Id       \* receipt ids

VARIABLE log       \* log[c]: the receipt ids of chain c, in chain order

Recorded(i) == \E c \in Chain : \E n \in 1..Len(log[c]) : log[c][n] = i

Init == log \in [Chain -> Seq(Id)]

(* One receipt that no chain holds yet becomes the head of chain c. *)
Extend(c, i) ==
    /\ ~Recorded(i)
    /\ log' = [log EXCEPT ![c] = Append(@, i)]

Next == \E c \in Chain, i \in Id : Extend(c, i)

Spec == Init /\ [][Next]_log
=============================================================================
