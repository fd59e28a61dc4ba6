------------------------------- MODULE Outbox -------------------------------
(***************************************************************************)
(* What the journal of a client and the collector promise together for     *)
(* receipts that travel over HTTP: a receipt leaves the journal only when  *)
(* the collector has stored it, the caller is told "delivered" only of a   *)
(* stored receipt, and a receipt is stored once and stays.                 *)
(***************************************************************************)
CONSTANT Receipt

VARIABLES
    pending, \* the receipts a restart of the client would deliver
    stored,  \* the receipts the collector has stored
    acked    \* the receipts whose Emit returned without an error

vars == <<pending, stored, acked>>

Init == pending = {} /\ stored = {} /\ acked = {}

Journal(r) ==
    /\ r \notin pending \cup stored
    /\ pending' = pending \cup {r}
    /\ UNCHANGED <<stored, acked>>

Store(r) ==
    /\ r \in pending \ stored
    /\ stored' = stored \cup {r}
    /\ UNCHANGED <<pending, acked>>

Clear(r) ==
    /\ r \in pending \cap stored
    /\ pending' = pending \ {r}
    /\ acked' \in {acked, acked \cup {r}}
    /\ UNCHANGED stored

Acknowledge(r) ==
    /\ r \in stored
    /\ acked' = acked \cup {r}
    /\ UNCHANGED <<pending, stored>>

Next == \E r \in Receipt : Journal(r) \/ Store(r) \/ Clear(r) \/ Acknowledge(r)

Spec == Init /\ [][Next]_vars
=============================================================================
