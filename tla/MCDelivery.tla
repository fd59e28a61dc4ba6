----------------------------- MODULE MCDelivery -----------------------------
(* Three receipts: one refused, and two of which a restart from a stale head *)
(* can give the same place in the chain.                                     *)
EXTENDS Delivery
=============================================================================
