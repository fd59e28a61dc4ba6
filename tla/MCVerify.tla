------------------------------ MODULE MCVerify ------------------------------
(* Three receipts are a call, a rotation and a receipt under the new key, or *)
(* a rotation after the end; two damages are an alteration and its cover-up. *)
EXTENDS Verify
=============================================================================
