---------------------------- MODULE MCStoreWatch -----------------------------
(* Instances of StoreWatch for TLC. *)
EXTENDS StoreWatch

CONSTANT m1

OneMission == {m1}
=============================================================================
