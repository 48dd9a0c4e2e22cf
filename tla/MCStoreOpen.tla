----------------------------- MODULE MCStoreOpen -----------------------------
(* Instances of StoreOpen for TLC. *)
EXTENDS StoreOpen

CONSTANTS p1, p2, p3, f1, f2, f3, f4
=============================================================================
