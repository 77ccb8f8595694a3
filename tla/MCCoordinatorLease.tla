------------------------- MODULE MCCoordinatorLease -------------------------
(* Instances of CoordinatorLease for model checking.                       *)
EXTENDS CoordinatorLease, TLC

CONSTANTS n1, n2, w1, w2

\* Two engines with one lease worker each.
OneEach == (w1 :> n1) @@ (w2 :> n2)

=============================================================================
