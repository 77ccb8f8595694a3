----------------------------- MODULE MCGlobalLock -----------------------------
(* Model values for GlobalLock: two acquisition threads and two jobs.      *)
EXTENDS GlobalLock
CONSTANTS m1, m2, j1, j2
TwoManagers == {m1, m2}
TwoJobs == {j1, j2}
=============================================================================
