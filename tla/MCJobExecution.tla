--------------------------- MODULE MCJobExecution ---------------------------
(* JobExecution on small instances: two engines with one or two tasks each. *)
EXTENDS JobExecution, TLC

CONSTANTS e1, e2, w1, w2, w3, j1, j2, j3

TwoJobs == {j1, j2}
OneJob == {j1}
ThreeJobs == {j1, j2, j3}
TwoEngines == {e1, e2}
OneEngine == {e1}
ThreeTasks == {w1, w2, w3}
TwoTasks == {w1, w2}
ThreeOnTwo == w1 :> e1 @@ w2 :> e1 @@ w3 :> e2
BothOnOne == w1 :> e1 @@ w2 :> e1
OneEach == w1 :> e1 @@ w2 :> e2

\* Two exclusive jobs that are suspended and activated meanwhile; one job that is
\* not exclusive, whose leases end while it is worked on or which is administered.
Disturbed ==
    {[features |-> {"suspend"}, retries |-> 2, jobs |-> {j1, j2}],
     [features |-> {"overrun", "postcommit", "manual"}, retries |-> 1, jobs |-> {j3}],
     [features |-> {"postcommit", "manual", "admin"}, retries |-> 1, jobs |-> {j3}]}
GlobalLocks == {[features |-> {"global"}, retries |-> 2, jobs |-> Jobs]}
Optimistic == {[features |-> {}, retries |-> 2, jobs |-> Jobs]}

\* Sound where only invariants are checked and both tasks belong to one engine.
TaskSymmetry == Permutations(TwoTasks)

=============================================================================
