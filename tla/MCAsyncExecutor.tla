--------------------------- MODULE MCAsyncExecutor ---------------------------
(* Instances of AsyncExecutor for TLC. *)
EXTENDS AsyncExecutor

CONSTANTS j1, j2, j3, w1, w2, async, timer

TwoJobs == {j1, j2}
ThreeJobs == {j1, j2, j3}
TwoWorkers == {w1, w2}
OneWorker == {w1}
OneEach == [w \in {w1, w2} |-> IF w = w1 THEN 1 ELSE 2]
OneInFirst == [w \in {w1} |-> 1]
OneAcquirer == {timer}
TwoAcquirers == {async, timer}
AsyncOnly == {async}
NoAcquirer == {}

\* Nothing goes wrong; the application activates the first job.
Plain == [unlocks |-> TRUE, suspended |-> {j1}, history |-> {},
          activates |-> [j \in Jobs |-> NoJob], faults |-> {}]

\* Running the first job activates the second.
Scheduled(unlocks, faults) ==
    [unlocks |-> unlocks, suspended |-> {j2}, history |-> {},
     activates |-> [j \in Jobs |-> IF j = j1 THEN j2 ELSE NoJob], faults |-> faults]

\* Both jobs are history jobs.
Historic == [unlocks |-> TRUE, suspended |-> {}, history |-> {j1, j2},
             activates |-> [j \in Jobs |-> NoJob], faults |-> {"errors"}]

AllConfigs ==
    {Plain, Historic, Scheduled(FALSE, {"errors", "timeout", "panic"}),
     Scheduled(TRUE, {"errors", "panic"})}
PlainOnly == {Plain}
ScheduledOnly == {Scheduled(FALSE, {"timeout"})}

=============================================================================
