-------------------------- MODULE JobExecutionProof -------------------------
(***************************************************************************)
(* Proofs about JobExecution for any number of jobs, engines and tasks, in *)
(* every configuration: types hold and no job is lost.                     *)
(***************************************************************************)
EXTENDS JobExecution, TLAPS

-----------------------------------------------------------------------------
(* Types.                                                                  *)

\* A task that is under way has a job and a copy of its row; so has a
\* management command.
Linked ==
    /\ \A w \in Tasks : pc[w] # "free" => job[w] \in Jobs /\ copy[w] \in Row
    /\ admin # NoAdmin => /\ admin.job \in Jobs /\ admin.copy \in Row
                          /\ admin.op \in {"retries", "deadletter", "revive"}

TInv == TypeOK /\ Linked

\* A row keeps its type when it is locked, unlocked or moved to another state.
LEMMA RowUpdates ==
    ASSUME NEW r \in Row, NEW b \in Tasks \cup {Nobody},
           NEW s \in {"async", "timer", "suspended", "deadletter"}
    PROVE  /\ [r EXCEPT !.by = b] \in Row
           /\ [r EXCEPT !.st = s, !.by = b] \in Row
           /\ [r EXCEPT !.by = b].by = b /\ [r EXCEPT !.by = b].st = r.st
           /\ r.by \in Tasks \cup {Nobody}
           /\ r # NoRow
<1>1. [r EXCEPT !.by = b] \in Row /\ [r EXCEPT !.st = s, !.by = b] \in Row
  BY Zenon DEF Row
<1>2. /\ [r EXCEPT !.by = b].by = b /\ [r EXCEPT !.by = b].st = r.st
      /\ r.by \in Tasks \cup {Nobody}
  BY Zenon DEF Row
<1>. QED
  BY Zenon, <1>1, <1>2, NullsAssumption

\* A failure leaves a row of the right type, unlocked and not suspended.
LEMMA FailedRow ==
    ASSUME NEW r \in Row, NEW u \in BOOLEAN
    PROVE  Failed(r, u) \in Row /\ Failed(r, u).by = Nobody /\ Failed(r, u).st # "suspended"
<1>. DEFINE left == IF u \/ r.retries = 0 THEN 0 ELSE r.retries - 1
<1>1. r.retries \in Int /\ 0 <= r.retries /\ r.retries <= MaxRetries /\ MaxRetries \in Nat
  BY RetriesAssumption DEF Row
<1>2. left \in 0..MaxRetries
  BY <1>1
<1>3. (IF left = 0 THEN "deadletter" ELSE "timer") \in
         {"async", "timer", "suspended", "deadletter"}
  BY Zenon
<1>. HIDE DEF left
<1>4. [st |-> IF left = 0 THEN "deadletter" ELSE "timer", by |-> Nobody,
       retries |-> left] \in Row
  BY Zenon, <1>2, <1>3 DEF Row
<1>5. Failed(r, u) = [st |-> IF left = 0 THEN "deadletter" ELSE "timer", by |-> Nobody,
                      retries |-> left]
  BY Zenon DEF Failed, left
<1>. QED
  BY <1>4, <1>5

\* So does a management command.
LEMMA AdministeredRow ==
    ASSUME NEW op \in {"retries", "deadletter", "revive"}, NEW r \in Row,
           NEW n \in 0..MaxRetries
    PROVE  Administered(op, r, n) \in Row
<1>1. [r EXCEPT !.retries = n] \in Row
  BY Zenon DEF Row
<1>2. [r EXCEPT !.st = "deadletter", !.by = Nobody] \in Row
  BY Zenon, RowUpdates
<1>3. [st |-> "async", by |-> Nobody, retries |-> n] \in Row
  BY Zenon DEF Row
<1>. QED
  BY Zenon, <1>1, <1>2, <1>3 DEF Administered

\* A configuration has retries within the bound.
LEMMA ConfiguredRetries ==
    ASSUME config \in Configs
    PROVE  config.retries \in 1..MaxRetries /\ MaxRetries \in Nat
BY Zenon, ConfigAssumption, RetriesAssumption DEF Config

LEMMA InitTypes == Init => TInv
<1>. SUFFICES ASSUME Init PROVE TInv
  BY Zenon
<1>1. config \in Configs
  BY Zenon DEF Init
<1>2. NewRow \in Row
  BY <1>1, ConfiguredRetries DEF NewRow, Row
<1>. QED
  BY <1>2 DEF Init, TInv, TypeOK, Linked, NoAdmin

\* Done(w) forgets the task and touches no other.
LEMMA DoneTypes ==
    ASSUME TInv, NEW w \in Tasks, Done(w)
    PROVE  /\ pc' \in [Tasks -> {"free", "acquire", "queued", "unacquire", "release", "hinted",
                                 "scope", "lock", "ready", "exec", "failed", "record"}]
           /\ kind' \in [Tasks -> {"none", "async", "timer", "hint", "manual"}]
           /\ job' \in [Tasks -> Jobs \cup {NoJob}]
           /\ copy' \in [Tasks -> Row \cup {NoRow}]
           /\ seen' \in [Tasks -> Tasks \cup {Nobody}]
           /\ \A v \in Tasks : pc'[v] # "free" => job'[v] \in Jobs /\ copy'[v] \in Row
BY Zenon DEF TInv, TypeOK, Linked, Done, Goto

LEMMA GotoTypes ==
    ASSUME TInv, NEW w \in Tasks, pc[w] # "free",
           NEW p \in {"free", "acquire", "queued", "unacquire", "release", "hinted",
                      "scope", "lock", "ready", "exec", "failed", "record"},
           Goto(w, p), UNCHANGED <<kind, job>>,
           copy' \in [Tasks -> Row \cup {NoRow}],
           copy'[w] \in Row, \A v \in Tasks : v # w => copy'[v] = copy[v]
    PROVE  /\ pc' \in [Tasks -> {"free", "acquire", "queued", "unacquire", "release", "hinted",
                                 "scope", "lock", "ready", "exec", "failed", "record"}]
           /\ kind' \in [Tasks -> {"none", "async", "timer", "hint", "manual"}]
           /\ job' \in [Tasks -> Jobs \cup {NoJob}]
           /\ \A v \in Tasks : pc'[v] # "free" => job'[v] \in Jobs /\ copy'[v] \in Row
BY Zenon DEF TInv, TypeOK, Linked, Goto

\* Replacing one row by a row, or by nothing, keeps the table's type.
LEMMA RowTable ==
    ASSUME TInv, NEW j \in Jobs, NEW r \in Row \cup {NoRow}
    PROVE  [row EXCEPT ![j] = r] \in [Jobs -> Row \cup {NoRow}]
BY Zenon DEF TInv, TypeOK

\* The row of a table entry can be locked, unlocked and moved.
LEMMA EntryUpdates ==
    ASSUME TInv, NEW j \in Jobs, row[j] # NoRow, NEW b \in Tasks \cup {Nobody},
           NEW s \in {"async", "timer", "suspended", "deadletter"}
    PROVE  /\ row[j] \in Row
           /\ [row[j] EXCEPT !.by = b] \in Row
           /\ [row[j] EXCEPT !.st = s, !.by = b] \in Row
<1>1. row[j] \in Row
  BY Zenon DEF TInv, TypeOK
<1>. QED
  BY Zenon, <1>1, RowUpdates

LEMMA ClearScopeType ==
    ASSUME TInv, NEW w \in Tasks, ClearScope(w)
    PROVE  scope' \in Tasks \cup {Nobody}
BY Zenon DEF TInv, TypeOK, ClearScope

LEMMA TaskStepTypes ==
    ASSUME TInv, NEW w \in Tasks, TaskStep(w), UNCHANGED config
    PROVE  TInv'
<1>. USE DEF TInv
<1>1. CASE AcquireRead(w)
  BY <1>1 DEF AcquireRead, TypeOK, Linked, Goto, Selects, NoAdmin
<1>2. CASE AcquireWrite(w)
  <2>1. job[w] \in Jobs /\ copy[w] \in Row /\ [copy[w] EXCEPT !.by = w] \in Row
    BY Zenon, <1>2, RowUpdates DEF AcquireWrite, Linked
  <2>2. CASE Lockable(w)
    BY <1>2, <2>1, <2>2, RowTable DEF AcquireWrite, TypeOK, Linked, Goto
  <2>3. CASE ~Lockable(w)
    BY Zenon, <1>2, <2>3, DoneTypes DEF AcquireWrite, TypeOK, Linked
  <2>. QED BY Zenon, <2>2, <2>3
<1>3. CASE Abandon(w)
  BY Zenon, <1>3, DoneTypes DEF Abandon, TypeOK, Linked
<1>4. CASE Reject(w)
  BY Zenon, <1>4 DEF Reject, TypeOK, Linked, Goto
<1>5. CASE ReleaseRead(w)
  <2>1. CASE LockedBy(row[job[w]], Engine[w])
    BY <1>5, <2>1 DEF ReleaseRead, TypeOK, Linked, Goto, LockedBy
  <2>2. CASE ~LockedBy(row[job[w]], Engine[w])
    BY Zenon, <1>5, <2>2, DoneTypes DEF ReleaseRead, TypeOK, Linked
  <2>. QED BY Zenon, <2>1, <2>2
<1>6. CASE ReleaseWrite(w)
  <2>1. job[w] \in Jobs /\ [copy[w] EXCEPT !.by = Nobody] \in Row
    BY Zenon, <1>6, RowUpdates DEF ReleaseWrite, Linked
  <2>2. row' \in [Jobs -> Row \cup {NoRow}]
    BY Zenon, <1>6, <2>1, RowTable DEF ReleaseWrite, TypeOK
  <2>. QED
    BY Zenon, <1>6, <2>2, DoneTypes DEF ReleaseWrite, TypeOK, Linked
<1>7. CASE HintOffer(w)
  <2>1. CASE row[job[w]] = NoRow
    BY Zenon, <1>7, <2>1, DoneTypes DEF HintOffer, TypeOK, Linked
  <2>2. CASE row[job[w]] # NoRow
    BY <1>7, <2>2 DEF HintOffer, TypeOK, Linked, Goto
  <2>. QED BY Zenon, <2>1, <2>2
<1>8. CASE HintProbe(w)
  <2>1. CASE SameLiveLease(w)
    BY Zenon, <1>8, <2>1 DEF HintProbe, TypeOK, Linked, Goto
  <2>2. CASE ~SameLiveLease(w)
    BY Zenon, <1>8, <2>2, DoneTypes DEF HintProbe, TypeOK, Linked
  <2>. QED BY Zenon, <2>1, <2>2
<1>9. CASE ScopeRead(w)
  BY <1>9 DEF ScopeRead, TypeOK, Linked, Goto
<1>10. CASE ScopeWrite(w)
  <2>1. copy[w].by \in Tasks \cup {Nobody}
    BY Zenon, <1>10 DEF ScopeWrite, Linked, Row
  <2>. QED
    BY <1>10, <2>1 DEF ScopeWrite, TypeOK, Linked, Goto
<1>11. CASE ScopeError(w)
  BY Zenon, <1>11 DEF ScopeError, TypeOK, Linked, Goto
<1>12. CASE ExecuteStart(w)
  <2>1. CASE MayRun(w)
    BY Zenon, <1>12, <2>1 DEF ExecuteStart, TypeOK, Linked, Goto
  <2>2. CASE ~MayRun(w)
    BY Zenon, <1>12, <2>2, DoneTypes, ClearScopeType DEF ExecuteStart, TypeOK, Linked
  <2>. QED BY Zenon, <2>1, <2>2
<1>13. CASE ExecuteFenced(w)
  BY Zenon, <1>13, DoneTypes DEF ExecuteFenced, TypeOK, Linked
<1>14. ASSUME CommitEffects(w), pc[w] = "exec"
       PROVE  /\ row' \in [Jobs -> Row \cup {NoRow}]
              /\ scope' \in Tasks \cup {Nobody}
              /\ runs' \in [Jobs -> 0..2]
  <2>1. job[w] \in Jobs
    BY Zenon, <1>14 DEF Linked
  <2>2. (IF runs[job[w]] = 2 THEN 2 ELSE runs[job[w]] + 1) \in 0..2
    <3>1. runs[job[w]] \in 0..2
      BY Zenon, <2>1 DEF TypeOK
    <3>. QED BY <3>1
  <2>3. runs' \in [Jobs -> 0..2]
    BY Zenon, <1>14, <2>1, <2>2 DEF CommitEffects, TypeOK
  <2>4. row' \in [Jobs -> Row \cup {NoRow}]
    BY Zenon, <1>14, <2>1, RowTable DEF CommitEffects
  <2>. QED
    BY Zenon, <1>14, <2>3, <2>4, ClearScopeType DEF CommitEffects
<1>15. CASE ExecuteCommit(w)
  BY Zenon, <1>14, <1>15, DoneTypes DEF ExecuteCommit, TypeOK, Linked
<1>16. CASE ExecuteFail(w)
  BY Zenon, <1>14, <1>16 DEF ExecuteFail, TypeOK, Linked, Goto
<1>17. CASE RecordRead(w)
  <2>1. job[w] \in Jobs /\ copy[w] \in Row /\ copy[w].by \in Tasks \cup {Nobody}
    BY Zenon, <1>17, RowUpdates DEF RecordRead, Linked
  <2>2. row[job[w]] # NoRow => row[job[w]] \in Row
    BY Zenon, <2>1 DEF TypeOK
  <2>3. row[job[w]] # NoRow => [row[job[w]] EXCEPT !.by = copy[w].by] \in Row
    BY Zenon, <2>1, <2>2, RowUpdates
  <2>. QED
    BY Zenon, <1>17, <2>1, <2>3 DEF RecordRead, TypeOK, Linked, Goto
<1>18. CASE RecordWrite(w)
  <2>1. job[w] \in Jobs /\ \A u \in BOOLEAN : Failed(copy[w], u) \in Row
    BY Zenon, <1>18, FailedRow DEF RecordWrite, Linked
  <2>. QED
    BY <1>18, <2>1, RowTable, DoneTypes, ClearScopeType DEF RecordWrite, TypeOK, Linked
<1>19. CASE RecordError(w)
  BY Zenon, <1>19, DoneTypes DEF RecordError, TypeOK, Linked
<1>20. CASE ManualStart(w)
  BY <1>20 DEF ManualStart, TypeOK, Linked, Goto
<1>. QED
  BY Zenon, <1>1, <1>2, <1>3, <1>4, <1>5, <1>6, <1>7, <1>8, <1>9, <1>10, <1>11, <1>12, <1>13,
     <1>15, <1>16, <1>17, <1>18, <1>19, <1>20 DEF TaskStep

LEMMA NextTypes == TInv /\ [Next]_vars => TInv'
<1>. SUFFICES ASSUME TInv, [Next]_vars PROVE TInv'
  BY Zenon
<1>0. UNCHANGED config
  BY Zenon DEF Next, vars
<1>. USE <1>0 DEF TInv
<1>1. ASSUME NEW w \in Tasks, TaskStep(w) PROVE TInv'
  BY Zenon, <1>1, TaskStepTypes
<1>2. ASSUME NEW w \in Tasks, Expire(w) PROVE TInv'
  BY Zenon, <1>2 DEF Expire, TypeOK, Linked, taskVars
<1>3. ASSUME NEW j \in Jobs, ResetExpired(j) PROVE TInv'
  <2>1. [row[j] EXCEPT !.by = Nobody] \in Row
    BY Zenon, <1>3, EntryUpdates DEF ResetExpired, Expired
  <2>2. row' = [row EXCEPT ![j] = [row[j] EXCEPT !.by = Nobody]]
    BY Zenon, <1>3 DEF ResetExpired
  <2>. QED
    BY <1>3, <2>1, <2>2, RowTable DEF ResetExpired, TypeOK, Linked, taskVars
<1>4. CASE SuspendJobs
  <2>1. \A j \in Jobs : row[j] # NoRow =>
           [row[j] EXCEPT !.st = "suspended", !.by = Nobody] \in Row
    BY Zenon, EntryUpdates
  <2>2. row' \in [Jobs -> Row \cup {NoRow}]
    BY Zenon, <1>4, <2>1 DEF SuspendJobs, TypeOK
  <2>. QED
    BY Zenon, <1>4, <2>2 DEF SuspendJobs, TypeOK, Linked, taskVars
<1>5. \A j \in Suspended, b \in Tasks \cup {Nobody} : Activated(j, b) \in Row
  BY Zenon, EntryUpdates DEF Suspended, Activated
<1>6. CASE ActivateJobs
  <2>1. row' \in [Jobs -> Row \cup {NoRow}]
    BY Zenon, <1>6, <1>5 DEF ActivateJobs, TypeOK
  <2>. QED
    BY Zenon, <1>6, <2>1 DEF ActivateJobs, TypeOK, Linked, taskVars
<1>7. CASE ActivateWithHints
  <2>1. PICK f \in [Suspended -> {w \in Tasks : Usable(w)}], hinted \in SUBSET Suspended :
          HandOver(f, hinted)
    BY <1>7, Zenon DEF ActivateWithHints
  <2>. DEFINE offered == {f[j] : j \in hinted}
  <2>2. \A w \in offered : LeaseJob(f, w) \in Suspended /\ LeaseJob(f, w) \in Jobs
    BY Zenon DEF LeaseJob, Suspended
  <2>3. \A w \in Tasks : w \in offered => Activated(LeaseJob(f, w), w) \in Row
    BY Zenon, <2>2, <1>5
  <2>4. row' \in [Jobs -> Row \cup {NoRow}]
    BY Zenon, <2>1, <1>5 DEF HandOver, TypeOK
  <2>5. live' \subseteq Tasks
    BY <2>1 DEF HandOver, TypeOK
  <2>6. UNCHANGED <<scope, up, seen, admin, runs>>
    BY Zenon, <2>1 DEF HandOver
  <2>7. /\ copy' = [w \in Tasks |->
                      IF w \in offered THEN Activated(LeaseJob(f, w), w) ELSE copy[w]]
        /\ job' = [w \in Tasks |-> IF w \in offered THEN LeaseJob(f, w) ELSE job[w]]
        /\ pc' = [w \in Tasks |-> IF w \in offered THEN "hinted" ELSE pc[w]]
        /\ kind' = [w \in Tasks |-> IF w \in offered THEN "hint" ELSE kind[w]]
    BY <2>1, Zenon DEF HandOver
  <2>. HIDE DEF offered
  <2>8. copy' \in [Tasks -> Row \cup {NoRow}] /\ job' \in [Tasks -> Jobs \cup {NoJob}]
    BY Zenon, <2>2, <2>3, <2>7 DEF TypeOK
  <2>9. \A w \in Tasks : pc'[w] # "free" => job'[w] \in Jobs /\ copy'[w] \in Row
    BY Zenon, <2>2, <2>3, <2>7 DEF Linked
  <2>10. /\ pc' \in [Tasks -> {"free", "acquire", "queued", "unacquire", "release", "hinted",
                              "scope", "lock", "ready", "exec", "failed", "record"}]
        /\ kind' \in [Tasks -> {"none", "async", "timer", "hint", "manual"}]
    BY Zenon, <2>7 DEF TypeOK
  <2>. QED
    BY Zenon, <2>4, <2>5, <2>6, <2>8, <2>9, <2>10 DEF TypeOK, Linked
<1>8. CASE AdminRead
  BY <1>8 DEF AdminRead, TypeOK, Linked, taskVars
<1>9. CASE AdminWrite
  <2>1. admin.job \in Jobs /\
        \A n \in 0..MaxRetries : Administered(admin.op, admin.copy, n) \in Row
    BY Zenon, <1>9, AdministeredRow DEF AdminWrite, Linked
  <2>2. \A n \in 0..config.retries : n \in 0..MaxRetries
    BY ConfiguredRetries DEF TypeOK
  <2>. QED
    BY <1>9, <2>1, <2>2, RowTable DEF AdminWrite, TypeOK, Linked, NoAdmin, taskVars
<1>10. ASSUME NEW e \in Engines, Crash(e) PROVE TInv'
  BY Zenon, <1>10 DEF Crash, TypeOK, Linked
<1>11. ASSUME NEW e \in Engines, UnlockOwned(e) \/ UNCHANGED row
       PROVE  row' \in [Jobs -> Row \cup {NoRow}]
  <2>1. \A j \in Jobs : LockedBy(row[j], e) => [row[j] EXCEPT !.by = Nobody] \in Row
    BY Zenon, EntryUpdates DEF LockedBy
  <2>. QED
    BY <1>11, <2>1 DEF UnlockOwned, TypeOK
<1>12. ASSUME NEW e \in Engines, Stop(e) PROVE TInv'
  BY Zenon, <1>12, <1>11 DEF Stop, TypeOK, Linked, taskVars
<1>13. ASSUME NEW e \in Engines, Restart(e) PROVE TInv'
  BY Zenon, <1>13, <1>11 DEF Restart, TypeOK, Linked, taskVars
<1>14. CASE UNCHANGED vars
  BY Zenon, <1>14 DEF vars, taskVars, TypeOK, Linked
<1>. QED
  BY Zenon, <1>1, <1>2, <1>3, <1>4, <1>6, <1>7, <1>8, <1>9, <1>10, <1>12, <1>13, <1>14 DEF Next

\* In every configuration rows, locks and tasks keep their types.
THEOREM TypeCorrect == Spec => []TypeOK
<1>1. Spec => []TInv
  BY InitTypes, NextTypes, PTL DEF Spec
<1>2. TInv => TypeOK
  BY Zenon DEF TInv
<1>. QED
  BY <1>1, <1>2, PTL

-----------------------------------------------------------------------------
(* No job is lost, whatever goes wrong.                                    *)

\* A task deletes the row of its job only with the effects that it commits, and
\* what it writes otherwise is a row.
LEMMA TaskStepKeeps ==
    ASSUME TInv, NoJobLost, NEW w \in Tasks, TaskStep(w)
    PROVE  NoJobLost'
<1>. USE DEF TInv
<1>1. ASSUME NEW r \in Row, row' = [row EXCEPT ![job[w]] = r], UNCHANGED runs
      PROVE  NoJobLost'
  BY Zenon, <1>1, NullsAssumption DEF NoJobLost, TypeOK
<1>2. ASSUME UNCHANGED <<row, runs>> PROVE NoJobLost'
  BY Zenon, <1>2 DEF NoJobLost
<1>3. ASSUME pc[w] = "exec", CommitEffects(w) PROVE NoJobLost'
  BY <1>3 DEF CommitEffects, NoJobLost, TypeOK, Linked
<1>4. CASE AcquireWrite(w)
  <2>1. [copy[w] EXCEPT !.by = w] \in Row
    BY Zenon, <1>4, RowUpdates DEF AcquireWrite, Linked
  <2>. QED
    BY Zenon, <1>1, <1>2, <1>4, <2>1 DEF AcquireWrite
<1>5. CASE ReleaseWrite(w)
  <2>1. [copy[w] EXCEPT !.by = Nobody] \in Row
    BY Zenon, <1>5, RowUpdates DEF ReleaseWrite, Linked
  <2>. QED
    BY Zenon, <1>1, <1>2, <1>5, <2>1 DEF ReleaseWrite
<1>6. CASE RecordWrite(w)
  <2>1. \A u \in BOOLEAN : Failed(copy[w], u) \in Row
    BY Zenon, <1>6, FailedRow DEF RecordWrite, Linked
  <2>. QED
    BY Zenon, <1>1, <1>2, <1>6, <2>1 DEF RecordWrite
<1>7. CASE ExecuteCommit(w) \/ ExecuteFail(w)
  BY Zenon, <1>2, <1>3, <1>7 DEF ExecuteCommit, ExecuteFail
<1>8. CASE \/ AcquireRead(w) \/ Abandon(w) \/ Reject(w) \/ ReleaseRead(w)
           \/ HintOffer(w) \/ HintProbe(w) \/ ScopeRead(w) \/ ScopeWrite(w)
           \/ ScopeError(w) \/ ExecuteStart(w) \/ ExecuteFenced(w)
           \/ RecordRead(w) \/ RecordError(w) \/ ManualStart(w)
  BY Zenon, <1>2, <1>8 DEF AcquireRead, Abandon, Reject, ReleaseRead, HintOffer, HintProbe,
     ScopeRead, ScopeWrite, ScopeError, ExecuteStart, ExecuteFenced, RecordRead,
     RecordError, ManualStart
<1>. QED
  BY Zenon, <1>4, <1>5, <1>6, <1>7, <1>8 DEF TaskStep

LEMMA NextKeeps == TInv /\ NoJobLost /\ [Next]_vars => NoJobLost'
<1>. SUFFICES ASSUME TInv, NoJobLost, [Next]_vars PROVE NoJobLost'
  BY Zenon
<1>. USE DEF TInv
<1>1. ASSUME NEW w \in Tasks, TaskStep(w) PROVE NoJobLost'
  BY Zenon, <1>1, TaskStepKeeps
<1>2. ASSUME UNCHANGED <<row, runs>> PROVE NoJobLost'
  BY Zenon, <1>2 DEF NoJobLost
<1>3. ASSUME UNCHANGED runs, \A j \in Jobs : row[j] # NoRow => row'[j] \in Row
      PROVE  NoJobLost'
  BY Zenon, <1>3, NullsAssumption DEF NoJobLost
<1>4. \A j \in Jobs, b \in Tasks \cup {Nobody} : row[j] # NoRow =>
         /\ row[j] \in Row
         /\ [row[j] EXCEPT !.by = b] \in Row
         /\ [row[j] EXCEPT !.st = "suspended", !.by = Nobody] \in Row
         /\ Activated(j, b) \in Row
  BY Zenon, EntryUpdates DEF Activated
<1>5. ASSUME NEW j \in Jobs, ResetExpired(j) PROVE NoJobLost'
  BY Zenon, <1>3, <1>4, <1>5 DEF ResetExpired, TypeOK
<1>6. CASE SuspendJobs
  BY Zenon, <1>3, <1>4, <1>6 DEF SuspendJobs
<1>7. CASE ActivateJobs
  BY Zenon, <1>3, <1>4, <1>7 DEF ActivateJobs, Suspended
<1>8. CASE ActivateWithHints
  <2>1. PICK f \in [Suspended -> {w \in Tasks : Usable(w)}], hinted \in SUBSET Suspended :
          HandOver(f, hinted)
    BY <1>8, Zenon DEF ActivateWithHints
  <2>2. UNCHANGED runs /\ \A j \in Jobs : row[j] # NoRow => row'[j] \in Row
    BY Zenon, <1>4, <2>1 DEF HandOver, Suspended
  <2>. QED
    BY Zenon, <1>3, <2>2
<1>9. CASE AdminWrite
  <2>1. admin.job \in Jobs /\
        \A n \in 0..MaxRetries : Administered(admin.op, admin.copy, n) \in Row
    BY Zenon, <1>9, AdministeredRow DEF AdminWrite, Linked
  <2>2. \A n \in 0..config.retries : n \in 0..MaxRetries
    BY ConfiguredRetries DEF TypeOK
  <2>3. /\ UNCHANGED runs
        /\ \E n \in 0..config.retries :
             row' = [row EXCEPT ![admin.job] = Administered(admin.op, admin.copy, n)]
    BY Zenon, <1>9 DEF AdminWrite
  <2>4. \E r \in Row : row' = [row EXCEPT ![admin.job] = r]
    BY Zenon, <2>1, <2>2, <2>3
  <2>5. \A j \in Jobs : row[j] # NoRow => row'[j] \in Row
    BY Zenon, <1>4, <2>1, <2>4 DEF TypeOK
  <2>. QED
    BY Zenon, <1>3, <2>3, <2>5
<1>10. ASSUME NEW e \in Engines, Crash(e) \/ Stop(e) \/ Restart(e) PROVE NoJobLost'
  <2>1. ASSUME UnlockOwned(e), UNCHANGED runs PROVE NoJobLost'
    BY Zenon, <1>3, <1>4, <2>1 DEF UnlockOwned
  <2>. QED
    BY Zenon, <1>2, <1>10, <2>1 DEF Crash, Stop, Restart
<1>11. ASSUME NEW l \in Tasks, Expire(l) PROVE NoJobLost'
  BY Zenon, <1>2, <1>11 DEF Expire
<1>12. CASE AdminRead \/ UNCHANGED vars
  BY Zenon, <1>2, <1>12 DEF AdminRead, vars
<1>. QED
  BY Zenon, <1>1, <1>5, <1>6, <1>7, <1>8, <1>9, <1>10, <1>11, <1>12 DEF Next

\* In every configuration - leases that expire under their work, listeners that
\* fail after the commit, suspension, management commands and runs by hand
\* included - no job disappears without its effects having been committed.
THEOREM JobsAreKept == Spec => []NoJobLost
<1>1. Init => NoJobLost
  <2>. SUFFICES ASSUME Init PROVE NoJobLost
    BY Zenon
  <2>1. NewRow \in Row
    BY ConfiguredRetries DEF Init, NewRow, Row
  <2>. QED
    BY <2>1, NullsAssumption DEF Init, NoJobLost
<1>2. TInv /\ NoJobLost /\ [Next]_vars => TInv' /\ NoJobLost'
  BY Zenon, NextTypes, NextKeeps
<1>. QED
  BY <1>1, <1>2, InitTypes, PTL DEF Spec


(***************************************************************************)
(* The inductive invariant of engines whose leases cover their work (no    *)
(* "overrun"), whose listeners do not fail after the commit, and whose jobs*)
(* are not suspended or administered meanwhile; with and without the global*)
(* lock.  What follows from it: a job's effects are committed once,        *)
(* exclusive jobs exclude each other, and under the global lock dead       *)
(* letters stay.                                                           *)
(***************************************************************************)

Calm == config.features \subseteq {"global"}

\* Nothing was suspended, hinted, run by hand or administered.
Quiet ==
    /\ admin = NoAdmin
    /\ \A j \in Jobs : row[j] # NoRow => row[j].st # "suspended"
    /\ \A w \in Tasks : /\ pc[w] \notin {"hinted", "scope"}
                        /\ kind[w] \in {"none", "async", "timer"}
                        /\ copy[w] # NoRow => copy[w].st # "suspended"

\* The tasks of an engine that is down are gone.
DownIdle == \A w \in Tasks : Engine[w] \notin up => pc[w] = "free"

Owning == {"queued", "unacquire", "release", "lock", "ready", "exec", "failed", "record"}

\* From the acquisition on, the row is locked with the task's own live lease.
HoldsRow ==
    \A w \in Tasks : pc[w] \in Owning =>
        /\ row[job[w]] # NoRow /\ row[job[w]].by = w
        /\ copy[w].by = w /\ w \in live

\* A task that is about to lock a row is new to the process-instance lock;
\* under the global lock nobody else can have changed the row it read.
Candidate ==
    \A w \in Tasks : pc[w] = "acquire" =>
        /\ scope # w /\ copy[w].st \in Runnable
        /\ Serialized => /\ row[job[w]] = copy[w]
                         /\ copy[w].by = Nobody /\ copy[w].st = kind[w]

\* The global lock lets in one acquisition of a kind.
OneTurn ==
    Serialized => \A v, w \in Tasks :
        pc[v] = "acquire" /\ pc[w] = "acquire" /\ kind[v] = kind[w] => v = w

Scoped == {"ready", "exec", "failed", "record"}

\* From then on the task of an exclusive job has the process-instance lock.
HoldsScope ==
    \A w \in Tasks : pc[w] \in Scoped /\ job[w] \in Exclusive => scope = w

\* A lock that a task found expired belongs to a task that is no more.
SeenIsDead ==
    \A v, w \in Tasks : seen[v] = w => w \notin live /\ pc[w] = "free"

\* The row is deleted by the commit that counts the run, and only then.
RowOrRun == \A j \in Jobs : runs[j] = IF row[j] = NoRow THEN 1 ELSE 0

\* A dead letter is not locked.
LockedRuns ==
    \A j \in Jobs : row[j] # NoRow /\ row[j].by # Nobody => row[j].st \in Runnable

IInv == /\ TInv /\ Quiet /\ DownIdle /\ HoldsRow /\ Candidate /\ OneTurn
        /\ HoldsScope /\ SeenIsDead /\ RowOrRun /\ LockedRuns

Rest == /\ Quiet /\ DownIdle /\ HoldsRow /\ Candidate /\ OneTurn
        /\ HoldsScope /\ SeenIsDead /\ RowOrRun /\ LockedRuns

LEMMA InitInv == Init => IInv
<1>. SUFFICES ASSUME Init PROVE IInv
  BY Zenon
<1>1. TInv
  BY Zenon, InitTypes
<1>2. NewRow.by = Nobody /\ NewRow.st = "async" /\ NewRow # NoRow
  <2>1. NewRow \in Row
    BY ConfiguredRetries DEF Init, NewRow, Row
  <2>. QED
    BY Zenon, <2>1, NullsAssumption DEF NewRow
<1>3. \A j \in Jobs : row[j] = IF j \in config.jobs THEN NewRow ELSE NoRow
  BY Zenon DEF Init
<1>. HIDE DEF NewRow
<1>4. Quiet /\ LockedRuns /\ RowOrRun
  BY Zenon, <1>2, <1>3 DEF Init, Quiet, LockedRuns, RowOrRun
<1>5. DownIdle /\ HoldsRow /\ Candidate /\ OneTurn /\ HoldsScope
  BY Zenon DEF Init, DownIdle, HoldsRow, Candidate, OneTurn, HoldsScope, Owning, Scoped
<1>6. SeenIsDead
  BY Zenon, NullsAssumption DEF Init, SeenIsDead
<1>. QED
  BY Zenon, <1>1, <1>4, <1>5, <1>6 DEF IInv

\* What Done(w) leaves behind, task by task.
LEMMA DonePointwise ==
    ASSUME TInv, NEW w \in Tasks, Done(w)
    PROVE  \A v \in Tasks :
             /\ pc'[v] = IF v = w THEN "free" ELSE pc[v]
             /\ kind'[v] = IF v = w THEN "none" ELSE kind[v]
             /\ job'[v] = IF v = w THEN NoJob ELSE job[v]
             /\ copy'[v] = IF v = w THEN NoRow ELSE copy[v]
             /\ seen'[v] = IF v = w THEN Nobody ELSE seen[v]
BY Zenon DEF TInv, TypeOK, Done, Goto

LEMMA GotoPointwise ==
    ASSUME TInv, NEW w \in Tasks, NEW p, Goto(w, p)
    PROVE  \A v \in Tasks : pc'[v] = IF v = w THEN p ELSE pc[v]
BY Zenon DEF TInv, TypeOK, Goto

LEMMA RowPointwise ==
    ASSUME TInv, NEW j \in Jobs, NEW r, row' = [row EXCEPT ![j] = r]
    PROVE  \A i \in Jobs : row'[i] = IF i = j THEN r ELSE row[i]
BY Zenon DEF TInv, TypeOK

\* Two tasks do not own one row.
LEMMA OwnersDiffer ==
    ASSUME IInv, NEW v \in Tasks, NEW w \in Tasks,
           pc[v] \in Owning, pc[w] \in Owning, job[v] = job[w]
    PROVE  v = w
BY DEF IInv, HoldsRow

\* A task that gives up without a word to the store.
LEMMA LeaveTask ==
    ASSUME IInv, NEW w \in Tasks, Done(w),
           UNCHANGED <<config, row, scope, live, up, admin, runs>>
    PROVE  Rest'
<1>. DEFINE Same(v) == /\ pc'[v] = pc[v] /\ kind'[v] = kind[v] /\ job'[v] = job[v]
                       /\ copy'[v] = copy[v] /\ seen'[v] = seen[v]
<1>1. \A v \in Tasks : v # w => Same(v)
  BY Zenon, DonePointwise DEF IInv
<1>2. pc'[w] = "free" /\ kind'[w] = "none" /\ seen'[w] = Nobody /\ copy'[w] = NoRow
  BY Zenon, DonePointwise DEF IInv
<1>3. Quiet' /\ DownIdle' /\ RowOrRun' /\ LockedRuns'
  BY <1>1, <1>2 DEF IInv, Quiet, DownIdle, RowOrRun, LockedRuns
<1>4. HoldsRow' /\ HoldsScope'
  BY <1>1, <1>2 DEF IInv, HoldsRow, HoldsScope, Owning, Scoped
<1>5. Candidate' /\ OneTurn'
  BY <1>1, <1>2 DEF IInv, Candidate, OneTurn, Serialized, Runnable
<1>6. SeenIsDead'
  BY <1>1, <1>2, NullsAssumption DEF IInv, SeenIsDead
<1>. QED
  BY Zenon, <1>3, <1>4, <1>5, <1>6 DEF Rest

\* A task that goes on, in memory only, from one owning place to another.
LEMMA MoveTask ==
    ASSUME IInv, NEW w \in Tasks, pc[w] \in Owning, NEW p \in Owning, Goto(w, p),
           p \in Scoped => pc[w] \in Scoped \/ job[w] \notin Exclusive,
           UNCHANGED <<config, row, scope, live, up, kind, job, admin, runs>>,
           copy'[w].by = w, copy'[w].st # "suspended", \A v \in Tasks : v # w => copy'[v] = copy[v],
           seen'[w] \in Tasks => seen'[w] \notin live /\ pc[seen'[w]] = "free",
           \A v \in Tasks : v # w => seen'[v] = seen[v]
    PROVE  Rest'
<1>1. \A v \in Tasks : pc'[v] = IF v = w THEN p ELSE pc[v]
  BY GotoPointwise DEF IInv
<1>2. p \notin {"free", "acquire", "hinted", "scope"}
  BY Zenon DEF Owning
<1>3. Quiet' /\ DownIdle' /\ RowOrRun' /\ LockedRuns'
  BY <1>1, <1>2 DEF IInv, Quiet, DownIdle, RowOrRun, LockedRuns, Owning
<1>4. HoldsRow' /\ HoldsScope'
  BY Zenon, <1>1, <1>2 DEF IInv, HoldsRow, HoldsScope
<1>5. Candidate' /\ OneTurn'
  BY <1>1, <1>2 DEF IInv, Candidate, OneTurn, Serialized, Runnable
<1>6. SeenIsDead'
  BY <1>1, <1>2 DEF IInv, SeenIsDead, Owning
<1>. QED
  BY Zenon, <1>3, <1>4, <1>5, <1>6 DEF Rest

LEMMA AcquireReadInv ==
    ASSUME IInv, Calm, NEW w \in Tasks, AcquireRead(w), UNCHANGED config
    PROVE  Rest'
<1>1. PICK j \in Jobs, k \in {"async", "timer"} :
        /\ HasTurn(k) /\ Selects(k, row[j])
        /\ kind' = [kind EXCEPT ![w] = k]
        /\ job' = [job EXCEPT ![w] = j]
        /\ copy' = [copy EXCEPT ![w] = row[j]]
  BY Zenon DEF AcquireRead
<1>2. \A v \in Tasks : /\ pc'[v] = IF v = w THEN "acquire" ELSE pc[v]
                       /\ kind'[v] = IF v = w THEN k ELSE kind[v]
                       /\ job'[v] = IF v = w THEN j ELSE job[v]
                       /\ copy'[v] = IF v = w THEN row[j] ELSE copy[v]
  BY Zenon, <1>1 DEF AcquireRead, Goto, IInv, TInv, TypeOK
<1>3. UNCHANGED <<row, scope, live, up, seen, admin, runs>>
  BY Zenon DEF AcquireRead
<1>4. /\ pc[w] = "free" /\ scope # w /\ Engine[w] \in up
      /\ \A v \in Tasks : seen[v] # w
  BY Zenon DEF AcquireRead, Usable, Unused
<1>5. /\ row[j] # NoRow /\ row[j].by = Nobody /\ row[j].st \in Runnable
      /\ Serialized => row[j].st = k
  BY Zenon, <1>1 DEF Selects, Runnable
<1>6. Quiet' /\ DownIdle' /\ RowOrRun' /\ LockedRuns'
  BY <1>2, <1>3, <1>4, <1>5 DEF IInv, Quiet, DownIdle, RowOrRun, LockedRuns
<1>7. HoldsRow' /\ HoldsScope'
  BY <1>2, <1>3 DEF IInv, HoldsRow, HoldsScope, Owning, Scoped
<1>8. Candidate'
  BY <1>2, <1>3, <1>4, <1>5 DEF IInv, Candidate, Serialized, Runnable
<1>9. OneTurn'
  <2>1. Serialized => \A v \in Tasks : pc[v] = "acquire" => kind[v] # k
    BY Zenon, <1>1 DEF Calm, HasTurn
  <2>. QED
    BY <2>1, <1>2 DEF IInv, OneTurn, Serialized
<1>10. SeenIsDead'
  BY Zenon, <1>2, <1>3, <1>4 DEF IInv, SeenIsDead
<1>. QED
  BY Zenon, <1>6, <1>7, <1>8, <1>9, <1>10 DEF Rest

LEMMA AcquireWriteInv ==
    ASSUME IInv, NEW w \in Tasks, AcquireWrite(w), UNCHANGED config
    PROVE  Rest'
<1>1. CASE ~Lockable(w)
  BY Zenon, <1>1, LeaveTask DEF AcquireWrite
<1>2. CASE Lockable(w)
  <2>. DEFINE j == job[w]
              r == [copy[w] EXCEPT !.by = w]
  <2>1. /\ pc[w] = "acquire" /\ j \in Jobs /\ copy[w] \in Row
        /\ row[j] # NoRow /\ row[j].by = Nobody
    BY Zenon, <1>2 DEF AcquireWrite, Lockable, IInv, TInv, Linked, Candidate
  <2>2. r \in Row /\ r # NoRow /\ r.by = w /\ r.st = copy[w].st
    BY Zenon, <2>1, RowUpdates
  <2>. HIDE DEF r
  <2>3. \A i \in Jobs : row'[i] = IF i = j THEN r ELSE row[i]
    BY Zenon, <1>2, <2>1, RowPointwise DEF AcquireWrite, IInv, r
  <2>4. /\ \A v \in Tasks : pc'[v] = IF v = w THEN "queued" ELSE pc[v]
        /\ \A v \in Tasks : copy'[v] = IF v = w THEN r ELSE copy[v]
    BY <1>2, GotoPointwise DEF AcquireWrite, IInv, TInv, TypeOK, r
  <2>5. UNCHANGED <<scope, up, admin, runs, kind, job, seen>> /\ live' = live \cup {w}
    BY Zenon, <1>2 DEF AcquireWrite
  <2>6. \A v \in Tasks : pc[v] \in Owning => job[v] # j /\ job[v] \in Jobs
    BY <2>1, NullsAssumption DEF IInv, HoldsRow, TInv, Linked, Owning
  <2>7. Serialized => \A v \in Tasks : pc[v] = "acquire" /\ job[v] = j => v = w
    BY <2>1 DEF IInv, Candidate, OneTurn
  <2>8. Quiet' /\ DownIdle' /\ RowOrRun' /\ LockedRuns'
    BY <2>1, <2>2, <2>3, <2>4, <2>5
       DEF IInv, Quiet, DownIdle, RowOrRun, LockedRuns, Candidate, Runnable
  <2>9. HoldsRow'
    BY <2>1, <2>2, <2>3, <2>4, <2>5, <2>6 DEF IInv, HoldsRow, Owning
  <2>10. HoldsScope'
    BY Zenon, <2>4, <2>5 DEF IInv, HoldsScope, Scoped
  <2>11. Candidate'
    <3>. SUFFICES ASSUME NEW v \in Tasks, pc'[v] = "acquire"
                  PROVE  /\ scope # v /\ copy[v].st \in Runnable
                         /\ Serialized => /\ row'[job[v]] = copy[v]
                                          /\ copy[v].by = Nobody /\ copy[v].st = kind[v]
      BY Zenon, <2>4, <2>5 DEF Candidate, Serialized, Runnable
    <3>1. v # w /\ pc[v] = "acquire" /\ job[v] \in Jobs
      BY Zenon, <2>4 DEF IInv, TInv, Linked
    <3>. QED
      BY Zenon, <3>1, <2>3, <2>7 DEF IInv, Candidate
  <2>12. OneTurn'
    BY Zenon, <2>4, <2>5 DEF IInv, OneTurn, Serialized
  <2>13. SeenIsDead'
    BY <2>1, <2>4, <2>5 DEF IInv, SeenIsDead
  <2>. QED
    BY Zenon, <2>8, <2>9, <2>10, <2>11, <2>12, <2>13 DEF Rest
<1>. QED BY Zenon, <1>1, <1>2

\* A task that writes its row for the last time, unlocked or not at all, and
\* may give back the process-instance lock that it has.
LEMMA FinishTask ==
    ASSUME IInv, NEW w \in Tasks, pc[w] \in Owning, Done(w),
           UNCHANGED <<config, live, up, admin>>,
           \A i \in Jobs : i # job[w] => row'[i] = row[i],
           row'[job[w]] # NoRow => row'[job[w]].by = Nobody /\ row'[job[w]].st # "suspended",
           \A i \in Jobs : runs'[i] = IF i = job[w] /\ row'[i] = NoRow THEN 1 ELSE runs[i],
           scope' = scope \/ (scope = w /\ scope' = Nobody)
    PROVE  Rest'
<1>. DEFINE Same(v) == /\ pc'[v] = pc[v] /\ kind'[v] = kind[v] /\ job'[v] = job[v]
                       /\ copy'[v] = copy[v] /\ seen'[v] = seen[v]
<1>1. \A v \in Tasks : v # w => Same(v)
  BY DonePointwise DEF IInv
<1>2. pc'[w] = "free" /\ kind'[w] = "none" /\ seen'[w] = Nobody /\ copy'[w] = NoRow
  BY Zenon, DonePointwise DEF IInv
<1>3. job[w] \in Jobs /\ row[job[w]] # NoRow /\ row[job[w]].by = w
  BY Zenon DEF IInv, TInv, Linked, HoldsRow, Owning
<1>5. \A v \in Tasks : pc[v] \in Owning /\ v # w => job[v] # job[w] /\ job[v] \in Jobs
  BY Zenon, OwnersDiffer DEF IInv, TInv, Linked, Owning
<1>6. Quiet' /\ DownIdle'
  BY <1>1, <1>2 DEF IInv, Quiet, DownIdle
<1>7. RowOrRun'
  BY <1>3 DEF IInv, RowOrRun
<1>8. LockedRuns'
  BY Zenon DEF IInv, LockedRuns, Runnable
<1>9. HoldsRow'
  BY <1>1, <1>2, <1>5 DEF IInv, HoldsRow, Owning
<1>10. HoldsScope'
  BY Zenon, <1>1, <1>2 DEF IInv, HoldsScope, Scoped
<1>11. Candidate'
  <2>. SUFFICES ASSUME NEW v \in Tasks, pc'[v] = "acquire"
                PROVE  /\ scope' # v /\ copy'[v].st \in Runnable
                       /\ Serialized => /\ row'[job'[v]] = copy'[v]
                                        /\ copy'[v].by = Nobody /\ copy'[v].st = kind'[v]
    BY Zenon DEF Candidate, Serialized, Runnable
  <2>1. v # w /\ pc[v] = "acquire" /\ job[v] \in Jobs /\ Same(v)
    BY Zenon, <1>1, <1>2 DEF IInv, TInv, Linked
  <2>2. Serialized => job[v] # job[w]
    BY <1>3, <2>1, NullsAssumption DEF IInv, Candidate
  <2>. QED
    BY Zenon, <2>1, <2>2, NullsAssumption DEF IInv, Candidate
<1>12. OneTurn'
  BY <1>1, <1>2 DEF IInv, OneTurn, Serialized
<1>13. SeenIsDead'
  BY <1>1, <1>2, NullsAssumption DEF IInv, SeenIsDead
<1>. QED
  BY Zenon, <1>6, <1>7, <1>8, <1>9, <1>10, <1>11, <1>12, <1>13 DEF Rest

\* The process-instance lock that an owning task clears is its own.
LEMMA ClearsOwnScope ==
    ASSUME IInv, NEW w \in Tasks, pc[w] \in Scoped, ClearScope(w)
    PROVE  scope' = scope \/ (scope = w /\ scope' = Nobody)
BY Zenon DEF ClearScope, IInv, HoldsScope

LEMMA TaskStepInv ==
    ASSUME IInv, Calm, NEW w \in Tasks, TaskStep(w), UNCHANGED config
    PROVE  Rest'
<1>. USE DEF IInv
<1>0. pc[w] \in Owning => /\ job[w] \in Jobs /\ copy[w] \in Row /\ copy[w].by = w
                          /\ copy[w].st # "suspended"
                          /\ row[job[w]] \in Row /\ row[job[w]].by = w
                          /\ row[job[w]].st # "suspended" /\ row[job[w]] # NoRow
  <2>. SUFFICES ASSUME pc[w] \in Owning
                PROVE  /\ job[w] \in Jobs /\ copy[w] \in Row /\ copy[w].by = w
                       /\ copy[w].st # "suspended"
                       /\ row[job[w]] \in Row /\ row[job[w]].by = w
                       /\ row[job[w]].st # "suspended" /\ row[job[w]] # NoRow
    BY Zenon
  <2>1. job[w] \in Jobs /\ copy[w] \in Row
    BY Zenon DEF TInv, Linked, Owning
  <2>2. row[job[w]] # NoRow /\ row[job[w]].by = w /\ copy[w].by = w
    BY Zenon DEF HoldsRow
  <2>3. copy[w].st # "suspended"
    BY Zenon, <2>1, NullsAssumption DEF Quiet
  <2>. QED
    BY <2>1, <2>2, <2>3 DEF Quiet, TInv, TypeOK
<1>1. CASE AcquireRead(w)
  BY Zenon, <1>1, AcquireReadInv
<1>2. CASE AcquireWrite(w)
  BY Zenon, <1>2, AcquireWriteInv
<1>3. CASE Abandon(w)
  BY Zenon, <1>3, LeaveTask DEF Abandon
<1>4. CASE Reject(w)
  <2>1. pc[w] \in Owning /\ "unacquire" \in Owning /\ "unacquire" \notin Scoped
    BY Zenon, <1>4 DEF Reject, Owning, Scoped
  <2>. QED
    BY Zenon, <1>0, <1>4, <2>1, MoveTask DEF Reject, SeenIsDead
<1>5. CASE ReleaseRead(w)
  <2>1. pc[w] \in Owning /\ "release" \in Owning /\ "release" \notin Scoped
    BY Zenon, <1>5 DEF ReleaseRead, Owning, Scoped
  <2>2. CASE LockedBy(row[job[w]], Engine[w])
    <3>1. /\ copy'[w] = row[job[w]] /\ \A v \in Tasks : v # w => copy'[v] = copy[v]
      BY Zenon, <1>5, <2>2 DEF ReleaseRead, TInv, TypeOK
    <3>. QED
      BY Zenon, <1>0, <1>5, <2>1, <2>2, <3>1, MoveTask DEF ReleaseRead, SeenIsDead
  <2>3. CASE ~LockedBy(row[job[w]], Engine[w])
    BY Zenon, <1>5, <2>3, LeaveTask DEF ReleaseRead
  <2>. QED BY Zenon, <2>2, <2>3
<1>6. CASE ReleaseWrite(w)
  <2>1. pc[w] \in Owning
    BY Zenon, <1>6 DEF ReleaseWrite, Owning
  <2>2. LockedBy(row[job[w]], Engine[w])
    BY Zenon, <1>0, <2>1, NullsAssumption DEF LockedBy
  <2>. DEFINE r == [copy[w] EXCEPT !.by = Nobody]
  <2>3. r \in Row /\ r # NoRow /\ r.by = Nobody /\ r.st # "suspended"
    BY Zenon, <1>0, <2>1, RowUpdates
  <2>. HIDE DEF r
  <2>4. row'[job[w]] = r /\ \A i \in Jobs : i # job[w] => row'[i] = row[i]
    BY Zenon, <1>0, <1>6, <2>1, <2>2 DEF ReleaseWrite, r, TInv, TypeOK
  <2>5. \A i \in Jobs : runs'[i] = IF i = job[w] /\ row'[i] = NoRow THEN 1 ELSE runs[i]
    BY Zenon, <1>6, <2>3, <2>4 DEF ReleaseWrite
  <2>6. Done(w) /\ UNCHANGED <<scope, live, up, admin>>
    BY Zenon, <1>6 DEF ReleaseWrite
  <2>. QED
    BY Zenon, <2>1, <2>3, <2>4, <2>5, <2>6, FinishTask
<1>7. CASE HintOffer(w) \/ HintProbe(w) \/ ManualStart(w)
  BY Zenon, <1>7 DEF HintOffer, HintProbe, ManualStart, Quiet, Calm
<1>8. CASE ScopeRead(w)
  <2>1. pc[w] = "queued"
    BY Zenon, <1>8 DEF ScopeRead, Quiet
  <2>2. pc[w] \in Owning /\ {"ready", "lock", "unacquire"} \subseteq Owning
    BY Zenon, <2>1 DEF Owning
  <2>3. CASE job[w] \notin Exclusive
    BY Zenon, <1>0, <1>8, <2>2, <2>3, MoveTask DEF ScopeRead, SeenIsDead
  <2>4. CASE job[w] \in Exclusive /\ scope \notin live
    <3>1. scope \in Tasks => pc[scope] = "free"
      BY <2>4 DEF TInv, TypeOK, HoldsRow, Candidate, Quiet, Owning
    <3>2. /\ seen'[w] = scope /\ \A v \in Tasks : v # w => seen'[v] = seen[v]
      BY Zenon, <1>8, <2>4 DEF ScopeRead, TInv, TypeOK
    <3>3. "lock" \notin Scoped
      BY Zenon DEF Scoped
    <3>. QED
      BY Zenon, <1>0, <1>8, <2>2, <2>4, <3>1, <3>2, <3>3, MoveTask DEF ScopeRead
  <2>5. CASE job[w] \in Exclusive /\ scope \in live
    <3>1. "unacquire" \notin Scoped
      BY Zenon DEF Scoped
    <3>. QED
      BY Zenon, <1>0, <1>8, <2>2, <2>5, <3>1, MoveTask DEF ScopeRead, SeenIsDead
  <2>. QED BY Zenon, <2>3, <2>4, <2>5
<1>9. ASSUME pc[w] = "lock", Goto(w, "unacquire"), seen' = [seen EXCEPT ![w] = Nobody],
             UNCHANGED <<row, scope, live, up, kind, job, copy, admin, runs>>
      PROVE  Rest'
  <2>1. pc[w] \in Owning /\ "unacquire" \in Owning /\ "unacquire" \notin Scoped
    BY Zenon, <1>9 DEF Owning, Scoped
  <2>2. /\ seen'[w] = Nobody /\ \A v \in Tasks : v # w => seen'[v] = seen[v]
    BY Zenon, <1>9 DEF TInv, TypeOK
  <2>. QED
    BY Zenon, <1>0, <1>9, <2>1, <2>2, NullsAssumption, MoveTask
<1>10. CASE ScopeError(w)
  BY Zenon, <1>9, <1>10 DEF ScopeError
<1>11. CASE ScopeWrite(w)
  <2>1. CASE ~ScopeUnchanged(w)
    BY Zenon, <1>9, <1>11, <2>1 DEF ScopeWrite
  <2>2. CASE ScopeUnchanged(w)
    <3>1. pc[w] = "lock" /\ pc[w] \in Owning /\ scope = seen[w] /\ scope' = w
      BY Zenon, <1>0, <1>11, <2>2 DEF ScopeWrite, ScopeUnchanged, Owning
    <3>2. \A v \in Tasks : pc'[v] = IF v = w THEN "ready" ELSE pc[v]
      BY Zenon, <1>11, <2>2, GotoPointwise DEF ScopeWrite
    <3>3. \A v \in Tasks : seen'[v] = IF v = w THEN Nobody ELSE seen[v]
      BY Zenon, <1>11 DEF ScopeWrite, TInv, TypeOK
    <3>4. UNCHANGED <<row, live, up, kind, job, copy, admin, runs>>
      BY Zenon, <1>11 DEF ScopeWrite
    <3>5. Quiet' /\ DownIdle' /\ RowOrRun' /\ LockedRuns'
      BY Zenon, <3>1, <3>2, <3>4 DEF Quiet, DownIdle, RowOrRun, LockedRuns
    <3>6. HoldsRow'
      BY Zenon, <3>1, <3>2, <3>4 DEF HoldsRow, Owning
    <3>7. HoldsScope'
      BY Zenon, <3>1, <3>2, <3>4 DEF HoldsScope, SeenIsDead, Scoped
    <3>8. Candidate' /\ OneTurn'
      BY <3>1, <3>2, <3>4 DEF Candidate, OneTurn, Serialized, Runnable
    <3>9. SeenIsDead'
      BY <3>1, <3>2, <3>3, <3>4, NullsAssumption DEF SeenIsDead
    <3>. QED
      BY Zenon, <3>5, <3>6, <3>7, <3>8, <3>9 DEF Rest
  <2>. QED BY Zenon, <2>1, <2>2
<1>12. CASE ExecuteStart(w)
  <2>1. pc[w] \in Owning /\ pc[w] \in Scoped /\ "exec" \in Owning /\ "exec" \in Scoped
    BY Zenon, <1>12 DEF ExecuteStart, Owning, Scoped
  <2>2. MayRun(w)
    BY Zenon, <1>0, <2>1, NullsAssumption DEF MayRun, LockedBy, Quiet
  <2>. QED
    BY Zenon, <1>0, <1>12, <2>1, <2>2, MoveTask DEF ExecuteStart, SeenIsDead
<1>13. CASE ExecuteFenced(w)
  BY Zenon, <1>13, LeaveTask DEF ExecuteFenced
<1>14. CASE ExecuteCommit(w)
  <2>1. pc[w] \in Owning /\ pc[w] \in Scoped
    BY Zenon, <1>14 DEF ExecuteCommit, Owning, Scoped
  <2>2. runs[job[w]] = 0
    BY Zenon, <1>0, <2>1 DEF RowOrRun
  <2>3. row'[job[w]] = NoRow /\ \A i \in Jobs : i # job[w] => row'[i] = row[i]
    BY Zenon, <1>0, <1>14, <2>1 DEF ExecuteCommit, CommitEffects, TInv, TypeOK
  <2>4. \A i \in Jobs : runs'[i] = IF i = job[w] /\ row'[i] = NoRow THEN 1 ELSE runs[i]
    BY <1>0, <1>14, <2>1, <2>2, <2>3 DEF ExecuteCommit, CommitEffects, TInv, TypeOK
  <2>5. Done(w) /\ UNCHANGED <<live, up, admin>>
    BY Zenon, <1>14 DEF ExecuteCommit
  <2>6. scope' = scope \/ (scope = w /\ scope' = Nobody)
    BY Zenon, <1>14, <2>1, ClearsOwnScope DEF ExecuteCommit, CommitEffects
  <2>. QED
    BY Zenon, <2>1, <2>3, <2>4, <2>5, <2>6, FinishTask
<1>15. CASE ExecuteFail(w)
  <2>1. /\ pc[w] \in Owning /\ pc[w] \in Scoped /\ "failed" \in Owning
        /\ UNCHANGED <<row, scope, runs>>
    BY Zenon, <1>15 DEF ExecuteFail, Owning, Scoped, Calm
  <2>. QED
    BY Zenon, <1>0, <1>15, <2>1, MoveTask DEF ExecuteFail, SeenIsDead
<1>16. CASE RecordRead(w)
  <2>1. pc[w] \in Owning /\ pc[w] \in Scoped /\ "record" \in Owning
    BY Zenon, <1>16 DEF RecordRead, Owning, Scoped
  <2>2. /\ copy'[w] = [row[job[w]] EXCEPT !.by = copy[w].by]
        /\ \A v \in Tasks : v # w => copy'[v] = copy[v]
    BY Zenon, <1>0, <1>16, <2>1 DEF RecordRead, TInv, TypeOK
  <2>3. copy'[w].by = w /\ copy'[w].st # "suspended"
    BY Zenon, <1>0, <2>1, <2>2 DEF Row
  <2>. QED
    BY <1>16, <2>1, <2>2, <2>3, MoveTask DEF RecordRead, SeenIsDead
<1>17. CASE RecordWrite(w)
  <2>1. pc[w] \in Owning /\ pc[w] \in Scoped
    BY Zenon, <1>17 DEF RecordWrite, Owning, Scoped
  <2>0. PICK u \in BOOLEAN : row' = [row EXCEPT ![job[w]] = Failed(copy[w], u)]
    BY Zenon, <1>17 DEF RecordWrite
  <2>. DEFINE r == Failed(copy[w], u)
  <2>2. r \in Row /\ r # NoRow /\ r.by = Nobody /\ r.st # "suspended"
    BY Zenon, <1>0, <2>1, FailedRow, NullsAssumption
  <2>. HIDE DEF r
  <2>3. row'[job[w]] = r /\ \A i \in Jobs : i # job[w] => row'[i] = row[i]
    BY Zenon, <1>0, <2>0, <2>1 DEF r, TInv, TypeOK
  <2>4. \A i \in Jobs : runs'[i] = IF i = job[w] /\ row'[i] = NoRow THEN 1 ELSE runs[i]
    BY Zenon, <1>17, <2>2, <2>3 DEF RecordWrite
  <2>5. Done(w) /\ UNCHANGED <<live, up, admin>>
    BY Zenon, <1>17 DEF RecordWrite
  <2>6. scope' = scope \/ (scope = w /\ scope' = Nobody)
    BY Zenon, <1>17, <2>1, ClearsOwnScope DEF RecordWrite
  <2>. QED
    BY Zenon, <2>1, <2>2, <2>3, <2>4, <2>5, <2>6, FinishTask
<1>18. CASE RecordError(w)
  BY Zenon, <1>18, LeaveTask DEF RecordError
<1>. QED
  BY Zenon, <1>1, <1>2, <1>3, <1>4, <1>5, <1>6, <1>7, <1>8, <1>10, <1>11, <1>12, <1>13,
     <1>14, <1>15, <1>16, <1>17, <1>18 DEF TaskStep

\* Unlocking the rows of an engine without tasks disturbs nobody.

-----------------------------------------------------------------------------
(* The remaining steps.                                                    *)

LEMMA UnlockInv ==
    ASSUME IInv, NEW e \in Engines, \A w \in Tasks : Engine[w] = e => pc[w] = "free",
           UnlockOwned(e) \/ UNCHANGED row, UNCHANGED config
    PROVE  /\ HoldsRow /\ UNCHANGED <<taskVars, live>> => HoldsRow'
           /\ Candidate /\ UNCHANGED <<taskVars, scope>> => Candidate'
           /\ RowOrRun /\ UNCHANGED runs => RowOrRun'
           /\ LockedRuns'
           /\ \A j \in Jobs : row'[j] # NoRow => row'[j].st # "suspended"
<1>1. \A j \in Jobs :
        \/ row'[j] = row[j]
        \/ /\ LockedBy(row[j], e) /\ row[j] \in Row /\ row'[j] \in Row
           /\ row'[j].by = Nobody /\ row'[j].st = row[j].st
  <2>. SUFFICES ASSUME NEW j \in Jobs, LockedBy(row[j], e), UnlockOwned(e)
                PROVE  \/ row'[j] = row[j]
                       \/ /\ LockedBy(row[j], e) /\ row[j] \in Row /\ row'[j] \in Row
                          /\ row'[j].by = Nobody /\ row'[j].st = row[j].st
    BY Zenon DEF UnlockOwned
  <2>1. row[j] \in Row
    BY DEF LockedBy, IInv, TInv, TypeOK
  <2>2. row'[j] = row[j] \/ row'[j] = [row[j] EXCEPT !.by = Nobody]
    BY Zenon DEF UnlockOwned
  <2>. QED
    BY Zenon, <2>1, <2>2 DEF Row
<1>2. \A w \in Tasks : pc[w] \in Owning => job[w] \in Jobs /\ row'[job[w]] = row[job[w]]
  BY <1>1 DEF IInv, TInv, Linked, HoldsRow, LockedBy, Owning
<1>3. Serialized => \A w \in Tasks : pc[w] = "acquire" =>
                      job[w] \in Jobs /\ row'[job[w]] = row[job[w]]
  BY <1>1 DEF IInv, TInv, Linked, Candidate, LockedBy
<1>4. HoldsRow /\ UNCHANGED <<taskVars, live>> => HoldsRow'
  BY <1>2 DEF HoldsRow, taskVars
<1>5. Candidate /\ UNCHANGED <<taskVars, scope>> => Candidate'
  BY <1>3 DEF Candidate, taskVars, Serialized, Runnable
<1>6. RowOrRun /\ UNCHANGED runs => RowOrRun'
  BY Zenon, <1>1, NullsAssumption DEF RowOrRun, LockedBy
<1>7. LockedRuns'
  BY Zenon, <1>1 DEF IInv, LockedRuns, Runnable
<1>8. \A j \in Jobs : row'[j] # NoRow => row'[j].st # "suspended"
  BY Zenon, <1>1, NullsAssumption DEF IInv, Quiet
<1>. QED
  BY Zenon, <1>4, <1>5, <1>6, <1>7, <1>8

LEMMA NextInv == Calm /\ IInv /\ [Next]_vars => IInv'
<1>. SUFFICES ASSUME Calm, IInv, [Next]_vars PROVE IInv'
  BY Zenon
<1>0. TInv'
  BY Zenon, NextTypes DEF IInv
<1>10. UNCHANGED config
  BY Zenon DEF Next, vars
<1>. USE <1>10
<1>. SUFFICES Rest'
  BY Zenon, <1>0 DEF IInv, Rest
<1>1. ASSUME NEW w \in Tasks, TaskStep(w) PROVE Rest'
  BY Zenon, <1>1, TaskStepInv
<1>. USE DEF IInv
<1>2. ASSUME NEW l \in Tasks, Expire(l) PROVE Rest'
  <2>1. pc[l] = "free" /\ live' = live \ {l}
    BY Zenon, <1>2 DEF Expire, Busy, Calm
  <2>2. UNCHANGED <<row, scope, up, pc, kind, job, copy, seen, admin, runs>>
    BY Zenon, <1>2 DEF Expire, taskVars
  <2>3. HoldsRow'
    BY Zenon, <2>1, <2>2 DEF HoldsRow, Owning
  <2>4. SeenIsDead'
    BY Zenon, <2>1, <2>2 DEF SeenIsDead
  <2>5. Quiet' /\ DownIdle' /\ Candidate' /\ OneTurn' /\ HoldsScope' /\ RowOrRun' /\ LockedRuns'
    BY Zenon, <2>2 DEF Quiet, DownIdle, Candidate, OneTurn, HoldsScope, RowOrRun, LockedRuns,
       Serialized, Runnable, Scoped
  <2>. QED BY Zenon, <2>3, <2>4, <2>5 DEF Rest
<1>3. ASSUME NEW j \in Jobs, ResetExpired(j) PROVE Rest'
  <2>1. row[j] # NoRow /\ row[j].by # Nobody /\ row[j].by \notin live
    BY Zenon, <1>3 DEF ResetExpired, Expired
  <2>. DEFINE r == [row[j] EXCEPT !.by = Nobody]
  <2>2. row[j] \in Row
    BY Zenon, <2>1 DEF TInv, TypeOK
  <2>3. r \in Row /\ r # NoRow /\ r.by = Nobody /\ r.st = row[j].st
    BY Zenon, <2>2, RowUpdates
  <2>4. \A i \in Jobs : row'[i] = IF i = j THEN r ELSE row[i]
    BY Zenon, <1>3 DEF ResetExpired, TInv, TypeOK
  <2>. HIDE DEF r
  <2>5. UNCHANGED <<scope, live, up, pc, kind, job, copy, seen, admin, runs>>
    BY Zenon, <1>3 DEF ResetExpired, taskVars
  <2>6. Quiet' /\ LockedRuns' /\ RowOrRun'
    BY <2>1, <2>3, <2>4, <2>5 DEF Quiet, LockedRuns, RowOrRun, Runnable
  <2>7. HoldsRow'
    BY <2>1, <2>4, <2>5 DEF HoldsRow, TInv, Linked, Owning
  <2>8. Candidate'
    BY <2>1, <2>4, <2>5 DEF Candidate, TInv, Linked, Serialized, Runnable
  <2>9. DownIdle' /\ OneTurn' /\ HoldsScope' /\ SeenIsDead'
    BY Zenon, <2>5 DEF DownIdle, OneTurn, HoldsScope, SeenIsDead, Serialized, Scoped
  <2>. QED BY Zenon, <2>6, <2>7, <2>8, <2>9 DEF Rest
<1>4. CASE SuspendJobs \/ ActivateJobs \/ ActivateWithHints \/ AdminRead \/ AdminWrite
  BY Zenon, <1>4 DEF SuspendJobs, ActivateJobs, ActivateWithHints, AdminRead, AdminWrite,
     Suspended, Calm, Quiet
<1>5. ASSUME NEW e \in Engines, Crash(e) PROVE Rest'
  <2>1. \A v \in Tasks : Engine[v] = e =>
          pc'[v] = "free" /\ kind'[v] = "none" /\ seen'[v] = Nobody /\ copy'[v] = NoRow
    BY Zenon, <1>5 DEF Crash
  <2>2. \A v \in Tasks : Engine[v] # e =>
          /\ pc'[v] = pc[v] /\ kind'[v] = kind[v] /\ job'[v] = job[v]
          /\ copy'[v] = copy[v] /\ seen'[v] = seen[v]
    BY Zenon, <1>5 DEF Crash
  <2>3. UNCHANGED <<row, scope, live, admin, runs>> /\ up' = up \ {e}
    BY Zenon, <1>5 DEF Crash
  <2>4. Quiet' /\ DownIdle' /\ RowOrRun' /\ LockedRuns'
    BY <2>1, <2>2, <2>3 DEF Quiet, DownIdle, RowOrRun, LockedRuns
  <2>5. HoldsRow'
    BY <2>1, <2>2, <2>3 DEF HoldsRow, Owning
  <2>6. HoldsScope'
    BY Zenon, <2>1, <2>2, <2>3 DEF HoldsScope, Scoped
  <2>7. \A v \in Tasks : pc'[v] = "acquire" =>
          /\ pc[v] = "acquire" /\ kind'[v] = kind[v] /\ job'[v] = job[v]
          /\ copy'[v] = copy[v]
    BY Zenon, <2>1, <2>2
  <2>8. Candidate'
    BY <2>3, <2>7 DEF Candidate, Serialized
  <2>9. OneTurn'
    BY Zenon, <2>7 DEF OneTurn, Serialized
  <2>10. SeenIsDead'
    BY <2>1, <2>2, <2>3, NullsAssumption DEF SeenIsDead
  <2>. QED BY Zenon, <2>4, <2>5, <2>6, <2>8, <2>9, <2>10 DEF Rest
<1>6. ASSUME NEW e \in Engines, UnlockOwned(e) \/ UNCHANGED row,
             \A w \in Tasks : Engine[w] = e => pc[w] = "free",
             up' = up \ {e} \/ up' = up \cup {e},
             UNCHANGED <<scope, live, taskVars, admin, runs>>
      PROVE  Rest'
  <2>1. HoldsRow' /\ Candidate' /\ RowOrRun' /\ LockedRuns'
    BY Zenon, <1>6, UnlockInv
  <2>2. Quiet'
    BY Zenon, <1>6, UnlockInv DEF Quiet, taskVars
  <2>3. DownIdle' /\ OneTurn' /\ HoldsScope' /\ SeenIsDead'
    BY Zenon, <1>6 DEF DownIdle, OneTurn, HoldsScope, SeenIsDead, Serialized, Scoped, taskVars
  <2>. QED BY Zenon, <2>1, <2>2, <2>3 DEF Rest
<1>7. ASSUME NEW e \in Engines, Stop(e) PROVE Rest'
  <2>1. \A w \in Tasks : Engine[w] = e => pc[w] = "free"
    BY Zenon, <1>7 DEF Stop, Calm
  <2>. QED
    BY Zenon, <1>6, <1>7, <2>1 DEF Stop
<1>8. ASSUME NEW e \in Engines, Restart(e) PROVE Rest'
  <2>1. \A w \in Tasks : Engine[w] = e => pc[w] = "free"
    BY Zenon, <1>8 DEF Restart, DownIdle
  <2>. QED
    BY Zenon, <1>6, <1>8, <2>1 DEF Restart
<1>9. CASE UNCHANGED vars
  <2>1. UNCHANGED <<row, scope, live, up, pc, kind, job, copy, seen, admin, runs>>
    BY Zenon, <1>9 DEF vars, taskVars
  <2>2. Quiet' /\ DownIdle' /\ RowOrRun' /\ LockedRuns'
    BY Zenon, <2>1 DEF Quiet, DownIdle, RowOrRun, LockedRuns, Runnable
  <2>3. HoldsRow' /\ HoldsScope'
    BY Zenon, <2>1 DEF HoldsRow, HoldsScope, Owning, Scoped
  <2>4. Candidate'
    BY Zenon, <2>1 DEF Candidate, Serialized, Runnable
  <2>5. OneTurn' /\ SeenIsDead'
    BY Zenon, <2>1 DEF OneTurn, SeenIsDead, Serialized
  <2>. QED
    BY Zenon, <2>2, <2>3, <2>4, <2>5 DEF Rest
<1>. QED
  BY Zenon, <1>1, <1>2, <1>3, <1>4, <1>5, <1>7, <1>8, <1>9 DEF Next

\* The configuration is chosen once.
LEMMA CalmStays == Calm /\ [Next]_vars => Calm'
BY Zenon DEF Calm, Next, vars

LEMMA CalmInv == Spec /\ Calm => []IInv
<1>1. Calm /\ IInv /\ [Next]_vars => Calm' /\ IInv'
  BY Zenon, NextInv, CalmStays
<1>. QED
  BY InitInv, <1>1, PTL DEF Spec

\* If leases cover the work they are taken for, no listener fails after a
\* commit, and nobody suspends, administers or runs jobs by hand: the effects of
\* a job are committed at most once, however many engines compete for it, crash,
\* reject it or are fenced off.
THEOREM JobsRunOnce == Spec /\ Calm => []RunsOnce
<1>1. IInv => RunsOnce
  BY DEF IInv, RowOrRun, RunsOnce
<1>. QED
  BY CalmInv, <1>1, PTL

\* Under the same conditions exclusive jobs of a process instance are never
\* executed at once, by threads of one engine or of several.
THEOREM ExclusiveJobsExclude == Spec /\ Calm => []ExclusiveScope
<1>1. IInv => ExclusiveScope
  BY Zenon DEF IInv, HoldsScope, ExclusiveScope, Executing, Scoped
<1>. QED
  BY CalmInv, <1>1, PTL

\* The rows a step may touch: the row of an owning task, a row under the global
\* lock that was read as runnable, or a row with a lock on it.
LEMMA OnlyRunnableChange ==
    ASSUME Calm, Serialized, IInv, Next, NEW j \in Jobs, row'[j] # row[j]
    PROVE  row[j].st \in Runnable
<1>. USE DEF IInv
<1>1. ASSUME NEW w \in Tasks, pc[w] \in Owning, job[w] = j PROVE row[j].st \in Runnable
  BY <1>1, NullsAssumption DEF HoldsRow, LockedRuns
<1>2. ASSUME NEW w \in Tasks, pc[w] = "acquire", job[w] = j PROVE row[j].st \in Runnable
  BY Zenon, <1>2 DEF Candidate
<1>3. ASSUME NEW w \in Tasks, TaskStep(w) PROVE row[j].st \in Runnable
  <2>. DEFINE Touches == /\ pc[w] \in Owning \cup {"acquire"}
                         /\ \E r : row' = [row EXCEPT ![job[w]] = r]
  <2>1. ASSUME AcquireWrite(w) \/ ReleaseWrite(w) \/ ScopeWrite(w) PROVE Touches \/ row' = row
    BY Zenon, <2>1 DEF AcquireWrite, ReleaseWrite, ScopeWrite, Owning
  <2>2. ASSUME ExecuteCommit(w) \/ ExecuteFail(w) \/ RecordWrite(w) PROVE Touches \/ row' = row
    BY Zenon, <2>2 DEF ExecuteCommit, ExecuteFail, CommitEffects, RecordWrite, Owning
  <2>3. ASSUME \/ AcquireRead(w) \/ Abandon(w) \/ Reject(w) \/ ReleaseRead(w)
               \/ HintOffer(w) \/ HintProbe(w) \/ ScopeRead(w) \/ ScopeError(w)
        PROVE  row' = row
    BY Zenon, <2>3 DEF AcquireRead, Abandon, Reject, ReleaseRead, HintOffer, HintProbe, ScopeRead,
       ScopeError
  <2>4. ASSUME \/ ExecuteStart(w) \/ ExecuteFenced(w)
               \/ RecordRead(w) \/ RecordError(w) \/ ManualStart(w)
        PROVE  row' = row
    BY Zenon, <2>4 DEF ExecuteStart, ExecuteFenced, RecordRead, RecordError, ManualStart
  <2>5. Touches \/ row' = row
    BY Zenon, <1>3, <2>1, <2>2, <2>3, <2>4 DEF TaskStep
  <2>6. pc[w] \in Owning \cup {"acquire"} /\ job[w] = j
    BY Zenon, <2>5 DEF TInv, TypeOK
  <2>. QED
    BY Zenon, <2>6, <1>1, <1>2
<1>4. ASSUME NEW i \in Jobs, ResetExpired(i) PROVE row[j].st \in Runnable
  BY Zenon, <1>4 DEF ResetExpired, TInv, TypeOK
<1>5. ASSUME NEW e \in Engines, UnlockOwned(e) \/ UNCHANGED row PROVE row[j].st \in Runnable
  BY Zenon, <1>5 DEF UnlockOwned, Runnable
<1>6. ASSUME NEW e \in Engines, Crash(e) \/ Stop(e) \/ Restart(e) PROVE row[j].st \in Runnable
  BY Zenon, <1>5, <1>6 DEF Crash, Stop, Restart
<1>7. CASE SuspendJobs \/ ActivateJobs \/ ActivateWithHints \/ AdminRead \/ AdminWrite
  BY Zenon, <1>7 DEF SuspendJobs, ActivateJobs, ActivateWithHints, AdminRead, AdminWrite,
     Suspended, Calm, Quiet
<1>8. ASSUME NEW l \in Tasks, Expire(l) PROVE row[j].st \in Runnable
  BY Zenon, <1>8 DEF Expire
<1>. QED
  BY Zenon, <1>3, <1>4, <1>6, <1>7, <1>8 DEF Next

\* When every acquisition goes through the global locks, a dead letter is left
\* alone: no acquisition writes back a copy from before the last failure.
THEOREM DeadlettersStay == Spec /\ Calm /\ Serialized => DeadletterStays
<1>1. Calm /\ Serialized /\ [Next]_vars => Calm' /\ Serialized'
  BY Zenon, CalmStays DEF Serialized, Next, vars
<1>2. Calm /\ Serialized /\ IInv /\ [Next]_vars =>
        [\A j \in Jobs : row[j] # NoRow /\ row[j].st = "deadletter" => row'[j] = row[j]]_vars
  BY Zenon, OnlyRunnableChange DEF Runnable
<1>. QED
  BY CalmInv, <1>1, <1>2, PTL DEF Spec, DeadletterStays

=============================================================================
