---------------------------- MODULE JobExecution ----------------------------
(***************************************************************************)
(* How a job row is locked, run, failed and recovered: the rows of         *)
(* timer_job_states, the exclusive lock of their process instance, and the *)
(* engines whose acquisition threads, pool tasks, post-commit hints,       *)
(* management commands and reset threads work on them.                     *)
(*                                                                         *)
(* Source: flowable-engine, cmd/run_due_timers_cmd.rs,                     *)
(* cmd/record_failed_timer_work_cmd.rs, cmd/job_suspension.rs, the job     *)
(* services of engine/runtime_service.rs and engine/management_service.rs, *)
(* and the job rows and process-instance locks of                          *)
(* persistence/runtime_store.rs.                                           *)
(*                                                                         *)
(* A session reads outside a transaction and opens one at its first write, *)
(* so an operation that reads a row and then writes it is two steps here.  *)
(* A row is written as a whole: a conditional update tests a few columns   *)
(* and replaces the rest by the copy that was read.                        *)
(*                                                                         *)
(* A lease (lock_owner, lock_time, lock_expiration_time) is named by the   *)
(* task that took it.  Time is the set of the leases that have not run     *)
(* out.  The jobs are async continuations of one process instance.         *)
(***************************************************************************)
EXTENDS Integers, FiniteSets

CONSTANTS
    Jobs,           \* job rows, all of one process instance
    Exclusive,      \* the jobs whose exclusive flag is set
    Engines,        \* engines; each has one lock owner id
    Tasks,          \* units of work: a locked job on its way through a pool
    Engine,         \* the engine each task belongs to
    MaxRetries,     \* bound: number_of_retries of a new job
    Configs,        \* the configurations an engine may have
    Nobody, NoRow, NoJob

ASSUME TaskAssumption == Engine \in [Tasks -> Engines]
ASSUME JobAssumption == Exclusive \subseteq Jobs
ASSUME RetriesAssumption == MaxRetries \in Nat \ {0}

\* What may happen besides acquiring, running and failing; number_of_retries; the
\* jobs that wait at first, the others having been run before.
Config == [features : SUBSET {"global", "overrun", "postcommit", "suspend", "manual", "admin"},
           retries : 1..MaxRetries,
           jobs : SUBSET Jobs]

ASSUME ConfigAssumption == Configs \subseteq Config

Row == [st : {"async", "timer", "suspended", "deadletter"},
        by : Tasks \cup {Nobody},
        retries : 0..MaxRetries]

ASSUME NullsAssumption == Nobody \notin Tasks /\ NoRow \notin Row /\ NoJob \notin Jobs

VARIABLES
    config,     \* fixed when the engines are configured
    row,        \* the job rows; by is the lease on the row
    scope,      \* the lease that holds the process-instance lock
    live,       \* the leases that have not run out
    up,         \* the engines that run
    pc,         \* where each task is
    kind,       \* how the task came by its job
    job,        \* the job of each task
    copy,       \* the task's copy of the row
    seen,       \* the process-instance lock as the task read it
    admin,      \* the management command that is under way
    runs        \* history: how often the effects of a job were committed (up to 2)

taskVars == <<pc, kind, job, copy, seen>>
vars == <<config, row, scope, live, up, taskVars, admin, runs>>

NewRow == [st |-> "async", by |-> Nobody, retries |-> config.retries]
NoAdmin == [op |-> "none", job |-> NoJob, copy |-> NoRow]

Init ==
    /\ config \in Configs
    /\ row = [j \in Jobs |-> IF j \in config.jobs THEN NewRow ELSE NoRow]
    /\ scope = Nobody
    /\ live = {}
    /\ up = Engines
    /\ pc = [w \in Tasks |-> "free"]
    /\ kind = [w \in Tasks |-> "none"]
    /\ job = [w \in Tasks |-> NoJob]
    /\ copy = [w \in Tasks |-> NoRow]
    /\ seen = [w \in Tasks |-> Nobody]
    /\ admin = NoAdmin
    /\ runs = [j \in Jobs |-> IF j \in config.jobs THEN 0 ELSE 1]

-----------------------------------------------------------------------------
(* Rows, leases and tasks.                                                 *)

Runnable == {"async", "timer"}

LockedBy(r, e) == r # NoRow /\ r.by # Nobody /\ Engine[r.by] = e

\* A lease that nothing refers to any more can be given out again.
Unused(w) ==
    /\ pc[w] = "free" /\ scope # w
    /\ \A j \in Jobs : row[j] # NoRow => row[j].by # w
    /\ \A v \in Tasks : seen[v] # w /\ (copy[v] # NoRow => copy[v].by # w)
    /\ admin.copy # NoRow => admin.copy.by # w

Usable(w) == Engine[w] \in up /\ Unused(w)

Goto(w, p) == pc' = [pc EXCEPT ![w] = p]

\* The task is over: its memory is gone.
Done(w) ==
    /\ Goto(w, "free")
    /\ kind' = [kind EXCEPT ![w] = "none"]
    /\ job' = [job EXCEPT ![w] = NoJob]
    /\ copy' = [copy EXCEPT ![w] = NoRow]
    /\ seen' = [seen EXCEPT ![w] = Nobody]

\* clear_process_instance_lock is unconditional.
ClearScope(w) ==
    scope' = IF job[w] \in Exclusive /\ kind[w] # "manual" THEN Nobody ELSE scope

-----------------------------------------------------------------------------
(* Acquisition.                                                            *)

\* AcquisitionWritePolicy::SerializedByGlobalLock.
Serialized == "global" \in config.features

\* Mutant: acquisition does not wait for the global lock.
AlwaysHasTurn(k) == TRUE

\* The async and the timer threads each have a global lock.
HasTurn(k) ==
    Serialized /\ "overrun" \notin config.features =>
        \A v \in Tasks : pc[v] = "acquire" => kind[v] # k

\* Under the global locks the timer threads leave the async states alone;
\* run_due_timers and the timer worker take both, under the coordinator lease.
Selects(k, r) ==
    /\ r # NoRow /\ r.by = Nobody /\ r.retries > 0
    /\ \/ r.st = k
       \/ ~Serialized /\ k = "timer" /\ r.st \in Runnable

\* The SELECT of the acquisition threads.
AcquireRead(w) ==
    /\ Usable(w)
    /\ \E j \in Jobs, k \in {"async", "timer"} :
         /\ HasTurn(k) /\ Selects(k, row[j])
         /\ kind' = [kind EXCEPT ![w] = k]
         /\ job' = [job EXCEPT ![w] = j]
         /\ copy' = [copy EXCEPT ![w] = row[j]]
    /\ Goto(w, "acquire")
    /\ UNCHANGED <<row, scope, live, up, seen, admin, runs>>

\* The optimistic update tests lock_owner only, the serialized one nothing but
\* that the row is there.
Lockable(w) ==
    row[job[w]] # NoRow /\ (row[job[w]].by = Nobody \/ Serialized)

AcquireWrite(w) ==
    /\ pc[w] = "acquire"
    /\ IF Lockable(w)
         THEN LET locked == [copy[w] EXCEPT !.by = w] IN
              /\ row' = [row EXCEPT ![job[w]] = locked]
              /\ copy' = [copy EXCEPT ![w] = locked]
              /\ live' = live \cup {w}
              /\ Goto(w, "queued")
              /\ UNCHANGED <<kind, job, seen>>
         ELSE Done(w) /\ UNCHANGED <<row, live>>
    /\ UNCHANGED <<scope, up, admin, runs>>

-----------------------------------------------------------------------------
(* Giving the row back: a full queue, or the process instance is locked.   *)

\* JOB_REJECTED listeners may fail, and then the lock stays until it expires;
\* so it does when the release command fails.
Abandon(w) ==
    /\ \/ pc[w] \in {"acquire", "unacquire", "release"}
       \/ pc[w] = "queued" /\ kind[w] # "hint"
    /\ Done(w)
    /\ UNCHANGED <<row, scope, live, up, admin, runs>>

Reject(w) ==
    /\ pc[w] = "queued" /\ kind[w] # "hint"
    /\ Goto(w, "unacquire")
    /\ UNCHANGED <<row, scope, live, up, kind, job, copy, seen, admin, runs>>

ReleaseRead(w) ==
    /\ pc[w] = "unacquire"
    /\ IF LockedBy(row[job[w]], Engine[w])
         THEN /\ copy' = [copy EXCEPT ![w] = row[job[w]]]
              /\ Goto(w, "release")
              /\ UNCHANGED <<kind, job, seen>>
         ELSE Done(w)
    /\ UNCHANGED <<row, scope, live, up, admin, runs>>

ReleaseWrite(w) ==
    /\ pc[w] = "release"
    /\ row' = IF LockedBy(row[job[w]], Engine[w])
                THEN [row EXCEPT ![job[w]] = [copy[w] EXCEPT !.by = Nobody]]
                ELSE row
    /\ Done(w)
    /\ UNCHANGED <<scope, live, up, admin, runs>>

-----------------------------------------------------------------------------
(* The exclusive lock of the process instance, in a transaction of its own *)

SameLiveLease(w) ==
    /\ LockedBy(row[job[w]], Engine[w])
    /\ row[job[w]].by = copy[w].by /\ copy[w].by \in live

\* execute_timer_work_direct_hint drops a hint whose lease is gone.
HintProbe(w) ==
    /\ pc[w] = "queued" /\ kind[w] = "hint"
    /\ IF SameLiveLease(w)
         THEN Goto(w, "scope") /\ UNCHANGED <<kind, job, copy, seen>>
         ELSE Done(w)
    /\ UNCHANGED <<row, scope, live, up, admin, runs>>

ScopeRead(w) ==
    /\ \/ pc[w] = "queued" /\ kind[w] # "hint"
       \/ pc[w] = "scope"
    /\ \/ /\ job[w] \notin Exclusive
          /\ Goto(w, "ready") /\ UNCHANGED seen
       \/ /\ job[w] \in Exclusive /\ scope \notin live
          /\ seen' = [seen EXCEPT ![w] = scope]
          /\ Goto(w, "lock")
       \/ /\ job[w] \in Exclusive /\ scope \in live
          /\ Goto(w, "unacquire") /\ UNCHANGED seen
    /\ UNCHANGED <<row, scope, live, up, kind, job, copy, admin, runs>>

\* Mutant: an upsert in place of the insert and the conditional update.
ScopeIgnored(w) == TRUE

\* The insert fails on a duplicate, the update tests owner and expiration.
ScopeUnchanged(w) == scope = seen[w]

\* The lock gets the owner and the expiration of the task's copy of the row.
ScopeWrite(w) ==
    /\ pc[w] = "lock"
    /\ IF ScopeUnchanged(w)
         THEN scope' = copy[w].by /\ Goto(w, "ready")
         ELSE Goto(w, "unacquire") /\ UNCHANGED scope
    /\ seen' = [seen EXCEPT ![w] = Nobody]
    /\ UNCHANGED <<row, live, up, kind, job, copy, admin, runs>>

\* A storage error counts as a conflict.
ScopeError(w) ==
    /\ pc[w] = "lock"
    /\ Goto(w, "unacquire")
    /\ seen' = [seen EXCEPT ![w] = Nobody]
    /\ UNCHANGED <<row, scope, live, up, kind, job, copy, admin, runs>>

-----------------------------------------------------------------------------
(* ExecuteTimerWorkCmd.                                                    *)

\* Mutant: the row is not read again.
AlwaysMayRun(w) == TRUE

\* What the command tests before it runs the handler; the lease of a job that
\* was acquired is told from others by its owner only.
MayRun(w) ==
    /\ row[job[w]] # NoRow
    /\ kind[w] # "manual" => LockedBy(row[job[w]], Engine[w])
    /\ kind[w] = "hint" => SameLiveLease(w)

ExecuteStart(w) ==
    /\ pc[w] = "ready"
    /\ IF MayRun(w)
         THEN /\ Goto(w, "exec")
              /\ UNCHANGED <<scope, kind, job, copy, seen>>
         ELSE ClearScope(w) /\ Done(w)
    /\ UNCHANGED <<row, live, up, admin, runs>>

\* The coordinator lease has moved on: the command returns before it looks at
\* the row, and the locks stay until they expire.
ExecuteFenced(w) ==
    /\ pc[w] = "ready" /\ kind[w] = "timer"
    /\ Done(w)
    /\ UNCHANGED <<row, scope, live, up, admin, runs>>

\* The effects of the handler, the deletion of the row and the release of the
\* process instance commit together.  The deletion does not notice a row that
\* is already gone.
CommitEffects(w) ==
    /\ row' = [row EXCEPT ![job[w]] = NoRow]
    /\ runs' = [runs EXCEPT ![job[w]] = IF @ = 2 THEN 2 ELSE @ + 1]
    /\ ClearScope(w)

ExecuteCommit(w) ==
    /\ pc[w] = "exec"
    /\ CommitEffects(w)
    /\ Done(w)
    /\ UNCHANGED <<live, up, admin>>

\* The handler fails, or a COMMITTED listener does after the commit.
ExecuteFail(w) ==
    /\ pc[w] = "exec"
    /\ \/ UNCHANGED <<row, scope, runs>>
       \/ "postcommit" \in config.features /\ CommitEffects(w)
    /\ Goto(w, "failed")
    /\ UNCHANGED <<live, up, kind, job, copy, seen, admin>>

-----------------------------------------------------------------------------
(* RecordFailedTimerWorkCmd.                                               *)

\* A row that is gone is replaced by the task's copy of it.  The lock columns
\* that are read are not used; the task still works under its own lease.
RecordRead(w) ==
    /\ pc[w] = "failed"
    /\ copy' = [copy EXCEPT ![w] =
                  IF row[job[w]] = NoRow THEN @ ELSE [row[job[w]] EXCEPT !.by = copy[w].by]]
    /\ Goto(w, "record")
    /\ UNCHANGED <<row, scope, live, up, kind, job, seen, admin, runs>>

\* Mutant: a job without retries left is deleted instead of kept.
FailedDrops(r, unrecoverable) ==
    IF unrecoverable \/ r.retries <= 1 THEN NoRow
    ELSE [st |-> "timer", by |-> Nobody, retries |-> r.retries - 1]

Failed(r, unrecoverable) ==
    LET left == IF unrecoverable \/ r.retries = 0 THEN 0 ELSE r.retries - 1 IN
    [st |-> IF left = 0 THEN "deadletter" ELSE "timer", by |-> Nobody, retries |-> left]

RecordWrite(w) ==
    /\ pc[w] = "record"
    /\ \E unrecoverable \in BOOLEAN :
         row' = [row EXCEPT ![job[w]] = Failed(copy[w], unrecoverable)]
    /\ ClearScope(w)
    /\ Done(w)
    /\ UNCHANGED <<live, up, admin, runs>>

\* The failure cannot be stored; it is logged and the locks stay.
RecordError(w) ==
    /\ pc[w] \in {"failed", "record"}
    /\ Done(w)
    /\ UNCHANGED <<row, scope, live, up, admin, runs>>

-----------------------------------------------------------------------------
(* Suspension, and the activation that hands rows to a live executor.      *)

SuspendJobs ==
    /\ "suspend" \in config.features
    /\ \E j \in Jobs : row[j] # NoRow /\ row[j].st \in Runnable
    /\ row' = [j \in Jobs |->
                 IF row[j] # NoRow /\ row[j].st \in Runnable
                   THEN [row[j] EXCEPT !.st = "suspended", !.by = Nobody]
                   ELSE row[j]]
    /\ UNCHANGED <<scope, live, up, taskVars, admin, runs>>

Suspended == {j \in Jobs : row[j] # NoRow /\ row[j].st = "suspended"}

Activated(j, by) == [row[j] EXCEPT !.st = "async", !.by = by]

\* The engine's executor is not active: the rows stay unlocked.
ActivateJobs ==
    /\ Suspended # {}
    /\ row' = [j \in Jobs |-> IF j \in Suspended THEN Activated(j, Nobody) ELSE row[j]]
    /\ UNCHANGED <<scope, live, up, taskVars, admin, runs>>

\* Every row is locked for the engine that activates it (f gives the lease); the
\* rows whose category it serves are offered to its pool after the commit.
LeaseJob(f, w) == CHOOSE j \in Suspended : f[j] = w

HandOver(f, hinted) ==
    LET offered == {f[j] : j \in hinted} IN
    /\ \A i, j \in Suspended : Engine[f[i]] = Engine[f[j]] /\ (f[i] = f[j] => i = j)
    /\ row' = [j \in Jobs |-> IF j \in Suspended THEN Activated(j, f[j]) ELSE row[j]]
    /\ live' = live \cup {f[j] : j \in Suspended}
    /\ pc' = [w \in Tasks |-> IF w \in offered THEN "hinted" ELSE pc[w]]
    /\ kind' = [w \in Tasks |-> IF w \in offered THEN "hint" ELSE kind[w]]
    /\ job' = [w \in Tasks |-> IF w \in offered THEN LeaseJob(f, w) ELSE job[w]]
    /\ copy' = [w \in Tasks |->
                  IF w \in offered THEN Activated(LeaseJob(f, w), w) ELSE copy[w]]
    /\ UNCHANGED <<scope, up, seen, admin, runs>>

ActivateWithHints ==
    /\ Suspended # {}
    /\ \E f \in [Suspended -> {w \in Tasks : Usable(w)}], hinted \in SUBSET Suspended :
         HandOver(f, hinted)

\* submit_committed_async_hint: the row is read again, and what is offered to
\* the pool is the row as it is now.
HintOffer(w) ==
    /\ pc[w] = "hinted"
    /\ IF row[job[w]] = NoRow
         THEN Done(w)
         ELSE /\ copy' = [copy EXCEPT ![w] = row[job[w]]]
              /\ \E p \in {"queued", "unacquire"} : Goto(w, p)
              /\ UNCHANGED <<kind, job, seen>>
    /\ UNCHANGED <<row, scope, live, up, admin, runs>>

-----------------------------------------------------------------------------
(* Management commands.                                                    *)

\* execute_job: no row lock, no process-instance lock.
ManualStart(w) ==
    /\ "manual" \in config.features /\ Usable(w)
    /\ \E j \in Jobs :
         /\ row[j] # NoRow /\ row[j].st \in Runnable /\ row[j].retries > 0
         /\ job' = [job EXCEPT ![w] = j]
         /\ copy' = [copy EXCEPT ![w] = row[j]]
    /\ kind' = [kind EXCEPT ![w] = "manual"]
    /\ Goto(w, "ready")
    /\ UNCHANGED <<row, scope, live, up, seen, admin, runs>>

AdminApplies(op, r) ==
    \/ op \in {"retries", "deadletter"} /\ r.st \in Runnable
    \/ op = "revive" /\ r.st = "deadletter"

AdminRead ==
    /\ "admin" \in config.features /\ admin = NoAdmin
    /\ \E op \in {"retries", "deadletter", "revive"}, j \in Jobs :
         /\ row[j] # NoRow /\ AdminApplies(op, row[j])
         /\ admin' = [op |-> op, job |-> j, copy |-> row[j]]
    /\ UNCHANGED <<row, scope, live, up, taskVars, runs>>

Administered(op, r, n) ==
    CASE op = "retries" -> [r EXCEPT !.retries = n]
      [] op = "deadletter" -> [r EXCEPT !.st = "deadletter", !.by = Nobody]
      [] op = "revive" -> [st |-> "async", by |-> Nobody, retries |-> n]

\* The commands write with an upsert.
AdminWrite ==
    /\ admin # NoAdmin
    /\ \E n \in 0..config.retries :
         row' = [row EXCEPT ![admin.job] = Administered(admin.op, admin.copy, n)]
    /\ admin' = NoAdmin
    /\ UNCHANGED <<scope, live, up, taskVars, runs>>

-----------------------------------------------------------------------------
(* Time, recovery and failure.                                             *)

Busy(l) == \E w \in Tasks : pc[w] # "free" /\ (w = l \/ copy[w].by = l)

\* Unless "overrun" is on, lock times are longer than the work they cover.
Expire(l) ==
    /\ l \in live
    /\ Busy(l) => "overrun" \in config.features
    /\ live' = live \ {l}
    /\ UNCHANGED <<row, scope, up, taskVars, admin, runs>>

\* Mutant: the expiration is compared the wrong way round.
NotYetExpired(j) == row[j] # NoRow /\ row[j].by # Nobody /\ row[j].by \in live

\* compare_and_reset_expired_job_locks tests every lock column and the state.
Expired(j) == row[j] # NoRow /\ row[j].by # Nobody /\ row[j].by \notin live

ResetExpired(j) ==
    /\ up # {}
    /\ Expired(j) /\ row[j].st \in Runnable
    /\ row' = [row EXCEPT ![j].by = Nobody]
    /\ UNCHANGED <<scope, live, up, taskVars, admin, runs>>

Crash(e) ==
    /\ e \in up
    /\ up' = up \ {e}
    /\ pc' = [w \in Tasks |-> IF Engine[w] = e THEN "free" ELSE pc[w]]
    /\ kind' = [w \in Tasks |-> IF Engine[w] = e THEN "none" ELSE kind[w]]
    /\ job' = [w \in Tasks |-> IF Engine[w] = e THEN NoJob ELSE job[w]]
    /\ copy' = [w \in Tasks |-> IF Engine[w] = e THEN NoRow ELSE copy[w]]
    /\ seen' = [w \in Tasks |-> IF Engine[w] = e THEN Nobody ELSE seen[w]]
    /\ UNCHANGED <<row, scope, live, admin, runs>>

\* unlock_owned_jobs: the rows of the engine's own lock owner id, in one scan.
UnlockOwned(e) ==
    row' = [j \in Jobs |-> IF LockedBy(row[j], e) /\ row[j].st = "async"
                             THEN [row[j] EXCEPT !.by = Nobody] ELSE row[j]]

\* try_shutdown joins the acquisition threads and waits for the pool, but only
\* for so long; then it unlocks what the engine still owns, if configured to.
Stop(e) ==
    /\ e \in up
    /\ \A w \in Tasks : Engine[w] = e =>
         \/ pc[w] = "free"
         \/ "overrun" \in config.features /\ pc[w] # "acquire"
    /\ up' = up \ {e}
    /\ UnlockOwned(e) \/ UNCHANGED row
    /\ UNCHANGED <<scope, live, taskVars, admin, runs>>

\* try_start after a crash or a shutdown may unlock as well.
Restart(e) ==
    /\ e \notin up
    /\ up' = up \cup {e}
    /\ UnlockOwned(e) \/ UNCHANGED row
    /\ UNCHANGED <<scope, live, taskVars, admin, runs>>

-----------------------------------------------------------------------------
TaskStep(w) ==
    \/ AcquireRead(w) \/ AcquireWrite(w)
    \/ Abandon(w) \/ Reject(w) \/ ReleaseRead(w) \/ ReleaseWrite(w)
    \/ HintOffer(w) \/ HintProbe(w)
    \/ ScopeRead(w) \/ ScopeWrite(w) \/ ScopeError(w)
    \/ ExecuteStart(w) \/ ExecuteFenced(w) \/ ExecuteCommit(w) \/ ExecuteFail(w)
    \/ RecordRead(w) \/ RecordWrite(w) \/ RecordError(w)
    \/ ManualStart(w)

Next ==
    /\ \/ \E w \in Tasks : TaskStep(w) \/ Expire(w)
       \/ \E j \in Jobs : ResetExpired(j)
       \/ SuspendJobs \/ ActivateJobs \/ ActivateWithHints
       \/ AdminRead \/ AdminWrite
       \/ \E e \in Engines : Crash(e) \/ Stop(e) \/ Restart(e)
    /\ UNCHANGED config

Spec == Init /\ [][Next]_vars

\* What a task does when nothing goes wrong around it.
Progress(w) ==
    \/ AcquireRead(w) \/ AcquireWrite(w) \/ ReleaseRead(w) \/ ReleaseWrite(w)
    \/ HintOffer(w) \/ HintProbe(w) \/ ScopeRead(w) \/ ScopeWrite(w)
    \/ ExecuteStart(w) \/ ExecuteCommit(w) \/ RecordRead(w) \/ RecordWrite(w)

Disturbance ==
    \/ \E w \in Tasks : Abandon(w) \/ Reject(w) \/ ScopeError(w)
                         \/ ExecuteFenced(w) \/ RecordError(w)
    \/ \E e \in Engines : Crash(e) \/ Stop(e)

\* Threads keep running, leases run out, the reset threads come round, a crashed
\* engine is started again, and disturbances stop some day.
Fairness ==
    /\ \A w \in Tasks : /\ WF_vars(Progress(w) /\ UNCHANGED config)
                         /\ WF_vars(Expire(w) /\ UNCHANGED config)
    /\ \A j \in Jobs : WF_vars(ResetExpired(j) /\ UNCHANGED config)
    /\ \A e \in Engines : WF_vars(Restart(e) /\ UNCHANGED config)
    /\ <>[][~Disturbance]_vars

FairSpec == Spec /\ Fairness

-----------------------------------------------------------------------------
(* Properties.                                                             *)

\* The rows of timer_job_states, the locks and the tasks have their types; retries
\* stay within number_of_retries.
TypeOK ==
    /\ config \in Configs
    /\ row \in [Jobs -> Row \cup {NoRow}]
    /\ scope \in Tasks \cup {Nobody}
    /\ live \subseteq Tasks
    /\ up \subseteq Engines
    /\ pc \in [Tasks -> {"free", "acquire", "queued", "unacquire", "release", "hinted",
                         "scope", "lock", "ready", "exec", "failed", "record"}]
    /\ kind \in [Tasks -> {"none", "async", "timer", "hint", "manual"}]
    /\ job \in [Tasks -> Jobs \cup {NoJob}]
    /\ copy \in [Tasks -> Row \cup {NoRow}]
    /\ seen \in [Tasks -> Tasks \cup {Nobody}]
    /\ admin \in [op : {"none", "retries", "deadletter", "revive"}, job : Jobs \cup {NoJob},
                  copy : Row \cup {NoRow}]
    /\ runs \in [Jobs -> 0..2]

\* The effects of a job are committed at most once: whatever acquisition, hints,
\* rejected work, resets of expired locks, suspensions and crashes do to its row, no
\* second ExecuteTimerWorkCmd commits its handler.  Leases have to outlast the work
\* they cover, commands to fail before their commit, and nobody may run or change
\* the job by hand.
RunsOnce ==
    config.features \subseteq {"global", "suspend"} => \A j \in Jobs : runs[j] <= 1

\* A job leaves the table only by being run: whatever fails, crashes, expires
\* or is rejected, a job whose effects were never committed keeps its row.
NoJobLost == \A j \in Jobs : runs[j] = 0 => row[j] # NoRow

Executing(w) == pc[w] = "exec" /\ kind[w] # "manual"

\* Two exclusive jobs of a process instance are never executed at once: what
\* lock_process_instance is there for.  Manual execution does not take that lock.
ExclusiveScope ==
    \A v, w \in Tasks :
        Executing(v) /\ Executing(w) /\ {job[v], job[w]} \subseteq Exclusive => v = w

\* A job that ran out of retries stays where it is until somebody revives it: no
\* acquisition, reset or late failure record changes a dead letter.
DeadletterStays ==
    [][\A j \in Jobs : row[j] # NoRow /\ row[j].st = "deadletter" => row'[j] = row[j]]_vars

\* Every runnable job is run or ends as a dead letter, also when the engine
\* that had it crashed, once crashes and errors of the store stop.
EveryJobSettles ==
    \A j \in Jobs : <>[](row[j] = NoRow \/ row[j].st = "deadletter")

=============================================================================
