---------------------------- MODULE AsyncExecutor ----------------------------
(***************************************************************************)
(* The life cycle of one engine's async executor: starting and shutting it *)
(* down while its acquisition threads, the workers of its task pool, the   *)
(* history dispatcher and the threads that offer post-commit hints are at  *)
(* work.                                                                   *)
(*                                                                         *)
(* Source: flowable-engine, engine/async_executor.rs,                      *)
(* engine/async_task_executor.rs, engine/async_job_acquisition.rs,         *)
(* engine/timer_job_acquisition.rs, engine/history_job_dispatcher.rs, the  *)
(* start and stop of engine/process_engine.rs and the hint services of     *)
(* engine/runtime_service.rs.                                              *)
(*                                                                         *)
(* try_start and try_shutdown hold lifecycle_lock from beginning to end,   *)
(* so there is at most one of them under way: `control' is its next step,  *)
(* and the lock is free when it is "idle".  A job row is locked by one of  *)
(* the engine's leases or by none; leases are numbered and do not expire   *)
(* here (JobExecution has the expiry, the recovery of expired leases and   *)
(* the other engines).  A job that activates another one is the timer of a *)
(* scheduled process definition activation.  A history job is written by a *)
(* command and announced to the dispatcher after its commit; it is not     *)
(* locked, and no acquisition thread selects it.                           *)
(***************************************************************************)
EXTENDS Naturals, Sequences, FiniteSets

CONSTANTS
    Jobs,
    Configs,        \* what the engine may be configured with and meet
    MaxPools,       \* bound: task pools created, one per start
    Workers,        \* pool threads
    Pool,           \* the pool of each worker
    Acquirers,      \* acquisition threads
    Checked,        \* the acquirers that look at the capacity of the queue
    Dispatcher,     \* the thread of HistoryJobDispatcher
    Client,         \* a thread of the application
    QueueSize,
    MaxLeases,      \* bound: leases per job
    NoJob, NoWork

Pools == 1..MaxPools

ASSUME PoolAssumption ==
    /\ MaxPools \in Nat
    /\ Pool \in [Workers -> Pools]
    /\ QueueSize \in Nat \ {0} /\ MaxLeases \in Nat \ {0}

\* unlock_owned_jobs of the executor; the jobs that are suspended at first, the job
\* that running a job activates, and the history jobs commands will write; what may
\* go wrong.
Config == [unlocks : BOOLEAN, suspended : SUBSET Jobs, history : SUBSET Jobs,
           activates : [Jobs -> Jobs \cup {NoJob}],
           faults : SUBSET {"errors", "timeout", "panic"}]

ASSUME JobAssumption == Configs \subseteq Config /\ NoJob \notin Jobs
ASSUME ThreadAssumption ==
    /\ Checked \subseteq Acquirers /\ Workers \cap Acquirers = {}
    /\ {Client, Dispatcher} \cap (Workers \cup Acquirers) = {} /\ Client # Dispatcher

Threads == Workers \cup Acquirers \cup {Client, Dispatcher}

\* A job in somebody's hands: the copy of the row, and whether it is a hint.
Work == [job : Jobs, lease : 0..MaxLeases, hint : BOOLEAN]

ASSUME WorkAssumption == NoWork \notin Work

VARIABLES
    config,     \* fixed when the engine is configured
    st,         \* the state of each job row
    lock,       \* the lease on it, 0 if there is none
    last,       \* the last lease given out for it
    active,     \* is_active of the executor, shared with ActivationCoordinator
    control,    \* the next step of try_start or try_shutdown
    pool,       \* the current task pool, 0 if there is none
    made,       \* the number of pools created
    stopping,   \* the pools whose shutdown flag is set
    queue,      \* the channel of each pool
    temp,       \* temporary_jobs
    channel,    \* the history jobs announced and not received
    sender,     \* the pool the dispatcher has a sender of, 0 if none
    flag,       \* is_active of each acquisition thread and of the dispatcher
    batch,      \* what an acquisition thread has acquired and not yet offered
    pc,         \* where each thread is
    work        \* what it has in hand

rows == <<st, lock, last>>
poolVars == <<pool, made, stopping, queue>>
history == <<channel, sender>>
threadVars == <<flag, batch, pc, work>>
vars == <<config, rows, active, control, poolVars, temp, history, threadVars>>

Init ==
    /\ config \in Configs
    /\ st = [j \in Jobs |-> IF j \in config.history THEN "unwritten"
                            ELSE IF j \in config.suspended THEN "suspended" ELSE "ready"]
    /\ lock = [j \in Jobs |-> 0] /\ last = [j \in Jobs |-> 0]
    /\ active = FALSE /\ control = "idle"
    /\ pool = 0 /\ made = 0 /\ stopping = {}
    /\ queue = [p \in Pools |-> <<>>] /\ temp = <<>>
    /\ channel = <<>> /\ sender = 0
    /\ flag = [a \in Acquirers \cup {Dispatcher} |-> FALSE] /\ batch = [a \in Acquirers |-> {}]
    /\ pc = [t \in Threads |-> IF t = Client THEN "idle" ELSE "off"]
    /\ work = [t \in Threads |-> NoWork]

-----------------------------------------------------------------------------
Crew(p) == {w \in Workers : Pool[w] = p}

\* All receivers of the channel are gone.
Disconnected(p) == \A w \in Crew(p) : pc[w] = "gone"

Goto(t, label, x) ==
    /\ pc' = [pc EXCEPT ![t] = label]
    /\ work' = [work EXCEPT ![t] = x]

\* The thread is done with what it had in hand.
Finish(t) == Goto(t, IF t \in Acquirers THEN "batch" ELSE "idle", NoWork)

\* Mutant: the channel takes what it has no room for.
AcceptsFull(p) == p # 0 /\ ~Disconnected(p)

\* execute, and try_send on a sender: there is a receiver and there is room.
Accepts(p) == p # 0 /\ ~Disconnected(p) /\ Len(queue[p]) < QueueSize

Enqueue(p, x) == queue' = [queue EXCEPT ![p] = Append(@, x)]

\* Mutant: the row keeps its lock.
KeepsLock(j) == UNCHANGED lock

Unlock(j) == lock' = [lock EXCEPT ![j] = 0]

\* The release of a rejected job tests the owner, not the lease.
Releasable(j) == st[j] # "done" /\ lock[j] # 0

\* unlock_owned_executable_jobs.
UnlockAll == lock' = IF config.unlocks THEN [j \in Jobs |-> 0] ELSE lock

-----------------------------------------------------------------------------
(* try_start.                                                              *)

Start ==
    /\ control = "idle" /\ ~active
    /\ made < MaxPools
    /\ active' = TRUE
    /\ control' = "unlock"
    /\ UNCHANGED <<rows, poolVars, temp, threadVars, history>>

StartUnlock ==
    /\ control = "unlock"
    /\ UnlockAll
    /\ control' = "pool"
    /\ UNCHANGED <<st, last, active, poolVars, temp, threadVars, history>>

\* The error is returned as it is: the executor stays active.
StartError ==
    /\ control = "unlock" /\ config.unlocks /\ "errors" \in config.faults
    /\ control' = "idle"
    /\ UNCHANGED <<rows, active, poolVars, temp, threadVars, history>>

\* A new pool unless there is one, and the acquisition threads with its sender.
StartPool ==
    /\ control = "pool"
    /\ IF pool = 0 THEN pool' = made + 1 /\ made' = made + 1 ELSE UNCHANGED <<pool, made>>
    /\ pc' = [t \in Threads |->
                IF t \in Acquirers \/ (t \in Workers /\ pool = 0 /\ Pool[t] = made + 1)
                  THEN "idle" ELSE pc[t]]
    /\ flag' = [a \in Acquirers \cup {Dispatcher} |-> a \in Acquirers \/ flag[a]]
    /\ control' = "temp"
    /\ UNCHANGED <<rows, active, stopping, queue, temp, batch, work, history>>

\* execute_temporary_jobs; a job the pool rejects is released, and an error of
\* its listener or a release that finds no lock, as after StartUnlock, ends the
\* start.
StartTemp ==
    /\ control = "temp" /\ temp # <<>>
    /\ temp' = Tail(temp)
    /\ \/ Accepts(pool) /\ Enqueue(pool, Head(temp)) /\ UNCHANGED <<lock, control>>
       \/ /\ ~Accepts(pool) /\ Releasable(Head(temp).job)
          /\ Unlock(Head(temp).job) /\ UNCHANGED <<queue, control>>
       \/ /\ ~Accepts(pool) /\ ("errors" \in config.faults \/ ~Releasable(Head(temp).job))
          /\ control' = "idle" /\ UNCHANGED <<queue, lock>>
    /\ UNCHANGED <<st, last, active, pool, made, stopping, threadVars, history>>

StartDone ==
    /\ control = "temp" /\ temp = <<>>
    /\ control' = IF config.history = {} THEN "idle" ELSE "dispatch"
    /\ UNCHANGED <<rows, active, poolVars, temp, threadVars, history>>

-----------------------------------------------------------------------------
(* The history dispatcher.                                                 *)

\* ProcessEngine starts it when try_start has returned, also when the executor was
\* active already.  The receiver is taken by the first start, with a sender of the
\* pool there is then; later starts are ignored.
StartDispatcher ==
    /\ config.history # {}
    /\ control = "dispatch" \/ (control = "idle" /\ active)
    /\ control' = "idle"
    /\ IF pc[Dispatcher] = "off"
         THEN /\ flag' = [flag EXCEPT ![Dispatcher] = TRUE]
              /\ Goto(Dispatcher, "idle", NoWork)
              /\ sender' = pool
         ELSE UNCHANGED <<flag, pc, work, sender>>
    /\ UNCHANGED <<rows, active, poolVars, temp, channel, batch>>

\* A command commits with its history job, and announces it afterwards.
RecordHistory ==
    /\ pc[Client] = "idle"
    /\ \E j \in config.history :
         /\ st[j] = "unwritten"
         /\ st' = [st EXCEPT ![j] = "ready"]
         /\ Goto(Client, "announce", [job |-> j, lease |-> 0, hint |-> FALSE])
    /\ UNCHANGED <<lock, last, active, control, poolVars, temp, flag, batch, history>>

\* dispatch_history_jobs: an unbounded channel, whose receiver may be gone.
Announce(t) ==
    /\ pc[t] = "announce"
    /\ channel' = IF pc[Dispatcher] = "gone" THEN channel ELSE Append(channel, work[t])
    /\ Finish(t)
    /\ UNCHANGED <<rows, active, control, poolVars, temp, sender, flag, batch>>

\* Mutant: the loop ends when no session can be opened.
SkippedForGood == Goto(Dispatcher, "gone", NoWork)

\* The loop goes on when no session can be opened.
Skipped == UNCHANGED <<pc, work>>

\* dispatcher_loop: what the pool does not accept is not offered again.
Dispatch ==
    /\ pc[Dispatcher] = "idle" /\ flag[Dispatcher] /\ channel # <<>>
    /\ channel' = Tail(channel)
    /\ \/ /\ IF st[Head(channel).job] = "ready" /\ Accepts(sender)
               THEN Enqueue(sender, Head(channel)) ELSE UNCHANGED queue
          /\ UNCHANGED <<pc, work>>
       \/ "errors" \in config.faults /\ Skipped /\ UNCHANGED queue
    /\ UNCHANGED <<rows, active, control, pool, made, stopping, temp, sender, flag, batch>>

LeaveDispatcher ==
    /\ pc[Dispatcher] = "idle" /\ ~flag[Dispatcher]
    /\ Goto(Dispatcher, "gone", NoWork)
    /\ UNCHANGED <<rows, active, control, poolVars, temp, flag, batch, history>>

-----------------------------------------------------------------------------
(* try_shutdown, after the dispatcher has been stopped.                    *)

Stop ==
    /\ control = "idle" /\ active
    /\ flag' = [flag EXCEPT ![Dispatcher] = FALSE]
    /\ control' = "dispatcher"
    /\ UNCHANGED <<rows, active, poolVars, temp, batch, pc, work, history>>

\* Mutant: only the acquirers of one kind are told.
RequestStopChecked == flag' = [a \in Acquirers \cup {Dispatcher} |-> flag[a] /\ a \notin Checked]

RequestStop == flag' = [a \in Acquirers \cup {Dispatcher} |-> FALSE]

StopThreads ==
    /\ control = "dispatcher" /\ pc[Dispatcher] \in {"off", "gone"}
    /\ RequestStop
    /\ control' = "join"
    /\ UNCHANGED <<rows, active, poolVars, temp, batch, pc, work, history>>

\* Mutant: the acquisition threads are told to stop but not waited for.
NoJoin == TRUE

\* await_stopped joins the threads, without a timeout.
Joined == \A a \in Acquirers : pc[a] = "off"

StopPool ==
    /\ control = "join" /\ Joined
    /\ stopping' = IF pool = 0 THEN stopping ELSE stopping \cup {pool}
    /\ pool' = 0
    /\ control' = IF pool = 0 THEN "release" ELSE "await"
    /\ UNCHANGED <<rows, active, made, queue, temp, threadVars, history>>

\* try_shutdown of the pool counts the workers that finish; the wait has a
\* timeout, and ends when the workers that are left cannot report any more.
Terminated == \A w \in Crew(made) : pc[w] = "gone"

StopAwait ==
    /\ control = "await"
    /\ Terminated \/ "timeout" \in config.faults
    /\ control' = "release"
    /\ UNCHANGED <<rows, active, poolVars, temp, threadVars, history>>

StopRelease ==
    /\ control = "release"
    /\ UnlockAll
    /\ active' = FALSE
    /\ control' = "idle"
    /\ UNCHANGED <<st, last, poolVars, temp, threadVars, history>>

StopError ==
    /\ control = "release" /\ config.unlocks /\ "errors" \in config.faults
    /\ control' = "idle"
    /\ UNCHANGED <<rows, active, poolVars, temp, threadVars, history>>

-----------------------------------------------------------------------------
(* Acquisition threads.                                                    *)

Room(a) == IF a \in Checked THEN QueueSize - Len(queue[made]) ELSE Cardinality(Jobs)

\* Mutant: a row another lease holds is acquired again.
LockedToo(j) == st[j] = "ready" /\ j \notin config.history /\ last[j] < MaxLeases

Acquirable(j) ==
    /\ st[j] = "ready" /\ j \notin config.history
    /\ lock[j] = 0 /\ last[j] < MaxLeases

Acquire(a) ==
    /\ pc[a] = "idle" /\ flag[a]
    /\ \E S \in SUBSET {j \in Jobs : Acquirable(j)} :
         /\ S # {} /\ Cardinality(S) <= Room(a)
         /\ last' = [j \in Jobs |-> IF j \in S THEN last[j] + 1 ELSE last[j]]
         /\ lock' = [j \in Jobs |-> IF j \in S THEN last[j] + 1 ELSE lock[j]]
         /\ batch' = [batch EXCEPT ![a] =
                        {[job |-> j, lease |-> last[j] + 1, hint |-> FALSE] : j \in S}]
    /\ pc' = [pc EXCEPT ![a] = "batch"]
    /\ UNCHANGED <<st, active, control, poolVars, temp, flag, work, history>>

\* submit_async_task_or_run_inline: into the queue if there is room, on this
\* thread if there is none.  The thread has the sender of the pool it was started
\* with, the last one made.
Offer(a) ==
    /\ pc[a] = "batch"
    /\ \E x \in batch[a] :
         /\ batch' = [batch EXCEPT ![a] = @ \ {x}]
         /\ \/ Accepts(made) /\ Enqueue(made, x) /\ UNCHANGED <<pc, work>>
            \/ ~Accepts(made) /\ ~Disconnected(made) /\ Goto(a, "start", x) /\ UNCHANGED queue
            \/ Disconnected(made) /\ Goto(a, "reject", x) /\ UNCHANGED queue
    /\ UNCHANGED <<rows, active, control, pool, made, stopping, temp, flag, history>>

\* The next round of the loop, or its end.
NextRound(a) ==
    /\ pc[a] = "batch" /\ batch[a] = {}
    /\ pc' = [pc EXCEPT ![a] = "idle"]
    /\ UNCHANGED <<rows, active, control, poolVars, temp, flag, batch, work, history>>

Leave(a) ==
    /\ pc[a] = "idle" /\ ~flag[a]
    /\ pc' = [pc EXCEPT ![a] = "off"]
    /\ UNCHANGED <<rows, active, control, poolVars, temp, flag, batch, work, history>>

-----------------------------------------------------------------------------
(* worker_loop.                                                            *)

Take(w) ==
    /\ pc[w] = "idle" /\ queue[Pool[w]] # <<>>
    /\ Goto(w, "start", Head(queue[Pool[w]]))
    /\ queue' = [queue EXCEPT ![Pool[w]] = Tail(@)]
    /\ UNCHANGED <<rows, active, control, pool, made, stopping, temp, flag, batch, history>>

\* Mutant: the worker leaves without emptying the queue.
LeavesAtOnce(w) == Pool[w] \in stopping

Drained(w) == Pool[w] \in stopping /\ queue[Pool[w]] = <<>>

WorkerExit(w) ==
    /\ pc[w] = "idle" /\ Drained(w)
    /\ Goto(w, "gone", NoWork)
    /\ UNCHANGED <<rows, active, control, poolVars, temp, flag, batch, history>>

\* A panic of the task takes its worker with it; the last one takes the channel
\* and what is in it.
Panic(w) ==
    /\ pc[w] = "run" /\ "panic" \in config.faults
    /\ Goto(w, "gone", NoWork)
    /\ queue' = IF \A v \in Crew(Pool[w]) : v # w => pc[v] = "gone"
                  THEN [queue EXCEPT ![Pool[w]] = <<>>] ELSE queue
    /\ UNCHANGED <<rows, active, control, pool, made, stopping, temp, flag, batch, history>>

\* The panic of a task run inline ends its acquisition thread, with the rest of
\* the batch.
PanicInline(a) ==
    /\ pc[a] = "run" /\ "panic" \in config.faults
    /\ Goto(a, "off", NoWork)
    /\ batch' = [batch EXCEPT ![a] = {}]
    /\ UNCHANGED <<rows, active, control, poolVars, temp, flag, history>>

-----------------------------------------------------------------------------
(* Running a job, on a worker or on an acquisition thread.                 *)

\* Mutant: a hint is run like an acquired job.
AnyLease(x) == x.job \in config.history \/ lock[x.job] # 0

\* A hint runs under the lease it was given out with, an acquired job under any
\* lease of this engine, a history job without one.
MayRun(x) ==
    x.job \in config.history \/ (lock[x.job] # 0 /\ (x.hint => lock[x.job] = x.lease))

RunStart(t) ==
    /\ pc[t] = "start"
    /\ IF st[work[t].job] = "ready" /\ MayRun(work[t])
         THEN Goto(t, "run", work[t]) ELSE Finish(t)
    /\ UNCHANGED <<rows, active, control, poolVars, temp, flag, batch, history>>

\* activate_suspended_job: when the executor is active the row is locked in the
\* activating transaction and hinted after it.
Activation(t, k) ==
    IF active
      THEN /\ lock' = [lock EXCEPT ![k] = last[k] + 1]
           /\ last' = [last EXCEPT ![k] = @ + 1]
           /\ Goto(t, "hinted", [job |-> k, lease |-> last[k] + 1, hint |-> TRUE])
      ELSE UNCHANGED <<lock, last>> /\ Finish(t)

\* The command that runs the job commits, perhaps with an activation in it.
RunCommit(t) ==
    /\ pc[t] = "run"
    /\ LET j == work[t].job
           k == config.activates[j]
       IN  IF k # NoJob /\ st[k] = "suspended"
             THEN st' = [st EXCEPT ![j] = "done", ![k] = "ready"] /\ Activation(t, k)
             ELSE st' = [st EXCEPT ![j] = "done"] /\ Finish(t) /\ UNCHANGED <<lock, last>>
    /\ UNCHANGED <<active, control, poolVars, temp, flag, batch, history>>

\* The failure is recorded and the row waits for its next turn; a row that is
\* gone is written again.
RunFail(t) ==
    /\ pc[t] = "run"
    /\ st' = [st EXCEPT ![work[t].job] = "ready"]
    /\ Unlock(work[t].job)
    /\ Finish(t)
    /\ UNCHANGED <<last, active, control, poolVars, temp, flag, batch, history>>

ClientActivates ==
    /\ pc[Client] = "idle"
    /\ \E k \in Jobs :
         /\ st[k] = "suspended"
         /\ st' = [st EXCEPT ![k] = "ready"]
         /\ Activation(Client, k)
    /\ UNCHANGED <<active, control, poolVars, temp, flag, batch, history>>

-----------------------------------------------------------------------------
(* Post-commit hints.                                                      *)

\* submit_committed_async_hint reads the row again; a row that is gone is not
\* offered.
HintRead(t) ==
    /\ pc[t] = "hinted"
    /\ LET k == work[t].job IN
       IF st[k] = "done" THEN Finish(t)
       ELSE Goto(t, "offer", [job |-> k, lease |-> lock[k], hint |-> TRUE])
    /\ UNCHANGED <<rows, active, control, poolVars, temp, flag, batch, history>>

\* submit_direct_hint_job takes lifecycle_lock.  An inactive executor keeps a
\* leased hint for its next start.
HintOffer(t) ==
    /\ pc[t] = "offer" /\ control \in {"idle", "dispatch", "dispatcher"}
    /\ \/ /\ ~active
          /\ temp' = IF work[t].lease # 0 THEN Append(temp, work[t]) ELSE temp
          /\ Finish(t) /\ UNCHANGED queue
       \/ /\ active /\ Accepts(pool)
          /\ Enqueue(pool, work[t]) /\ Finish(t) /\ UNCHANGED temp
       \/ /\ active /\ ~Accepts(pool)
          /\ Goto(t, "reject", work[t]) /\ UNCHANGED <<queue, temp>>
    /\ UNCHANGED <<rows, active, control, pool, made, stopping, flag, batch, history>>

\* try_reject_acquired_async_job.  An error of the release leaves the lock, and
\* one of the listener also ends the batch.
Reject(t) ==
    /\ pc[t] = "reject"
    /\ \/ /\ IF Releasable(work[t].job) THEN Unlock(work[t].job) ELSE UNCHANGED lock
          /\ UNCHANGED batch
       \/ "errors" \in config.faults /\ UNCHANGED <<lock, batch>>
       \/ /\ "errors" \in config.faults /\ t \in Acquirers
          /\ batch' = [batch EXCEPT ![t] = {}] /\ UNCHANGED lock
    /\ Finish(t)
    /\ UNCHANGED <<st, last, active, control, poolVars, temp, flag, history>>

-----------------------------------------------------------------------------
ControlStep ==
    \/ StartUnlock \/ StartPool \/ StartTemp \/ StartDone
    \/ control = "dispatch" /\ StartDispatcher
    \/ StopThreads \/ StopPool \/ StopAwait \/ StopRelease

ThreadStep(t) ==
    \/ RunStart(t) \/ RunCommit(t) \/ HintRead(t) \/ HintOffer(t) \/ Reject(t)
    \/ Announce(t)
    \/ t = Dispatcher /\ (Dispatch \/ LeaveDispatcher)
    \/ t \in Acquirers /\ (Offer(t) \/ NextRound(t) \/ Leave(t))
    \/ t \in Workers /\ (Take(t) \/ WorkerExit(t))

Next ==
    /\ \/ Start \/ StartError \/ Stop \/ StopError \/ ControlStep
       \/ \E t \in Threads : ThreadStep(t) \/ RunFail(t)
       \/ \E a \in Acquirers : Acquire(a) \/ PanicInline(a)
       \/ \E w \in Workers : Panic(w)
       \/ ClientActivates \/ RecordHistory \/ StartDispatcher
    /\ UNCHANGED config

Spec == Init /\ [][Next]_vars

\* A thread that can go on does, and so does a start or a shutdown.  Nobody has
\* to start, stop, acquire or activate anything.
FairSpec ==
    /\ Spec
    /\ WF_vars(ControlStep /\ UNCHANGED config)
    /\ \A t \in Threads : WF_vars(ThreadStep(t) /\ UNCHANGED config)

-----------------------------------------------------------------------------
(* Properties.                                                             *)

Places == {"off", "idle", "gone", "batch", "start", "run", "hinted", "offer", "reject",
           "announce"}

\* Type correctness; a channel never holds more than its capacity.
TypeOK ==
    /\ config \in Configs
    /\ st \in [Jobs -> {"unwritten", "suspended", "ready", "done"}]
    /\ lock \in [Jobs -> 0..MaxLeases] /\ last \in [Jobs -> 0..MaxLeases]
    /\ active \in BOOLEAN
    /\ control \in {"idle", "unlock", "pool", "temp", "dispatch", "dispatcher",
                   "join", "await", "release"}
    /\ pool \in Pools \cup {0} /\ made \in Pools \cup {0} /\ stopping \subseteq Pools
    /\ queue \in [Pools -> Seq(Work)] /\ \A p \in Pools : Len(queue[p]) <= QueueSize
    /\ temp \in Seq(Work)
    /\ channel \in Seq(Work) /\ sender \in Pools \cup {0}
    /\ flag \in [Acquirers \cup {Dispatcher} -> BOOLEAN] /\ batch \in [Acquirers -> SUBSET Work]
    /\ pc \in [Threads -> Places]
    /\ work \in [Threads -> Work \cup {NoWork}]

InHand ==
    (UNION {batch[a] : a \in Acquirers}) \cup {work[t] : t \in Threads}
      \cup (UNION {{queue[p][i] : i \in 1..Len(queue[p])} : p \in Pools})
      \cup {temp[i] : i \in 1..Len(temp)}

\* Every lock of the engine on a job that is still to run belongs to work that
\* one of its threads, queues or lists has: starting and stopping strand none, as
\* long as no release fails, no wait times out and no task panics.
NoStrandedLock ==
    config.faults = {} =>
        \A j \in Jobs : st[j] = "ready" /\ lock[j] # 0 =>
            \E x \in InHand : x # NoWork /\ x.job = j /\ x.lease = lock[j]

\* No two threads run the same job: the acquisition threads and a hint do not
\* both submit it.
NoDoubleRun ==
    \A t, u \in Threads :
        pc[t] = "run" /\ pc[u] = "run" /\ work[t].job = work[u].job => t = u

\* The same where rows are not unlocked behind the back of those that run them.
UnlockedByRunnerOnly == ~config.unlocks => NoDoubleRun

\* A pool is not shut down while an acquisition thread or the history dispatcher
\* may still offer to it: the order in which the engine joins the threads and stops
\* the pool.
PoolOutlivesSenders ==
    /\ \A a \in Acquirers : pc[a] # "off" => pool = made /\ pool \notin stopping
    /\ pc[Dispatcher] = "idle" /\ sender # 0 => pool = sender /\ pool \notin stopping

\* No release fails and nothing panics.
Orderly == config.faults \subseteq {"timeout"}

\* A shutdown comes to its end, again and again: joining the acquisition threads
\* and waiting for the pool do not depend on the thread that called it.
StopReturns == []<>(Orderly => control \notin {"dispatcher", "join", "await"})

\* Whoever offers a hint gets an answer: submit_direct_hint_job returns, during a
\* start or a shutdown as well.
HintAnswered == \A t \in Threads : []<>(Orderly => pc[t] # "offer")

\* What the pool accepted is taken from its queue, also when it is shut down: the
\* workers empty the channel before they leave.
AcceptedRun == \A p \in Pools : []<>(Orderly => queue[p] = <<>>)

\* As long as the history dispatcher is not told to stop it receives what commands
\* announce, whatever the store or the tasks of the pool do: dispatcher_loop does
\* not end on an error.
HistoryReceived == []<>(channel = <<>> \/ ~flag[Dispatcher])

=============================================================================
