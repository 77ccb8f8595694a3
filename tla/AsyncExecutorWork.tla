-------------------------- MODULE AsyncExecutorWork --------------------------
(***************************************************************************)
(* Who has a job in hand: no lock of the executor is stranded, and where   *)
(* the rows are not unlocked behind the back of those that run them, no    *)
(* two threads run the same job.                                           *)
(***************************************************************************)
EXTENDS AsyncExecutorProof

-----------------------------------------------------------------------------
(* Locks and the work that backs them.                                     *)

Has(x) ==
    \/ \E a \in Acquirers : x \in batch[a]
    \/ \E t \in Threads : x = work[t]
    \/ \E p \in Pools : x \in Items(queue[p])
    \/ x \in Items(temp)

LEMMA HasInHand ==
    /\ \A x : x \in InHand <=> Has(x)
    /\ \A x : x \in InHand' <=> Has(x)'
<1>1. \A x : x \in InHand <=> Has(x)
  BY DEF InHand, Has, Items
<1>2. \A x : x \in InHand' <=> Has(x)'
  BY DEF InHand, Has, Items
<1>. QED
  BY Zenon, <1>1, <1>2

\* A history job that is to be announced has no lease.
Announced == \A t \in Threads : pc[t] = "announce" => work[t].lease = 0

Backed(j) == \E x \in Work : Has(x) /\ x.job = j /\ x.lease = lock[j]

AllBacked ==
    config.faults = {} => \A j \in Jobs : st[j] = "ready" /\ lock[j] # 0 => Backed(j)

LEMMA BackedNotStranded == AllBacked => NoStrandedLock
<1>. SUFFICES ASSUME AllBacked, config.faults = {}, NEW j \in Jobs, st[j] = "ready", lock[j] # 0
              PROVE  \E x \in InHand : x # NoWork /\ x.job = j /\ x.lease = lock[j]
  BY Zenon DEF NoStrandedLock
<1>1. PICK x \in Work : Has(x) /\ x.job = j /\ x.lease = lock[j]
  BY Zenon DEF AllBacked, Backed
<1>2. x \in InHand /\ x # NoWork
  BY Zenon, <1>1, HasInHand, WorkAssumption
<1>. QED
  BY Zenon, <1>1, <1>2

\* The steps that may let go of what a thread has in hand.
Settles(t) ==
    RunStart(t) \/ RunCommit(t) \/ RunFail(t) \/ HintRead(t) \/ HintOffer(t) \/ Reject(t)
      \/ Announce(t)

LEMMA QueueKept ==
    ASSUME ListTypes, NEW p \in Pools, NEW x \in Work, Enqueue(p, x)
    PROVE  /\ \A q \in Pools : Items(queue[q]) \subseteq Items(queue'[q])
           /\ x \in Items(queue'[p])
<1>1. queue[p] \in Seq(Work) /\ queue \in [Pools -> Seq(Work)]
  BY Zenon DEF ListTypes
<1>2. Items(Append(queue[p], x)) = Items(queue[p]) \cup {x}
  BY <1>1, AppendItems
<1>. QED
  BY Zenon, <1>1, <1>2 DEF Enqueue

\* Where nothing goes wrong no work gets lost, but for what a thread settles and
\* what a start that finds no room releases.
LEMMA Kept ==
    ASSUME Shape, Next, config.faults = {}, NEW x \in Work, Has(x)
    PROVE  \/ Has(x)'
           \/ StartTemp /\ x = Head(temp) /\ ~Accepts(pool)
           \/ \E t \in Threads : Settles(t) /\ x = work[t]
<1>. DEFINE Goal == \/ Has(x)'
                    \/ StartTemp /\ x = Head(temp) /\ ~Accepts(pool)
                    \/ \E t \in Threads : Settles(t) /\ x = work[t]
<1>0. ListTypes /\ ControlTypes /\ ThreadTypes /\ Hands /\ Kinds /\ x # NoWork
  BY Zenon, ThreadKinds, WorkAssumption DEF Shape
<1>1. ASSUME UNCHANGED <<queue, temp, batch>>, NEW t \in Threads, work[t] = NoWork,
             \A u \in Threads \ {t} : work'[u] = work[u]
      PROVE  Has(x)'
  BY Zenon, <1>0, <1>1 DEF Has
<1>2. ASSUME UNCHANGED <<queue, temp, batch, work>>
      PROVE  Has(x)'
  BY Zenon, <1>2 DEF Has
<1>3. CASE Start \/ StartUnlock \/ StartError \/ StartPool \/ StartDone \/ Stop \/ StopThreads
           \/ StopPool \/ StopAwait \/ StopRelease \/ StopError
  <2>1. UNCHANGED <<queue, temp, batch, work>>
    BY Zenon, <1>3 DEF Start, StartUnlock, StartError, StartPool, StartDone, Stop, StopThreads,
                StopPool, StopAwait, StopRelease, StopError, threadVars, poolVars
  <2>. QED
    BY Zenon, <1>2, <2>1
<1>4. CASE StartTemp
  <2>1. temp \in Seq(Work) /\ temp # <<>> /\ temp' = Tail(temp) /\ UNCHANGED <<batch, work>>
    BY Zenon, <1>0, <1>4 DEF StartTemp, ListTypes, threadVars
  <2>2. Head(temp) \in Work /\ Items(temp) = Items(temp') \cup {Head(temp)}
    BY Zenon, <2>1, TailItems
  <2>3. CASE Accepts(pool) /\ Enqueue(pool, Head(temp))
    <3>1. pool \in Pools
      BY Zenon, <1>0, <2>3 DEF Accepts, ControlTypes
    <3>2. /\ \A q \in Pools : Items(queue[q]) \subseteq Items(queue'[q])
          /\ Head(temp) \in Items(queue'[pool])
      BY Zenon, <1>0, <2>2, <2>3, <3>1, QueueKept
    <3>. QED
      BY Zenon, <2>1, <2>2, <3>1, <3>2 DEF Has
  <2>4. CASE ~Accepts(pool) /\ queue' = queue
    BY Zenon, <1>4, <2>1, <2>2, <2>4 DEF Has
  <2>. QED
    BY Zenon, <1>4, <2>3, <2>4 DEF StartTemp
<1>5. CASE StartDispatcher \/ LeaveDispatcher
  <2>1. UNCHANGED <<queue, temp, batch>> /\ Dispatcher \in Threads
    BY Zenon, <1>0, <1>5 DEF StartDispatcher, LeaveDispatcher, poolVars, Kinds
  <2>2. work' = work \/ (pc[Dispatcher] \in {"off", "idle"}
                         /\ work' = [work EXCEPT ![Dispatcher] = NoWork])
    BY Zenon, <1>5 DEF StartDispatcher, LeaveDispatcher, Goto
  <2>3. CASE work' = work
    BY Zenon, <1>2, <2>1, <2>3
  <2>4. CASE pc[Dispatcher] \in {"off", "idle"} /\ work' = [work EXCEPT ![Dispatcher] = NoWork]
    <3>1. work[Dispatcher] = NoWork
      BY Zenon, <1>0, <2>1, <2>4 DEF Hands, Wait
    <3>. QED
      BY Zenon, <1>0, <1>1, <2>1, <2>4, <3>1 DEF ThreadTypes
  <2>. QED
    BY Zenon, <2>2, <2>3, <2>4
<1>6. CASE ClientActivates \/ RecordHistory
  <2>1. UNCHANGED <<queue, temp, batch>> /\ Client \in Threads /\ pc[Client] = "idle"
    BY Zenon, <1>0, <1>6 DEF ClientActivates, RecordHistory, poolVars, Kinds
  <2>2. \E y : work' = [work EXCEPT ![Client] = y]
    BY Zenon, <1>6 DEF ClientActivates, RecordHistory, Activation, Finish, Goto
  <2>3. work[Client] = NoWork
    BY Zenon, <1>0, <2>1 DEF Hands, Wait
  <2>. QED
    BY Zenon, <1>0, <1>1, <2>1, <2>2, <2>3 DEF ThreadTypes
<1>7. ASSUME NEW t \in Threads, Settles(t) PROVE Goal
  <2>1. CASE x = work[t]
    BY Zenon, <1>7, <2>1
  <2>2. CASE HintOffer(t) /\ x # work[t]
    <3>1. batch' = batch /\ work[t] \in Work /\ \A u \in Threads \ {t} : work'[u] = work[u]
      BY Zenon, <1>0, <2>2, HandTypes DEF HintOffer, Finish, Goto, ThreadTypes, Wait
    <3>2. Items(temp) \subseteq Items(temp')
      <4>1. temp \in Seq(Work) /\ temp' \in {temp, Append(temp, work[t])}
        BY Zenon, <1>0, <2>2 DEF HintOffer, ListTypes
      <4>2. Items(Append(temp, work[t])) = Items(temp) \cup {work[t]}
        BY <3>1, <4>1, AppendItems
      <4>. QED
        BY Zenon, <4>1, <4>2
    <3>3. \A q \in Pools : Items(queue[q]) \subseteq Items(queue'[q])
      BY Zenon, <1>0, <2>2, <3>1, QueueKept DEF HintOffer, Accepts, ControlTypes
    <3>. QED
      BY Zenon, <2>2, <3>1, <3>2, <3>3 DEF Has
  <2>3. CASE ~HintOffer(t) /\ x # work[t]
    <3>1. UNCHANGED <<queue, temp, batch>>
      BY Zenon, <1>7, <2>3 DEF Settles, RunStart, RunCommit, RunFail, HintRead, Reject, Announce, poolVars
    <3>2. \E y : work' = [work EXCEPT ![t] = y]
      BY Zenon, <1>7, <2>3 DEF Settles, RunStart, RunCommit, RunFail, HintRead, Reject, Announce,
                        Activation, Finish, Goto
    <3>. QED
      BY Zenon, <1>0, <2>3, <3>1, <3>2 DEF Has, ThreadTypes
  <2>. QED
    BY Zenon, <2>1, <2>2, <2>3
<1>8. CASE Dispatch
  <2>1. UNCHANGED <<temp, batch, work>>
    BY Zenon, <1>8 DEF Dispatch, Skipped
  <2>2. \A q \in Pools : Items(queue[q]) \subseteq Items(queue'[q])
    <3>1. channel \in Seq(Work) /\ channel # <<>>
      BY Zenon, <1>0, <1>8 DEF Dispatch, ListTypes
    <3>2. Head(channel) \in Work
      BY Zenon, <3>1, TailItems
    <3>. QED
      BY Zenon, <1>0, <1>8, <3>2, QueueKept DEF Dispatch, Accepts, ControlTypes
  <2>. QED
    BY Zenon, <2>1, <2>2 DEF Has
<1>9. ASSUME NEW a \in Acquirers, Offer(a) PROVE Has(x)'
  <2>1. PICK y \in batch[a] :
          /\ batch' = [batch EXCEPT ![a] = @ \ {y}]
          /\ \/ Accepts(made) /\ Enqueue(made, y) /\ UNCHANGED <<pc, work>>
             \/ UNCHANGED queue /\ (Goto(a, "start", y) \/ Goto(a, "reject", y))
    BY Zenon, <1>9 DEF Offer
  <2>2. temp' = temp /\ pc[a] = "batch" /\ y \in Work /\ a \in Threads
    BY Zenon, <1>0, <1>9 DEF Offer, ThreadTypes, Kinds
  <2>3. work[a] = NoWork
    BY Zenon, <1>0, <2>2 DEF Hands, Wait
  <2>4. \A b \in Acquirers : batch[b] \subseteq batch'[b] \cup {y}
    BY Zenon, <1>0, <2>1 DEF ThreadTypes
  <2>5. CASE Accepts(made) /\ Enqueue(made, y) /\ UNCHANGED <<pc, work>>
    <3>1. made \in Pools
      BY Zenon, <1>0, <2>5 DEF Accepts, ControlTypes
    <3>2. /\ \A q \in Pools : Items(queue[q]) \subseteq Items(queue'[q])
          /\ y \in Items(queue'[made])
      BY Zenon, <1>0, <2>2, <2>5, <3>1, QueueKept
    <3>. QED
      BY Zenon, <2>2, <2>4, <2>5, <3>1, <3>2 DEF Has
  <2>6. CASE UNCHANGED queue /\ (Goto(a, "start", y) \/ Goto(a, "reject", y))
    <3>1. work'[a] = y /\ \A u \in Threads \ {a} : work'[u] = work[u]
      BY Zenon, <1>0, <2>2, <2>6 DEF Goto, ThreadTypes
    <3>. QED
      BY Zenon, <1>0, <2>2, <2>3, <2>4, <2>6, <3>1 DEF Has
  <2>. QED
    BY Zenon, <2>1, <2>5, <2>6
<1>10. ASSUME NEW a \in Acquirers, NextRound(a) \/ Leave(a) PROVE Has(x)'
  BY Zenon, <1>2, <1>10 DEF NextRound, Leave, poolVars
<1>11. ASSUME NEW a \in Acquirers, Acquire(a) PROVE Has(x)'
  <2>1. UNCHANGED <<queue, temp, work>> /\ batch[a] = {}
    BY Zenon, <1>0, <1>11 DEF Acquire, Hands, poolVars
  <2>2. \A b \in Acquirers : batch[b] \subseteq batch'[b]
    BY Zenon, <1>0, <1>11, <2>1 DEF Acquire, ThreadTypes
  <2>. QED
    BY Zenon, <2>1, <2>2 DEF Has
<1>12. ASSUME NEW w \in Workers, Take(w) PROVE Has(x)'
  <2>. DEFINE p == Pool[w]
  <2>1. /\ p \in Pools /\ queue[p] \in Seq(Work) /\ queue[p] # <<>> /\ w \in Threads
        /\ queue' = [queue EXCEPT ![p] = Tail(@)] /\ UNCHANGED <<temp, batch>>
        /\ work' = [work EXCEPT ![w] = Head(queue[p])] /\ pc[w] = "idle"
    BY Zenon, <1>0, <1>12, PoolAssumption DEF Take, Goto, ListTypes, Kinds
  <2>2. work[w] = NoWork
    BY Zenon, <1>0, <2>1 DEF Hands, Wait
  <2>3. Items(queue[p]) = Items(Tail(queue[p])) \cup {Head(queue[p])}
    BY Zenon, <2>1, TailItems
  <2>4. \A q \in Pools : Items(queue[q]) \subseteq Items(queue'[q]) \cup {Head(queue[p])}
    BY Zenon, <1>0, <2>1, <2>3 DEF ListTypes
  <2>5. work'[w] = Head(queue[p]) /\ \A u \in Threads \ {w} : work'[u] = work[u]
    BY Zenon, <1>0, <2>1 DEF ThreadTypes
  <2>. QED
    BY Zenon, <1>0, <2>1, <2>2, <2>4, <2>5 DEF Has
<1>13. ASSUME NEW w \in Workers, WorkerExit(w) PROVE Has(x)'
  <2>1. /\ UNCHANGED <<queue, temp, batch>> /\ w \in Threads /\ pc[w] = "idle"
        /\ work' = [work EXCEPT ![w] = NoWork]
    BY Zenon, <1>0, <1>13 DEF WorkerExit, Goto, Kinds, poolVars
  <2>2. work[w] = NoWork
    BY Zenon, <1>0, <2>1 DEF Hands, Wait
  <2>. QED
    BY Zenon, <1>0, <1>1, <2>1, <2>2 DEF ThreadTypes
<1>14. ~(\E a \in Acquirers : PanicInline(a)) /\ ~(\E w \in Workers : Panic(w))
  BY Zenon DEF PanicInline, Panic
<1>. QED
  BY Zenon, <1>3, <1>4, <1>5, <1>6, <1>7, <1>8, <1>9, <1>10, <1>11, <1>12, <1>13, <1>14
     DEF Next, ControlStep, ThreadStep, Settles

\* A lock on a job that is to run was there before, or the step that took it has the
\* work in hand.
LEMMA NewLock ==
    ASSUME Shape, Next, NEW j \in Jobs, st'[j] = "ready", lock'[j] # 0
    PROVE  (st[j] = "ready" /\ lock'[j] = lock[j]) \/ Backed(j)'
<1>. DEFINE Same == st[j] = "ready" /\ lock'[j] = lock[j]
<1>0. RowTypes /\ ThreadTypes /\ NeverLeased /\ Kinds
  BY Zenon, ThreadKinds DEF Shape
<1>1. CASE UNCHANGED <<st, lock, last>>
  BY Zenon, <1>1
<1>2. CASE StartUnlock \/ StopRelease
  BY Zenon, <1>0, <1>2 DEF StartUnlock, StopRelease, UnlockAll, RowTypes
<1>3. CASE StartTemp
  BY Zenon, <1>0, <1>3 DEF StartTemp, Unlock, RowTypes
<1>4. CASE RecordHistory
  BY Zenon, <1>0, <1>4 DEF RecordHistory, NeverLeased, RowTypes
<1>5. ASSUME NEW t \in Threads, NEW k \in Jobs, st[k] = "suspended", Activation(t, k),
             j # k => st[j] = "ready"
      PROVE  Same \/ Backed(j)'
  <2>1. CASE j # k
    BY Zenon, <1>0, <1>5, <2>1 DEF Activation, RowTypes
  <2>2. CASE j = k /\ active
    <3>1. last[k] + 1 \in 0..MaxLeases
      BY <1>0, <1>5, PoolAssumption DEF NeverLeased
    <3>. DEFINE x == [job |-> k, lease |-> last[k] + 1, hint |-> TRUE]
    <3>2. x \in Work /\ x.job = k /\ x.lease = last[k] + 1
      BY Zenon, <3>1 DEF Work
    <3>3. work'[t] = x /\ lock'[k] = last[k] + 1
      BY Zenon, <1>0, <1>5, <2>2 DEF Activation, Goto, RowTypes, ThreadTypes
    <3>. QED
      BY Zenon, <2>2, <3>2, <3>3 DEF Backed, Has
  <2>3. CASE j = k /\ ~active
    BY Zenon, <1>0, <1>5, <2>3 DEF Activation, NeverLeased
  <2>. QED
    BY Zenon, <2>1, <2>2, <2>3
<1>6. CASE ClientActivates
  <2>1. PICK k \in Jobs : /\ st[k] = "suspended" /\ st' = [st EXCEPT ![k] = "ready"]
                          /\ Activation(Client, k)
    BY Zenon, <1>6 DEF ClientActivates
  <2>. QED
    BY Zenon, <1>0, <1>5, <2>1 DEF RowTypes, Kinds
<1>7. ASSUME NEW t \in Threads, RunCommit(t) PROVE Same \/ Backed(j)'
  <2>. DEFINE i == work[t].job
              k == config.activates[i]
  <2>1. i \in Jobs /\ k \in Jobs \cup {NoJob}
    BY Zenon, <1>0, <1>7, HandTypes, Configured DEF RunCommit, Wait
  <2>2. CASE k # NoJob /\ st[k] = "suspended"
    <3>1. st' = [st EXCEPT ![i] = "done", ![k] = "ready"] /\ Activation(t, k) /\ k \in Jobs
      BY Zenon, <1>7, <2>1, <2>2 DEF RunCommit
    <3>2. j # k => st[j] = "ready"
      BY Zenon, <1>0, <2>1, <3>1 DEF RowTypes
    <3>. QED
      BY Zenon, <1>5, <2>2, <3>1, <3>2
  <2>3. CASE ~(k # NoJob /\ st[k] = "suspended")
    BY Zenon, <1>0, <1>7, <2>1, <2>3 DEF RunCommit, RowTypes
  <2>. QED
    BY Zenon, <2>2, <2>3
<1>8. ASSUME NEW t \in Threads, RunFail(t) \/ Reject(t) PROVE Same
  <2>1. work[t].job \in Jobs
    BY Zenon, <1>8, HandTypes DEF RunFail, Reject, Wait
  <2>. QED
    BY Zenon, <1>0, <1>8, <2>1 DEF RunFail, Reject, Unlock, RowTypes
<1>9. ASSUME NEW a \in Acquirers, Acquire(a) PROVE Same \/ Backed(j)'
  <2>1. PICK S \in SUBSET {i \in Jobs : Acquirable(i)} :
          /\ lock' = [i \in Jobs |-> IF i \in S THEN last[i] + 1 ELSE lock[i]]
          /\ batch' = [batch EXCEPT ![a] =
                         {[job |-> i, lease |-> last[i] + 1, hint |-> FALSE] : i \in S}]
    BY Zenon, <1>9 DEF Acquire
  <2>2. CASE j \in S
    <3>. DEFINE x == [job |-> j, lease |-> last[j] + 1, hint |-> FALSE]
    <3>1. last[j] + 1 \in 0..MaxLeases
      BY <1>0, <2>2, PoolAssumption DEF Acquirable, RowTypes
    <3>2. x \in Work /\ x.job = j /\ x.lease = last[j] + 1
      BY Zenon, <3>1 DEF Work
    <3>3. x \in batch'[a] /\ lock'[j] = last[j] + 1
      BY Zenon, <1>0, <2>1, <2>2 DEF ThreadTypes
    <3>. QED
      BY Zenon, <3>2, <3>3 DEF Backed, Has
  <2>3. CASE j \notin S
    BY Zenon, <1>9, <2>1, <2>3 DEF Acquire
  <2>. QED
    BY Zenon, <2>2, <2>3
<1>. QED
  BY Zenon, <1>1, <1>2, <1>3, <1>4, <1>6, <1>7, <1>8, <1>9, RowFrame

LEMMA BackedStep == Shape /\ Announced /\ AllBacked /\ Next => AllBacked'
<1>. SUFFICES ASSUME Shape, Announced, AllBacked, Next, config'.faults = {},
                     NEW j \in Jobs, st'[j] = "ready", lock'[j] # 0
              PROVE  Backed(j)'
  BY Zenon DEF AllBacked
<1>0. RowTypes /\ ListTypes /\ ControlTypes /\ ThreadTypes /\ config.faults = {}
  BY Zenon DEF Shape, Next
<1>. SUFFICES ASSUME st[j] = "ready", lock'[j] = lock[j]
              PROVE  Backed(j)'
  BY Zenon, NewLock
<1>1. PICK x \in Work : Has(x) /\ x.job = j /\ x.lease = lock[j]
  BY Zenon, <1>0 DEF AllBacked, Backed
<1>2. CASE Has(x)'
  BY Zenon, <1>1, <1>2 DEF Backed
<1>3. CASE StartTemp /\ x = Head(temp) /\ ~Accepts(pool)
  BY Zenon, <1>0, <1>1, <1>3 DEF StartTemp, Releasable, Unlock, RowTypes
<1>4. ASSUME NEW t \in Threads, Settles(t), x = work[t]
      PROVE  Backed(j)'
  <2>1. CASE RunStart(t)
    BY Zenon, <1>0, <1>1, <1>4, <2>1 DEF RunStart, MayRun, Goto, ThreadTypes, Backed, Has
  <2>2. CASE HintRead(t)
    <3>. DEFINE y == [job |-> j, lease |-> lock[j], hint |-> TRUE]
    <3>1. y \in Work /\ y.job = j /\ y.lease = lock[j]
      BY Zenon, <1>0 DEF Work, RowTypes
    <3>2. work'[t] = y
      BY Zenon, <1>0, <1>1, <1>4, <2>2 DEF HintRead, Goto, ThreadTypes
    <3>. QED
      BY Zenon, <3>1, <3>2 DEF Backed, Has
  <2>3. CASE RunCommit(t) \/ RunFail(t)
    BY Zenon, <1>0, <1>1, <1>4, <2>3 DEF RunCommit, RunFail, Unlock, RowTypes
  <2>4. CASE HintOffer(t)
    <3>1. CASE ~active
      <4>1. temp \in Seq(Work) /\ temp' = Append(temp, x)
        BY Zenon, <1>0, <1>1, <1>4, <2>4, <3>1 DEF HintOffer, ListTypes
      <4>2. x \in Items(temp')
        BY <4>1, AppendItems
      <4>. QED
        BY Zenon, <1>1, <4>2 DEF Backed, Has
    <3>2. CASE active /\ Accepts(pool)
      <4>1. pool \in Pools /\ Enqueue(pool, x)
        BY Zenon, <1>0, <1>4, <2>4, <3>2 DEF HintOffer, Accepts, ControlTypes
      <4>2. x \in Items(queue'[pool])
        BY Zenon, <1>0, <4>1, QueueKept
      <4>. QED
        BY Zenon, <1>1, <4>1, <4>2 DEF Backed, Has
    <3>3. CASE active /\ ~Accepts(pool)
      BY Zenon, <1>0, <1>1, <1>4, <2>4, <3>3 DEF HintOffer, Goto, ThreadTypes, Backed, Has
    <3>. QED
      BY Zenon, <1>0, <3>1, <3>2, <3>3
  <2>5. CASE Reject(t)
    BY Zenon, <1>0, <1>1, <1>4, <2>5 DEF Reject, Releasable, Unlock, RowTypes
  <2>6. CASE Announce(t)
    BY Zenon, <1>1, <1>4, <2>6 DEF Announce, Announced
  <2>. QED
    BY Zenon, <1>4, <2>1, <2>2, <2>3, <2>4, <2>5, <2>6 DEF Settles
<1>. QED
  BY Zenon, <1>0, <1>1, <1>2, <1>3, <1>4, Kept

LEMMA AnnouncedStep == Shape /\ Announced /\ Next => Announced'
<1>. SUFFICES ASSUME Shape, Announced, Next PROVE Announced'
  BY Zenon
<1>0. ThreadTypes /\ Kinds
  BY Zenon, ThreadKinds DEF Shape
<1>1. ASSUME NEW t \in Threads, NEW label, NEW x, Goto(t, label, x), label # "announce"
      PROVE  Announced'
  BY Zenon, <1>0, <1>1 DEF Goto, Announced, ThreadTypes
<1>2. ASSUME NEW t \in Threads, Finish(t) PROVE Announced'
  BY Zenon, <1>1, <1>2 DEF Finish
<1>3. ASSUME NEW t \in Threads, NEW k, Activation(t, k) PROVE Announced'
  BY Zenon, <1>1, <1>2, <1>3 DEF Activation
<1>4. ASSUME work' = work, NEW t \in Threads, NEW label, label # "announce",
             pc' = [pc EXCEPT ![t] = label]
      PROVE  Announced'
  BY Zenon, <1>0, <1>4 DEF Announced, ThreadTypes
<1>5. ASSUME UNCHANGED <<pc, work>> PROVE Announced'
  BY Zenon, <1>5 DEF Announced
<1>6. CASE Start \/ StartUnlock \/ StartError \/ StartTemp \/ StartDone \/ Stop \/ StopThreads
           \/ StopPool \/ StopAwait \/ StopRelease \/ StopError
  BY Zenon, <1>5, <1>6 DEF Start, StartUnlock, StartError, StartTemp, StartDone, Stop, StopThreads,
                    StopPool, StopAwait, StopRelease, StopError, threadVars
<1>7. CASE StartPool
  BY Zenon, <1>0, <1>7 DEF StartPool, Announced, ThreadTypes
<1>8. CASE StartDispatcher \/ LeaveDispatcher \/ Dispatch
  BY Zenon, <1>0, <1>1, <1>5, <1>8 DEF StartDispatcher, LeaveDispatcher, Dispatch, Skipped, Kinds
<1>9. CASE RecordHistory
  BY <1>0, <1>9 DEF RecordHistory, Goto, Announced, ThreadTypes, Kinds
<1>10. CASE ClientActivates
  BY Zenon, <1>0, <1>3, <1>10 DEF ClientActivates, Kinds
<1>11. ASSUME NEW t \in Threads, RunStart(t) \/ RunCommit(t) \/ RunFail(t) PROVE Announced'
  BY Zenon, <1>1, <1>2, <1>3, <1>11 DEF RunStart, RunCommit, RunFail
<1>12. ASSUME NEW t \in Threads, HintRead(t) \/ HintOffer(t) \/ Reject(t) \/ Announce(t)
       PROVE  Announced'
  BY Zenon, <1>1, <1>2, <1>12 DEF HintRead, HintOffer, Reject, Announce
<1>13. ASSUME NEW a \in Acquirers, Offer(a) PROVE Announced'
  BY Zenon, <1>0, <1>1, <1>5, <1>13 DEF Offer, Kinds
<1>14. ASSUME NEW a \in Acquirers, NextRound(a) \/ Leave(a) \/ Acquire(a) PROVE Announced'
  BY Zenon, <1>0, <1>4, <1>14 DEF NextRound, Leave, Acquire, Kinds
<1>15. ASSUME NEW a \in Acquirers, PanicInline(a) PROVE Announced'
  BY Zenon, <1>0, <1>1, <1>15 DEF PanicInline, Kinds
<1>16. ASSUME NEW w \in Workers, Take(w) \/ WorkerExit(w) \/ Panic(w) PROVE Announced'
  BY Zenon, <1>0, <1>1, <1>16 DEF Take, WorkerExit, Panic, Kinds
<1>. QED
  BY Zenon, <1>6, <1>7, <1>8, <1>9, <1>10, <1>11, <1>12, <1>13, <1>14, <1>15, <1>16
     DEF Next, ControlStep, ThreadStep

\* Starting and stopping the executor strand no lock: as long as no release fails, no
\* wait times out and no task panics, every lock on a job that is still to run belongs
\* to work that a thread, a queue or temporary_jobs has.
THEOREM ExecutorNoStrandedLock == Spec => []NoStrandedLock
<1>1. Init => Announced /\ AllBacked
  BY Zenon DEF Init, Announced, AllBacked
<1>2. Shape /\ Announced /\ AllBacked /\ [Next]_vars => Announced' /\ AllBacked'
  <2>1. ASSUME Announced, AllBacked, UNCHANGED vars PROVE Announced' /\ AllBacked'
    BY <2>1 DEF vars, rows, poolVars, history, threadVars, Announced, AllBacked, Backed, Has
  <2>. QED
    BY Zenon, <2>1, AnnouncedStep, BackedStep
<1>. QED
  BY <1>1, <1>2, ShapeInv, BackedNotStranded, PTL DEF Spec

-----------------------------------------------------------------------------
(* One place for every job.                                                *)

\* Place n of a kind has work for job j: the batch or the hands of a thread, the
\* queue of a pool, temporary_jobs or the channel of the history dispatcher.
At(kind, n, j) ==
    \/ kind = "batch" /\ n \in Acquirers /\ \E x \in batch[n] : x.job = j
    \/ kind = "work" /\ n \in Threads /\ work[n] # NoWork /\ work[n].job = j
    \/ kind = "queue" /\ n \in Pools /\ \E x \in Items(queue[n]) : x.job = j
    \/ kind = "temp" /\ n = 0 /\ \E x \in Items(temp) : x.job = j
    \/ kind = "channel" /\ n = 0 /\ \E x \in Items(channel) : x.job = j

\* A job is in one place at most, ...
Sole == \A k, l, m, n, j : At(k, m, j) /\ At(l, n, j) => k = l /\ m = n

\* ... once, ...
Distinct(s) == \A i, k \in 1..Len(s) : s[i].job = s[k].job => i = k

Once ==
    /\ \A a \in Acquirers : \A x, y \in batch[a] : x.job = y.job => x = y
    /\ \A p \in Pools : Distinct(queue[p])
    /\ Distinct(temp) /\ Distinct(channel)

\* ... and from then on it is locked, unless it is a history job.
Taken(j) == st[j] # "unwritten" /\ (j \in config.history \/ lock[j] # 0)

AllTaken == \A k, n, j : At(k, n, j) => Taken(j)

Placed == Sole /\ Once /\ AllTaken

OnePlace == ~config.unlocks => Placed

LEMMA OnePlaceRuns == Shape /\ OnePlace => UnlockedByRunnerOnly
<1>. SUFFICES ASSUME Shape, Sole, NEW t \in Threads, NEW u \in Threads,
                     pc[t] = "run", pc[u] = "run",
                     work[t].job = work[u].job
              PROVE  t = u
  BY Zenon DEF OnePlace, Placed, UnlockedByRunnerOnly, NoDoubleRun
<1>1. work[t] # NoWork /\ work[u] # NoWork
  BY Zenon DEF Shape, Hands, Wait
<1>2. At("work", t, work[t].job) /\ At("work", u, work[t].job)
  BY Zenon, <1>1 DEF At
<1>. QED
  BY Zenon, <1>2 DEF Sole

LEMMA AtJobs ==
    ASSUME Shape, NEW k, NEW n, NEW j, At(k, n, j)
    PROVE  j \in Jobs
<1>1. ListTypes /\ ThreadTypes
  BY Zenon DEF Shape
<1>2. \A x \in Work : x.job \in Jobs
  BY Zenon DEF Work
<1>3. \A s \in Seq(Work) : Items(s) \subseteq Work
  BY DEF Items
<1>. QED
  BY Zenon, <1>1, <1>2, <1>3 DEF At, ListTypes, ThreadTypes

LEMMA DistinctTail ==
    ASSUME NEW s \in Seq(Work), s # <<>>, Distinct(s)
    PROVE  Distinct(Tail(s)) /\ \A x \in Items(Tail(s)) : x.job # Head(s).job
<1>1. /\ Tail(s) \in Seq(Work) /\ Len(Tail(s)) = Len(s) - 1 /\ Len(s) \in Nat /\ Head(s) = s[1]
      /\ \A i \in 1..Len(Tail(s)) : Tail(s)[i] = s[i + 1]
  OBVIOUS
<1>2. \A i \in 1..Len(Tail(s)) : i + 1 \in 1..Len(s) /\ i + 1 # 1 /\ 1 \in 1..Len(s)
  BY <1>1
<1>3. Distinct(Tail(s))
  <2>. SUFFICES ASSUME NEW i \in 1..Len(Tail(s)), NEW k \in 1..Len(Tail(s)),
                       Tail(s)[i].job = Tail(s)[k].job
                PROVE  i = k
    BY Zenon DEF Distinct
  <2>1. i + 1 = k + 1
    BY <1>1, <1>2 DEF Distinct
  <2>. QED
    BY <1>1, <2>1
<1>4. \A i \in 1..Len(Tail(s)) : Tail(s)[i].job # Head(s).job
  BY Zenon, <1>1, <1>2 DEF Distinct
<1>. QED
  BY Zenon, <1>3, <1>4 DEF Items

LEMMA DistinctAppend ==
    ASSUME NEW s \in Seq(Work), NEW x \in Work, Distinct(s),
           \A y \in Items(s) : y.job # x.job
    PROVE  Distinct(Append(s, x))
<1>1. /\ Len(Append(s, x)) = Len(s) + 1 /\ Len(s) \in Nat
      /\ \A i \in 1..Len(s) : Append(s, x)[i] = s[i]
      /\ Append(s, x)[Len(s) + 1] = x
  OBVIOUS
<1>2. \A i \in 1..Len(s) : s[i].job # x.job
  BY Zenon DEF Items
<1>3. \A i \in 1..(Len(s) + 1) : i \in 1..Len(s) \/ i = Len(s) + 1
  BY <1>1
<1>. QED
  BY Zenon, <1>1, <1>2, <1>3 DEF Distinct

\* What a step does to the places: the jobs of S are nowhere but at one place, if
\* that, and nothing else comes to any place.
Flow(S, kind, n) ==
    \A k, m, j : At(k, m, j)' => \/ j \notin S /\ At(k, m, j)
                                 \/ j \in S /\ k = kind /\ m = n

LEMMA FlowSole ==
    ASSUME Sole, NEW S, NEW kind, NEW n, Flow(S, kind, n)
    PROVE  Sole'
  BY DEF Sole, Flow

\* An unlocked row is one whose job is nowhere any more.
LEMMA FlowTaken ==
    ASSUME Shape, AllTaken, NEW S, NEW kind, NEW n, Flow(S, kind, n),
           \A j \in S : kind # "nowhere" => Taken(j)',
           \A j \in Jobs \ S : Taken(j) => Taken(j)'
    PROVE  AllTaken'
<1>. SUFFICES ASSUME NEW k, NEW m, NEW j, At(k, m, j)' PROVE Taken(j)'
  BY Zenon DEF AllTaken
<1>1. CASE j \notin S /\ At(k, m, j)
  BY Zenon, <1>1, AtJobs DEF AllTaken
<1>2. CASE j \in S /\ k = kind /\ m = n
  BY Zenon, <1>2 DEF At
<1>. QED
  BY <1>1, <1>2 DEF Flow

\* A step that puts y into the hands of a thread, and may throw work away elsewhere.
Hand(t, y) ==
    /\ work' = [work EXCEPT ![t] = y]
    /\ \A a \in Acquirers : batch'[a] \subseteq batch[a]
    /\ \A p \in Pools : queue'[p] \in {queue[p], <<>>}
    /\ UNCHANGED <<temp, channel>>

LEMMA HandFlow ==
    ASSUME ThreadTypes, Once, NEW t \in Threads, NEW y, Hand(t, y)
    PROVE  /\ \A k, m, i : At(k, m, i)' => \/ At(k, m, i) /\ ~(k = "work" /\ m = t)
                                           \/ y # NoWork /\ i = y.job /\ k = "work" /\ m = t
           /\ Once'
<1>1. \A p \in Pools : Items(queue'[p]) \subseteq Items(queue[p])
  BY Zenon, NoItems DEF Hand
<1>2. \A u \in Threads : work'[u] = IF u = t THEN y ELSE work[u]
  BY Zenon DEF Hand, ThreadTypes
<1>3. Distinct(<<>>)
  BY DEF Distinct
<1>4. Once'
  BY Zenon, <1>3 DEF Once, Hand
<1>5. ASSUME NEW k, NEW m, NEW i, At(k, m, i)'
      PROVE  \/ At(k, m, i) /\ ~(k = "work" /\ m = t)
             \/ y # NoWork /\ i = y.job /\ k = "work" /\ m = t
  BY Zenon, <1>1, <1>2, <1>5 DEF At, Hand
<1>. QED
  BY Zenon, <1>4, <1>5

\* The job in hand is let go.
LEMMA Drop ==
    ASSUME Shape, Placed, NEW t \in Threads, work[t] # NoWork, Hand(t, NoWork),
           \A j \in Jobs \ {work[t].job} : Taken(j) => Taken(j)'
    PROVE  Placed'
<1>. DEFINE j == work[t].job
<1>1. Once' /\ \A k, m, i : At(k, m, i)' => At(k, m, i) /\ ~(k = "work" /\ m = t)
  BY Zenon, HandFlow DEF Shape, Placed
<1>2. At("work", t, j)
  BY Zenon DEF At
<1>3. Flow({j}, "nowhere", 0)
  BY <1>1, <1>2 DEF Flow, Placed, Sole
<1>. QED
  BY Zenon, <1>1, <1>3, FlowSole, FlowTaken DEF Placed

\* It stays in hand.
LEMMA Keep ==
    ASSUME Shape, Placed, NEW t \in Threads, NEW y, work[t] # NoWork, y.job = work[t].job,
           Hand(t, y), \A j \in Jobs : Taken(j) => Taken(j)'
    PROVE  Placed'
<1>1. Once' /\ \A k, m, i : At(k, m, i)' => \/ At(k, m, i) /\ ~(k = "work" /\ m = t)
                                            \/ i = y.job /\ k = "work" /\ m = t
  BY HandFlow DEF Shape, Placed
<1>2. At("work", t, y.job)
  BY Zenon DEF At
<1>3. Flow({}, "nowhere", 0)
  BY <1>1, <1>2 DEF Flow
<1>. QED
  BY Zenon, <1>1, <1>3, FlowSole, FlowTaken DEF Placed

\* A job that is nowhere comes into the hands of a thread.
LEMMA Enter ==
    ASSUME Shape, Placed, NEW t \in Threads, NEW y, ~Taken(y.job), Hand(t, y), Taken(y.job)',
           \A j \in Jobs \ {y.job} : Taken(j) => Taken(j)'
    PROVE  Placed'
<1>1. Once' /\ \A k, m, i : At(k, m, i)' => \/ At(k, m, i) /\ ~(k = "work" /\ m = t)
                                            \/ i = y.job /\ k = "work" /\ m = t
  BY HandFlow DEF Shape, Placed
<1>2. \A k, m : ~At(k, m, y.job)
  BY Zenon DEF Placed, AllTaken
<1>3. Flow({y.job}, "work", t)
  BY <1>1, <1>2 DEF Flow
<1>. QED
  BY <1>1, <1>3, FlowSole, FlowTaken DEF Placed

\* Nothing comes to any place but the job j to one of them.
Brings(j, kind, n) ==
    \A k, m, i : At(k, m, i)' => At(k, m, i) \/ (i = j /\ k = kind /\ m = n)

\* The other jobs stay taken.
OthersTaken(j) == \A i \in Jobs \ {j} : Taken(i) => Taken(i)'

\* A job goes from one place to another, or gets lost on the way.
LEMMA Carry ==
    ASSUME Shape, Placed, Once', NEW j, NEW k, NEW m, NEW kind, NEW n,
           At(k, m, j), ~At(k, m, j)', Brings(j, kind, n),
           kind # "nowhere" => Taken(j)', OthersTaken(j)
    PROVE  Placed'
<1>1. Flow({j}, kind, n)
  BY DEF Placed, Sole, Flow, Brings
<1>. QED
  BY <1>1, FlowSole, FlowTaken DEF Placed, OthersTaken

LEMMA EnqueueOnce ==
    ASSUME ListTypes, Once, NEW p \in Pools, NEW x \in Work, Enqueue(p, x),
           ~At("queue", p, x.job)
    PROVE  /\ \A q \in Pools : Distinct(queue'[q])
           /\ \A o, i : At("queue", o, i)' => At("queue", o, i) \/ (i = x.job /\ o = p)
<1>1. queue[p] \in Seq(Work) /\ queue \in [Pools -> Seq(Work)] /\ Distinct(queue[p])
  BY Zenon DEF ListTypes, Once
<1>2. Items(Append(queue[p], x)) = Items(queue[p]) \cup {x}
  BY <1>1, AppendItems
<1>3. \A y \in Items(queue[p]) : y.job # x.job
  BY Zenon DEF At
<1>4. Distinct(Append(queue[p], x))
  BY Zenon, <1>1, <1>3, DistinctAppend
<1>5. \A q \in Pools : queue'[q] = IF q = p THEN Append(queue[q], x) ELSE queue[q]
  BY Zenon, <1>1 DEF Enqueue
<1>6. \A q \in Pools : Distinct(queue'[q])
  BY Zenon, <1>4, <1>5 DEF Once
<1>7. \A q \in Pools : Items(queue'[q]) = IF q = p THEN Items(queue[q]) \cup {x}
                                                     ELSE Items(queue[q])
  BY Zenon, <1>2, <1>5
<1>. QED
  BY Zenon, <1>6, <1>7 DEF At

\* Steps that leave the work where it is.
LEMMA StaysPlaced ==
    ASSUME Placed, UNCHANGED <<config, st, lock, batch, work, queue, temp, channel>>
    PROVE  Placed'
  BY DEF Placed, Sole, Once, AllTaken, Taken, At

LEMMA StartTempPlaced ==
    ASSUME Shape, Placed, StartTemp, config' = config
    PROVE  Placed'
<1>. PICK x : x = Head(temp)
  BY Zenon
<1>. DEFINE j == x.job
<1>0. ListTypes /\ ControlTypes /\ RowTypes /\ Sole /\ Once /\ AllTaken
  BY Zenon DEF Shape, Placed
<1>1. /\ temp \in Seq(Work) /\ temp # <<>> /\ temp' = Tail(temp) /\ Distinct(temp)
      /\ UNCHANGED <<st, batch, work, channel>>
  BY Zenon, <1>0 DEF StartTemp, ListTypes, Once, threadVars, history
<1>2. x \in Work /\ Items(temp) = Items(temp') \cup {x}
  BY Zenon, <1>1, TailItems
<1>3. Distinct(temp') /\ \A y \in Items(temp') : y.job # j
  BY Zenon, <1>1, DistinctTail
<1>4. At("temp", 0, j) /\ ~At("temp", 0, j)'
  BY Zenon, <1>2, <1>3 DEF At
<1>5. CASE Accepts(pool) /\ Enqueue(pool, x) /\ lock' = lock
  <2>1. pool \in Pools
    BY Zenon, <1>0, <1>5 DEF Accepts, ControlTypes
  <2>2. ~At("queue", pool, j)
    BY Zenon, <1>0, <1>4 DEF Sole
  <2>3. /\ \A q \in Pools : Distinct(queue'[q])
        /\ \A o, i : At("queue", o, i)' => At("queue", o, i) \/ (i = j /\ o = pool)
    BY Zenon, <1>0, <1>2, <1>5, <2>1, <2>2, EnqueueOnce
  <2>4. Once'
    BY Zenon, <1>0, <1>1, <1>3, <2>3 DEF Once
  <2>5. \A l, o, i : At(l, o, i)' /\ l # "queue" => At(l, o, i)
    BY <1>1, <1>2 DEF At
  <2>6. OthersTaken(j)
    BY Zenon, <1>1, <1>5 DEF OthersTaken, Taken
  <2>7. Taken(j)'
    BY Zenon, <1>0, <1>1, <1>4, <1>5 DEF AllTaken, Taken
  <2>8. Brings(j, "queue", pool)
    BY Zenon, <2>3, <2>5 DEF Brings
  <2>. QED
    BY Zenon, <1>4, <2>4, <2>6, <2>7, <2>8, Carry
<1>6. CASE queue' = queue /\ lock' \in {lock, [lock EXCEPT ![j] = 0]}
  <2>1. Once'
    BY Zenon, <1>0, <1>1, <1>3, <1>6 DEF Once
  <2>2. Brings(j, "nowhere", 0)
    BY <1>1, <1>2, <1>6 DEF Brings, At
  <2>3. OthersTaken(j)
    BY Zenon, <1>0, <1>1, <1>6 DEF OthersTaken, Taken, RowTypes
  <2>. QED
    BY Zenon, <1>4, <2>1, <2>2, <2>3, Carry
<1>. QED
  BY Zenon, <1>5, <1>6 DEF StartTemp, Unlock

LEMMA DispatchPlaced ==
    ASSUME Shape, Placed, Dispatch, config' = config
    PROVE  Placed'
<1>. PICK x : x = Head(channel)
  BY Zenon
<1>. DEFINE j == x.job
<1>0. ListTypes /\ ControlTypes /\ Sole /\ Once /\ AllTaken
  BY Zenon DEF Shape, Placed
<1>1. /\ channel \in Seq(Work) /\ channel # <<>> /\ channel' = Tail(channel) /\ Distinct(channel)
      /\ UNCHANGED <<st, lock, batch, work, temp>>
  BY Zenon, <1>0 DEF Dispatch, ListTypes, Once, Skipped, rows
<1>2. x \in Work /\ Items(channel) = Items(channel') \cup {x}
  BY Zenon, <1>1, TailItems
<1>3. Distinct(channel') /\ \A y \in Items(channel') : y.job # j
  BY Zenon, <1>1, DistinctTail
<1>4. At("channel", 0, j) /\ ~At("channel", 0, j)'
  BY Zenon, <1>2, <1>3 DEF At
<1>5. OthersTaken(j)
  BY Zenon, <1>1 DEF OthersTaken, Taken
<1>6. CASE Accepts(sender) /\ Enqueue(sender, x)
  <2>1. sender \in Pools
    BY Zenon, <1>0, <1>6 DEF Accepts, ControlTypes
  <2>2. ~At("queue", sender, j)
    BY Zenon, <1>0, <1>4 DEF Sole
  <2>3. /\ \A q \in Pools : Distinct(queue'[q])
        /\ \A o, i : At("queue", o, i)' => At("queue", o, i) \/ (i = j /\ o = sender)
    BY Zenon, <1>0, <1>2, <1>6, <2>1, <2>2, EnqueueOnce
  <2>4. Once'
    BY Zenon, <1>0, <1>1, <1>3, <2>3 DEF Once
  <2>5. \A l, o, i : At(l, o, i)' /\ l # "queue" => At(l, o, i)
    BY <1>1, <1>2 DEF At
  <2>6. Taken(j)'
    BY Zenon, <1>0, <1>1, <1>4 DEF AllTaken, Taken
  <2>7. Brings(j, "queue", sender)
    BY Zenon, <2>3, <2>5 DEF Brings
  <2>. QED
    BY Zenon, <1>4, <1>5, <2>4, <2>6, <2>7, Carry
<1>7. CASE queue' = queue
  <2>1. Once'
    BY Zenon, <1>0, <1>1, <1>3, <1>7 DEF Once
  <2>2. Brings(j, "nowhere", 0)
    BY <1>1, <1>2, <1>7 DEF Brings, At
  <2>. QED
    BY Zenon, <1>4, <1>5, <2>1, <2>2, Carry
<1>. QED
  BY Zenon, <1>6, <1>7 DEF Dispatch

\* What a thread has in hand goes to a list.
LEMMA AnnouncePlaced ==
    ASSUME Shape, Placed, NEW t \in Threads, Announce(t), config' = config
    PROVE  Placed'
<1>. PICK x : x = work[t]
  BY Zenon
<1>. DEFINE j == x.job
<1>0. ListTypes /\ ThreadTypes /\ Sole /\ Once /\ AllTaken
  BY Zenon DEF Shape, Placed
<1>1. x \in Work /\ x # NoWork
  BY Zenon, HandTypes, WorkAssumption DEF Announce, Wait
<1>2. /\ work' = [work EXCEPT ![t] = NoWork] /\ UNCHANGED <<st, lock, batch, queue, temp>>
      /\ channel' \in {channel, Append(channel, x)} /\ channel \in Seq(Work) /\ Distinct(channel)
  BY Zenon, <1>0 DEF Announce, Finish, Goto, rows, poolVars, ListTypes, Once
<1>3. CASE channel' = channel
  <2>1. Hand(t, NoWork)
    BY Zenon, <1>2, <1>3 DEF Hand
  <2>2. \A i : Taken(i) <=> Taken(i)'
    BY Zenon, <1>2 DEF Taken
  <2>. QED
    BY Zenon, <1>1, <2>1, <2>2, Drop
<1>4. CASE channel' = Append(channel, x)
  <2>1. \A u \in Threads : work'[u] = IF u = t THEN NoWork ELSE work[u]
    BY Zenon, <1>0, <1>2 DEF ThreadTypes
  <2>2. At("work", t, j) /\ ~At("work", t, j)'
    BY Zenon, <1>1, <2>1 DEF At
  <2>3. Items(channel') = Items(channel) \cup {x} /\ \A y \in Items(channel) : y.job # j
    <3>1. ~At("channel", 0, j)
      BY Zenon, <1>0, <2>2 DEF Sole
    <3>. QED
      BY <1>1, <1>2, <1>4, <3>1, AppendItems DEF At
  <2>4. Once'
    BY Zenon, <1>0, <1>1, <1>2, <1>4, <2>3, DistinctAppend DEF Once
  <2>5. Brings(j, "channel", 0)
    BY <1>2, <2>1, <2>3 DEF Brings, At
  <2>6. Taken(j)' /\ OthersTaken(j)
    BY Zenon, <1>0, <1>2, <2>2 DEF AllTaken, Taken, OthersTaken
  <2>. QED
    BY Zenon, <2>2, <2>4, <2>5, <2>6, Carry
<1>. QED
  BY Zenon, <1>2, <1>3, <1>4

LEMMA HintOfferPlaced ==
    ASSUME Shape, Placed, NEW t \in Threads, HintOffer(t), config' = config
    PROVE  Placed'
<1>. PICK x : x = work[t]
  BY Zenon
<1>. DEFINE j == x.job
<1>0. ListTypes /\ ThreadTypes /\ ControlTypes /\ Sole /\ Once /\ AllTaken
  BY Zenon DEF Shape, Placed
<1>1. x \in Work /\ x # NoWork
  BY Zenon, HandTypes, WorkAssumption DEF HintOffer, Wait
<1>2. /\ UNCHANGED <<st, lock, batch, channel>> /\ temp \in Seq(Work) /\ Distinct(temp)
  BY Zenon, <1>0 DEF HintOffer, rows, history, ListTypes, Once
<1>3. At("work", t, j)
  BY Zenon, <1>1 DEF At
<1>4. Taken(j)' /\ OthersTaken(j) /\ \A i : Taken(i) <=> Taken(i)'
  BY Zenon, <1>0, <1>2, <1>3 DEF AllTaken, Taken, OthersTaken
<1>5. CASE work' = [work EXCEPT ![t] = NoWork] /\ UNCHANGED <<queue, temp>>
  <2>1. Hand(t, NoWork)
    BY Zenon, <1>2, <1>5 DEF Hand
  <2>. QED
    BY Zenon, <1>1, <1>4, <2>1, Drop
<1>6. CASE work' = [work EXCEPT ![t] = x] /\ UNCHANGED <<queue, temp>>
  <2>1. Hand(t, x)
    BY Zenon, <1>2, <1>6 DEF Hand
  <2>. QED
    BY Zenon, <1>1, <1>4, <2>1, Keep
<1>7. CASE work' = [work EXCEPT ![t] = NoWork] /\ temp' = Append(temp, x) /\ queue' = queue
  <2>1. \A u \in Threads : work'[u] = IF u = t THEN NoWork ELSE work[u]
    BY Zenon, <1>0, <1>7 DEF ThreadTypes
  <2>2. ~At("work", t, j)'
    BY Zenon, <2>1 DEF At
  <2>3. Items(temp') = Items(temp) \cup {x} /\ \A y \in Items(temp) : y.job # j
    <3>1. ~At("temp", 0, j)
      BY Zenon, <1>0, <1>3 DEF Sole
    <3>. QED
      BY <1>1, <1>2, <1>7, <3>1, AppendItems DEF At
  <2>4. Once'
    BY Zenon, <1>0, <1>1, <1>2, <1>7, <2>3, DistinctAppend DEF Once
  <2>5. Brings(j, "temp", 0)
    BY <1>2, <1>7, <2>1, <2>3 DEF Brings, At
  <2>. QED
    BY Zenon, <1>3, <1>4, <2>2, <2>4, <2>5, Carry
<1>8. CASE /\ work' = [work EXCEPT ![t] = NoWork] /\ temp' = temp
           /\ Accepts(pool) /\ Enqueue(pool, x)
  <2>1. \A u \in Threads : work'[u] = IF u = t THEN NoWork ELSE work[u]
    BY Zenon, <1>0, <1>8 DEF ThreadTypes
  <2>2. ~At("work", t, j)' /\ pool \in Pools
    BY Zenon, <1>0, <1>8, <2>1 DEF At, Accepts, ControlTypes
  <2>3. ~At("queue", pool, j)
    BY Zenon, <1>0, <1>3 DEF Sole
  <2>4. /\ \A q \in Pools : Distinct(queue'[q])
        /\ \A o, i : At("queue", o, i)' => At("queue", o, i) \/ (i = j /\ o = pool)
    BY Zenon, <1>0, <1>1, <1>8, <2>2, <2>3, EnqueueOnce
  <2>5. Once'
    BY Zenon, <1>0, <1>2, <1>8, <2>4 DEF Once
  <2>6. \A l, o, i : At(l, o, i)' /\ l # "queue" => At(l, o, i)
    BY <1>2, <1>8, <2>1 DEF At
  <2>7. Brings(j, "queue", pool)
    BY Zenon, <2>4, <2>6 DEF Brings
  <2>. QED
    BY Zenon, <1>3, <1>4, <2>2, <2>5, <2>7, Carry
<1>. QED
  BY Zenon, <1>5, <1>6, <1>7, <1>8 DEF HintOffer, Finish, Goto

LEMMA TakePlaced ==
    ASSUME Shape, Placed, NEW w \in Workers, Take(w), config' = config
    PROVE  Placed'
<1>. DEFINE p == Pool[w]
<1>. PICK x : x = Head(queue[p])
  BY Zenon
<1>. DEFINE j == x.job
<1>0. ListTypes /\ ThreadTypes /\ Sole /\ Once /\ AllTaken /\ w \in Threads /\ p \in Pools
  BY Zenon, PoolAssumption DEF Shape, Placed, Threads
<1>1. /\ work' = [work EXCEPT ![w] = x] /\ queue' = [queue EXCEPT ![p] = Tail(@)]
      /\ UNCHANGED <<st, lock, batch, temp, channel>>
      /\ queue[p] \in Seq(Work) /\ queue[p] # <<>> /\ Distinct(queue[p])
  BY Zenon, <1>0 DEF Take, Goto, rows, history, ListTypes, Once
<1>2. Items(queue[p]) = Items(Tail(queue[p])) \cup {x}
  BY Zenon, <1>1, TailItems
<1>3. Distinct(Tail(queue[p])) /\ \A y \in Items(Tail(queue[p])) : y.job # j
  BY Zenon, <1>1, DistinctTail
<1>4. \A q \in Pools : queue'[q] = IF q = p THEN Tail(queue[q]) ELSE queue[q]
  BY Zenon, <1>0, <1>1 DEF ListTypes
<1>5. \A u \in Threads : work'[u] = IF u = w THEN x ELSE work[u]
  BY Zenon, <1>0, <1>1 DEF ThreadTypes
<1>6. At("queue", p, j) /\ ~At("queue", p, j)'
  BY Zenon, <1>0, <1>2, <1>3, <1>4 DEF At
<1>7. Once'
  BY Zenon, <1>0, <1>1, <1>3, <1>4 DEF Once
<1>8. \A q \in Pools : Items(queue'[q]) \subseteq Items(queue[q])
  BY Zenon, <1>2, <1>4
<1>9. Brings(j, "work", w)
  BY <1>1, <1>5, <1>8 DEF Brings, At
<1>10. Taken(j)' /\ OthersTaken(j)
  BY Zenon, <1>0, <1>1, <1>6 DEF AllTaken, Taken, OthersTaken
<1>. QED
  BY Zenon, <1>6, <1>7, <1>9, <1>10, Carry

LEMMA OfferPlaced ==
    ASSUME Shape, Placed, NEW a \in Acquirers, Offer(a), config' = config
    PROVE  Placed'
<1>0. /\ ListTypes /\ ThreadTypes /\ ControlTypes /\ Hands /\ Sole /\ Once /\ AllTaken
      /\ a \in Threads
  BY Zenon DEF Shape, Placed, Threads
<1>1. PICK x \in batch[a] :
        /\ batch' = [batch EXCEPT ![a] = @ \ {x}]
        /\ \/ Accepts(made) /\ Enqueue(made, x) /\ UNCHANGED <<pc, work>>
           \/ UNCHANGED queue /\ (Goto(a, "start", x) \/ Goto(a, "reject", x))
  BY Zenon DEF Offer
<1>. DEFINE j == x.job
<1>2. /\ UNCHANGED <<st, lock, temp, channel>> /\ x \in Work /\ work[a] = NoWork
  BY Zenon, <1>0 DEF Offer, rows, history, ThreadTypes, Hands, Wait
<1>3. /\ \A b \in Acquirers : batch'[b] = IF b = a THEN batch[b] \ {x} ELSE batch[b]
      /\ \A b \in Acquirers : batch'[b] \subseteq batch[b]
  BY Zenon, <1>0, <1>1 DEF ThreadTypes
<1>4. At("batch", a, j) /\ ~At("batch", a, j)'
  BY Zenon, <1>0, <1>3 DEF At, Once
<1>5. Taken(j)' /\ OthersTaken(j)
  BY Zenon, <1>0, <1>2, <1>4 DEF AllTaken, Taken, OthersTaken
<1>6. CASE Accepts(made) /\ Enqueue(made, x) /\ UNCHANGED <<pc, work>>
  <2>1. made \in Pools /\ ~At("queue", made, j)
    BY Zenon, <1>0, <1>4, <1>6 DEF Accepts, ControlTypes, Sole
  <2>2. /\ \A q \in Pools : Distinct(queue'[q])
        /\ \A o, i : At("queue", o, i)' => At("queue", o, i) \/ (i = j /\ o = made)
    BY Zenon, <1>0, <1>2, <1>6, <2>1, EnqueueOnce
  <2>3. Once'
    BY Zenon, <1>0, <1>2, <1>3, <2>2 DEF Once
  <2>4. ASSUME NEW l, NEW o, NEW i, At(l, o, i)', l # "queue" PROVE At(l, o, i)
    <3>1. CASE l = "batch"
      BY Zenon, <1>3, <2>4, <3>1 DEF At
    <3>2. CASE l # "batch"
      BY Zenon, <1>2, <1>6, <2>4, <3>2 DEF At
    <3>. QED
      BY Zenon, <3>1, <3>2
  <2>5. Brings(j, "queue", made)
    BY Zenon, <2>2, <2>4 DEF Brings
  <2>. QED
    BY Zenon, <1>4, <1>5, <2>3, <2>5, Carry
<1>7. CASE UNCHANGED queue /\ (Goto(a, "start", x) \/ Goto(a, "reject", x))
  <2>1. \A u \in Threads : work'[u] = IF u = a THEN x ELSE work[u]
    BY Zenon, <1>0, <1>7 DEF Goto, ThreadTypes
  <2>2. Once'
    BY Zenon, <1>0, <1>2, <1>3, <1>7 DEF Once
  <2>3. ASSUME NEW l, NEW o, NEW i, At(l, o, i)' PROVE At(l, o, i) \/ (i = j /\ l = "work" /\ o = a)
    <3>1. CASE l = "batch"
      BY Zenon, <1>3, <2>3, <3>1 DEF At
    <3>2. CASE l # "batch"
      BY Zenon, <1>2, <1>7, <2>1, <2>3, <3>2 DEF At
    <3>. QED
      BY Zenon, <3>1, <3>2
  <2>4. Brings(j, "work", a)
    BY Zenon, <2>3 DEF Brings
  <2>. QED
    BY Zenon, <1>4, <1>5, <2>2, <2>4, Carry
<1>. QED
  BY Zenon, <1>1, <1>6, <1>7

LEMMA AcquirePlaced ==
    ASSUME Shape, Placed, NEW a \in Acquirers, Acquire(a), config' = config
    PROVE  Placed'
<1>0. RowTypes /\ ThreadTypes /\ Hands /\ Sole /\ Once /\ AllTaken
  BY Zenon DEF Shape, Placed
<1>1. PICK S \in SUBSET {j \in Jobs : Acquirable(j)} :
        /\ lock' = [j \in Jobs |-> IF j \in S THEN last[j] + 1 ELSE lock[j]]
        /\ batch' = [batch EXCEPT ![a] =
                       {[job |-> j, lease |-> last[j] + 1, hint |-> FALSE] : j \in S}]
  BY Zenon DEF Acquire
<1>2. UNCHANGED <<st, work, queue, temp, channel>> /\ batch[a] = {}
  BY Zenon, <1>0 DEF Acquire, poolVars, history, Hands
<1>. DEFINE New == {[job |-> j, lease |-> last[j] + 1, hint |-> FALSE] : j \in S}
<1>3. \A b \in Acquirers : batch'[b] = IF b = a THEN New ELSE batch[b]
  BY Zenon, <1>0, <1>1 DEF ThreadTypes
<1>4. /\ \A x \in New : x.job \in S
      /\ \A x, y \in New : x.job = y.job => x = y
  <2>1. ASSUME NEW x \in New
        PROVE  x.job \in S /\ x = [job |-> x.job, lease |-> last[x.job] + 1, hint |-> FALSE]
    <3>1. PICK j \in S : x = [job |-> j, lease |-> last[j] + 1, hint |-> FALSE]
      BY Zenon
    <3>. QED
      BY Zenon, <3>1
  <2>2. ASSUME NEW x \in New, NEW y \in New, x.job = y.job PROVE x = y
    BY Zenon, <2>1, <2>2
  <2>. QED
    BY Zenon, <2>1, <2>2
<1>. HIDE DEF New
<1>5. Once'
  BY Zenon, <1>0, <1>2, <1>3, <1>4 DEF Once
<1>6. \A j \in S : ~Taken(j) /\ Taken(j)'
  BY <1>0, <1>1, <1>2 DEF Acquirable, Taken, RowTypes
<1>7. \A k, m, j : j \in S => ~At(k, m, j)
  BY Zenon, <1>0, <1>6 DEF AllTaken
<1>8. ASSUME NEW k, NEW m, NEW j, At(k, m, j)'
      PROVE  (j \notin S /\ At(k, m, j)) \/ (j \in S /\ k = "batch" /\ m = a)
  <2>1. CASE k = "batch" /\ m = a
    BY Zenon, <1>3, <1>4, <1>8, <2>1 DEF At
  <2>2. CASE k = "batch" /\ m # a
    <3>1. At(k, m, j)
      BY Zenon, <1>3, <1>8, <2>2 DEF At
    <3>. QED
      BY Zenon, <1>7, <3>1
  <2>3. CASE k # "batch"
    <3>1. At(k, m, j)
      BY Zenon, <1>2, <1>8, <2>3 DEF At
    <3>. QED
      BY Zenon, <1>7, <3>1
  <2>. QED
    BY Zenon, <2>1, <2>2, <2>3
<1>10. Flow(S, "batch", a)
  BY Zenon, <1>8 DEF Flow
<1>9. \A j \in Jobs \ S : Taken(j) => Taken(j)'
  BY Zenon, <1>1, <1>2 DEF Taken
<1>. QED
  BY Zenon, <1>0, <1>5, <1>6, <1>9, <1>10, FlowSole, FlowTaken DEF Placed

LEMMA ActivationPlaced ==
    ASSUME Shape, Placed, NEW t \in Threads, NEW k \in Jobs, st[k] = "suspended", Activation(t, k),
           UNCHANGED <<config, batch, queue, temp, channel>>,
           st' \in [Jobs -> {"unwritten", "suspended", "ready", "done"}], st'[k] # "unwritten",
           \A j \in Jobs : st'[j] = "unwritten" => st[j] = "unwritten"
    PROVE  Placed'
<1>0. RowTypes /\ ThreadTypes /\ NeverLeased /\ Once
  BY Zenon DEF Shape, Placed
<1>1. lock[k] = 0 /\ last[k] = 0 /\ k \notin config.history /\ ~Taken(k)
  BY Zenon, <1>0 DEF NeverLeased, Taken
<1>2. CASE active
  <2>1. PICK y : y = [job |-> k, lease |-> last[k] + 1, hint |-> TRUE]
    BY Zenon
  <2>2. y.job = k /\ Hand(t, y)
    BY Zenon, <1>2, <2>1 DEF Activation, Goto, Hand
  <2>3. Taken(k)' /\ \A j \in Jobs \ {k} : Taken(j) => Taken(j)'
    BY <1>0, <1>1, <1>2 DEF Activation, Taken, RowTypes
  <2>. QED
    BY Zenon, <1>1, <2>2, <2>3, Enter
<1>3. CASE ~active
  <2>1. Hand(t, NoWork) /\ lock' = lock
    BY Zenon, <1>3 DEF Activation, Finish, Goto, Hand
  <2>2. \A j \in Jobs : Taken(j) => Taken(j)'
    BY Zenon, <2>1 DEF Taken
  <2>3. CASE work[t] # NoWork
    BY Zenon, <2>1, <2>2, <2>3, Drop
  <2>4. CASE work[t] = NoWork
    <3>1. \A l, m, i : At(l, m, i)' => At(l, m, i)
      BY Zenon, <1>0, <2>1, HandFlow
    <3>2. Flow({}, "nowhere", 0) /\ Once'
      BY Zenon, <1>0, <2>1, <3>1, HandFlow DEF Flow
    <3>. QED
      BY Zenon, <2>2, <3>2, FlowSole, FlowTaken DEF Placed
  <2>. QED
    BY Zenon, <2>3, <2>4
<1>. QED
  BY Zenon, <1>2, <1>3

\* The steps of a thread with the job it has in hand.
LEMMA HandPlaced ==
    ASSUME Shape, Placed, config' = config, NEW t \in Threads,
           \/ RunStart(t) \/ RunFail(t) \/ HintRead(t) \/ Reject(t)
           \/ t \in Workers /\ Panic(t)
           \/ t \in Acquirers /\ PanicInline(t)
    PROVE  Placed'
<1>. PICK x : x = work[t]
  BY Zenon
<1>0. RowTypes /\ ThreadTypes /\ ListTypes
  BY Zenon DEF Shape
<1>1. x \in Work /\ x # NoWork /\ x.job \in Jobs
  BY Zenon, HandTypes, WorkAssumption
     DEF RunStart, RunFail, HintRead, Reject, Panic, PanicInline, Wait
<1>2. CASE RunStart(t)
  <2>1. /\ \A j : Taken(j) <=> Taken(j)'
        /\ Hand(t, x) \/ Hand(t, NoWork)
    BY Zenon, <1>2 DEF RunStart, Finish, Goto, Hand, Taken, rows, poolVars, history
  <2>. QED
    BY Zenon, <1>1, <2>1, Keep, Drop
<1>3. CASE HintRead(t)
  <2>1. PICK y : y = [job |-> x.job, lease |-> lock[x.job], hint |-> TRUE]
    BY Zenon
  <2>2. /\ \A j : Taken(j) <=> Taken(j)'
        /\ Hand(t, y) \/ Hand(t, NoWork)
    BY Zenon, <1>3, <2>1 DEF HintRead, Finish, Goto, Hand, Taken, rows, poolVars, history
  <2>3. y.job = x.job
    BY Zenon, <2>1
  <2>. QED
    BY Zenon, <1>1, <2>2, <2>3, Keep, Drop
<1>4. CASE RunFail(t)
  <2>1. Hand(t, NoWork)
    BY Zenon, <1>4 DEF RunFail, Finish, Goto, Hand, poolVars, history
  <2>2. \A j \in Jobs \ {x.job} : Taken(j) => Taken(j)'
    BY Zenon, <1>0, <1>4 DEF RunFail, Unlock, Taken, RowTypes
  <2>. QED
    BY Zenon, <1>1, <2>1, <2>2, Drop
<1>5. CASE Reject(t)
  <2>1. Hand(t, NoWork)
    BY Zenon, <1>0, <1>5 DEF Reject, Finish, Goto, Hand, ThreadTypes, poolVars, history
  <2>2. \A j \in Jobs \ {x.job} : Taken(j) => Taken(j)'
    BY Zenon, <1>0, <1>5 DEF Reject, Unlock, Taken, RowTypes
  <2>. QED
    BY Zenon, <1>1, <2>1, <2>2, Drop
<1>6. CASE t \in Workers /\ Panic(t)
  <2>1. Hand(t, NoWork)
    BY Zenon, <1>0, <1>6 DEF Panic, Goto, Hand, ListTypes, history
  <2>2. \A j : Taken(j) <=> Taken(j)'
    BY Zenon, <1>6 DEF Panic, Taken, rows
  <2>. QED
    BY Zenon, <1>1, <2>1, <2>2, Drop
<1>7. CASE t \in Acquirers /\ PanicInline(t)
  <2>1. Hand(t, NoWork)
    BY Zenon, <1>0, <1>7 DEF PanicInline, Goto, Hand, ThreadTypes, poolVars, history
  <2>2. \A j : Taken(j) <=> Taken(j)'
    BY Zenon, <1>7 DEF PanicInline, Taken, rows
  <2>. QED
    BY Zenon, <1>1, <2>1, <2>2, Drop
<1>. QED
  BY Zenon, <1>2, <1>3, <1>4, <1>5, <1>6, <1>7

LEMMA CommitPlaced ==
    ASSUME Shape, Placed, config' = config, NEW t \in Threads, RunCommit(t)
    PROVE  Placed'
<1>0. RowTypes /\ work[t] \in Work /\ work[t] # NoWork /\ work[t].job \in Jobs
  BY Zenon, HandTypes, WorkAssumption DEF RunCommit, Wait, Shape
<1>1. UNCHANGED <<batch, queue, temp, channel>>
  BY Zenon DEF RunCommit, poolVars, history
<1>2. PICK j \in Jobs : j = work[t].job
  BY Zenon, <1>0
<1>3. PICK k \in Jobs \cup {NoJob} : k = config.activates[j]
  BY Zenon, <1>0, Configured
<1>4. CASE k # NoJob /\ st[k] = "suspended"
  <2>1. st' = [st EXCEPT ![j] = "done", ![k] = "ready"] /\ Activation(t, k) /\ k \in Jobs
    BY Zenon, <1>2, <1>3, <1>4 DEF RunCommit
  <2>2. /\ st' \in [Jobs -> {"unwritten", "suspended", "ready", "done"}] /\ st'[k] # "unwritten"
        /\ \A i \in Jobs : st'[i] = "unwritten" => st[i] = "unwritten"
    BY Zenon, <1>0, <2>1 DEF RowTypes
  <2>. QED
    BY Zenon, <1>1, <1>4, <2>1, <2>2, ActivationPlaced
<1>5. CASE ~(k # NoJob /\ st[k] = "suspended")
  <2>1. st' = [st EXCEPT ![j] = "done"] /\ lock' = lock /\ Finish(t)
    BY Zenon, <1>2, <1>3, <1>5 DEF RunCommit
  <2>2. Hand(t, NoWork)
    BY Zenon, <1>1, <2>1 DEF Finish, Goto, Hand
  <2>3. \A i \in Jobs \ {j} : Taken(i) => Taken(i)'
    BY Zenon, <1>0, <2>1 DEF Taken, RowTypes
  <2>. QED
    BY Zenon, <1>0, <1>2, <2>2, <2>3, Drop
<1>. QED
  BY Zenon, <1>4, <1>5

LEMMA ClientPlaced ==
    ASSUME Shape, Placed, config' = config, ClientActivates \/ RecordHistory
    PROVE  Placed'
<1>0. RowTypes /\ Client \in Threads
  BY Zenon DEF Shape, Threads
<1>1. CASE ClientActivates
  <2>1. PICK k \in Jobs : /\ st[k] = "suspended" /\ st' = [st EXCEPT ![k] = "ready"]
                          /\ Activation(Client, k)
    BY Zenon, <1>1 DEF ClientActivates
  <2>2. UNCHANGED <<batch, queue, temp, channel>>
    BY Zenon, <1>1 DEF ClientActivates, poolVars, history
  <2>3. /\ st' \in [Jobs -> {"unwritten", "suspended", "ready", "done"}] /\ st'[k] # "unwritten"
        /\ \A i \in Jobs : st'[i] = "unwritten" => st[i] = "unwritten"
    BY Zenon, <1>0, <2>1 DEF RowTypes
  <2>. QED
    BY Zenon, <1>0, <2>1, <2>2, <2>3, ActivationPlaced
<1>2. CASE RecordHistory
  <2>1. PICK j \in config.history :
          /\ st[j] = "unwritten" /\ st' = [st EXCEPT ![j] = "ready"]
          /\ Goto(Client, "announce", [job |-> j, lease |-> 0, hint |-> FALSE])
    BY Zenon, <1>2 DEF RecordHistory
  <2>2. PICK y : y = [job |-> j, lease |-> 0, hint |-> FALSE]
    BY Zenon
  <2>3. y.job = j /\ Hand(Client, y) /\ lock' = lock
    BY Zenon, <1>2, <2>1, <2>2 DEF RecordHistory, Goto, Hand, poolVars, history
  <2>4. ~Taken(j) /\ Taken(j)' /\ \A i \in Jobs \ {j} : Taken(i) => Taken(i)'
    BY Zenon, <1>0, <2>1, <2>3, Configured DEF Taken, RowTypes
  <2>. QED
    BY Zenon, <1>0, <2>3, <2>4, Enter
<1>. QED
  BY Zenon, <1>1, <1>2

\* The control thread moves no work but that of temporary_jobs; the others come and
\* go with empty hands.
LEMMA EmptyHanded ==
    ASSUME Shape, Placed, config' = config, ~config.unlocks,
           \/ Start \/ StartError \/ Stop \/ StopError
           \/ StartUnlock \/ StartPool \/ StartDone \/ StartDispatcher
           \/ StopThreads \/ StopPool \/ StopAwait \/ StopRelease
           \/ LeaveDispatcher
           \/ \E a \in Acquirers : NextRound(a) \/ Leave(a)
           \/ \E w \in Workers : WorkerExit(w)
    PROVE  Placed'
<1>0. ThreadTypes /\ Hands /\ Dispatcher \in Threads
  BY Zenon DEF Shape, Threads
<1>1. ASSUME NEW t \in Threads, NEW label, pc[t] \in Wait, Goto(t, label, NoWork)
      PROVE  work' = work
  BY Zenon, <1>0, <1>1 DEF Goto, ThreadTypes, Hands
<1>2. CASE Start \/ StartError \/ StartPool \/ StartDone
  BY Zenon, <1>2, StaysPlaced
     DEF Start, StartError, StartPool, StartDone, rows, poolVars, threadVars, history
<1>3. CASE StartUnlock \/ StopRelease
  BY Zenon, <1>3, StaysPlaced DEF StartUnlock, StopRelease, UnlockAll, poolVars, threadVars, history
<1>4. CASE Stop \/ StopError \/ StopThreads \/ StopPool \/ StopAwait
  BY Zenon, <1>4, StaysPlaced
     DEF Stop, StopError, StopThreads, StopPool, StopAwait, rows, poolVars, threadVars, history
<1>5. CASE StartDispatcher
  <2>1. work' = work
    BY Zenon, <1>0, <1>1, <1>5 DEF StartDispatcher, Wait
  <2>. QED
    BY Zenon, <1>5, <2>1, StaysPlaced DEF StartDispatcher, rows, poolVars
<1>6. CASE LeaveDispatcher
  <2>1. work' = work
    BY Zenon, <1>0, <1>1, <1>6 DEF LeaveDispatcher, Wait
  <2>. QED
    BY Zenon, <1>6, <2>1, StaysPlaced DEF LeaveDispatcher, rows, poolVars, history
<1>7. ASSUME NEW a \in Acquirers, NextRound(a) \/ Leave(a) PROVE Placed'
  BY Zenon, <1>7, StaysPlaced DEF NextRound, Leave, rows, poolVars, history
<1>8. ASSUME NEW w \in Workers, WorkerExit(w) PROVE Placed'
  <2>1. work' = work
    BY Zenon, <1>1, <1>8 DEF WorkerExit, Wait, Threads
  <2>. QED
    BY Zenon, <1>8, <2>1, StaysPlaced DEF WorkerExit, rows, poolVars, history
<1>. QED
  BY Zenon, <1>2, <1>3, <1>4, <1>5, <1>6, <1>7, <1>8

LEMMA OnePlaceStep == Shape /\ OnePlace /\ Next => OnePlace'
<1>. SUFFICES ASSUME Shape, Placed, Next, ~config.unlocks, config' = config PROVE Placed'
  BY Zenon DEF OnePlace, Next
<1>1. ASSUME NEW t \in Threads, ThreadStep(t) PROVE Placed'
  BY Zenon, <1>1, HandPlaced, CommitPlaced, HintOfferPlaced, AnnouncePlaced, DispatchPlaced, OfferPlaced,
     TakePlaced, EmptyHanded DEF ThreadStep
<1>2. ASSUME NEW t \in Threads, RunFail(t) PROVE Placed'
  BY Zenon, <1>2, HandPlaced
<1>3. ASSUME NEW a \in Acquirers, Acquire(a) \/ PanicInline(a) PROVE Placed'
  BY Zenon, <1>3, AcquirePlaced, HandPlaced DEF Threads
<1>4. ASSUME NEW w \in Workers, Panic(w) PROVE Placed'
  BY Zenon, <1>4, HandPlaced DEF Threads
<1>5. CASE ControlStep
  BY Zenon, <1>5, StartTempPlaced, EmptyHanded DEF ControlStep
<1>6. CASE Start \/ StartError \/ Stop \/ StopError \/ StartDispatcher
  BY Zenon, <1>6, EmptyHanded
<1>. QED
  BY Zenon, <1>1, <1>2, <1>3, <1>4, <1>5, <1>6, ClientPlaced DEF Next

\* The lock on a row gives its job to one runner at a time: as long as the executor
\* is not configured to unlock the rows it owns when it starts and stops, no two
\* threads run the same job, whatever panics, rejections and hints do.
THEOREM ExecutorUnlockedByRunnerOnly == Spec => []UnlockedByRunnerOnly
<1>1. Init => OnePlace
  <2>. SUFFICES ASSUME Init PROVE Sole /\ Once /\ AllTaken
    BY Zenon DEF OnePlace, Placed
  <2>1. /\ \A p \in Pools : queue[p] = <<>>
        /\ temp = <<>> /\ channel = <<>>
        /\ \A a \in Acquirers : batch[a] = {}
        /\ \A t \in Threads : work[t] = NoWork
    BY Zenon DEF Init
  <2>2. \A k, n, j : ~At(k, n, j)
    BY Zenon, <2>1, NoItems DEF At
  <2>3. Distinct(<<>>)
    BY DEF Distinct
  <2>. QED
    BY Zenon, <2>1, <2>2, <2>3 DEF Sole, Once, AllTaken
<1>2. Shape /\ OnePlace /\ [Next]_vars => OnePlace'
  <2>1. ASSUME OnePlace, UNCHANGED vars PROVE OnePlace'
    BY Zenon, <2>1, StaysPlaced DEF vars, rows, poolVars, history, threadVars, OnePlace
  <2>. QED
    BY Zenon, <2>1, OnePlaceStep
<1>. QED
  BY <1>1, <1>2, ShapeInv, OnePlaceRuns, PTL DEF Spec

=============================================================================
