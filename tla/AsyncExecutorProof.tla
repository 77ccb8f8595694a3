-------------------------- MODULE AsyncExecutorProof --------------------------
(***************************************************************************)
(* Proofs about the life cycle of the async executor, for every number of  *)
(* jobs, pools, workers and acquisition threads, every size of the queue   *)
(* and every configuration.                                                *)
(***************************************************************************)
EXTENDS AsyncExecutor, TLAPS

Wait == {"off", "idle", "gone", "batch"}

\* Where the threads of each kind can be.
Station(t) ==
    IF t \in Acquirers THEN Places \ {"gone", "announce"}
    ELSE IF t \in Workers THEN Places \ {"batch", "announce"}
    ELSE IF t = Client THEN {"idle", "announce", "hinted", "offer", "reject"}
    ELSE {"off", "idle", "gone"}

Stations == \A t \in Threads : pc[t] \in Station(t)

\* A thread has something in hand unless it waits for its next turn; what an
\* acquisition thread has acquired is offered before it goes on or leaves.
Hands ==
    /\ \A t \in Threads : work[t] = NoWork <=> pc[t] \in Wait
    /\ \A a \in Acquirers : pc[a] \in {"off", "idle"} => batch[a] = {}

\* Suspended jobs and history jobs have never been locked.
NeverLeased ==
    \A j \in Jobs :
        /\ st[j] = "suspended" \/ j \in config.history => lock[j] = 0 /\ last[j] = 0
        /\ j \in config.history => st[j] # "suspended"
        /\ st[j] = "unwritten" => j \in config.history

\* The pools before a start has made the next one, and after a shutdown has
\* joined the acquisition threads.
Closed == {"unlock", "pool", "await", "release"}

PoolLife ==
    /\ pool \in {0, made} /\ stopping \subseteq 1..made
    /\ pool # 0 => pool \notin stopping
    /\ ~active => control = "idle"
    /\ ~active \/ control \in Closed => pool = 0
    /\ pool = 0 => \A a \in Acquirers : pc[a] = "off"
    /\ control = "join" => pc[Dispatcher] # "idle"
    /\ pc[Dispatcher] = "idle" /\ sender # 0 => pool = sender
    /\ control \in {"unlock", "pool"} => made < MaxPools
    /\ \A w \in Workers : Pool[w] > made => pc[w] = "off"

\* TypeOK, by the part of the state it is about.
RowTypes ==
    /\ config \in Configs
    /\ st \in [Jobs -> {"unwritten", "suspended", "ready", "done"}]
    /\ lock \in [Jobs -> 0..MaxLeases] /\ last \in [Jobs -> 0..MaxLeases]

ControlTypes ==
    /\ active \in BOOLEAN
    /\ control \in {"idle", "unlock", "pool", "temp", "dispatch", "dispatcher",
                   "join", "await", "release"}
    /\ pool \in Pools \cup {0} /\ made \in Pools \cup {0} /\ stopping \subseteq Pools
    /\ sender \in Pools \cup {0}

ListTypes ==
    /\ queue \in [Pools -> Seq(Work)] /\ \A p \in Pools : Len(queue[p]) <= QueueSize
    /\ temp \in Seq(Work) /\ channel \in Seq(Work)

ThreadTypes ==
    /\ flag \in [Acquirers \cup {Dispatcher} -> BOOLEAN] /\ batch \in [Acquirers -> SUBSET Work]
    /\ pc \in [Threads -> Places]
    /\ work \in [Threads -> Work \cup {NoWork}]

Shape == /\ RowTypes /\ ControlTypes /\ ListTypes /\ ThreadTypes
         /\ Stations /\ Hands /\ NeverLeased /\ PoolLife

-----------------------------------------------------------------------------
(* Lists of work.                                                          *)

Items(s) == {s[i] : i \in 1..Len(s)}

LEMMA AppendItems ==
    ASSUME NEW S, NEW s \in Seq(S), NEW x \in S
    PROVE  /\ Append(s, x) \in Seq(S) /\ Len(Append(s, x)) = Len(s) + 1
           /\ Items(Append(s, x)) = Items(s) \cup {x}
<1>1. /\ Append(s, x) \in Seq(S) /\ Len(Append(s, x)) = Len(s) + 1
      /\ \A i \in 1..Len(s) : Append(s, x)[i] = s[i]
      /\ Append(s, x)[Len(s) + 1] = x
  OBVIOUS
<1>2. Len(s) \in Nat
  OBVIOUS
<1>3. 1..(Len(s) + 1) = 1..Len(s) \cup {Len(s) + 1}
  BY <1>2
<1>. QED
  BY <1>1, <1>3 DEF Items

LEMMA TailItems ==
    ASSUME NEW S, NEW s \in Seq(S), s # <<>>
    PROVE  /\ Head(s) \in S /\ Tail(s) \in Seq(S) /\ Len(Tail(s)) = Len(s) - 1
           /\ Items(s) = Items(Tail(s)) \cup {Head(s)}
<1>1. /\ Head(s) \in S /\ Tail(s) \in Seq(S) /\ Len(Tail(s)) = Len(s) - 1
      /\ \A i \in 1..Len(Tail(s)) : Tail(s)[i] = s[i + 1]
  OBVIOUS
<1>2. Len(s) \in Nat /\ Len(s) # 0 /\ Head(s) = s[1]
  OBVIOUS
<1>3. \A x \in Items(s) : x \in Items(Tail(s)) \cup {Head(s)}
  <2>. TAKE x \in Items(s)
  <2>1. PICK i \in 1..Len(s) : x = s[i]
    BY DEF Items
  <2>2. CASE i = 1
    BY <2>1, <2>2, <1>2
  <2>3. CASE i # 1
    <3>1. i - 1 \in 1..Len(Tail(s)) /\ Tail(s)[i - 1] = s[i]
      BY <2>3, <1>1, <1>2
    <3>. QED
      BY <3>1, <2>1 DEF Items
  <2>. QED
    BY <2>2, <2>3
<1>4. Items(Tail(s)) \cup {Head(s)} \subseteq Items(s)
  <2>1. \A i \in 1..Len(Tail(s)) : i + 1 \in 1..Len(s)
    BY <1>1, <1>2
  <2>2. 1 \in 1..Len(s)
    BY <1>2
  <2>. QED
    BY <2>1, <2>2, <1>1, <1>2 DEF Items
<1>. QED
  BY <1>1, <1>3, <1>4

LEMMA NoItems == Items(<<>>) = {}
  BY DEF Items

-----------------------------------------------------------------------------
(* Types.                                                                  *)

LEMMA ShapeTypes == Shape => TypeOK
  BY DEF Shape, RowTypes, ControlTypes, ListTypes, ThreadTypes, TypeOK

LEMMA Configured ==
    ASSUME RowTypes
    PROVE  /\ config.unlocks \in BOOLEAN /\ config.history \subseteq Jobs
           /\ config.activates \in [Jobs -> Jobs \cup {NoJob}]
           /\ config.faults \subseteq {"errors", "timeout", "panic"}
  BY JobAssumption DEF RowTypes, Config

LEMMA InitShape == Init => Shape
<1>. SUFFICES ASSUME Init PROVE Shape
  OBVIOUS
<1>1. /\ config.history \subseteq Jobs
  BY JobAssumption DEF Init, Config
<1>2. RowTypes /\ ControlTypes
  <2>1. 0 \in 0..MaxLeases
    BY PoolAssumption
  <2>2. RowTypes
    BY <2>1 DEF Init, RowTypes
  <2>3. ControlTypes
    BY Zenon DEF Init, ControlTypes
  <2>. QED
    BY <2>2, <2>3
<1>3. ListTypes
  <2>1. <<>> \in Seq(Work) /\ Len(<<>>) = 0
    OBVIOUS
  <2>. QED
    BY <2>1, PoolAssumption DEF Init, ListTypes
<1>4. ThreadTypes
  BY DEF Init, ThreadTypes, Places
<1>5. Stations /\ Hands
  BY ThreadAssumption DEF Init, Stations, Station, Places, Hands, Wait, Threads
<1>6. NeverLeased
  BY DEF Init, NeverLeased
<1>7. PoolLife
  BY ThreadAssumption DEF Init, PoolLife, Closed, Threads
<1>. QED
  BY <1>2, <1>3, <1>4, <1>5, <1>6, <1>7 DEF Shape

\* What a channel accepts fits.
LEMMA EnqueueTypes ==
    ASSUME ListTypes, NEW p \in Pools, NEW x \in Work, Accepts(p), Enqueue(p, x)
    PROVE  /\ queue' \in [Pools -> Seq(Work)]
           /\ \A q \in Pools : Len(queue'[q]) <= QueueSize
<1>1. queue[p] \in Seq(Work)
  BY DEF ListTypes
<1>2. Append(queue[p], x) \in Seq(Work) /\ Len(Append(queue[p], x)) = Len(queue[p]) + 1
  BY <1>1, AppendItems
<1>3. Len(queue[p]) + 1 <= QueueSize
  BY <1>1, PoolAssumption DEF Accepts
<1>. QED
  BY <1>2, <1>3 DEF ListTypes, Enqueue

LEMMA DequeueTypes ==
    ASSUME ListTypes, NEW p \in Pools, queue[p] # <<>>,
           queue' = [queue EXCEPT ![p] = Tail(@)]
    PROVE  /\ queue' \in [Pools -> Seq(Work)] /\ Head(queue[p]) \in Work
           /\ \A q \in Pools : Len(queue'[q]) <= QueueSize
<1>1. queue[p] \in Seq(Work)
  BY DEF ListTypes
<1>2. /\ Tail(queue[p]) \in Seq(Work) /\ Len(Tail(queue[p])) = Len(queue[p]) - 1
      /\ Head(queue[p]) \in Work
  BY <1>1, TailItems
<1>3. Len(queue[p]) \in Nat /\ Len(queue[p]) <= QueueSize
  BY <1>1 DEF ListTypes
<1>. QED
  BY <1>2, <1>3, PoolAssumption DEF ListTypes

LEMMA GotoTypes ==
    ASSUME ThreadTypes, NEW t \in Threads, NEW x \in Work \cup {NoWork}, NEW label \in Places,
           Goto(t, label, x)
    PROVE  pc' \in [Threads -> Places] /\ work' \in [Threads -> Work \cup {NoWork}]
  BY DEF ThreadTypes, Goto

LEMMA FinishTypes ==
    ASSUME ThreadTypes, NEW t \in Threads, Finish(t)
    PROVE  pc' \in [Threads -> Places] /\ work' \in [Threads -> Work \cup {NoWork}]
  BY GotoTypes DEF Finish, Places

LEMMA ActivationTypes ==
    ASSUME Shape, NEW t \in Threads, NEW k \in Jobs, st[k] = "suspended", Activation(t, k)
    PROVE  /\ lock' \in [Jobs -> 0..MaxLeases] /\ last' \in [Jobs -> 0..MaxLeases]
           /\ pc' \in [Threads -> Places]
           /\ work' \in [Threads -> Work \cup {NoWork}]
<1>1. last[k] = 0 /\ 1 \in 0..MaxLeases /\ RowTypes /\ ThreadTypes
  BY PoolAssumption DEF Shape, NeverLeased
<1>2. CASE active
  <2>1. [job |-> k, lease |-> last[k] + 1, hint |-> TRUE] \in Work /\ "hinted" \in Places
    BY <1>1 DEF Work, Places
  <2>2. pc' \in [Threads -> Places] /\ work' \in [Threads -> Work \cup {NoWork}]
    BY <1>1, <1>2, <2>1, GotoTypes DEF Activation
  <2>. QED
    BY <1>1, <1>2, <2>2 DEF Activation, RowTypes
<1>3. CASE ~active
  BY <1>1, <1>3, FinishTypes DEF Activation, RowTypes
<1>. QED
  BY <1>2, <1>3

-----------------------------------------------------------------------------
(* Who writes what.                                                        *)

LEMMA ListFrame ==
    ASSUME Next
    PROVE  \/ UNCHANGED <<queue, temp, channel>>
           \/ StartTemp \/ Dispatch
           \/ \E t \in Threads : Announce(t) \/ HintOffer(t)
           \/ \E a \in Acquirers : Offer(a)
           \/ \E w \in Workers : Take(w) \/ Panic(w)
<1>. USE DEF rows, poolVars, threadVars, history
<1>1. CASE Start \/ StartError \/ Stop \/ StopError \/ ClientActivates \/ RecordHistory
           \/ StartDispatcher
  BY <1>1 DEF Start, StartError, Stop, StopError, ClientActivates, RecordHistory,
              StartDispatcher
<1>2. CASE ControlStep
  BY <1>2 DEF ControlStep, StartUnlock, StartPool, StartDone, StartDispatcher, StopThreads,
              StopPool, StopAwait, StopRelease
<1>3. ASSUME NEW t \in Threads, ThreadStep(t) \/ RunFail(t)
      PROVE  \/ UNCHANGED <<queue, temp, channel>>
             \/ Dispatch \/ Announce(t) \/ HintOffer(t)
             \/ (t \in Acquirers /\ Offer(t)) \/ (t \in Workers /\ Take(t))
  BY Zenon, <1>3 DEF ThreadStep, RunStart, RunCommit, RunFail, HintRead, Reject, LeaveDispatcher,
              NextRound, Leave, WorkerExit
<1>4. ASSUME NEW a \in Acquirers, Acquire(a) \/ PanicInline(a)
      PROVE  UNCHANGED <<queue, temp, channel>>
  BY <1>4 DEF Acquire, PanicInline
<1>. QED
  BY <1>1, <1>2, <1>3, <1>4 DEF Next

LEMMA RowFrame ==
    ASSUME Next
    PROVE  \/ UNCHANGED <<st, lock, last>>
           \/ StartUnlock \/ StopRelease \/ StartTemp \/ ClientActivates \/ RecordHistory
           \/ \E t \in Threads : RunCommit(t) \/ RunFail(t) \/ Reject(t)
           \/ \E a \in Acquirers : Acquire(a)
<1>. USE DEF rows
<1>1. CASE Start \/ StartError \/ Stop \/ StopError \/ StartDispatcher
  BY <1>1 DEF Start, StartError, Stop, StopError, StartDispatcher
<1>2. CASE ControlStep
  BY <1>2 DEF ControlStep, StartPool, StartDone, StartDispatcher, StopThreads, StopPool, StopAwait
<1>3. ASSUME NEW t \in Threads, ThreadStep(t) \/ RunFail(t)
      PROVE  UNCHANGED <<st, lock, last>> \/ RunCommit(t) \/ RunFail(t) \/ Reject(t)
  BY Zenon, <1>3 DEF ThreadStep, RunStart, HintRead, HintOffer, Announce, Dispatch, LeaveDispatcher,
              Offer, NextRound, Leave, Take, WorkerExit
<1>4. ASSUME NEW a \in Acquirers, Acquire(a) \/ PanicInline(a)
      PROVE  UNCHANGED <<st, lock, last>> \/ Acquire(a)
  BY <1>4 DEF PanicInline
<1>5. ASSUME NEW w \in Workers, Panic(w)
      PROVE  UNCHANGED <<st, lock, last>>
  BY <1>5 DEF Panic
<1>. QED
  BY <1>1, <1>2, <1>3, <1>4, <1>5 DEF Next

\* The steps of a start or a shutdown write no more than these variables; the
\* others leave active, control and the pools alone.
LEMMA ControlFrame ==
    ASSUME Next
    PROVE  \/ UNCHANGED <<active, control, pool, made, stopping, sender>>
           \/ Start \/ StartError \/ Stop \/ StopError \/ StartDispatcher
           \/ StartUnlock \/ StartPool \/ StartTemp \/ StartDone
           \/ StopThreads \/ StopPool \/ StopAwait \/ StopRelease
<1>. USE DEF poolVars, history
<1>1. CASE Start \/ StartError \/ Stop \/ StopError \/ StartDispatcher
  BY <1>1
<1>2. CASE ControlStep
  BY <1>2 DEF ControlStep
<1>3. CASE ClientActivates \/ RecordHistory
  BY <1>3 DEF ClientActivates, RecordHistory
<1>4. ASSUME NEW t \in Threads, ThreadStep(t) \/ RunFail(t)
      PROVE  UNCHANGED <<active, control, pool, made, stopping, sender>>
  BY Zenon, <1>4
     DEF ThreadStep, RunStart, RunCommit, RunFail, HintRead, HintOffer, Reject, Announce,
              Dispatch, LeaveDispatcher, Offer, NextRound, Leave, Take, WorkerExit
<1>5. ASSUME NEW a \in Acquirers, Acquire(a) \/ PanicInline(a)
      PROVE  UNCHANGED <<active, control, pool, made, stopping, sender>>
  BY Zenon, <1>5 DEF Acquire, PanicInline
<1>6. ASSUME NEW w \in Workers, Panic(w)
      PROVE  UNCHANGED <<active, control, pool, made, stopping, sender>>
  BY <1>6 DEF Panic
<1>. QED
  BY <1>1, <1>2, <1>3, <1>4, <1>5, <1>6 DEF Next

-----------------------------------------------------------------------------
(* Every step keeps the types.                                             *)

\* What is in hand outside the waiting places is work.
LEMMA HandTypes ==
    ASSUME Shape, NEW t \in Threads, pc[t] \notin Wait
    PROVE  work[t] \in Work /\ work[t].job \in Jobs /\ work[t].lease \in 0..MaxLeases
<1>1. work[t] \in Work
  BY DEF Shape, ThreadTypes, Hands
<1>. QED
  BY <1>1 DEF Work

LEMMA NewWork ==
    ASSUME NEW j \in Jobs, NEW l \in 0..MaxLeases, NEW h \in BOOLEAN
    PROVE  [job |-> j, lease |-> l, hint |-> h] # NoWork
<1>1. [job |-> j, lease |-> l, hint |-> h] \in Work
  BY DEF Work
<1>. QED
  BY <1>1, WorkAssumption

LEMMA ListStep == Shape /\ Next => ListTypes'
<1>. SUFFICES ASSUME Shape, Next PROVE ListTypes'
  OBVIOUS
<1>. USE DEF poolVars
<1>0. ListTypes /\ ControlTypes /\ ThreadTypes /\ Pools \cap {0} = {}
  BY DEF Shape, Pools
<1>1. CASE UNCHANGED <<queue, temp, channel>>
  BY <1>0, <1>1 DEF ListTypes
<1>2. CASE StartTemp
  <2>1. Head(temp) \in Work /\ Tail(temp) \in Seq(Work)
    BY <1>0, <1>2, TailItems DEF StartTemp, ListTypes
  <2>2. CASE Accepts(pool) /\ Enqueue(pool, Head(temp))
    <3>1. pool \in Pools
      BY <1>0, <2>2 DEF Accepts, ControlTypes
    <3>. QED
      BY <1>0, <1>2, <2>1, <2>2, <3>1, EnqueueTypes DEF StartTemp, ListTypes, history
  <2>3. CASE queue' = queue
    BY <1>0, <1>2, <2>1, <2>3 DEF StartTemp, ListTypes, history
  <2>. QED
    BY <1>2, <2>2, <2>3 DEF StartTemp
<1>3. CASE Dispatch
  <2>1. Head(channel) \in Work /\ Tail(channel) \in Seq(Work)
    BY <1>0, <1>3, TailItems DEF Dispatch, ListTypes
  <2>2. CASE Accepts(sender) /\ Enqueue(sender, Head(channel))
    <3>1. sender \in Pools
      BY <1>0, <2>2 DEF Accepts, ControlTypes
    <3>. QED
      BY <1>0, <1>3, <2>1, <2>2, <3>1, EnqueueTypes DEF Dispatch, ListTypes
  <2>3. CASE queue' = queue
    BY <1>0, <1>3, <2>1, <2>3 DEF Dispatch, ListTypes
  <2>. QED
    BY <1>3, <2>2, <2>3 DEF Dispatch
<1>4. ASSUME NEW t \in Threads, Announce(t) PROVE ListTypes'
  <2>1. work[t] \in Work
    BY <1>4, HandTypes DEF Announce, Wait
  <2>2. Append(channel, work[t]) \in Seq(Work)
    BY <1>0, <2>1, AppendItems DEF ListTypes
  <2>. QED
    BY <1>0, <1>4, <2>2 DEF Announce, ListTypes
<1>5. ASSUME NEW t \in Threads, HintOffer(t) PROVE ListTypes'
  <2>1. work[t] \in Work
    BY <1>5, HandTypes DEF HintOffer, Wait
  <2>2. Append(temp, work[t]) \in Seq(Work)
    BY <1>0, <2>1, AppendItems DEF ListTypes
  <2>3. CASE Accepts(pool) /\ Enqueue(pool, work[t]) /\ UNCHANGED temp
    <3>1. pool \in Pools
      BY <1>0, <2>3 DEF Accepts, ControlTypes
    <3>. QED
      BY <1>0, <1>5, <2>1, <2>3, <3>1, EnqueueTypes DEF HintOffer, ListTypes, history
  <2>4. CASE queue' = queue /\ temp' \in {temp, Append(temp, work[t])}
    BY Zenon, <1>0, <1>5, <2>2, <2>4 DEF HintOffer, ListTypes, history
  <2>. QED
    BY <1>5, <2>3, <2>4 DEF HintOffer
<1>6. ASSUME NEW a \in Acquirers, Offer(a) PROVE ListTypes'
  <2>1. PICK x \in batch[a] : (Accepts(made) /\ Enqueue(made, x)) \/ UNCHANGED queue
    BY <1>6 DEF Offer
  <2>2. x \in Work /\ temp' = temp /\ channel' = channel
    BY <1>0, <1>6 DEF ThreadTypes, Offer, history
  <2>3. CASE Accepts(made) /\ Enqueue(made, x)
    <3>1. made \in Pools
      BY <1>0, <2>3 DEF Accepts, ControlTypes
    <3>. QED
      BY <1>0, <2>2, <2>3, <3>1, EnqueueTypes DEF ListTypes
  <2>. QED
    BY <1>0, <2>1, <2>2, <2>3 DEF ListTypes
<1>7. ASSUME NEW w \in Workers, Take(w) PROVE ListTypes'
  <2>1. Pool[w] \in Pools /\ queue[Pool[w]] # <<>> /\ queue' = [queue EXCEPT ![Pool[w]] = Tail(@)]
    BY <1>7, PoolAssumption DEF Take
  <2>. QED
    BY Zenon, <1>0, <1>7, <2>1, DequeueTypes DEF Take, ListTypes, history
<1>8. ASSUME NEW w \in Workers, Panic(w) PROVE ListTypes'
  <2>1. Pool[w] \in Pools /\ <<>> \in Seq(Work) /\ Len(<<>>) = 0
    BY PoolAssumption
  <2>2. queue' \in {queue, [queue EXCEPT ![Pool[w]] = <<>>]} /\ temp' = temp /\ channel' = channel
    BY <1>8 DEF Panic, history
  <2>3. queue' \in [Pools -> Seq(Work)]
    BY Zenon, <1>0, <2>1, <2>2 DEF ListTypes
  <2>4. \A p \in Pools : queue'[p] \in {queue[p], <<>>}
    BY <1>0, <2>1, <2>2 DEF ListTypes
  <2>5. \A p \in Pools : Len(queue'[p]) <= QueueSize
    BY <1>0, <2>1, <2>4, PoolAssumption DEF ListTypes
  <2>. QED
    BY <1>0, <2>2, <2>3, <2>5 DEF ListTypes
<1>. QED
  BY <1>1, <1>2, <1>3, <1>4, <1>5, <1>6, <1>7, <1>8, ListFrame

LEMMA RowStep == Shape /\ Next => RowTypes'
<1>. SUFFICES ASSUME Shape, Next PROVE RowTypes'
  OBVIOUS
<1>0. RowTypes /\ 0 \in 0..MaxLeases /\ config' = config
  BY PoolAssumption DEF Shape, Next
<1>1. CASE UNCHANGED <<st, lock, last>>
  BY <1>0, <1>1 DEF RowTypes
<1>2. CASE StartUnlock \/ StopRelease
  BY <1>0, <1>2 DEF StartUnlock, StopRelease, UnlockAll, RowTypes
<1>3. CASE StartTemp
  BY Zenon, <1>0, <1>3 DEF StartTemp, Unlock, RowTypes
<1>4. CASE ClientActivates
  <2>1. PICK k \in Jobs : /\ st[k] = "suspended" /\ st' = [st EXCEPT ![k] = "ready"]
                          /\ Activation(Client, k)
    BY Zenon, <1>4 DEF ClientActivates
  <2>. QED
    BY <1>0, <2>1, ActivationTypes DEF RowTypes, Threads
<1>5. CASE RecordHistory
  BY Zenon, <1>0, <1>5 DEF RecordHistory, RowTypes
<1>6. ASSUME NEW t \in Threads, RunCommit(t) PROVE RowTypes'
  <2>. DEFINE j == work[t].job
              k == config.activates[j]
  <2>1. j \in Jobs /\ k \in Jobs \cup {NoJob}
    BY <1>0, <1>6, HandTypes, Configured DEF RunCommit, Wait
  <2>2. CASE k # NoJob /\ st[k] = "suspended"
    BY <1>0, <1>6, <2>1, <2>2, ActivationTypes DEF RunCommit, RowTypes
  <2>3. CASE ~(k # NoJob /\ st[k] = "suspended")
    BY <1>0, <1>6, <2>1, <2>3 DEF RunCommit, RowTypes
  <2>. QED
    BY <2>2, <2>3
<1>7. ASSUME NEW t \in Threads, RunFail(t) \/ Reject(t) PROVE RowTypes'
  <2>1. work[t].job \in Jobs
    BY Zenon, <1>7, HandTypes DEF RunFail, Reject, Wait
  <2>. QED
    BY Zenon, <1>0, <1>7, <2>1 DEF RunFail, Reject, Unlock, RowTypes
<1>8. ASSUME NEW a \in Acquirers, Acquire(a) PROVE RowTypes'
  <2>1. PICK S \in SUBSET {j \in Jobs : Acquirable(j)} :
          /\ last' = [j \in Jobs |-> IF j \in S THEN last[j] + 1 ELSE last[j]]
          /\ lock' = [j \in Jobs |-> IF j \in S THEN last[j] + 1 ELSE lock[j]]
    BY Zenon, <1>8 DEF Acquire
  <2>2. \A j \in S : last[j] + 1 \in 0..MaxLeases
    BY <1>0, PoolAssumption DEF Acquirable, RowTypes
  <2>. QED
    BY Zenon, <1>0, <1>8, <2>1, <2>2 DEF Acquire, RowTypes
<1>. QED
  BY <1>1, <1>2, <1>3, <1>4, <1>5, <1>6, <1>7, <1>8, RowFrame

LEMMA ThreadTypesStep == Shape /\ Next => ThreadTypes'
<1>. SUFFICES ASSUME Shape, Next PROVE ThreadTypes'
  OBVIOUS
<1>. USE DEF threadVars
<1>0. ThreadTypes /\ RowTypes /\ ListTypes
  BY DEF Shape
<1>1. CASE Start \/ StartUnlock \/ StartError \/ StartTemp \/ StartDone \/ StopPool
           \/ StopAwait \/ StopRelease \/ StopError
  BY <1>0, <1>1 DEF Start, StartUnlock, StartError, StartTemp, StartDone, StopPool, StopAwait,
                    StopRelease, StopError, ThreadTypes
<1>2. CASE StartPool
  BY <1>0, <1>2 DEF StartPool, ThreadTypes, Places
<1>3. CASE Stop \/ StopThreads
  BY Zenon, <1>0, <1>3 DEF Stop, StopThreads, RequestStop, ThreadTypes
<1>4. CASE StartDispatcher
  <2>1. CASE pc[Dispatcher] = "off"
    <3>1. pc' \in [Threads -> Places] /\ work' \in [Threads -> Work \cup {NoWork}]
      BY Zenon, <1>0, <1>4, <2>1, GotoTypes DEF StartDispatcher, Threads, Places
    <3>. QED
      BY Zenon, <1>0, <1>4, <2>1, <3>1 DEF StartDispatcher, ThreadTypes
  <2>2. CASE pc[Dispatcher] # "off"
    BY Zenon, <1>0, <1>4, <2>2 DEF StartDispatcher, ThreadTypes
  <2>. QED
    BY <2>1, <2>2
<1>5. CASE ClientActivates
  <2>1. pc' \in [Threads -> Places] /\ work' \in [Threads -> Work \cup {NoWork}]
    BY <1>5, ActivationTypes DEF ClientActivates, Threads
  <2>. QED
    BY <1>0, <1>5, <2>1 DEF ClientActivates, ThreadTypes
<1>6. CASE RecordHistory
  <2>1. PICK j \in config.history :
          Goto(Client, "announce", [job |-> j, lease |-> 0, hint |-> FALSE])
    BY Zenon, <1>6 DEF RecordHistory
  <2>2. [job |-> j, lease |-> 0, hint |-> FALSE] \in Work
    BY <1>0, Configured, PoolAssumption DEF Work
  <2>3. pc' \in [Threads -> Places] /\ work' \in [Threads -> Work \cup {NoWork}]
    BY <1>0, <2>1, <2>2, GotoTypes DEF Threads, Places
  <2>. QED
    BY <1>0, <1>6, <2>3 DEF RecordHistory, ThreadTypes
<1>7. ASSUME NEW t \in Threads, RunStart(t) \/ HintRead(t) PROVE ThreadTypes'
  <2>1. work[t] \in Work /\ work[t].job \in Jobs
    BY <1>7, HandTypes DEF RunStart, HintRead, Wait
  <2>2. [job |-> work[t].job, lease |-> lock[work[t].job], hint |-> TRUE] \in Work
    BY <1>0, <2>1 DEF Work, RowTypes
  <2>3. pc' \in [Threads -> Places] /\ work' \in [Threads -> Work \cup {NoWork}]
    BY <1>0, <1>7, <2>1, <2>2, GotoTypes, FinishTypes DEF RunStart, HintRead, Places
  <2>. QED
    BY <1>0, <1>7, <2>3 DEF RunStart, HintRead, ThreadTypes
<1>8. ASSUME NEW t \in Threads, RunCommit(t) PROVE ThreadTypes'
  <2>. DEFINE j == work[t].job
              k == config.activates[j]
  <2>1. j \in Jobs /\ k \in Jobs \cup {NoJob}
    BY <1>0, <1>8, HandTypes, Configured DEF RunCommit, Wait
  <2>2. CASE k # NoJob /\ st[k] = "suspended"
    BY <1>0, <1>8, <2>1, <2>2, ActivationTypes DEF RunCommit, ThreadTypes
  <2>3. CASE ~(k # NoJob /\ st[k] = "suspended")
    BY <1>0, <1>8, <2>1, <2>3, FinishTypes DEF RunCommit, ThreadTypes
  <2>. QED
    BY <2>2, <2>3
<1>9. ASSUME NEW t \in Threads, RunFail(t) \/ Announce(t) PROVE ThreadTypes'
  BY <1>0, <1>9, FinishTypes DEF RunFail, Announce, ThreadTypes
<1>10. ASSUME NEW t \in Threads, HintOffer(t) PROVE ThreadTypes'
  <2>1. work[t] \in Work
    BY <1>10, HandTypes DEF HintOffer, Wait
  <2>2. pc' \in [Threads -> Places] /\ work' \in [Threads -> Work \cup {NoWork}]
    BY <1>0, <1>10, <2>1, GotoTypes, FinishTypes DEF HintOffer, Places
  <2>. QED
    BY <1>0, <1>10, <2>2 DEF HintOffer, ThreadTypes
<1>11. ASSUME NEW t \in Threads, Reject(t) PROVE ThreadTypes'
  <2>1. pc' \in [Threads -> Places] /\ work' \in [Threads -> Work \cup {NoWork}]
    BY <1>0, <1>11, FinishTypes DEF Reject
  <2>. QED
    BY <1>0, <1>11, <2>1 DEF Reject, ThreadTypes
<1>12. CASE Dispatch \/ LeaveDispatcher
  BY <1>0, <1>12 DEF Dispatch, LeaveDispatcher, Skipped, Goto, ThreadTypes, Threads, Places
<1>13. ASSUME NEW a \in Acquirers, Offer(a) PROVE ThreadTypes'
  <2>1. PICK x \in batch[a] :
          /\ batch' = [batch EXCEPT ![a] = @ \ {x}]
          /\ UNCHANGED <<pc, work>> \/ Goto(a, "start", x) \/ Goto(a, "reject", x)
    BY Zenon, <1>13 DEF Offer
  <2>2. x \in Work /\ a \in Threads
    BY <1>0 DEF ThreadTypes, Threads
  <2>3. pc' \in [Threads -> Places] /\ work' \in [Threads -> Work \cup {NoWork}]
    BY <1>0, <2>1, <2>2 DEF ThreadTypes, Goto, Places
  <2>. QED
    BY <1>0, <1>13, <2>1, <2>3 DEF Offer, ThreadTypes
<1>14. ASSUME NEW a \in Acquirers, NextRound(a) \/ Leave(a) \/ PanicInline(a) PROVE ThreadTypes'
  BY <1>0, <1>14 DEF NextRound, Leave, PanicInline, Goto, ThreadTypes, Threads, Places
<1>15. ASSUME NEW a \in Acquirers, Acquire(a) PROVE ThreadTypes'
  <2>1. PICK S \in SUBSET {j \in Jobs : Acquirable(j)} :
          batch' = [batch EXCEPT ![a] =
                      {[job |-> j, lease |-> last[j] + 1, hint |-> FALSE] : j \in S}]
    BY Zenon, <1>15 DEF Acquire
  <2>2. {[job |-> j, lease |-> last[j] + 1, hint |-> FALSE] : j \in S} \subseteq Work
    <3>1. \A j \in S : last[j] + 1 \in 0..MaxLeases
      BY <1>0, PoolAssumption DEF Acquirable, RowTypes
    <3>2. \A j \in S : [job |-> j, lease |-> last[j] + 1, hint |-> FALSE] \in Work
      BY <3>1 DEF Work
    <3>. QED
      BY <3>2
  <2>. QED
    BY <1>0, <1>15, <2>1, <2>2 DEF Acquire, ThreadTypes, Threads, Places
<1>16. ASSUME NEW w \in Workers, Take(w) PROVE ThreadTypes'
  <2>1. Pool[w] \in Pools /\ queue[Pool[w]] # <<>> /\ queue[Pool[w]] \in Seq(Work) /\ w \in Threads
    BY <1>0, <1>16, PoolAssumption DEF Take, ListTypes, Threads
  <2>2. Head(queue[Pool[w]]) \in Work
    BY <2>1, TailItems
  <2>. QED
    BY <1>0, <1>16, <2>1, <2>2, GotoTypes DEF Take, ThreadTypes, Places
<1>17. ASSUME NEW w \in Workers, WorkerExit(w) \/ Panic(w) PROVE ThreadTypes'
  BY <1>0, <1>17 DEF WorkerExit, Panic, Goto, ThreadTypes, Threads, Places
<1>. QED
  BY <1>1, <1>2, <1>3, <1>4, <1>5, <1>6, <1>7, <1>8, <1>9, <1>10, <1>11, <1>12, <1>13, <1>14,
     <1>15, <1>16, <1>17 DEF Next, ControlStep, ThreadStep

-----------------------------------------------------------------------------
(* The threads stay where they can be, with something in hand or not; the  *)
(* pool outlives its senders.                                              *)

Kinds ==
    /\ Client \in Threads /\ Dispatcher \in Threads /\ Client # Dispatcher
    /\ \A a \in Acquirers : a \in Threads /\ a \notin Workers /\ a \notin {Client, Dispatcher}
    /\ \A w \in Workers : w \in Threads /\ w \notin Acquirers /\ w \notin {Client, Dispatcher}
    /\ \A t \in Threads : t \in Workers \/ t \in Acquirers \/ t \in {Client, Dispatcher}

LEMMA ThreadKinds == Kinds
  BY ThreadAssumption DEF Kinds, Threads

\* A thread that has been started goes to a place of its kind.
Move(t, place) ==
    /\ pc[t] # "off" /\ place \in Station(t) /\ (t = Dispatcher => place = "gone")
    /\ pc' = [pc EXCEPT ![t] = place]

\* Threads are started by StartPool and StartDispatcher; every other step moves one
\* thread, or none.
LEMMA Moves ==
    ASSUME Shape, Next
    PROVE  \/ pc' = pc \/ StartPool \/ StartDispatcher
           \/ \E t \in Threads : \E place \in Places : Move(t, place)
<1>. DEFINE Moved == \/ pc' = pc
                     \/ \E t \in Threads : \E place \in Places : Move(t, place)
<1>0. Stations /\ Kinds
  BY ThreadKinds DEF Shape
<1>. USE <1>0 DEF Stations, Station, Kinds
<1>1. CASE Start \/ StartUnlock \/ StartError \/ StartTemp \/ StartDone \/ Stop \/ StopThreads
           \/ StopPool \/ StopAwait \/ StopRelease \/ StopError
  BY <1>1 DEF Start, StartUnlock, StartError, StartTemp, StartDone, Stop, StopThreads,
              StopPool, StopAwait, StopRelease, StopError, threadVars
<1>2. ASSUME NEW t \in Threads, NEW place \in Station(t), NEW x, Goto(t, place, x),
             pc[t] # "off", t # Dispatcher
      PROVE  Moved
  BY Zenon, <1>2 DEF Goto, Move, Places
<1>3. ASSUME NEW t \in Threads, Finish(t), pc[t] # "off", t # Dispatcher
      PROVE  Moved
  BY <1>2, <1>3 DEF Finish, Places
<1>4. ASSUME NEW t \in Threads, NEW k, Activation(t, k), pc[t] # "off", t # Dispatcher
      PROVE  Moved
  <2>1. "hinted" \in Station(t)
    BY <1>4 DEF Places
  <2>. QED
    BY <1>2, <1>3, <1>4, <2>1 DEF Activation
<1>5. CASE ClientActivates \/ RecordHistory
  BY Zenon, <1>2, <1>4, <1>5 DEF ClientActivates, RecordHistory
<1>6. ASSUME NEW t \in Threads, RunStart(t) \/ RunCommit(t) \/ RunFail(t) PROVE Moved
  <2>1. pc[t] # "off" /\ t # Dispatcher
    BY Zenon, <1>6 DEF RunStart, RunCommit, RunFail
  <2>2. pc[t] = "start" => "run" \in Station(t)
    BY DEF Places
  <2>3. Finish(t) \/ (Goto(t, "run", work[t]) /\ pc[t] = "start") \/ \E k : Activation(t, k)
    BY Zenon, <1>6 DEF RunStart, RunCommit, RunFail
  <2>. QED
    BY <1>2, <1>3, <1>4, <2>1, <2>2, <2>3
<1>7. ASSUME NEW t \in Threads, HintRead(t) \/ HintOffer(t) \/ Reject(t) \/ Announce(t) PROVE Moved
  <2>1. pc[t] # "off" /\ t # Dispatcher
    BY Zenon, <1>7 DEF HintRead, HintOffer, Reject, Announce
  <2>2. "offer" \in Station(t) /\ "reject" \in Station(t)
    BY <2>1 DEF Places
  <2>3. Finish(t) \/ \E x : Goto(t, "offer", x) \/ Goto(t, "reject", x)
    BY Zenon, <1>7 DEF HintRead, HintOffer, Reject, Announce
  <2>. QED
    BY <1>2, <1>3, <2>1, <2>2, <2>3
<1>8. ASSUME NEW a \in Acquirers, Offer(a) \/ NextRound(a) \/ Leave(a) \/ Acquire(a)
                                  \/ PanicInline(a)
      PROVE  Moved
  <2>1. \/ pc' = pc
        \/ \E place \in {"off", "idle", "batch", "start", "reject"} :
             pc[a] # "off" /\ pc' = [pc EXCEPT ![a] = place]
    BY Zenon, <1>8 DEF Offer, NextRound, Leave, Acquire, PanicInline, Goto
  <2>. QED
    BY <2>1 DEF Move, Places
<1>9. ASSUME NEW w \in Workers, Take(w) \/ WorkerExit(w) \/ Panic(w) PROVE Moved
  <2>1. \E place \in {"start", "gone"} : pc[w] # "off" /\ pc' = [pc EXCEPT ![w] = place]
    BY <1>9 DEF Take, WorkerExit, Panic, Goto
  <2>. QED
    BY Zenon, <2>1 DEF Move, Places
<1>10. CASE Dispatch \/ LeaveDispatcher
  <2>1. pc' = pc \/ (pc[Dispatcher] # "off" /\ pc' = [pc EXCEPT ![Dispatcher] = "gone"])
    BY <1>10 DEF Dispatch, LeaveDispatcher, Skipped, Goto
  <2>. QED
    BY <2>1 DEF Move, Places
<1>. QED
  BY <1>1, <1>5, <1>6, <1>7, <1>8, <1>9, <1>10 DEF Next, ControlStep, ThreadStep

LEMMA StationsStep == Shape /\ Next => Stations'
<1>. SUFFICES ASSUME Shape, Next PROVE Stations'
  OBVIOUS
<1>0. Stations /\ ThreadTypes /\ Kinds
  BY ThreadKinds DEF Shape
<1>1. CASE pc' = pc
  BY <1>0, <1>1 DEF Stations, Station
<1>2. CASE StartPool \/ StartDispatcher
  BY <1>0, <1>2 DEF StartPool, StartDispatcher, Goto, Stations, Station, Kinds, Places,
                    ThreadTypes
<1>3. ASSUME NEW t \in Threads, NEW place \in Places, Move(t, place) PROVE Stations'
  BY <1>0, <1>3 DEF Move, Stations, Station, ThreadTypes
<1>. QED
  BY <1>1, <1>2, <1>3, Moves

\* A thread that is off stays off unless it is started.
LEMMA Started ==
    ASSUME Shape, Next, ~StartPool, ~StartDispatcher
    PROVE  /\ \A t \in Threads : pc[t] = "off" => pc'[t] = "off"
           /\ pc'[Dispatcher] = "idle" => pc[Dispatcher] = "idle"
<1>1. ThreadTypes /\ Kinds
  BY ThreadKinds DEF Shape
<1>2. pc' = pc \/ \E t \in Threads : \E place \in Places : Move(t, place)
  BY Moves
<1>. QED
  BY <1>1, <1>2 DEF Move, ThreadTypes, Kinds

LEMMA HandsStep == Shape /\ Next => Hands'
<1>. SUFFICES ASSUME Shape, Next PROVE Hands'
  OBVIOUS
<1>0. RowTypes /\ ListTypes /\ ThreadTypes /\ Hands /\ Kinds
  BY ThreadKinds DEF Shape
<1>. USE DEF threadVars, Finish, Goto, Hands, ThreadTypes, Wait, Kinds
<1>1. CASE UNCHANGED <<batch, pc, work>>
  BY <1>0, <1>1
<1>2. CASE StartPool
  <2>1. pool = 0 /\ \A a \in Acquirers : pc[a] = "off"
    BY <1>2 DEF StartPool, Shape, PoolLife, Closed
  <2>2. \A w \in Workers : Pool[w] = made + 1 => pc[w] = "off"
    <3>1. made \in Nat
      BY PoolAssumption DEF Shape, ControlTypes, Pools
    <3>. QED
      BY <3>1 DEF Shape, PoolLife
  <2>. QED
    BY <1>0, <1>2, <2>1, <2>2 DEF StartPool
<1>3. CASE StartDispatcher \/ LeaveDispatcher
  BY <1>0, <1>3 DEF StartDispatcher, LeaveDispatcher
<1>4. CASE RecordHistory
  <2>1. PICK j \in config.history :
          Goto(Client, "announce", [job |-> j, lease |-> 0, hint |-> FALSE])
    BY Zenon, <1>4 DEF RecordHistory
  <2>2. [job |-> j, lease |-> 0, hint |-> FALSE] # NoWork
    <3>1. j \in Jobs /\ 0 \in 0..MaxLeases
      BY <1>0, Configured, PoolAssumption
    <3>. QED
      BY Zenon, <3>1, NewWork
  <2>. QED
    BY <1>0, <1>4, <2>1, <2>2 DEF RecordHistory
<1>5. ASSUME NEW t \in Threads, NEW k \in Jobs, st[k] = "suspended", Activation(t, k),
             batch' = batch
      PROVE  Hands'
  <2>1. last[k] + 1 \in 0..MaxLeases
    BY <1>5, PoolAssumption DEF Shape, NeverLeased
  <2>2. [job |-> k, lease |-> last[k] + 1, hint |-> TRUE] # NoWork
    BY Zenon, <2>1, NewWork
  <2>. QED
    BY <1>0, <1>5, <2>2 DEF Activation
<1>6. CASE ClientActivates
  BY <1>0, <1>5, <1>6 DEF ClientActivates
<1>7. ASSUME NEW t \in Threads, Finish(t), batch' = batch PROVE Hands'
  BY <1>0, <1>7
<1>8. ASSUME NEW t \in Threads, RunStart(t) \/ HintRead(t) PROVE Hands'
  <2>1. work[t].job \in Jobs /\ work[t] # NoWork
    BY <1>0, <1>8, HandTypes DEF RunStart, HintRead
  <2>2. [job |-> work[t].job, lease |-> lock[work[t].job], hint |-> TRUE] # NoWork
    BY Zenon, <1>0, <2>1, NewWork DEF RowTypes
  <2>. QED
    BY <1>0, <1>8, <2>1, <2>2 DEF RunStart, HintRead
<1>9. ASSUME NEW t \in Threads, RunCommit(t) PROVE Hands'
  <2>. DEFINE j == work[t].job
              k == config.activates[j]
  <2>1. j \in Jobs /\ k \in Jobs \cup {NoJob}
    BY <1>0, <1>9, HandTypes, Configured DEF RunCommit
  <2>2. CASE k # NoJob /\ st[k] = "suspended"
    BY <1>5, <1>9, <2>1, <2>2 DEF RunCommit
  <2>3. CASE ~(k # NoJob /\ st[k] = "suspended")
    BY <1>7, <1>9, <2>1, <2>3 DEF RunCommit
  <2>. QED
    BY <2>2, <2>3
<1>10. ASSUME NEW t \in Threads, RunFail(t) \/ Announce(t) PROVE Hands'
  BY <1>7, <1>10 DEF RunFail, Announce
<1>11. ASSUME NEW t \in Threads, HintOffer(t) PROVE Hands'
  BY <1>0, <1>11 DEF HintOffer
<1>12. ASSUME NEW t \in Threads, Reject(t) PROVE Hands'
  BY <1>0, <1>12 DEF Reject
<1>13. ASSUME NEW a \in Acquirers, Offer(a) PROVE Hands'
  <2>1. PICK x \in batch[a] :
          /\ batch' = [batch EXCEPT ![a] = @ \ {x}]
          /\ UNCHANGED <<pc, work>> \/ Goto(a, "start", x) \/ Goto(a, "reject", x)
    BY Zenon, <1>13 DEF Offer
  <2>2. x # NoWork
    BY <1>0, WorkAssumption
  <2>. QED
    BY <1>0, <1>13, <2>1, <2>2 DEF Offer
<1>14. ASSUME NEW a \in Acquirers, NextRound(a) \/ Leave(a) \/ PanicInline(a) \/ Acquire(a)
       PROVE  Hands'
  BY <1>0, <1>14 DEF NextRound, Leave, PanicInline, Acquire
<1>15. ASSUME NEW w \in Workers, Take(w) PROVE Hands'
  <2>1. queue[Pool[w]] # <<>> /\ queue[Pool[w]] \in Seq(Work)
    BY <1>0, <1>15, PoolAssumption DEF Take, ListTypes
  <2>2. Head(queue[Pool[w]]) # NoWork
    BY <2>1, TailItems, WorkAssumption
  <2>. QED
    BY <1>0, <1>15, <2>2 DEF Take
<1>16. ASSUME NEW w \in Workers, WorkerExit(w) \/ Panic(w) PROVE Hands'
  BY Zenon, <1>0, <1>16 DEF WorkerExit, Panic
<1>17. CASE Dispatch
  BY Zenon, <1>1, <1>17 DEF Dispatch, Skipped
<1>18. CASE Start \/ StartUnlock \/ StartError \/ StartTemp \/ StartDone \/ Stop \/ StopThreads
            \/ StopPool \/ StopAwait \/ StopRelease \/ StopError
  BY Zenon, <1>1, <1>18 DEF Start, StartUnlock, StartError, StartTemp, StartDone, Stop, StopThreads,
                     StopPool, StopAwait, StopRelease, StopError
<1>. QED
  BY Zenon, <1>2, <1>3, <1>4, <1>6, <1>8, <1>9, <1>10, <1>11, <1>12, <1>13, <1>14, <1>15, <1>16,
     <1>17, <1>18 DEF Next, ControlStep, ThreadStep

LEMMA NeverLeasedStep == Shape /\ Next => NeverLeased'
<1>. SUFFICES ASSUME Shape, Next PROVE NeverLeased'
  OBVIOUS
<1>0. RowTypes /\ NeverLeased /\ config' = config
  BY DEF Shape, Next
<1>. USE DEF RowTypes, NeverLeased
<1>1. CASE UNCHANGED <<st, lock, last>>
  BY <1>0, <1>1
<1>2. CASE StartUnlock \/ StopRelease
  BY Zenon, <1>0, <1>2 DEF StartUnlock, StopRelease, UnlockAll
<1>3. CASE StartTemp
  BY Zenon, <1>0, <1>3 DEF StartTemp, Unlock
<1>4. CASE ClientActivates
  BY Zenon, <1>0, <1>4 DEF ClientActivates, Activation
<1>5. CASE RecordHistory
  BY <1>0, <1>5 DEF RecordHistory
<1>6. ASSUME NEW t \in Threads, RunCommit(t) PROVE NeverLeased'
  <2>. DEFINE j == work[t].job
              k == config.activates[j]
  <2>1. j \in Jobs /\ k \in Jobs \cup {NoJob}
    BY Zenon, <1>0, <1>6, HandTypes, Configured DEF RunCommit, Wait
  <2>2. CASE k # NoJob /\ st[k] = "suspended"
    BY Zenon, <1>0, <1>6, <2>1, <2>2 DEF RunCommit, Activation
  <2>3. CASE ~(k # NoJob /\ st[k] = "suspended")
    BY Zenon, <1>0, <1>6, <2>1, <2>3 DEF RunCommit
  <2>. QED
    BY <2>2, <2>3
<1>7. ASSUME NEW t \in Threads, RunFail(t) \/ Reject(t) PROVE NeverLeased'
  <2>1. work[t].job \in Jobs
    BY Zenon, <1>7, HandTypes DEF RunFail, Reject, Wait
  <2>. QED
    BY Zenon, <1>0, <1>7, <2>1 DEF RunFail, Reject, Unlock
<1>8. ASSUME NEW a \in Acquirers, Acquire(a) PROVE NeverLeased'
  BY <1>0, <1>8 DEF Acquire, Acquirable
<1>. QED
  BY Zenon, <1>1, <1>2, <1>3, <1>4, <1>5, <1>6, <1>7, <1>8, RowFrame

LEMMA ControlStepTypes == Shape /\ Next => ControlTypes' /\ PoolLife'
<1>. SUFFICES ASSUME Shape, Next PROVE ControlTypes' /\ PoolLife'
  OBVIOUS
<1>0. /\ ControlTypes /\ ThreadTypes /\ PoolLife /\ Kinds
      /\ made \in Nat /\ MaxPools \in Nat /\ Pools = 1..MaxPools
      /\ \A w \in Workers : Pool[w] \in 1..MaxPools
  BY ThreadKinds, PoolAssumption DEF Shape, ControlTypes, Pools
<1>. USE DEF poolVars, threadVars, history, ControlTypes, PoolLife, ThreadTypes, Closed, Kinds
<1>1. CASE Start
  BY <1>0, <1>1 DEF Start
<1>2. CASE StartUnlock \/ StartError \/ StartDone
  BY Zenon, <1>0, <1>2 DEF StartUnlock, StartError, StartDone
<1>3. CASE StartPool
  <2>1. /\ pool = 0 /\ active /\ made + 1 \in Pools /\ pool' = made + 1 /\ made' = made + 1
        /\ control' = "temp" /\ UNCHANGED <<active, stopping, sender>>
    BY <1>0, <1>3 DEF StartPool
  <2>2. ControlTypes'
    BY <1>0, <2>1
  <2>3. stopping' \subseteq 1..made' /\ pool' \notin stopping'
    BY <1>0, <2>1
  <2>4. pc'[Dispatcher] = pc[Dispatcher] /\ ~(pc[Dispatcher] = "idle" /\ sender # 0)
    BY <1>0, <1>3, <2>1 DEF StartPool
  <2>5. \A w \in Workers : Pool[w] > made' => pc'[w] = "off"
    BY <1>0, <1>3, <2>1 DEF StartPool
  <2>6. pool' # 0 /\ pool' \in {0, made'}
    BY <1>0, <2>1
  <2>. QED
    BY <2>1, <2>2, <2>3, <2>4, <2>5, <2>6
<1>4. CASE StartTemp
  BY <1>0, <1>4 DEF StartTemp
<1>5. CASE StartDispatcher
  BY <1>0, <1>5 DEF StartDispatcher, Goto
<1>6. CASE Stop
  BY <1>0, <1>6 DEF Stop
<1>10. CASE StopThreads
  BY <1>0, <1>10 DEF StopThreads
<1>7. CASE StopPool
  BY <1>0, <1>7 DEF StopPool, Joined
<1>8. CASE StopAwait \/ StopRelease \/ StopError
  BY Zenon, <1>0, <1>8 DEF StopAwait, StopRelease, StopError
<1>9. CASE UNCHANGED <<active, control, pool, made, stopping, sender>> /\ ~StartPool
           /\ ~StartDispatcher
  <2>1. ControlTypes'
    BY <1>0, <1>9
  <2>2. /\ \A t \in Threads : pc[t] = "off" => pc'[t] = "off"
        /\ pc'[Dispatcher] = "idle" => pc[Dispatcher] = "idle"
    BY <1>9, Started
  <2>. QED
    BY <1>0, <1>9, <2>1, <2>2
<1>. QED
  BY Zenon, <1>1, <1>2, <1>3, <1>4, <1>5, <1>6, <1>7, <1>8, <1>9, <1>10, ControlFrame

\* The types and the order of the pools' lives hold in every state.
LEMMA ShapeInv == Spec => []Shape
<1>1. Shape /\ [Next]_vars => Shape'
  <2>. SUFFICES ASSUME Shape, [Next]_vars PROVE Shape'
    OBVIOUS
  <2>1. CASE Next
    BY <2>1, ListStep, RowStep, ThreadTypesStep, StationsStep, HandsStep, NeverLeasedStep,
       ControlStepTypes DEF Shape
  <2>2. CASE UNCHANGED vars
    BY Zenon, <2>2 DEF vars, rows, poolVars, history, threadVars, Shape, RowTypes, ControlTypes,
                ListTypes, ThreadTypes, Stations, Hands, NeverLeased, PoolLife
  <2>. QED
    BY <2>1, <2>2
<1>. QED
  BY <1>1, InitShape, PTL DEF Spec

\* Every variable of the executor keeps its type, and no channel of a pool ever
\* holds more than the configured queue size, however many threads offer to it.
THEOREM ExecutorTypes == Spec => []TypeOK
  BY ShapeInv, ShapeTypes, PTL

LEMMA PoolsInOrder == Shape => PoolOutlivesSenders
  BY DEF Shape, PoolLife, PoolOutlivesSenders, ControlTypes

\* A pool is not shut down while an acquisition thread or the history dispatcher can
\* still offer to it: try_shutdown joins the threads before it stops the pool.
THEOREM ExecutorPoolOutlivesSenders == Spec => []PoolOutlivesSenders
  BY ShapeInv, PoolsInOrder, PTL

=============================================================================
