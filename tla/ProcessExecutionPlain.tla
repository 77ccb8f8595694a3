------------------------- MODULE ProcessExecutionPlain -------------------------
(***************************************************************************)
(* The invariant of plain processes is kept by every step, and what        *)
(* follows from it.                                                        *)
(***************************************************************************)
EXTENDS ProcessExecutionProof, FiniteSetTheorems

-----------------------------------------------------------------------------
(* Joins and choices, which count.                                         *)

\* A token at a join: one more than this one is needed.
LEMMA ParallelJoinWaitsSound ==
    ASSUME SoundNow, IsDefinition(pd), ParallelJoinWaits
    PROVE  SoundNext
<1>. DEFINE e == Head(agenda).execution
            f == Parked(Entering)
<1>1. /\ agenda # << >> /\ Entering.id \in DOMAIN executions
      /\ Kind(Entering.activity) = "parallel" /\ ~JoinOpen
      /\ executions' = Put(executions, f)
      /\ agenda' = Tail(agenda)
      /\ UNCHANGED <<tasks, jobs, waits, instance, nextId>>
  BY Zenon DEF ParallelJoinWaits, Park, Arrived, Runs, Popped, events
<1>2. /\ Same(e, Entering) /\ Entering \in Execution /\ Entering.id = e.id
      /\ Entering.activity # NoNode /\ ~Entering.ended
  BY <1>1, Enters
<1>3. /\ Same(Entering, f) /\ f.activity = Entering.activity /\ ~f.active /\ f.concurrent
      /\ ~f.ended /\ f.id = e.id /\ f.parent = Entering.parent
  <2>1. /\ Same(Entering, f) /\ f.active = FALSE /\ f.concurrent = TRUE
        /\ f.ended = Entering.ended /\ f.activity = Entering.activity
    BY Zenon, <1>2 DEF Parked, Same, Execution
  <2>. QED
    BY Zenon, <1>2, <2>1 DEF Same
<1>4. Follows(agenda, "take", << >>, agenda') /\ GoesOn("take", f, << >>, agenda')
  BY Zenon, <1>1, Stops
<1>5. nextId' \in Nat /\ nextId <= nextId' /\ nextId \in Nat
  BY <1>1 DEF SoundNow, Sound
<1>6. Advances(e, f, "take", << >>)
  BY <1>1, <1>2, <1>3, <1>4, <1>5, WorkKept, SameSame DEF Advances
<1>7. Incoming(Entering.activity) > 1
  <2>. DEFINE T == TokensAt(Arrived, Entering)
  <2>1. DOMAIN Arrived = DOMAIN executions /\ Arrived[e.id] = f
    BY <1>1, <1>2, <1>3, PutAgain DEF Arrived
  <2>2. e.id \in T
    BY <1>1, <1>2, <1>3, <2>1 DEF TokensAt, ParallelScope
  <2>3. T \subseteq 1 .. nextId - 1
    <3>1. \A i \in DOMAIN executions : i \in 1 .. nextId - 1
      BY DEF SoundNow, Sound, RowsSound, Token
    <3>. QED
      BY <2>1, <3>1 DEF TokensAt
  <2>4. IsFiniteSet(T)
    <3>1. IsFiniteSet(1 .. nextId - 1)
      BY <1>5, FS_Interval
    <3>. QED
      BY Zenon, <2>3, <3>1, FS_Subset
  <2>5. Cardinality(T) \in Nat /\ Cardinality(T) # 0
    BY Zenon, <2>2, <2>4, FS_CardinalityType, FS_EmptySet
  <2>6. Incoming(Entering.activity) \in Nat
    <3>. DEFINE M == {m \in DOMAIN pd.kind : Entering.activity \in Range(pd.out[m])}
    <3>1. IsFiniteSet(M)
      BY FS_Subset DEF IsDefinition
    <3>. QED
      BY Zenon, <3>1, FS_CardinalityType DEF Incoming
  <2>. QED
    BY <1>1, <2>5, <2>6 DEF JoinOpen
<1>8. AtJoin(f) /\ Kind(f.activity) = "parallel"
  BY Zenon, <1>1, <1>2, <1>3, <1>7 DEF AtJoin
<1>. QED
  BY <1>1, <1>3, <1>6, <1>8, GoOnSound

\* The flows that are taken: one out of a step, at least one out of an inclusive gateway.
LEMMA SelectedFlows ==
    ASSUME IsDefinition(pd), Plain, NEW n \in Nodes, NEW holds,
           NEW flows \in Selected(n, holds)
    PROVE  /\ flows \in Seq(Nodes)
           /\ Kind(n) \in Steps => Len(flows) = 1
           /\ Kind(n) = "inclusive" => flows # << >>
<1>. DEFINE K == Met(n, holds)
<1>1. /\ pd.out[n] \in Seq(Nodes) /\ pd.default[n] \in Nodes \cup {NoNode}
      /\ DOMAIN pd.out[n] = 1 .. Len(pd.out[n]) /\ NoNode \notin Nodes
  BY DEF IsDefinition, Nodes
<1>2. K \subseteq DOMAIN pd.out[n]
  BY Zenon DEF Met
<1>3. CASE K = {} /\ pd.default[n] # NoNode
  <2>1. flows = <<pd.default[n]>> /\ pd.default[n] \in Nodes
    BY Zenon, <1>1, <1>3 DEF Selected
  <2>. QED
    BY <2>1
<1>4. CASE ~(K = {} /\ pd.default[n] # NoNode)
  <2>1. PICK f \in InOrder(K) : flows = [k \in DOMAIN f |-> pd.out[n][f[k]]]
    BY Zenon, <1>4 DEF Selected
  <2>2. IsFiniteSet(K)
    <3>1. IsFiniteSet(1 .. Len(pd.out[n]))
      BY <1>1, FS_Interval
    <3>. QED
      BY <1>1, <1>2, <3>1, FS_Subset
  <2>3. Cardinality(K) \in Nat /\ (Cardinality(K) = 0 <=> K = {})
    BY <2>2, FS_CardinalityType, FS_EmptySet
  <2>4. f \in [1 .. Cardinality(K) -> K]
    BY Zenon, <2>1 DEF InOrder
  <2>. HIDE DEF K
  <2>5. /\ DOMAIN flows = 1 .. Cardinality(K)
        /\ \A k \in 1 .. Cardinality(K) : flows[k] \in Nodes
        /\ flows = [k \in 1 .. Cardinality(K) |-> flows[k]]
    BY <1>1, <1>2, <2>1, <2>4
  <2>6. flows \in Seq(Nodes) /\ Len(flows) = Cardinality(K)
    BY <2>3, <2>5
  <2>7. ASSUME Kind(n) \in Steps
        PROVE  Cardinality(K) = 1
    <3>1. /\ Len(pd.out[n]) = 1 /\ pd.default[n] = NoNode /\ <<n, pd.out[n][1]>> \notin pd.cond
      BY Zenon, <2>7 DEF Plain
    <3>2. DOMAIN pd.out[n] = {1} /\ pd.out[n][1] \in Nodes
      BY <1>1, <3>1
    <3>3. K = {1}
      BY Zenon, <1>1, <3>1, <3>2 DEF K, Met, Conditional
    <3>. QED
      BY <3>3, FS_Singleton
  <2>8. ASSUME Kind(n) = "inclusive"
        PROVE  K # {}
    BY Zenon, <1>4, <2>8 DEF Plain
  <2>. QED
    BY <2>3, <2>6, <2>7, <2>8
<1>. QED
  BY <1>3, <1>4

LEMMA TakeOutgoingSound ==
    ASSUME SoundNow, SoundCommitted, IsDefinition(pd), Plain, TakeOutgoing
    PROVE  /\ SoundNext
           /\ \/ Rollback
              \/ UNCHANGED <<pd, inCommand, committed, reading, tasks, boundaries, subscriptions>>
<1>0. PICK holds \in SUBSET Conditional(Leaving.activity) :
          \E flows \in Selected(Leaving.activity, holds) :
              \/ TakeExclusive(flows) \/ TakeInclusive(flows)
              \/ TakeSeveral(flows) \/ TakeOne(flows) \/ TakeNone(flows)
  BY Zenon DEF TakeOutgoing
<1>1. PICK flows \in Selected(Leaving.activity, holds) :
              \/ TakeExclusive(flows) \/ TakeInclusive(flows)
              \/ TakeSeveral(flows) \/ TakeOne(flows) \/ TakeNone(flows)
  BY <1>0
<1>2. Popped("take") /\ agenda # << >> /\ Leaving = Head(agenda).execution
  BY Zenon DEF TakeOutgoing, Popped, Leaving
<1>3. Leaving.activity \in Nodes
  BY <1>2, HeadOp
<1>4. /\ flows \in Seq(Nodes)
      /\ Kind(Leaving.activity) \in Steps => Len(flows) = 1
      /\ Kind(Leaving.activity) = "inclusive" => flows # << >>
  BY <1>1, <1>3, SelectedFlows
<1>5. Kind(Leaving.activity) \in Single => Kind(Leaving.activity) \in Steps
  BY <1>3, PlainKind DEF Single, Steps
<1>6. flows # << >> => Head(flows) \in Nodes
  BY <1>4
<1>7. ASSUME NEW n \in Nodes, MoveTo(n)
      PROVE  /\ SoundNext
             /\ UNCHANGED <<pd, inCommand, committed, reading, tasks, boundaries, subscriptions>>
  <2>1. SoundNext
    BY <1>2, <1>7, MoveToSound
  <2>. QED
    BY <1>7, <2>1 DEF MoveTo, kept, events
<1>8. CASE TakeExclusive(flows)
  <2>1. CASE flows # << >> /\ MoveTo(Head(flows))
    BY <1>6, <1>7, <2>1
  <2>2. CASE Rollback
    BY Zenon, <2>2, RollbackSound
  <2>. QED
    BY Zenon, <1>8, <2>1, <2>2 DEF TakeExclusive
<1>9. CASE TakeInclusive(flows)
  <2>1. flows # << >>
    BY Zenon, <1>4, <1>9 DEF TakeInclusive, LeavesFrom
  <2>2. SoundNext
    BY <1>2, <1>4, <1>9, <2>1, TakeInclusiveSound
  <2>. QED
    BY <1>9, <2>2 DEF TakeInclusive, Fork, kept, events
<1>10. CASE TakeOne(flows)
  <2>1. flows # << >> /\ MoveTo(Head(flows))
    BY <1>10 DEF TakeOne
  <2>. QED
    BY Zenon, <1>6, <1>7, <2>1
<1>11. ~TakeSeveral(flows) /\ ~TakeNone(flows)
  <2>1. Kind(Leaving.activity) \in Single => Len(flows) = 1
    BY Zenon, <1>4, <1>5
  <2>2. Len(flows) = 1 => flows # << >> /\ ~(Len(flows) > 1)
    <3>1. Len(<< >>) = 0
      BY Zenon
    <3>2. flows = << >> => Len(flows) = 0
      BY <3>1, Zenon
    <3>. QED
      BY <3>2
  <2>3. ~TakeSeveral(flows)
    BY Zenon, <2>1, <2>2 DEF TakeSeveral, LeavesFrom
  <2>4. ~TakeNone(flows)
    BY Zenon, <2>1, <2>2 DEF TakeNone, LeavesFrom
  <2>. QED
    BY Zenon, <2>3, <2>4
<1>. QED
  BY <1>1, <1>8, <1>9, <1>10, <1>11

-----------------------------------------------------------------------------
(* Every step keeps the invariant.                                          *)

LEMMA NoJoinActivated ==
    ASSUME IInv
    PROVE  ~ActivateInactiveJoins
<1>. SUFFICES ASSUME ActivateInactiveJoins PROVE FALSE
  BY Zenon
<1>1. ParkedJoins = {}
  <2>1. RowsSound(executions, nextId) /\ Plain
    BY Zenon DEF IInv, Sound
  <2>2. ASSUME NEW i \in DOMAIN executions, executions[i].activity # NoNode,
               Kind(executions[i].activity) = "inclusive", Incoming(executions[i].activity) > 1
        PROVE  FALSE
    <3>1. executions[i].activity \in Nodes
      BY Zenon, <2>1, <2>2 DEF RowsSound, Token, Execution, Nodes
    <3>2. Incoming(executions[i].activity) \in {0, 1}
      BY Zenon, <2>1, <2>2, <3>1 DEF Plain
    <3>. QED
      BY <2>2, <3>2
  <2>. QED
    BY <2>2 DEF ParkedJoins
<1>2. PICK S \in Scans : \E order \in Orders(Ready(S)) :
          [k \in DOMAIN order |-> Merged(executions[order[k]], nextId + k - 1)] # << >>
  BY DEF ActivateInactiveJoins
<1>3. Ready(S) = {}
  BY <1>1, <1>2 DEF Ready, Scans
<1>4. PICK order \in Orders(Ready(S)) :
          [k \in DOMAIN order |-> Merged(executions[order[k]], nextId + k - 1)] # << >>
  BY <1>2
<1>5. Cardinality(Ready(S)) = 0
  BY <1>3, FS_EmptySet
<1>6. DOMAIN order = {}
  <2>1. order \in [1 .. Cardinality(Ready(S)) -> Ready(S)]
    BY Zenon, <1>4 DEF Orders, Injection
  <2>. QED
    BY <1>5, <2>1
<1>. QED
  BY <1>4, <1>6

LEMMA NoEventHappens ==
    ASSUME IInv
    PROVE  /\ \A j \in jobs : ~TriggerTimerBoundaryEvent(j)
           /\ \A b \in DOMAIN boundaries : ~TriggerBoundaryEvent(b)
           /\ \A n \in {s.event : s \in subscriptions} : ~TriggerEventSubprocess(n)
<1>1. DOMAIN boundaries = {} /\ subscriptions = {}
  BY DEF IInv, NoEvents
<1>2. ASSUME NEW j \in jobs PROVE j.type # "boundary"
  <2>1. j.execution \in DOMAIN executions
    BY DEF IInv, Sound, WorkSound
  <2>2. JobsSound(executions[j.execution], jobs, agenda, j.execution)
    BY Zenon, <2>1 DEF IInv, Sound, RowWork
  <2>. QED
    BY Zenon, <2>2 DEF JobsSound, JobSound
<1>. QED
  BY Zenon, <1>1, <1>2 DEF TriggerTimerBoundaryEvent

\* A step that leaves the tasks and the events of the definition alone.
LEMMA QuietStep ==
    ASSUME IInv, SoundNext, inCommand' = TRUE,
           UNCHANGED <<pd, committed, reading, tasks, boundaries, subscriptions>>
    PROVE  IInv'
<1>1. TasksGrow /\ DOMAIN boundaries' = {} /\ subscriptions' = {}
  BY Zenon DEF TasksGrow, IInv, NoEvents
<1>. QED
  BY <1>1, RunningStep

LEMMA CommandSteps ==
    ASSUME IInv,
           \/ StartProcessInstance
           \/ \E j \in jobs : ExecuteJob(j) \/ TriggerTimerIntermediateCatchEvent(j)
           \/ \E i \in DOMAIN waits : TriggerIntermediateCatchEvent(i)
    PROVE  IInv'
<1>1. SoundNow /\ IsDefinition(pd) /\ Plain
  BY Zenon DEF IInv, SoundNow
<1>2. ~inCommand => agenda = << >>
  BY DEF IInv, RestSound
<1>3. CASE StartProcessInstance
  <2>1. SoundNext
    BY <1>1, <1>3, StartSound
  <2>2. inCommand' = TRUE /\ UNCHANGED <<pd, committed, reading, tasks, boundaries, subscriptions>>
    BY Zenon, <1>3 DEF StartProcessInstance, BeginCommand, events
  <2>. QED
    BY <2>1, <2>2, QuietStep
<1>4. ASSUME NEW j \in jobs, ExecuteJob(j) PROVE IInv'
  <2>1. ~inCommand /\ inCommand' = TRUE
    BY Zenon, <1>4 DEF ExecuteJob, BeginCommand
  <2>2. UNCHANGED <<pd, committed, reading, tasks, boundaries, subscriptions>>
    BY Zenon, <1>4 DEF ExecuteJob, events
  <2>3. SoundNext
    BY <1>1, <1>2, <1>4, <2>1, ExecuteJobSound
  <2>. QED
    BY <2>1, <2>2, <2>3, QuietStep
<1>5. ASSUME NEW i, NEW wait, NEW timer, LeaveCatchEvent(i, wait, timer),
             \/ wait = {i} /\ timer = {} /\ i \in DOMAIN waits
             \/ wait = {} /\ \E j \in jobs : timer = {j} /\ j.execution = i /\ j.type = "timer"
      PROVE  IInv'
  <2>1. ~inCommand /\ inCommand' = TRUE
    BY Zenon, <1>5 DEF LeaveCatchEvent, BeginCommand
  <2>2. SoundNext
    BY <1>1, <1>2, <1>5, <2>1, LeaveCatchEventSound
  <2>3. UNCHANGED <<pd, committed, reading, tasks, subscriptions>> /\ DOMAIN boundaries' = {}
    BY Zenon, <1>5 DEF LeaveCatchEvent, Without, IInv, NoEvents
  <2>4. TasksGrow /\ subscriptions' = {}
    BY <2>3 DEF TasksGrow, IInv, NoEvents
  <2>. QED
    BY <2>1, <2>2, <2>3, <2>4, RunningStep
<1>6. ASSUME NEW j \in jobs, TriggerTimerIntermediateCatchEvent(j) PROVE IInv'
  <2>1. LeaveCatchEvent(j.execution, {}, {j}) /\ j.type = "timer"
    BY <1>6 DEF TriggerTimerIntermediateCatchEvent
  <2>. QED
    BY Zenon, <1>5, <2>1
<1>7. ASSUME NEW i \in DOMAIN waits, TriggerIntermediateCatchEvent(i) PROVE IInv'
  <2>1. LeaveCatchEvent(i, {i}, {})
    BY <1>7 DEF TriggerIntermediateCatchEvent
  <2>. QED
    BY <1>5, <2>1
<1>. QED
  BY <1>3, <1>4, <1>6, <1>7

LEMMA OperationSteps ==
    ASSUME IInv,
           \/ ContinueSkipped \/ ScheduleAsyncContinuation \/ PassThrough \/ UserTask
           \/ IntermediateCatchEvent \/ ParallelJoinWaits \/ ParallelGateway
           \/ BranchEnds \/ ProcessInstanceEnds
    PROVE  IInv'
<1>1. SoundNow /\ IsDefinition(pd) /\ Plain /\ NoEvents
  BY DEF IInv, SoundNow
<1>2. CASE ContinueSkipped
  <2>1. SoundNext
    BY <1>1, <1>2, ContinueSkippedSound
  <2>2. inCommand' = TRUE /\ UNCHANGED <<pd, committed, reading, tasks, boundaries, subscriptions>>
    BY Zenon, <1>2 DEF ContinueSkipped, Popped, kept, rows, events, IInv, RestSound
  <2>. QED
    BY <2>1, <2>2, QuietStep
<1>3. CASE ScheduleAsyncContinuation
  <2>1. SoundNext
    BY <1>1, <1>3, ScheduleAsyncContinuationSound
  <2>2. inCommand' = TRUE /\ UNCHANGED <<pd, committed, reading, tasks, boundaries, subscriptions>>
    BY Zenon, <1>3 DEF ScheduleAsyncContinuation, Popped, kept, events, IInv, RestSound
  <2>. QED
    BY Zenon, <2>1, <2>2, QuietStep
<1>4. CASE PassThrough
  <2>1. SoundNext
    BY <1>1, <1>4, PassThroughSound
  <2>2. inCommand' = TRUE /\ UNCHANGED <<pd, committed, reading, tasks, boundaries, subscriptions>>
    BY Zenon, <1>4 DEF PassThrough, Runs, Popped, kept, events, IInv, RestSound
  <2>. QED
    BY Zenon, <2>1, <2>2, QuietStep
<1>5. CASE UserTask
  <2>1. SoundNext
    BY Zenon, <1>1, <1>5, UserTaskSound
  <2>2. inCommand' = TRUE /\ UNCHANGED <<pd, committed, reading>> /\ agenda # << >>
    BY <1>5 DEF UserTask, Runs, Popped, kept, IInv, RestSound
  <2>3. Entering.activity # NoNode
    BY Zenon, <2>2, EnteringPlain
  <2>4. RegisterEvents(Entering.id, {}, {}, ProcessSubscribes)
    BY <1>5 DEF UserTask
  <2>5. DOMAIN boundaries' = {} /\ subscriptions' = {}
    BY <1>1, <2>3, <2>4, RegistersNothing
  <2>6. TasksGrow
    <3>1. tasks' = Over([t \in {nextId} |-> Entering.id], tasks)
      BY Zenon, <1>5 DEF UserTask
    <3>2. \A t \in DOMAIN tasks : t # nextId
      BY <1>1 DEF SoundNow, Sound, WorkSound
    <3>. QED
      BY <3>1, <3>2 DEF Over, TasksGrow
  <2>. QED
    BY <2>1, <2>2, <2>5, <2>6, RunningStep
<1>6. CASE IntermediateCatchEvent
  <2>1. SoundNext
    BY Zenon, <1>1, <1>6, IntermediateCatchEventSound
  <2>2. inCommand' = TRUE /\ UNCHANGED <<pd, committed, reading, tasks, boundaries, subscriptions>>
    BY <1>6 DEF IntermediateCatchEvent, Runs, Popped, kept, IInv, RestSound
  <2>. QED
    BY Zenon, <2>1, <2>2, QuietStep
<1>7. CASE ParallelJoinWaits
  <2>1. SoundNext
    BY Zenon, <1>1, <1>7, ParallelJoinWaitsSound
  <2>2. inCommand' = TRUE /\ UNCHANGED <<pd, committed, reading, tasks, boundaries, subscriptions>>
    BY <1>7 DEF ParallelJoinWaits, Park, Runs, Popped, kept, events, IInv, RestSound
  <2>. QED
    BY Zenon, <2>1, <2>2, QuietStep
<1>8. CASE ParallelGateway
  <2>1. SoundNext
    BY Zenon, <1>1, <1>8, ParallelGatewaySound
  <2>2. inCommand' = TRUE /\ UNCHANGED <<pd, committed, reading, tasks, boundaries, subscriptions>>
    BY Zenon, <1>8 DEF ParallelGateway, Fork, Runs, Popped, kept, events, IInv, RestSound
  <2>. QED
    BY Zenon, <2>1, <2>2, QuietStep
<1>9. CASE BranchEnds
  <2>1. SoundNext
    BY Zenon, <1>1, <1>9, BranchEndsSound
  <2>2. inCommand' = TRUE /\ UNCHANGED <<pd, committed, reading, tasks, boundaries, subscriptions>>
    BY <1>9 DEF BranchEnds, Ends, Runs, Popped, kept, events, IInv, RestSound
  <2>. QED
    BY Zenon, <2>1, <2>2, QuietStep
<1>10. CASE ProcessInstanceEnds
  <2>1. SoundNext /\ tasks' = tasks
    BY <1>1, <1>10, ProcessInstanceEndsSound
  <2>2. inCommand' = TRUE /\ UNCHANGED <<pd, committed, reading>>
    BY Zenon, <1>10 DEF ProcessInstanceEnds, Ends, Runs, Popped, kept, IInv, RestSound
  <2>3. DOMAIN boundaries' = {} /\ subscriptions' = {}
    BY <1>1, <1>10 DEF ProcessInstanceEnds, NoEvents
  <2>4. TasksGrow
    BY Zenon, <2>1 DEF TasksGrow
  <2>. QED
    BY <2>1, <2>2, <2>3, <2>4, RunningStep
<1>. QED
  BY <1>2, <1>3, <1>4, <1>5, <1>6, <1>7, <1>8, <1>9, <1>10

LEMMA TakeOutgoingStep ==
    ASSUME IInv, TakeOutgoing
    PROVE  IInv'
<1>1. SoundNow /\ SoundCommitted /\ IsDefinition(pd) /\ Plain
  BY DEF IInv, SoundNow, SoundCommitted
<1>2. /\ SoundNext
      /\ \/ Rollback
         \/ UNCHANGED <<pd, inCommand, committed, reading, tasks, boundaries, subscriptions>>
  BY Zenon, <1>1, TakeOutgoingSound
<1>3. inCommand = TRUE
  BY DEF TakeOutgoing, Popped, IInv, RestSound
<1>. QED
  BY Zenon, <1>2, <1>3, RollbackStep, QuietStep

LEMMA StutterStep ==
    ASSUME IInv, UNCHANGED vars
    PROVE  IInv'
<1>0. /\ UNCHANGED <<pd, committed, reading, inCommand, boundaries, subscriptions>>
      /\ UNCHANGED <<executions, tasks, jobs, waits, instance, nextId, agenda>>
  BY DEF vars, rows, events
<1>1. IsDefinition(pd)' /\ Plain'
  BY Zenon, <1>0, SamePlain DEF IInv
<1>2. Sound(executions, tasks, jobs, waits, instance, nextId, agenda)'
  BY <1>0, SamePd DEF IInv
<1>3. Sound(committed.executions, committed.tasks, committed.jobs, committed.waits,
            committed.instance, committed.nextId, << >>)'
  BY Zenon, <1>0, SamePd DEF IInv
<1>4. NoEvents' /\ ReadersSound' /\ RestSound'
  BY <1>0 DEF IInv, NoEvents, ReadersSound, RestSound
<1>. QED
  BY <1>1, <1>2, <1>3, <1>4 DEF IInv

\* The actions of a plain process that has one reader per task.
LEMMA PlainActions ==
    ASSUME IInv, Next
    PROVE  \/ StartProcessInstance
           \/ \E c \in Clients : ReadTask(c) \/ CompleteTask(c)
           \/ \E j \in jobs : ExecuteJob(j) \/ TriggerTimerIntermediateCatchEvent(j)
           \/ \E i \in DOMAIN waits : TriggerIntermediateCatchEvent(i)
           \/ ContinueSkipped \/ ScheduleAsyncContinuation \/ PassThrough \/ UserTask
           \/ IntermediateCatchEvent \/ ParallelJoinWaits \/ ParallelGateway
           \/ BranchEnds \/ ProcessInstanceEnds
           \/ TakeOutgoing \/ Commit
BY Zenon, NoOthers, NoJoinActivated, NoEventHappens DEF Next, Others

LEMMA PlainStep ==
    ASSUME ~SameTaskRace, IInv, [Next]_vars
    PROVE  IInv'
<1>1. CASE UNCHANGED vars
  BY Zenon, <1>1, StutterStep
<1>2. CASE Next
  <2>1. ASSUME NEW c \in Clients, ReadTask(c) PROVE IInv'
    BY Zenon, <2>1, ReadTaskStep
  <2>2. ASSUME NEW c \in Clients, CompleteTask(c) PROVE IInv'
    BY <2>2, CompleteTaskStep
  <2>. QED
    BY <1>2, <2>1, <2>2, PlainActions, CommandSteps, OperationSteps, TakeOutgoingStep, CommitStep
<1>. QED
  BY <1>1, <1>2

LEMMA SoundTypes == IInv => TypeOK
<1>. SUFFICES ASSUME IInv PROVE TypeOK
  BY Zenon
<1>1. /\ Sound(executions, tasks, jobs, waits, instance, nextId, agenda)
      /\ NoEvents /\ ReadersSound /\ RestSound /\ IsDefinition(pd)
  BY Zenon DEF IInv
<1>2. /\ RowsSound(executions, nextId) /\ AgendaSound(executions, nextId, agenda)
      /\ WorkSound(executions, tasks, jobs, waits, nextId)
      /\ \A i \in DOMAIN executions : WaitSound(executions[i], waits, agenda, i)
      /\ nextId \in Nat /\ instance \in {"none", "running", "ended"}
  BY <1>1 DEF Sound, RowWork, InstanceSound
<1>3. \A i \in DOMAIN executions : i \in Nat /\ executions[i] \in Execution
                                             /\ executions[i].id = i
  BY <1>2 DEF RowsSound, Token
<1>4. \A t \in DOMAIN tasks : t \in Nat /\ tasks[t] \in Nat
  BY <1>2, <1>3 DEF WorkSound
<1>5. jobs \subseteq Job /\ \A i \in DOMAIN waits : i \in DOMAIN executions
  BY Zenon, <1>2 DEF WorkSound
<1>6. \A i \in DOMAIN waits : i \in Nat /\ Kind(waits[i]) = "catch"
  BY Zenon, <1>2, <1>3, <1>5 DEF WaitSound, Waiting
<1>7. \A k \in DOMAIN agenda : agenda[k] \in Operation
  <2>1. agenda \in Seq(Operation)
    BY Zenon, <1>2 DEF AgendaSound
  <2>. QED
    BY <2>1
<1>8. \A c \in Clients : reading[c] = << >> \/ reading[c] \in Nat \X Nat
  <2>. SUFFICES ASSUME NEW c \in Clients, reading[c] # << >> PROVE reading[c] \in Nat \X Nat
    BY Zenon
  <2>1. PICK t \in DOMAIN tasks : reading[c] = <<t, tasks[t]>>
    BY <1>1 DEF ReadersSound
  <2>. QED
    BY <1>4, <2>1
<1>. QED
  BY <1>1, <1>2, <1>3, <1>4, <1>5, <1>6, <1>7, <1>8 DEF TypeOK, NoEvents, RestSound

\* Between commands nothing is queued.
LEMMA AtRestRows ==
    ASSUME IInv, AtRest, NEW i \in DOMAIN executions
    PROVE  /\ Token(executions[i], nextId) /\ executions[i].id = i
           /\ i # Root => executions[i].activity # NoNode
           /\ TaskSound(executions[i], tasks, jobs, agenda, i)
           /\ JobsSound(executions[i], jobs, agenda, i)
           /\ WaitSound(executions[i], waits, agenda, i)
           /\ ~executions[i].ended /\ executions[i].activity # NoNode =>
                 ~Idle(tasks, jobs, waits, i) \/ AtJoin(executions[i])
           /\ Live(executions, agenda, i) <=> ~executions[i].ended /\ executions[i].activity # NoNode
<1>1. agenda = << >>
  BY DEF IInv, RestSound, AtRest
<1>2. ~Queued(agenda, i)
  BY <1>1 DEF Queued
<1>3. RowWork(executions[i], tasks, jobs, waits, agenda, i)
  BY Zenon DEF IInv, Sound
<1>4. RowsSound(executions, nextId)
  BY DEF IInv, Sound
<1>. QED
  BY Zenon, <1>2, <1>3, <1>4 DEF RowWork, RowsSound, Live

LEMMA SoundNoTokenLost == IInv => NoTokenLost
<1>. SUFFICES ASSUME IInv, AtRest, instance = "running",
                     NEW i \in DOMAIN executions, Open(i)
              PROVE  /\ Moved(i) \/ AtJoin(executions[i]) \/ OpenBelow(i) # {}
                     /\ ~executions[i].multi
  BY DEF NoTokenLost
<1>1. ~executions[i].multi
  BY Zenon, AtRestRows DEF Token
<1>2. CASE executions[i].activity # NoNode
  <2>1. ~Idle(tasks, jobs, waits, i) \/ AtJoin(executions[i])
    BY Zenon, <1>2, AtRestRows DEF Open
  <2>2. \A j \in jobs : j.execution = i => j.type # "boundary"
    BY Zenon, AtRestRows DEF JobsSound, JobSound
  <2>. QED
    BY <1>1, <2>1, <2>2 DEF Idle, HasTask, HasJob, Moved
<1>3. CASE executions[i].activity = NoNode
  <2>1. i = Root
    BY <1>3, AtRestRows
  <2>2. PICK k \in DOMAIN executions : Live(executions, agenda, k)
    BY Zenon DEF IInv, Sound, InstanceSound
  <2>3. ~executions[k].ended /\ executions[k].activity # NoNode
    BY Zenon, <2>2, AtRestRows
  <2>4. executions[k].parent = Root
    BY ZenonT(30), <1>3, <2>1, <2>3, AtRestRows DEF Token
  <2>. QED
    BY <1>1, <2>1, <2>3, <2>4 DEF OpenBelow, Open
<1>. QED
  BY Zenon, <1>2, <1>3

LEMMA SoundEndsOnlyWhenDone == IInv => EndsOnlyWhenDone
<1>. SUFFICES ASSUME IInv, AtRest, instance = "ended"
              PROVE  /\ DOMAIN tasks = {} /\ jobs = {} /\ DOMAIN boundaries = {}
                     /\ DOMAIN waits = {} /\ subscriptions = {}
                     /\ \A i \in DOMAIN executions : Open(i) => i = Root
  BY Zenon DEF EndsOnlyWhenDone
<1>1. \A i \in DOMAIN executions : executions[i].ended \/ executions[i].activity = NoNode
  <2>1. \A i \in DOMAIN executions : ~Live(executions, agenda, i)
    BY Zenon DEF IInv, Sound, InstanceSound
  <2>. QED
    BY Zenon, <2>1, AtRestRows
<1>2. WorkSound(executions, tasks, jobs, waits, nextId)
  BY Zenon DEF IInv, Sound
<1>3. DOMAIN tasks = {}
  BY ZenonT(30), <1>1, <1>2, AtRestRows DEF WorkSound, TaskSound, HasTask, Waiting
<1>4. ASSUME NEW j \in jobs PROVE FALSE
  <2>1. j.execution \in DOMAIN executions
    BY Zenon, <1>2 DEF WorkSound
  <2>2. JobSound(executions[j.execution], j)
    BY Zenon, <2>1, AtRestRows DEF JobsSound
  <2>. QED
    BY Zenon, <1>1, <2>1, <2>2 DEF JobSound, Waiting
<1>5. DOMAIN waits = {}
  BY Zenon, <1>1, <1>2, AtRestRows DEF WorkSound, WaitSound, Waiting
<1>6. \A i \in DOMAIN executions : Open(i) => i = Root
  BY Zenon, <1>1, AtRestRows DEF Open
<1>. QED
  BY <1>3, <1>4, <1>5, <1>6 DEF IInv, NoEvents

LEMMA SoundParentsKept == IInv => ParentsKept
<1>. SUFFICES ASSUME IInv, instance = "running"
              PROVE  /\ Root \in DOMAIN executions
                     /\ \A i \in DOMAIN executions :
                            executions[i].parent \in DOMAIN executions \cup {NoId}
  BY Zenon DEF ParentsKept
<1>1. Root \in DOMAIN executions
  BY DEF IInv, Sound, InstanceSound
<1>2. \A i \in DOMAIN executions : executions[i].parent \in {Root, NoId}
  BY Zenon DEF IInv, Sound, RowsSound, Token
<1>. QED
  BY <1>1, <1>2

LEMMA SoundWaitsAtItsToken == IInv => WaitsAtItsToken
<1>. SUFFICES ASSUME IInv, AtRest PROVE WaitsAtItsToken
  BY Zenon DEF WaitsAtItsToken
<1>1. WorkSound(executions, tasks, jobs, waits, nextId)
  BY DEF IInv, Sound
<1>2. DOMAIN boundaries = {} /\ subscriptions = {}
  BY Zenon DEF IInv, NoEvents
<1>3. IsInjective(tasks)
  BY Zenon, <1>1, AtRestRows DEF WorkSound, TaskSound, IsInjective
<1>4. \A t \in DOMAIN tasks : WaitsIn(tasks[t], "user")
  BY Zenon, <1>1, AtRestRows DEF WorkSound, TaskSound, HasTask, Waiting, WaitsIn, Open
<1>5. \A i \in DOMAIN waits : WaitsIn(i, "catch") /\ executions[i].activity = waits[i]
  BY Zenon, <1>1, AtRestRows DEF WorkSound, WaitSound, Waiting, WaitsIn, Open
<1>6. ASSUME NEW j \in jobs
      PROVE  /\ j.type = "timer" => /\ WaitsIn(j.execution, "catch")
                                    /\ executions[j.execution].activity = j.activity
             /\ j.type # "boundary"
  <2>1. j.execution \in DOMAIN executions
    BY <1>1 DEF WorkSound
  <2>2. JobSound(executions[j.execution], j)
    BY Zenon, <2>1, AtRestRows DEF JobsSound
  <2>. QED
    BY Zenon, <2>1, <2>2 DEF JobSound, Waiting, WaitsIn, Open
<1>. QED
  BY <1>2, <1>3, <1>4, <1>5, <1>6 DEF WaitsAtItsToken

\* A row that is written again was there, and one that is new has a fresh id.
LEMMA FreshRows ==
    ASSUME IInv, Next
    PROVE  \A i \in DOMAIN executions' \ DOMAIN executions :
              i >= nextId \/ executions' = committed.executions
<1>. DEFINE P == \A i \in DOMAIN executions' \ DOMAIN executions :
                   i >= nextId \/ executions' = committed.executions
<1>. SUFFICES P
  OBVIOUS
<1>0. SoundNow /\ IsDefinition(pd) /\ Plain /\ nextId \in Nat
  BY Zenon DEF IInv, SoundNow, Sound
<1>1. ASSUME NEW e, e.id \in DOMAIN executions, executions' = Put(executions, e) PROVE P
  BY <1>1 DEF Put, Over
<1>2. ASSUME DOMAIN executions' \subseteq DOMAIN executions PROVE P
  BY Zenon, <1>2
<1>3. ASSUME NEW base, NEW scope, NEW targets, NEW aside, agenda # << >>,
             DOMAIN base \subseteq DOMAIN executions, targets \in Seq(Nodes),
             Fork(base, scope, targets, aside)
      PROVE  P
  <2>. DEFINE children == [k \in DOMAIN targets |->
                             [Child(scope, targets[k], nextId + k - 1) EXCEPT !.aside = aside]]
  <2>1. executions' = PutAll(base, children)
    BY Zenon, <1>3 DEF Fork
  <2>2. \A k \in DOMAIN children : children[k].id = nextId + k - 1 /\ children[k].id >= nextId
    BY <1>0, <1>3 DEF Child
  <2>. HIDE DEF children
  <2>3. DOMAIN executions' = DOMAIN base \cup {children[k].id : k \in DOMAIN children}
    BY Zenon, <2>1 DEF PutAll, Over
  <2>. QED
    BY <1>3, <2>2, <2>3
<1>4. ASSUME agenda # << >>, NEW x \in Execution, x.id \in DOMAIN executions, NEW old,
             DOMAIN old \subseteq DOMAIN executions
      PROVE  DOMAIN DeleteOrPreserve(old, x) \subseteq DOMAIN executions
  <2>1. [x EXCEPT !.active = FALSE, !.scope = TRUE, !.activity = NoNode].id = x.id
    BY <1>4 DEF Execution
  <2>. QED
    BY Zenon, <1>4, <2>1 DEF DeleteOrPreserve, Put, Over, Without
<1>5. ASSUME agenda # << >> PROVE Entering \in Execution /\ Entering.activity \in Nodes
  BY Zenon, <1>0, <1>5, Enters
<1>6. CASE TakeOutgoing
  <2>0. /\ agenda # << >> /\ Popped("take") /\ Leaving = Head(agenda).execution
        /\ Head(agenda).op = "take"
    BY Zenon, <1>6 DEF TakeOutgoing, Popped, Leaving
  <2>1. /\ Leaving \in Execution /\ OpSound(executions, nextId, Len(agenda), Head(agenda))
        /\ Leaving.activity \in Nodes
    BY <1>0, <2>0, HeadOp
  <2>2. Leaving.id \in DOMAIN executions
    BY Zenon, <2>0, <2>1 DEF OpSound
  <2>3. PICK holds \in SUBSET Conditional(Leaving.activity) :
            \E flows \in Selected(Leaving.activity, holds) :
                \/ TakeExclusive(flows) \/ TakeInclusive(flows)
                \/ TakeSeveral(flows) \/ TakeOne(flows) \/ TakeNone(flows)
    BY <1>6 DEF TakeOutgoing
  <2>4. PICK flows \in Selected(Leaving.activity, holds) :
                \/ TakeExclusive(flows) \/ TakeInclusive(flows)
                \/ TakeSeveral(flows) \/ TakeOne(flows) \/ TakeNone(flows)
    BY Zenon, <2>3
  <2>5. flows \in Seq(Nodes)
    BY <1>0, <2>1, <2>4, SelectedFlows
  <2>6. DOMAIN Written = DOMAIN executions
    BY Zenon, <2>2 DEF Written, Put, Over
  <2>7. ASSUME NEW n, MoveTo(n) PROVE P
    <3>1. [Leaving EXCEPT !.activity = n].id = Leaving.id
      BY Zenon, <2>1 DEF Execution
    <3>2. executions' = Put(executions, [Leaving EXCEPT !.activity = n])
      BY <2>7 DEF MoveTo
    <3>. QED
      BY Zenon, <1>1, <2>2, <3>1, <3>2
  <2>8. CASE TakeExclusive(flows)
    BY Zenon, <2>7, <2>8 DEF TakeExclusive, Rollback
  <2>9. CASE TakeInclusive(flows)
    <3>1. Fork(DeleteOrPreserve(Written, Leaving), ParallelScope(Leaving), flows, FALSE)
      BY Zenon, <2>9 DEF TakeInclusive
    <3>2. DOMAIN DeleteOrPreserve(Written, Leaving) \subseteq DOMAIN executions
      BY <1>4, <2>0, <2>1, <2>2, <2>6
    <3>. QED
      BY Zenon, <1>3, <2>0, <2>5, <3>1, <3>2
  <2>10. CASE TakeSeveral(flows)
    <3>. DEFINE base == IF Leaving.scope THEN Put(Written, [Leaving EXCEPT !.active = FALSE])
                        ELSE Without(Written, {Leaving.id})
    <3>1. Fork(base, Leaving.id, flows, FALSE)
      BY Zenon, <2>10 DEF TakeSeveral
    <3>2. [Leaving EXCEPT !.active = FALSE].id = Leaving.id
      BY Zenon, <2>1 DEF Execution
    <3>3. DOMAIN base \subseteq DOMAIN executions
      BY <2>2, <2>6, <3>2 DEF Put, Over, Without
    <3>. HIDE DEF base
    <3>. QED
      BY Zenon, <1>3, <2>0, <2>5, <3>1, <3>3
  <2>11. CASE TakeOne(flows)
    BY Zenon, <2>7, <2>11 DEF TakeOne
  <2>12. CASE TakeNone(flows)
    <3>1. DOMAIN executions' \subseteq DOMAIN executions
      BY Zenon, <2>6, <2>12 DEF TakeNone, Without
    <3>. QED
      BY <1>2, <3>1
  <2>. HIDE DEF P
  <2>. QED
    BY <2>4, <2>8, <2>9, <2>10, <2>11, <2>12
<1>7. CASE ParallelGateway
  <2>. DEFINE n == Entering.activity
              joined == IF Incoming(n) > 1 THEN TokensAt(Arrived, Entering) \ {Entering.id} ELSE {}
  <2>1. /\ agenda # << >> /\ Entering.id \in DOMAIN executions
        /\ Fork(DeleteOrPreserve(Without(executions, joined), Entering),
                ParallelScope(Entering), pd.out[n], Entering.aside)
    BY Zenon, <1>7 DEF ParallelGateway, Runs, Popped
  <2>. HIDE DEF joined
  <2>2. DOMAIN Without(executions, joined) \subseteq DOMAIN executions
    BY DEF Without
  <2>3. DOMAIN DeleteOrPreserve(Without(executions, joined), Entering) \subseteq DOMAIN executions
    BY <1>4, <1>5, <2>1, <2>2
  <2>4. pd.out[n] \in Seq(Nodes)
    BY Zenon, <1>0, <1>5, <2>1 DEF IsDefinition, Nodes
  <2>. QED
    BY <1>3, <2>1, <2>3, <2>4
<1>8. CASE \/ ScheduleAsyncContinuation \/ PassThrough \/ UserTask \/ IntermediateCatchEvent
           \/ ParallelJoinWaits \/ BranchEnds \/ ProcessInstanceEnds
  <2>1. agenda # << >> /\ Entering.id \in DOMAIN executions
    BY <1>8 DEF ScheduleAsyncContinuation, PassThrough, UserTask, IntermediateCatchEvent,
                ParallelJoinWaits, BranchEnds, ProcessInstanceEnds, Ends, Runs, Popped
  <2>2. \/ executions' = Put(executions, [Entering EXCEPT !.active = FALSE])
        \/ executions' = Put(executions, Entering)
        \/ executions' = Put(executions, Parked(Entering))
        \/ executions' = Put(executions, [Entering EXCEPT !.ended = TRUE])
    BY Zenon, <1>8 DEF ScheduleAsyncContinuation, PassThrough, UserTask, IntermediateCatchEvent,
                ParallelJoinWaits, Park, Arrived, BranchEnds, ProcessInstanceEnds, Ended
  <2>3. /\ [Entering EXCEPT !.active = FALSE].id = Entering.id
        /\ Parked(Entering).id = Entering.id
        /\ [Entering EXCEPT !.ended = TRUE].id = Entering.id
    BY <1>5, <2>1 DEF Execution, Parked
  <2>4. PICK f : f.id = Entering.id /\ executions' = Put(executions, f)
    BY Zenon, <2>2, <2>3
  <2>. QED
    BY <1>1, <2>1, <2>4
<1>9. CASE StartProcessInstance
  <2>1. PICK n \in DOMAIN pd.kind :
           executions' = Put(executions, [Child(NoId, n, Root) EXCEPT !.scope = TRUE,
                                                                     !.concurrent = FALSE])
    BY Zenon, <1>9 DEF StartProcessInstance
  <2>2. [Child(NoId, n, Root) EXCEPT !.scope = TRUE, !.concurrent = FALSE].id = Root
    BY Zenon DEF Child
  <2>3. nextId = Root
    BY <1>9 DEF StartProcessInstance, IInv, Sound
  <2>4. DOMAIN executions' = DOMAIN executions \cup {Root}
    BY Zenon, <2>1, <2>2 DEF Put, Over
  <2>. QED
    BY <1>0, <2>3, <2>4
<1>10. ASSUME NEW c \in Clients, ReadTask(c) \/ CompleteTask(c) PROVE P
  <2>1. CASE ReadTask(c)
    BY Zenon, <2>1 DEF ReadTask, rows
  <2>2. CASE CompleteTask(c)
    <3>. DEFINE i == reading[c][2]
    <3>1. ~(i \in DOMAIN executions /\ IsInstance(i))
      <4>1. \A p \in DOMAIN executions : ~executions[p].multi
        BY Zenon, <1>0 DEF SoundNow, Sound, RowsSound, Token
      <4>. QED
        BY Zenon, <4>1 DEF IsInstance
    <3>2. LeaveTask(i, reading[c][1])
      BY Zenon, <2>2, <3>1 DEF CompleteTask
    <3>. HIDE DEF i
    <3>3. CASE i \in DOMAIN executions
      <4>1. executions[i] \in Execution /\ executions[i].id = i
        BY Zenon, <1>0, <3>3 DEF SoundNow, Sound, RowsSound, Token
      <4>2. [executions[i] EXCEPT !.active = TRUE, !.ended = TRUE].id = i
        BY <4>1 DEF Execution
      <4>3. executions' = Put(executions, [executions[i] EXCEPT !.active = TRUE, !.ended = TRUE])
        BY Zenon, <3>2, <3>3 DEF LeaveTask
      <4>. QED
        BY Zenon, <1>1, <3>3, <4>2, <4>3
    <3>4. CASE i \notin DOMAIN executions
      BY <3>2, <3>4 DEF LeaveTask
    <3>. QED
      BY <3>3, <3>4
  <2>. QED
    BY <1>10, <2>1, <2>2
<1>11. ASSUME NEW j \in jobs, ExecuteJob(j) PROVE P
  BY Zenon, <1>11 DEF ExecuteJob
<1>12. ASSUME NEW i, NEW wait, NEW timer, LeaveCatchEvent(i, wait, timer) PROVE P
  <2>1. executions[i] \in Execution /\ executions[i].id = i /\ i \in DOMAIN executions
    BY Zenon, <1>0, <1>12 DEF LeaveCatchEvent, SoundNow, Sound, RowsSound, Token
  <2>2. [executions[i] EXCEPT !.active = TRUE].id = i
    BY <2>1 DEF Execution
  <2>3. executions' = Put(Without(executions, Rivals(i)), [executions[i] EXCEPT !.active = TRUE])
    BY Zenon, <1>12 DEF LeaveCatchEvent
  <2>4. DOMAIN executions' \subseteq DOMAIN executions
    BY <2>1, <2>2, <2>3 DEF Put, Over, Without
  <2>. QED
    BY <1>2, <2>4
<1>13. CASE ContinueSkipped \/ Commit
  BY Zenon, <1>13 DEF ContinueSkipped, Commit, rows
<1>. HIDE DEF P
<1>14. ASSUME NEW j \in jobs, TriggerTimerIntermediateCatchEvent(j) PROVE P
  BY <1>12, <1>14 DEF TriggerTimerIntermediateCatchEvent
<1>15. ASSUME NEW i, TriggerIntermediateCatchEvent(i) PROVE P
  BY Zenon, <1>12, <1>15 DEF TriggerIntermediateCatchEvent
<1>. QED
  BY <1>6, <1>7, <1>8, <1>9, <1>10, <1>11, <1>13, <1>14, <1>15, PlainActions

\* A join is a parallel gateway that several flows lead to.
JoinFree == \A n \in Nodes : Kind(n) = "parallel" => Incoming(n) \in {0, 1}

LEMMA SoundNotStuck == IInv /\ JoinFree => NotStuck
<1>. SUFFICES ASSUME IInv, JoinFree, AtRest, instance = "running"
              PROVE  \E i \in DOMAIN executions : Moved(i)
  BY Zenon DEF NotStuck
<1>1. PICK i \in DOMAIN executions : Live(executions, agenda, i)
  BY DEF IInv, Sound, InstanceSound
<1>2. ~executions[i].ended /\ executions[i].activity # NoNode
  BY Zenon, <1>1, AtRestRows
<1>3. executions[i].activity \in Nodes
  BY Zenon, <1>2, AtRestRows DEF Token, Execution, Nodes
<1>4. ~AtJoin(executions[i])
  <2>1. Plain
    BY Zenon DEF IInv
  <2>2. Kind(executions[i].activity) = "inclusive" => Incoming(executions[i].activity) \in {0, 1}
    BY Zenon, <1>3, <2>1 DEF Plain
  <2>3. Kind(executions[i].activity) = "parallel" => Incoming(executions[i].activity) \in {0, 1}
    BY Zenon, <1>3 DEF JoinFree
  <2>. QED
    BY <2>2, <2>3 DEF AtJoin
<1>5. ~Idle(tasks, jobs, waits, i)
  BY Zenon, <1>2, <1>4, AtRestRows
<1>6. \A j \in jobs : j.execution = i => j.type # "boundary"
  BY Zenon, AtRestRows DEF JobsSound, JobSound
<1>. QED
  BY <1>5, <1>6 DEF Idle, HasTask, HasJob, Moved

\* The definition that an instance runs is never replaced.
LEMMA SameDefinition ==
    ASSUME IInv, [Next]_vars
    PROVE  pd' = pd
<1>1. CASE UNCHANGED vars
  BY Zenon, <1>1 DEF vars
<1>2. ASSUME \/ StartProcessInstance
             \/ \E c \in Clients : ReadTask(c) \/ CompleteTask(c)
             \/ \E j \in jobs : ExecuteJob(j) \/ TriggerTimerIntermediateCatchEvent(j)
             \/ \E i \in DOMAIN waits : TriggerIntermediateCatchEvent(i)
      PROVE  pd' = pd
  BY Zenon, <1>2 DEF StartProcessInstance, ReadTask, CompleteTask, ExecuteJob, LeaveCatchEvent,
              TriggerTimerIntermediateCatchEvent, TriggerIntermediateCatchEvent
<1>3. ASSUME \/ ContinueSkipped \/ ScheduleAsyncContinuation \/ PassThrough \/ UserTask
             \/ IntermediateCatchEvent \/ ParallelJoinWaits \/ ParallelGateway
             \/ BranchEnds \/ ProcessInstanceEnds \/ Commit
      PROVE  pd' = pd
  BY Zenon, <1>3 DEF ContinueSkipped, ScheduleAsyncContinuation, PassThrough, UserTask,
              IntermediateCatchEvent, ParallelJoinWaits, Park, ParallelGateway, Fork,
              BranchEnds, ProcessInstanceEnds, Commit, kept
<1>4. CASE TakeOutgoing
  BY Zenon, <1>4, TakeOutgoingSound DEF IInv, SoundNow, SoundCommitted, Rollback
<1>. QED
  BY <1>1, <1>2, <1>3, <1>4, PlainActions

-----------------------------------------------------------------------------
(* The theorems.  ~SameTaskRace says that a task is completed by one client *)
(* at a time: two of them leave it twice (EndsOnlyWhenDone then fails).      *)

\* In every state of a plain process the rows, the agenda and what the clients have
\* read have their types.
THEOREM PlainTypes ==
    ASSUME ~SameTaskRace
    PROVE  Plain /\ Spec => []TypeOK
<1>1. Plain /\ Init => IInv
  BY PlainInit
<1>2. IInv /\ [Next]_vars => IInv'
  BY Zenon, PlainStep
<1>3. IInv => TypeOK
  BY SoundTypes
<1>. QED
  BY <1>1, <1>2, <1>3, PTL DEF Spec

\* Whatever the graph of a plain process, the agenda never drops a token: between
\* commands each one has a task, a job, a timer or an event that moves it, or waits at
\* a join.
THEOREM PlainNoTokenLost ==
    ASSUME ~SameTaskRace
    PROVE  Plain /\ Spec => []NoTokenLost
<1>1. Plain /\ Init => IInv
  BY Zenon, PlainInit
<1>2. IInv /\ [Next]_vars => IInv'
  BY Zenon, PlainStep
<1>3. IInv => NoTokenLost
  BY Zenon, SoundNoTokenLost
<1>. QED
  BY <1>1, <1>2, <1>3, PTL DEF Spec

\* The end event that ends a plain process is that of the last token: the sibling count
\* of the end event leaves no task, job, timer or event behind.
THEOREM PlainEndsOnlyWhenDone ==
    ASSUME ~SameTaskRace
    PROVE  Plain /\ Spec => []EndsOnlyWhenDone
<1>1. Plain /\ Init => IInv
  BY Zenon, PlainInit
<1>2. IInv /\ [Next]_vars => IInv'
  BY Zenon, PlainStep
<1>3. IInv => EndsOnlyWhenDone
  BY Zenon, SoundEndsOnlyWhenDone
<1>. QED
  BY <1>1, <1>2, <1>3, PTL DEF Spec

\* A fork keeps the row of the instance while its branches are open.
THEOREM PlainParentsKept ==
    ASSUME ~SameTaskRace
    PROVE  Plain /\ Spec => []ParentsKept
<1>1. Plain /\ Init => IInv
  BY Zenon, PlainInit
<1>2. IInv /\ [Next]_vars => IInv'
  BY Zenon, PlainStep
<1>3. IInv => ParentsKept
  BY Zenon, SoundParentsKept
<1>. QED
  BY <1>1, <1>2, <1>3, PTL DEF Spec

\* Tasks, wait states and timers of a plain process belong to tokens that wait where
\* these were created, one task to a token.
THEOREM PlainWaitsAtItsToken ==
    ASSUME ~SameTaskRace
    PROVE  Plain /\ Spec => []WaitsAtItsToken
<1>1. Plain /\ Init => IInv
  BY Zenon, PlainInit
<1>2. IInv /\ [Next]_vars => IInv'
  BY Zenon, PlainStep
<1>3. IInv => WaitsAtItsToken
  BY Zenon, SoundWaitsAtItsToken
<1>. QED
  BY <1>1, <1>2, <1>3, PTL DEF Spec

\* A plain process without joins always has a task, a job, a timer or an event to go
\* on with.  (With joins this depends on the graph: an exclusive choice between the
\* branches of a join leaves the join waiting.)
THEOREM PlainNotStuck ==
    ASSUME ~SameTaskRace
    PROVE  Plain /\ JoinFree /\ Spec => []NotStuck
<1>1. Plain /\ JoinFree /\ Init => IInv /\ JoinFree
  BY Zenon, PlainInit
<1>2. IInv /\ JoinFree /\ [Next]_vars => (IInv /\ JoinFree)'
  <2>. SUFFICES ASSUME IInv, JoinFree, [Next]_vars PROVE IInv' /\ JoinFree'
    BY Zenon
  <2>1. IInv'
    BY PlainStep
  <2>2. pd' = pd
    BY Zenon, SameDefinition
  <2>3. JoinFree'
    BY <2>2 DEF JoinFree, Nodes, Kind, Incoming
  <2>. QED
    BY <2>1, <2>3
<1>3. IInv /\ JoinFree => NotStuck
  BY Zenon, SoundNotStuck
<1>. QED
  BY <1>1, <1>2, <1>3, PTL DEF Spec

\* Operations hold copies of rows.  In a plain process none of them writes back a row
\* that a join has deleted: a row that appears has a fresh id, unless the command is
\* rolled back.
THEOREM PlainNoResurrection ==
    ASSUME ~SameTaskRace
    PROVE  Plain /\ Spec => NoResurrection
<1>1. Plain /\ Init => IInv
  BY Zenon, PlainInit
<1>2. IInv /\ [Next]_vars => IInv'
  BY Zenon, PlainStep
<1>3. IInv /\ [Next]_vars =>
          [\A i \in DOMAIN executions' \ DOMAIN executions :
              i >= nextId \/ executions' = committed.executions]_vars
  BY Zenon, FreshRows
<1>. QED
  BY <1>1, <1>2, <1>3, PTL DEF Spec, NoResurrection

=============================================================================
