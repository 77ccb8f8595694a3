---------------------------- MODULE ProcessExecution ----------------------------
(***************************************************************************)
(* The token game of flowable-engine: how one process instance moves       *)
(* through its BPMN graph.  A token is an execution row.  A command (start *)
(* the instance, complete a user task, run an async job) writes a few rows *)
(* and plans operations on the agenda, a FIFO queue of operations that     *)
(* each hold a CLONE of the execution they were planned for.  The command  *)
(* executor pops the operations one by one, re-evaluates the parked        *)
(* inclusive joins once the agenda is empty, and commits; an error rolls   *)
(* the whole command back.  Commands are serialised by the writer lock of  *)
(* the database (SQLite BEGIN IMMEDIATE); the read that opens a task       *)
(* completion is made before that lock is taken.                           *)
(*                                                                         *)
(* Sources: agenda/*.rs, interceptor/command_executor.rs, bpmn/behavior/   *)
(* {start_event, task, user_task, exclusive_gateway, parallel_gateway,     *)
(* inclusive_gateway, event_based_gateway, intermediate_catch_event,       *)
(* boundary_event, sub_process, end_event}_activity_behavior.rs,           *)
(* bpmn/behavior/multi_instance_support.rs, bpmn/execution_graph_util.rs,  *)
(* cmd/{start_process_instance, run_due_timers, trigger_boundary_event,    *)
(* trigger_intermediate_catch_event, trigger_start_event_subscription}     *)
(* _cmd.rs, engine/task_service.rs.                                        *)
(***************************************************************************)
EXTENDS Integers, Sequences, FiniteSets, Functions

CONSTANTS Definitions,    \* the deployed process definitions
          Clients,        \* callers of the task service
          SameTaskRace,   \* may two clients complete one task at the same time?
          NoNode          \* activity_id or task that is None

Kinds == {"start", "task", "user", "exclusive", "parallel", "inclusive", "sub",
          "end", "terminate", "boundary", "catch", "event", "eventSub"}

\* The elements that carry flowable:async and flowable:asyncLeave.
Activities == {"task", "user", "sub"}

\* A deployed definition: the kind of each node, its outgoing flows in order (a
\* flow is named by its target), the conditional flows, the default flow, the
\* async markers, the subprocess a node lies in, the activity a boundary event is
\* attached to, and the boundary events and event subprocesses that interrupt what
\* they belong to.  An event subprocess starts on a message.  A catching event waits
\* for a timer (of a cycle, if it repeats) or for a message.  A multi-instance
\* activity has a number of instances, which run one after the other or in parallel,
\* and may have a completion condition.  The bound maxId is no part of the code: no
\* command starts once this many ids are used.
IsDefinition(d) ==
    LET N == DOMAIN d.kind IN
    /\ IsFiniteSet(N) /\ NoNode \notin N
    /\ d.kind \in [N -> Kinds]
    /\ d.out \in [N -> Seq(N)]
    /\ d.cond \subseteq N \X N
    /\ d.default \in [N -> N \cup {NoNode}]
    /\ d.asyncBefore \subseteq N /\ d.asyncAfter \subseteq N
    /\ d.within \in [N -> N \cup {NoNode}]
    /\ d.attached \in [N -> N \cup {NoNode}]
    /\ d.cancel \subseteq N /\ d.timer \subseteq N /\ d.cycle \subseteq d.timer
    /\ d.loop \in [N -> {"none", "sequential", "parallel"}]
    /\ d.instances \in [N -> Nat] /\ d.completion \subseteq N
    /\ d.maxId \in Nat

ASSUME DefinitionsAssumption == \A d \in Definitions : IsDefinition(d)
ASSUME ClientsAssumption == IsFiniteSet(Clients) /\ SameTaskRace \in BOOLEAN

\* Where a token at n can be one flow later: a node without outgoing flows hands
\* over to the flows of the subprocess around it.
Successor(d, n) ==
    IF d.out[n] # <<>> \/ d.within[n] = NoNode THEN Range(d.out[n])
    ELSE Range(d.out[d.within[n]])

\* execution_graph_util::is_reachable: the nodes a token at n can get to.
ReachableFrom(d, n) ==
    LET reached[k \in Nat] ==
            IF k = 0 THEN {n}
            ELSE LET near == reached[k-1]
                 IN  near \cup UNION {Successor(d, m) : m \in near}
    IN  reached[Cardinality(DOMAIN d.kind)]

VARIABLES
    pd,           \* the definition the instance runs
    executions,   \* execution rows, by id
    tasks,        \* open task rows: task id -> execution id
    jobs,         \* async-continuation, async-after and timer jobs
    boundaries,   \* boundary event states: boundary event -> host execution id
    waits,        \* event wait states: execution id -> catching event
    subscriptions,  \* event subprocesses that can start, with their scopes
    instance,     \* the process instance row: "none", "running" or "ended"
    nextId,       \* the next fresh id
    agenda,       \* planned operations of the command in progress
    inCommand,    \* a command holds the writer lock
    committed,    \* the rows as of the last commit
    reading       \* the task each client has read and is about to complete

events == <<boundaries, waits, subscriptions>>
rows == <<executions, tasks, jobs, events, instance, nextId>>
vars == <<pd, rows, agenda, inCommand, committed, reading>>

NoId == 0
Root == 1         \* the process-instance id, also the id of its scope row

\* A loaded Execution.  "resumed" stands for the two transient resume flags, "multi"
\* marks the root of a multi-instance activity, "completed" is its local variable
\* nrOfCompletedInstances and "aside" is non_interrupting_event_subprocess_path.
Execution ==
    [id : Nat, parent : Nat,
     activity : DOMAIN pd.kind \cup {NoNode},
     active : BOOLEAN, ended : BOOLEAN, scope : BOOLEAN, concurrent : BOOLEAN,
     resumed : SUBSET {"before", "after"}, multi : BOOLEAN, completed : Nat,
     aside : BOOLEAN]

Job ==
    [type : {"before", "after", "timer", "boundary"}, execution : Nat,
     activity : DOMAIN pd.kind]

Subscription == [event : DOMAIN pd.kind, scope : Nat]

Operation == [op : {"continue", "take"}, execution : Execution]

(***************************************************************************)
(* Rows and operations                                                     *)
(***************************************************************************)
Kind(n) == pd.kind[n]

Incoming(n) == Cardinality({m \in DOMAIN pd.kind : n \in Range(pd.out[m])})

ParallelScope(e) == IF e.parent = NoId THEN e.id ELSE e.parent

IsProcessInstanceScope(e) == e.parent = NoId /\ e.id = Root

Multi(n) == pd.loop[n] # "none"

\* f, and g where f is not defined.
Over(f, g) == [i \in DOMAIN f \cup DOMAIN g |-> IF i \in DOMAIN f THEN f[i] ELSE g[i]]

\* Mutant: the row is written under the id of its scope.
PutAtScope(ex, e) == Over([i \in {ParallelScope(e)} |-> e], ex)

\* execution_entity_manager.update and insert: both write the row, existing or not.
Put(ex, e) == Over([i \in {e.id} |-> e], ex)

\* The same for several rows, whose ids differ.
PutAll(ex, seq) ==
    Over([i \in {seq[k].id : k \in DOMAIN seq} |-> seq[CHOOSE k \in DOMAIN seq : seq[k].id = i]],
         ex)

\* The sequences of the members of a set.
Orders(S) == Injection(1 .. Cardinality(S), S)

Without(f, ids) == [i \in DOMAIN f \ ids |-> f[i]]

\* Mutant: the scope row of the instance is deleted like any other token.
DeleteSplit(ex, e) == Without(ex, {e.id})

\* A token that splits is deleted, unless it is the scope row of the instance.
DeleteOrPreserve(ex, e) ==
    IF IsProcessInstanceScope(e)
    THEN Put(ex, [e EXCEPT !.active = FALSE, !.scope = TRUE, !.activity = NoNode])
    ELSE Without(ex, {e.id})

Child(parent, target, id) ==
    [id |-> id, parent |-> parent, activity |-> target,
     active |-> Kind(target) \notin {"end", "terminate"}, ended |-> FALSE,
     scope |-> FALSE, concurrent |-> TRUE, resumed |-> {},
     multi |-> FALSE, completed |-> 0, aside |-> FALSE]

\* A token that replaces another one, at the same activity and beside nobody.
Fresh(parent, activity, id) == [Child(parent, activity, id) EXCEPT !.concurrent = FALSE]

Plan(op, seq) == [k \in DOMAIN seq |-> [op |-> op, execution |-> seq[k]]]

\* The rows below execution i, with i: what delete_execution_tree removes.
Tree(ex, i) ==
    LET grown[n \in Nat] ==
            IF n = 0 THEN {i}
            ELSE LET above == grown[n-1]
                 IN  above \cup {j \in DOMAIN ex : ex[j].parent \in above}
    IN  grown[Cardinality(DOMAIN ex)]

\* find_first_scope: the first scope row on the parent chain that starts at i.
FirstScope(ex, i) ==
    LET first[j \in 0 .. i] ==
            IF j \notin DOMAIN ex THEN NoId
            ELSE IF ex[j].scope THEN j ELSE first[ex[j].parent]
    IN  first[i]

\* delete_execution_related_runtime_data removes one task per execution.
TasksOf(ids) ==
    {CHOOSE t \in DOMAIN tasks : tasks[t] = i : i \in ids \cap {tasks[t] : t \in DOMAIN tasks}}

JobsOf(ids) == {j \in jobs : j.execution \in ids}

BoundariesOf(ids) == {b \in DOMAIN boundaries : boundaries[b] \in ids}

\* Mutant: the boundary events stay.
StripTimersOnly(ids) ==
    /\ jobs' = jobs \ JobsOf(ids)
    /\ waits' = Without(waits, ids)
    /\ UNCHANGED boundaries

\* The wait states, the boundary events and the jobs of these executions go.
StripEvents(ids) ==
    /\ jobs' = jobs \ JobsOf(ids)
    /\ boundaries' = Without(boundaries, BoundariesOf(ids))
    /\ waits' = Without(waits, ids)

SubscriptionsOf(ids) == {s \in subscriptions : s.scope \in ids}

\* The event subprocesses of these scopes can no longer start.
Unsubscribe(ids) == subscriptions' = subscriptions \ SubscriptionsOf(ids)

\* delete_execution_and_related_data, without the tasks.
StripScopes(ids) == StripEvents(ids) /\ Unsubscribe(ids)

(***************************************************************************)
(* Choosing the outgoing flows.  holds is the set of conditional targets   *)
(* whose condition evaluates to true.                                      *)
(***************************************************************************)
Conditional(n) == {t \in Range(pd.out[n]) : <<n, t>> \in pd.cond}

\* The flows other than the default flow that are unconditional or whose condition
\* holds, by their places, ...
Met(n, holds) ==
    {k \in DOMAIN pd.out[n] : LET t == pd.out[n][k] IN
                               t # pd.default[n] /\ (t \in Conditional(n) => t \in holds)}

InOrder(K) ==
    {f \in [1 .. Cardinality(K) -> K] : \A i, k \in DOMAIN f : i < k => f[i] < f[k]}

\* ... in their order; the default flow if there are none.
Selected(n, holds) ==
    IF Met(n, holds) = {} /\ pd.default[n] # NoNode THEN {<<pd.default[n]>>}
    ELSE {[k \in DOMAIN f |-> pd.out[n][f[k]]] : f \in InOrder(Met(n, holds))}

(***************************************************************************)
(* The inclusive join                                                      *)
(***************************************************************************)
TokensAt(ex, e) ==
    {i \in DOMAIN ex : /\ ex[i].activity = e.activity
                       /\ ParallelScope(ex[i]) = ParallelScope(e)}

\* one_execution_can_reach_gateway, for the token w parked at its gateway.
CanReachGateway(ex, w) ==
    \E i \in DOMAIN ex :
        /\ ex[i].activity # NoNode
        /\ IF ex[i].activity # w.activity
           THEN /\ w.activity \in ReachableFrom(pd, ex[i].activity)
                /\ ex[i].parent = w.parent
           ELSE ex[i].active /\ (i = w.id \/ w.activity \in pd.asyncBefore)

Parked(e) == [e EXCEPT !.active = FALSE, !.concurrent = TRUE]

Merged(w, id) ==
    [w EXCEPT !.id = id, !.parent = ParallelScope(w), !.active = TRUE,
              !.concurrent = FALSE, !.ended = FALSE]

\* Mutant: a parked join is never ready when the agenda is empty.
NoJoins == {}

\* The tokens parked at inclusive joins.
ParkedJoins ==
    {i \in DOMAIN executions :
        LET w == executions[i] IN
        /\ ~w.active /\ w.concurrent /\ ~w.ended
        /\ w.activity # NoNode
        /\ Kind(w.activity) = "inclusive" /\ Incoming(w.activity) > 1}

\* One scan looks at one token of each group parked at one gateway in one scope.
Scans ==
    {S \in SUBSET ParkedJoins :
        \A i \in ParkedJoins :
            Cardinality(S \cap TokensAt(executions, executions[i])) = 1}

\* Those among them that nothing can reach any more.
Ready(S) == {i \in S : ~CanReachGateway(executions, executions[i])}

(***************************************************************************)
(* Commands                                                                *)
(***************************************************************************)
Init ==
    /\ pd \in Definitions
    /\ executions = << >> /\ tasks = << >> /\ jobs = {}
    /\ boundaries = << >> /\ waits = << >> /\ subscriptions = {}
    /\ instance = "none" /\ nextId = Root
    /\ agenda = << >> /\ inCommand = FALSE
    /\ committed = [executions |-> << >>, tasks |-> << >>, jobs |-> {},
                    boundaries |-> << >>, waits |-> << >>, subscriptions |-> {},
                    instance |-> "none", nextId |-> Root]
    /\ reading = [c \in Clients |-> << >>]

\* A command takes the writer lock.
BeginCommand == ~inCommand /\ nextId <= pd.maxId /\ inCommand' = TRUE

StartProcessInstance ==
    /\ instance = "none" /\ BeginCommand
    /\ \E n \in DOMAIN pd.kind :
          LET e == [Child(NoId, n, Root) EXCEPT !.scope = TRUE, !.concurrent = FALSE]
          IN  /\ Kind(n) = "start" /\ pd.within[n] = NoNode
              /\ executions' = Put(executions, e)
              /\ agenda' = Plan("continue", <<e>>)
    /\ instance' = "running" /\ nextId' = nextId + 1
    /\ UNCHANGED <<pd, tasks, jobs, events, committed, reading>>

\* complete_task_by_id_in_context finds the task before the first write.
ReadTask(c) ==
    /\ ~inCommand /\ nextId <= pd.maxId
    /\ reading[c] = << >>
    /\ \E t \in DOMAIN tasks :
          /\ SameTaskRace \/ \A b \in Clients : reading[b] # <<t, tasks[t]>>
          /\ reading' = [reading EXCEPT ![c] = <<t, tasks[t]>>]
    /\ UNCHANGED <<pd, rows, agenda, inCommand, committed>>

\* Instance i of a multi-instance user task: complete_task_internal looks for it
\* among the elements of the process itself, not in its subprocesses.
IsInstance(i) ==
    LET p == executions[i].parent IN
    /\ p \in DOMAIN executions /\ executions[p].multi
    /\ pd.within[executions[p].activity] = NoNode

\* The root of a multi-instance activity counts one more completed instance.
Counted(r) == [executions[r] EXCEPT !.completed = @ + 1]

\* An instance below root is done: ex are the rows without it, gone the rows whose
\* events go with it, closed the tasks, rest the operations still planned.  If there
\* are more, the root is continued (sequential) or the others are waited for;
\* otherwise, or if the completion condition holds, cleanup_mi_root_and_leave deletes
\* the root and everything below it and a fresh token leaves the activity.
InstanceDone(root, more, ex, closed, gone, rest) ==
    LET all == Tree(executions, root.id)
        token == Fresh(root.parent, root.activity, nextId)
    IN  \/ /\ more
           /\ executions' = Put(ex, root)
           /\ agenda' = rest \o IF pd.loop[root.activity] = "sequential"
                                THEN Plan("continue", <<root>>) ELSE << >>
           /\ tasks' = Without(tasks, closed)
           /\ StripScopes(gone)
           /\ UNCHANGED nextId
        \/ /\ more => root.activity \in pd.completion
           /\ executions' = Put(Without(executions, all), token)
           /\ agenda' = rest \o Plan("take", <<token>>)
           /\ tasks' = Without(tasks, closed \cup TasksOf(all))
           /\ StripScopes(all)
           /\ nextId' = nextId + 1

\* The execution of a completed task leaves its activity.  Without the execution the
\* command ends here.
LeaveTask(i, t) ==
    /\ LET done == [executions[i] EXCEPT !.active = TRUE, !.ended = TRUE]
       IN  IF i \in DOMAIN executions
           THEN /\ executions' = Put(executions, done)
                /\ agenda' = Plan("take", <<done>>)
           ELSE UNCHANGED <<executions, agenda>>
    /\ tasks' = Without(tasks, {t})
    /\ StripEvents({i})
    /\ UNCHANGED <<subscriptions, nextId>>

\* An instance that is to run again stays open, the others end; a parallel activity
\* is complete when no other instance is open.
LeaveInstance(i, t) ==
    LET root == Counted(executions[i].parent)
        sequential == pd.loop[root.activity] = "sequential"
        others == {k \in DOMAIN executions \ {i} : executions[k].parent = root.id
                                                    /\ ~executions[k].ended}
        more == IF sequential THEN root.completed < pd.instances[root.activity]
                ELSE others # {}
        done == [executions[i] EXCEPT !.active = sequential, !.ended = ~sequential]
    IN  InstanceDone(root, more, Put(executions, done), {t}, {i}, << >>)

\* complete_task_internal: the task row goes with the events and jobs of its
\* execution, which is read again.
CompleteTask(c) ==
    /\ reading[c] # << >> /\ BeginCommand
    /\ LET t == reading[c][1]
           i == reading[c][2]
           loops == i \in DOMAIN executions /\ IsInstance(i)
       IN  \/ loops /\ LeaveInstance(i, t)
           \/ ~loops /\ LeaveTask(i, t)
    /\ reading' = [reading EXCEPT ![c] = << >>]
    /\ UNCHANGED <<pd, instance, committed>>

\* execute_async_continuation_job and execute_async_after_job.
ExecuteJob(j) ==
    /\ j.type \in {"before", "after"} /\ j.execution \in DOMAIN executions
    /\ BeginCommand
    /\ jobs' = jobs \ {j}
    /\ LET e == [executions[j.execution] EXCEPT !.active = TRUE, !.ended = FALSE,
                                                !.resumed = @ \cup {j.type}]
       IN  agenda' = Plan(IF j.type = "before" THEN "continue" ELSE "take", <<e>>)
    /\ UNCHANGED <<pd, executions, tasks, events, instance, nextId, committed, reading>>

(***************************************************************************)
(* Events.  A message for a boundary or catching event, or a timer that is *)
(* due, finds its token by the state it registered.                        *)
(***************************************************************************)
\* The token that leaves by the boundary event, beside its host.
BoundaryToken(b, host) ==
    [id |-> nextId, parent |-> executions[host].parent, activity |-> b,
     active |-> TRUE, ended |-> FALSE, scope |-> executions[host].scope,
     concurrent |-> executions[host].concurrent, resumed |-> {},
     multi |-> FALSE, completed |-> 0, aside |-> FALSE]

FireBoundary(b, host) ==
    LET token == BoundaryToken(b, host)
    IN  /\ agenda' = Plan("continue", <<token>>) \o Plan("take", <<token>>)
        /\ nextId' = nextId + 1
        /\ UNCHANGED <<pd, instance, committed, reading>>

\* The host and everything below it goes, with its tasks and events; the scope row
\* of the instance is only detached from its activity.
Interrupt(b, host) ==
    LET gone == Tree(executions, host)
        left == Without(executions, gone)
        scope == [executions[Root] EXCEPT !.activity = NoNode, !.active = FALSE,
                                          !.ended = TRUE]
    IN  /\ executions' = Put(IF Root \in gone THEN Put(left, scope) ELSE left,
                             BoundaryToken(b, host))
        /\ tasks' = Without(tasks, TasksOf(gone))
        /\ StripScopes(gone)

\* A host in a wait state, or a subprocess, can be left by its boundary event.
CanFire(host) ==
    /\ host \in DOMAIN executions
    /\ ~executions[host].active \/ executions[host].scope

\* execute_boundary_trigger: the state of a non-interrupting event stays.
TriggerBoundaryEvent(b) ==
    /\ CanFire(boundaries[b]) /\ BeginCommand
    /\ \/ b \in pd.cancel /\ Interrupt(b, boundaries[b])
       \/ /\ b \notin pd.cancel
          /\ executions' = Put(executions, BoundaryToken(b, boundaries[b]))
          /\ UNCHANGED <<tasks, jobs, events>>
    /\ FireBoundary(b, boundaries[b])

\* execute_timer_boundary_trigger: the job of a non-interrupting event is scheduled
\* again as long as its cycle lasts.
TriggerTimerBoundaryEvent(j) ==
    /\ j.type = "boundary" /\ j.execution \in DOMAIN executions
    /\ ~executions[j.execution].active /\ BeginCommand
    /\ \/ j.activity \in pd.cancel /\ Interrupt(j.activity, j.execution)
       \/ /\ j.activity \notin pd.cancel
          /\ executions' = Put(executions, BoundaryToken(j.activity, j.execution))
          /\ \/ jobs' = jobs \ {j}
             \/ j.activity \in pd.cycle /\ UNCHANGED jobs
          /\ UNCHANGED <<tasks, events>>
    /\ FireBoundary(j.activity, j.execution)

\* The open executions beside i when i waits behind an event gateway.
Rivals(i) ==
    {k \in DOMAIN executions \ {i} :
        LET p == executions[i].parent IN
        /\ executions[k].parent = p /\ ~executions[k].ended
        /\ p \in DOMAIN executions /\ executions[p].activity # NoNode
        /\ Kind(executions[p].activity) = "event"}

\* The token leaves its catching event with the wait state or the timer that was
\* met; behind an event gateway the other events go.
LeaveCatchEvent(i, wait, timer) ==
    /\ i \in DOMAIN executions /\ ~executions[i].active /\ BeginCommand
    /\ LET e == [executions[i] EXCEPT !.active = TRUE]
       IN  /\ executions' = Put(Without(executions, Rivals(i)), e)
           /\ agenda' = Plan("take", <<e>>)
    /\ jobs' = jobs \ (JobsOf(Rivals(i)) \cup timer)
    /\ waits' = Without(waits, Rivals(i) \cup wait)
    /\ boundaries' = Without(boundaries, BoundariesOf(Rivals(i)))
    /\ UNCHANGED <<pd, tasks, subscriptions, instance, nextId, committed, reading>>

TriggerIntermediateCatchEvent(i) == LeaveCatchEvent(i, {i}, {})

TriggerTimerIntermediateCatchEvent(j) ==
    j.type = "timer" /\ LeaveCatchEvent(j.execution, {}, {j})

InnerStart(n) == CHOOSE m \in DOMAIN pd.kind : pd.within[m] = n /\ Kind(m) = "start"

\* The token that enters event subprocess n, which is a scope: below the scope that n
\* interrupted, or beside everything else below the process instance.
EventSubprocessToken(n, scope, id) ==
    [Fresh(IF n \in pd.cancel /\ scope \in DOMAIN executions THEN scope ELSE Root,
           InnerStart(n), id)
     EXCEPT !.scope = TRUE, !.aside = n \notin pd.cancel]

\* activate_interrupting_event_subprocess: what is below the scopes goes with its tasks
\* and events; the scopes stay and lose only their events.
InterruptScopes(scopes, tokens) ==
    LET below == UNION {Tree(executions, i) : i \in scopes}
        halted(i) == [executions[i] EXCEPT !.active = FALSE,
                                           !.activity = IF i = Root THEN NoNode ELSE @]
        left == [i \in scopes \cap DOMAIN executions |-> halted(i)]
    IN  /\ executions' = PutAll(Over(left, Without(executions, below)), tokens)
        /\ tasks' = Without(tasks, TasksOf(below))
        /\ StripEvents(below)
        /\ Unsubscribe(scopes)

\* A message starts event subprocess n in every scope that subscribes to it.
TriggerEventSubprocess(n) ==
    /\ BeginCommand
    /\ \E order \in Orders({s.scope : s \in {t \in subscriptions : t.event = n}}) :
          LET tokens == [k \in DOMAIN order |->
                            EventSubprocessToken(n, order[k], nextId + k - 1)]
          IN  /\ \/ n \in pd.cancel /\ InterruptScopes(Range(order), tokens)
                 \/ /\ n \notin pd.cancel
                    /\ executions' = PutAll(executions, tokens)
                    /\ UNCHANGED <<tasks, jobs, events>>
              /\ agenda' = Plan("continue", tokens)
              /\ nextId' = nextId + Len(tokens)
    /\ UNCHANGED <<pd, instance, committed, reading>>

\* The agenda is empty: execute_inactive_inclusive_joins activates every parked
\* join that no execution can reach, in the order of a hash map.
ActivateInactiveJoins ==
    /\ inCommand /\ agenda = << >>
    /\ \E S \in Scans : \E order \in Orders(Ready(S)) :
          LET merged == [k \in DOMAIN order |-> Merged(executions[order[k]], nextId + k - 1)]
              gone == UNION {TokensAt(executions, executions[i]) : i \in Ready(S)}
          IN  /\ merged # << >>
              /\ executions' = PutAll(Without(executions, gone), merged)
              /\ agenda' = Plan("take", merged)
              /\ nextId' = nextId + Len(merged)
    /\ UNCHANGED <<pd, tasks, jobs, events, instance, inCommand, committed, reading>>

\* strip_transient_variables_before_commit, then the commit.
Commit ==
    /\ inCommand /\ agenda = << >>
    /\ \E S \in Scans : Ready(S) = {}
    /\ executions' = [i \in DOMAIN executions |-> [executions[i] EXCEPT !.resumed = {}]]
    /\ committed' = [executions |-> executions', tasks |-> tasks, jobs |-> jobs,
                     boundaries |-> boundaries, waits |-> waits,
                     subscriptions |-> subscriptions,
                     instance |-> instance, nextId |-> nextId]
    /\ inCommand' = FALSE
    /\ UNCHANGED <<pd, tasks, jobs, events, instance, nextId, agenda, reading>>

\* An operation failed: nothing the command wrote is kept.
Rollback ==
    /\ executions' = committed.executions /\ tasks' = committed.tasks
    /\ jobs' = committed.jobs /\ instance' = committed.instance
    /\ boundaries' = committed.boundaries /\ waits' = committed.waits
    /\ subscriptions' = committed.subscriptions
    /\ nextId' = committed.nextId
    /\ agenda' = << >> /\ inCommand' = FALSE
    /\ UNCHANGED <<pd, committed, reading>>

(***************************************************************************)
(* ContinueProcessOperation: the token enters its activity                 *)
(***************************************************************************)
kept == <<pd, inCommand, committed, reading>>

Popped(op) == inCommand /\ agenda # << >> /\ Head(agenda).op = op

Entering == [Head(agenda).execution EXCEPT !.ended = FALSE, !.active = TRUE]

\* A job for the execution and the activity it is in.
Scheduled(type) ==
    [type |-> type, execution |-> Entering.id, activity |-> Entering.activity]

WaitsForJob(e) ==
    /\ e.activity \in pd.asyncBefore /\ Kind(e.activity) \in Activities
    /\ "before" \notin e.resumed

LeavesByJob(e) ==
    /\ e.activity \in pd.asyncAfter /\ Kind(e.activity) \in Activities
    /\ "after" \notin e.resumed

\* The row was deleted while the operation was queued.
ContinueSkipped ==
    /\ Popped("continue") /\ Entering.id \notin DOMAIN executions
    /\ agenda' = Tail(agenda)
    /\ UNCHANGED <<kept, rows>>

ScheduleAsyncContinuation ==
    /\ Popped("continue") /\ Entering.id \in DOMAIN executions
    /\ WaitsForJob(Entering)
    /\ executions' = Put(executions, [Entering EXCEPT !.active = FALSE])
    /\ jobs' = jobs \cup {Scheduled("before")}
    /\ agenda' = Tail(agenda)
    /\ UNCHANGED <<kept, tasks, events, instance, nextId>>

\* Mutant: the clone runs whether or not its row is still there.
RunsClone(kinds) ==
    /\ Popped("continue")
    /\ Kind(Entering.activity) \in kinds
    /\ ~WaitsForJob(Entering) /\ ~Multi(Entering.activity)

\* The behavior of an element of one of these kinds runs.
Runs(kinds) ==
    /\ Popped("continue") /\ Entering.id \in DOMAIN executions
    /\ Kind(Entering.activity) \in kinds
    /\ ~WaitsForJob(Entering) /\ ~Multi(Entering.activity)

\* The same for an activity that is wrapped in MultiInstanceActivityBehavior.
RunsMulti(kinds) ==
    /\ Popped("continue") /\ Entering.id \in DOMAIN executions
    /\ Kind(Entering.activity) \in kinds
    /\ ~WaitsForJob(Entering) /\ Multi(Entering.activity)

\* Start events, automatic tasks, exclusive gateways and inclusive gateways with
\* one incoming flow only plan the leave.
PassThrough ==
    /\ Runs({"start", "task", "exclusive", "inclusive"})
    /\ Kind(Entering.activity) = "inclusive" => Incoming(Entering.activity) <= 1
    /\ ~LeavesByJob(Entering)
    /\ executions' = Put(executions, Entering)
    /\ agenda' = Tail(agenda) \o Plan("take", <<Entering>>)
    /\ UNCHANGED <<kept, tasks, jobs, events, instance, nextId>>

\* An activity that waits registers its boundary events with a host execution: a
\* timer job per timer event, unless it is there, and a state under the event's own id
\* for the others.  The events of the rows gone are dropped first.
BoundaryTimers(host) ==
    {[type |-> "boundary", execution |-> host, activity |-> b] :
        b \in {n \in pd.timer : pd.attached[n] = Entering.activity}}

\* The event subprocesses that lie directly in n start within the scopes.
Subscribing(n, scopes) ==
    {s \in [event : DOMAIN pd.kind, scope : scopes] :
        Kind(s.event) = "eventSub" /\ pd.within[s.event] = n}

\* Every user task subscribes those of the process, unless they are.
ProcessSubscribes == Subscribing(NoNode, {Root})

RegisterEvents(host, gone, waiting, subscribing) ==
    LET others == {n \in DOMAIN pd.kind \ pd.timer : pd.attached[n] = Entering.activity}
    IN  /\ jobs' = (jobs \ JobsOf(gone)) \cup waiting \cup BoundaryTimers(host)
        /\ boundaries' = Over([b \in others |-> host], Without(boundaries, BoundariesOf(gone)))
        /\ waits' = Without(waits, gone)
        /\ subscriptions' = subscriptions \cup subscribing

UserTask ==
    /\ Runs({"user"})
    /\ executions' = Put(executions, [Entering EXCEPT !.active = FALSE])
    /\ tasks' = Over([t \in {nextId} |-> Entering.id], tasks)
    /\ nextId' = nextId + 1
    /\ RegisterEvents(Entering.id, {}, {}, ProcessSubscribes)
    /\ agenda' = Tail(agenda)
    /\ UNCHANGED <<kept, instance>>

\* A catching event waits for its timer job or for an event on its wait state.
IntermediateCatchEvent ==
    /\ Runs({"catch"})
    /\ executions' = Put(executions, [Entering EXCEPT !.active = FALSE])
    /\ IF Entering.activity \in pd.timer
       THEN jobs' = jobs \cup {Scheduled("timer")} /\ UNCHANGED waits
       ELSE waits' = Over([i \in {Entering.id} |-> Entering.activity], waits) /\ UNCHANGED jobs
    /\ agenda' = Tail(agenda)
    /\ UNCHANGED <<kept, tasks, boundaries, subscriptions, instance, nextId>>

\* A boundary event was planned together with its leave.
BoundaryEvent ==
    /\ Runs({"boundary"})
    /\ executions' = Put(executions, Entering)
    /\ agenda' = Tail(agenda)
    /\ UNCHANGED <<kept, tasks, jobs, events, instance, nextId>>

\* The token of an event gateway becomes the scope of the events that follow it.
EventBasedGateway ==
    /\ Runs({"event"})
    /\ LET e == [Entering EXCEPT !.scope = TRUE]
       IN  /\ executions' = Put(executions, e)
           /\ agenda' = Tail(agenda) \o Plan("take", <<e>>)
    /\ UNCHANGED <<kept, tasks, jobs, events, instance, nextId>>

\* The token becomes the scope of a child that enters the inner start event.
InnerToken == Fresh(Entering.id, InnerStart(Entering.activity), nextId)

SubProcess ==
    /\ Runs({"sub"}) /\ ~LeavesByJob(Entering)
    /\ executions' = Put(Put(executions, [Entering EXCEPT !.scope = TRUE]), InnerToken)
    /\ nextId' = nextId + 1
    /\ RegisterEvents(Entering.id, {}, {}, Subscribing(Entering.activity, {Entering.id}))
    /\ agenda' = Tail(agenda) \o Plan("continue", <<InnerToken>>)
    /\ UNCHANGED <<kept, tasks, instance>>

\* asyncLeave: the behavior runs, then every planned operation is dropped and a
\* job is left in their place.
ScheduleAsyncAfter ==
    /\ Runs({"task", "sub"}) /\ LeavesByJob(Entering)
    /\ LET inner == Kind(Entering.activity) = "sub"
           row == [Entering EXCEPT !.active = FALSE, !.scope = @ \/ inner]
       IN  /\ executions' = Put(IF inner THEN Put(executions, InnerToken) ELSE executions, row)
           /\ nextId' = nextId + IF inner THEN 1 ELSE 0
    /\ RegisterEvents(Entering.id, {}, {Scheduled("after")},
                      Subscribing(Entering.activity, {Entering.id}))
    /\ agenda' = << >>
    /\ UNCHANGED <<kept, tasks, instance>>

(***************************************************************************)
(* MultiInstanceActivityBehavior: the token is replaced by an inactive     *)
(* root, with one execution per instance below it.  A sequential activity  *)
(* is continued on its root after every instance but the last.             *)
(***************************************************************************)
\* materialize_multi_instance_root: the scope row of the instance is kept, detached
\* from the activity, any other arriving row goes.
MultiRoot ==
    IF Entering.multi THEN [Entering EXCEPT !.active = FALSE]
    ELSE [Fresh(IF IsProcessInstanceScope(Entering) THEN Root ELSE Entering.parent,
                Entering.activity, nextId)
          EXCEPT !.active = FALSE, !.multi = TRUE]

Arriver ==
    IF Entering.multi \/ IsProcessInstanceScope(Entering) THEN {} ELSE {Entering.id}

Materialized ==
    LET detached == [Entering EXCEPT !.active = FALSE, !.activity = NoNode]
    IN  Put(IF IsProcessInstanceScope(Entering) THEN Put(executions, detached)
            ELSE Without(executions, Arriver),
            MultiRoot)

FirstFree == IF Entering.multi THEN nextId ELSE nextId + 1

\* Every instance is done when the behavior returns: there is none, or they are those
\* of a service task, or the completion condition of a parallel activity holds before
\* any of them has left its wait state.  The root is gone again.
MultiInstanceAtOnce ==
    /\ RunsMulti({"task", "user", "sub"})
    /\ \/ Kind(Entering.activity) = "task" \/ pd.instances[Entering.activity] = 0
       \/ pd.loop[Entering.activity] = "parallel" /\ Entering.activity \in pd.completion
    /\ LET token == Fresh(MultiRoot.parent, MultiRoot.activity, FirstFree)
       IN  /\ executions' = Put(Without(Materialized, Tree(Materialized, MultiRoot.id)), token)
           /\ agenda' = Tail(agenda) \o Plan("take", <<token>>)
    /\ nextId' = FirstFree + 1
    /\ StripEvents(Arriver)
    /\ UNCHANGED <<kept, tasks, subscriptions, instance>>

\* find_reusable_sequential_child: the open instance of the last round.
Reusable ==
    {k \in DOMAIN executions : executions[k].parent = Entering.id /\ ~executions[k].ended}

\* The ids of the instances that start now.
Starting ==
    IF pd.loop[Entering.activity] = "parallel"
    THEN [k \in 1 .. pd.instances[Entering.activity] |-> FirstFree + k - 1]
    ELSE IF Entering.multi /\ Kind(Entering.activity) = "user" /\ Reusable # {}
    THEN <<CHOOSE k \in Reusable : TRUE>>
    ELSE <<FirstFree>>

\* The instances wait in a user task of their own, or each in a subprocess of its own;
\* their boundary events have the root as host.
MultiInstanceWaits(kind) ==
    /\ RunsMulti({kind}) /\ pd.instances[Entering.activity] > 0
    /\ LET free == FirstFree + Len(Starting)
           row(k) == [Fresh(MultiRoot.id, Entering.activity, Starting[k])
                      EXCEPT !.active = kind = "sub", !.scope = kind = "sub"]
           below(k) == Fresh(Starting[k], InnerStart(Entering.activity), free + k - 1)
           started == [k \in DOMAIN Starting |-> row(k)]
           inner == IF kind = "sub" THEN [k \in DOMAIN Starting |-> below(k)] ELSE << >>
           taskIds == IF kind = "user" THEN free .. free + Len(Starting) - 1 ELSE {}
       IN  /\ executions' = PutAll(Materialized, started \o inner)
           /\ tasks' = Over([t \in taskIds |-> Starting[t - free + 1]], tasks)
           /\ agenda' = Tail(agenda) \o Plan("continue", inner)
           /\ nextId' = free + Len(Starting)
    /\ RegisterEvents(MultiRoot.id, Arriver, {},
                      IF kind = "user" THEN ProcessSubscribes
                      ELSE Subscribing(Entering.activity, Range(Starting)))
    /\ UNCHANGED <<kept, instance>>

MultiInstanceUserTask == MultiInstanceWaits("user")

MultiInstanceSubProcess == MultiInstanceWaits("sub")

(***************************************************************************)
(* Gateways                                                                *)
(***************************************************************************)
\* One concurrent child per target, each entering it.
Fork(ex, parent, targets, aside) ==
    LET children == [k \in DOMAIN targets |->
                        [Child(parent, targets[k], nextId + k - 1) EXCEPT !.aside = aside]]
    IN  /\ executions' = PutAll(ex, children)
        /\ nextId' = nextId + Len(targets)
        /\ agenda' = Tail(agenda) \o Plan("continue", children)
        /\ UNCHANGED <<kept, tasks, jobs, events, instance>>

\* A token parks at the join; the tokens at the gateway are counted with it.
Arrived == Put(executions, Parked(Entering))

\* Mutant: the join opens one token early.
JoinOpenEarly == Cardinality(TokensAt(Arrived, Entering)) >= Incoming(Entering.activity) - 1

JoinOpen == Cardinality(TokensAt(Arrived, Entering)) >= Incoming(Entering.activity)

Park ==
    /\ executions' = Arrived
    /\ agenda' = Tail(agenda)
    /\ UNCHANGED <<kept, tasks, jobs, events, instance, nextId>>

ParallelJoinWaits == Runs({"parallel"}) /\ ~JoinOpen /\ Park

ParallelGateway ==
    /\ Runs({"parallel"}) /\ JoinOpen
    /\ LET n == Entering.activity
           joined == IF Incoming(n) > 1 THEN TokensAt(Arrived, Entering) \ {Entering.id} ELSE {}
       IN  Fork(DeleteOrPreserve(Without(executions, joined), Entering),
                ParallelScope(Entering), pd.out[n], Entering.aside)

InclusiveJoinWaits ==
    /\ Runs({"inclusive"}) /\ Incoming(Entering.activity) > 1
    /\ CanReachGateway(Arrived, Parked(Entering))
    /\ Park

InclusiveJoin ==
    /\ Runs({"inclusive"}) /\ Incoming(Entering.activity) > 1
    /\ ~CanReachGateway(Arrived, Parked(Entering))
    /\ LET m == Merged(Entering, nextId)
       IN  /\ executions' = Put(Without(Arrived, TokensAt(Arrived, Entering)), m)
           /\ agenda' = Tail(agenda) \o Plan("take", <<m>>)
    /\ nextId' = nextId + 1
    /\ UNCHANGED <<kept, tasks, jobs, events, instance>>

(***************************************************************************)
(* End events                                                              *)
(***************************************************************************)
Ended == Put(executions, [Entering EXCEPT !.ended = TRUE])

\* Mutant: only the running tokens count, not the waiting ones.
ActiveSiblings ==
    {i \in DOMAIN executions \ {Entering.id} :
        executions[i].parent = Entering.parent /\ executions[i].active /\ ~executions[i].ended}

OpenSiblings ==
    {i \in DOMAIN executions \ {Entering.id} :
        /\ executions[i].parent = Entering.parent
        /\ ~executions[i].ended /\ ~executions[i].aside}

\* The token is the last one of an embedded subprocess.
EndsScope ==
    /\ Entering.parent \in DOMAIN executions
    /\ executions[Entering.parent].scope
    /\ executions[Entering.parent].activity # NoNode

\* A token that entered an event subprocess without interrupting ends for itself.
AsideEnds ==
    /\ Runs({"end"}) /\ Entering.aside
    /\ executions' = Ended
    /\ agenda' = Tail(agenda)
    /\ UNCHANGED <<kept, tasks, jobs, events, instance, nextId>>

Ends == Runs({"end"}) /\ ~Entering.aside

LeaveScope(ex, p) ==
    LET left == [ex[p] EXCEPT !.ended = TRUE]
    IN  /\ executions' = Put(ex, left)
        /\ agenda' = Tail(agenda) \o Plan("take", <<left>>)

BranchEnds ==
    /\ Ends /\ OpenSiblings # {}
    /\ executions' = Ended
    /\ agenda' = Tail(agenda)
    /\ UNCHANGED <<kept, tasks, jobs, events, instance, nextId>>

\* leave_sequential_subprocess_mi_instance: the scope p of an instance is deleted with
\* everything below it.
InInstance(p) ==
    LET r == executions[p].parent IN r \in DOMAIN executions /\ executions[r].multi

LeaveInstanceScope(p) ==
    LET root == Counted(executions[p].parent)
        scope == Tree(executions, p)
    IN  /\ InstanceDone(root, root.completed < pd.instances[root.activity],
                        Without(executions, scope), TasksOf(scope), scope, Tail(agenda))
        /\ UNCHANGED <<kept, instance>>

InstanceEnds ==
    /\ Ends /\ OpenSiblings = {} /\ EndsScope /\ InInstance(Entering.parent)
    /\ LeaveInstanceScope(Entering.parent)

SubProcessEnds ==
    /\ Ends /\ OpenSiblings = {} /\ EndsScope /\ ~InInstance(Entering.parent)
    /\ LeaveScope(Ended, Entering.parent)
    /\ Unsubscribe({Entering.parent})
    /\ UNCHANGED <<kept, tasks, jobs, boundaries, waits, instance, nextId>>

\* end_process_instance_with_callback_outcome does nothing on an ended instance; it
\* leaves the event wait states.
ProcessInstanceEnds ==
    /\ Ends /\ OpenSiblings = {} /\ ~EndsScope
    /\ executions' = Ended
    /\ instance' = "ended"
    /\ jobs' = IF instance = "ended" THEN jobs ELSE {}
    /\ boundaries' = IF instance = "ended" THEN boundaries ELSE << >>
    /\ subscriptions' = IF instance = "ended" THEN subscriptions ELSE {}
    /\ agenda' = Tail(agenda)
    /\ UNCHANGED <<kept, tasks, waits, nextId>>

\* execute_terminate_end_event: the token's own tree goes first.
Terminated == Without(executions, Tree(executions, Entering.id))

TerminatedScope == FirstScope(Terminated, Entering.parent)

InSubProcess ==
    /\ TerminatedScope # NoId
    /\ Terminated[TerminatedScope].activity # NoNode
    /\ Kind(Terminated[TerminatedScope].activity) = "sub"

TerminateInstance ==
    /\ Runs({"terminate"}) /\ InSubProcess /\ InInstance(TerminatedScope)
    /\ LeaveInstanceScope(TerminatedScope)

TerminateSubProcess ==
    /\ Runs({"terminate"}) /\ InSubProcess /\ ~InInstance(TerminatedScope)
    /\ LET gone == Tree(executions, Entering.id)
                       \cup (Tree(executions, TerminatedScope) \ {TerminatedScope})
       IN  /\ LeaveScope(Without(executions, gone), TerminatedScope)
           /\ tasks' = Without(tasks, TasksOf(gone))
           /\ StripEvents(gone)
           /\ Unsubscribe(gone \cup {TerminatedScope})
    /\ UNCHANGED <<kept, instance, nextId>>

\* delete_process_instance_runtime: every row of the instance goes.
TerminateProcessInstance ==
    /\ Runs({"terminate"}) /\ ~InSubProcess
    /\ executions' = << >> /\ tasks' = << >> /\ jobs' = {}
    /\ boundaries' = << >> /\ waits' = << >> /\ subscriptions' = {}
    /\ instance' = "ended"
    /\ agenda' = Tail(agenda)
    /\ UNCHANGED <<kept, nextId>>

(***************************************************************************)
(* TakeOutgoingSequenceFlowsOperation: the token leaves its activity.  The *)
(* clone is written back before the flows are taken.                       *)
(***************************************************************************)
Leaving == Head(agenda).execution

Written == Put(executions, Leaving)

\* The nodes other than the gateways that choose or merge.
Single == {"start", "task", "user", "sub", "boundary", "catch", "event"}

LeavesFrom(kinds) == Popped("take") /\ Kind(Leaving.activity) \in kinds

MoveTo(target) ==
    LET e == [Leaving EXCEPT !.activity = target]
    IN  /\ executions' = Put(executions, e)
        /\ agenda' = Tail(agenda) \o Plan("continue", <<e>>)
        /\ UNCHANGED <<kept, tasks, jobs, events, instance, nextId>>

TakeExclusive(flows) ==
    /\ LeavesFrom({"exclusive"})
    /\ \/ flows # << >> /\ MoveTo(Head(flows))
       \/ flows = << >> /\ Rollback

TakeInclusive(flows) ==
    /\ LeavesFrom({"inclusive"})
    /\ Fork(DeleteOrPreserve(Written, Leaving), ParallelScope(Leaving), flows, FALSE)

\* Several flows out of another node fork below the token itself.
TakeSeveral(flows) ==
    /\ LeavesFrom(Single) /\ Len(flows) > 1
    /\ Fork(IF Leaving.scope THEN Put(Written, [Leaving EXCEPT !.active = FALSE])
            ELSE Without(Written, {Leaving.id}),
            Leaving.id, flows, FALSE)

TakeOne(flows) ==
    /\ LeavesFrom(Single) /\ Len(flows) = 1
    /\ MoveTo(Head(flows))

\* Mutant: a token without a flow to take is left where it is.
TakeNoneKeeps(flows) ==
    /\ LeavesFrom(Single) /\ flows = << >>
    /\ executions' = Written
    /\ agenda' = Tail(agenda)
    /\ UNCHANGED <<kept, tasks, jobs, events, instance, nextId>>

TakeNone(flows) ==
    /\ LeavesFrom(Single) /\ flows = << >>
    /\ executions' = IF Kind(Leaving.activity) = "start" THEN Written
                     ELSE Without(Written, {Leaving.id})
    /\ agenda' = Tail(agenda)
    /\ UNCHANGED <<kept, tasks, jobs, events, instance, nextId>>

\* The row was detached from its activity before the operation was planned.
TakeNowhere ==
    /\ Popped("take") /\ Leaving.activity = NoNode
    /\ agenda' = Tail(agenda)
    /\ UNCHANGED <<kept, rows>>

TakeOutgoing ==
    /\ Popped("take") /\ Leaving.activity # NoNode
    /\ \E holds \in SUBSET Conditional(Leaving.activity) :
          \E flows \in Selected(Leaving.activity, holds) :
              \/ TakeExclusive(flows) \/ TakeInclusive(flows)
              \/ TakeSeveral(flows) \/ TakeOne(flows) \/ TakeNone(flows)

Next ==
    \/ StartProcessInstance
    \/ \E c \in Clients : ReadTask(c) \/ CompleteTask(c)
    \/ \E j \in jobs : \/ ExecuteJob(j) \/ TriggerTimerBoundaryEvent(j)
                      \/ TriggerTimerIntermediateCatchEvent(j)
    \/ \E b \in DOMAIN boundaries : TriggerBoundaryEvent(b)
    \/ \E i \in DOMAIN waits : TriggerIntermediateCatchEvent(i)
    \/ \E n \in {s.event : s \in subscriptions} : TriggerEventSubprocess(n)
    \/ ContinueSkipped \/ ScheduleAsyncContinuation \/ PassThrough \/ UserTask
    \/ SubProcess \/ ScheduleAsyncAfter
    \/ MultiInstanceAtOnce \/ MultiInstanceUserTask \/ MultiInstanceSubProcess
    \/ IntermediateCatchEvent \/ BoundaryEvent \/ EventBasedGateway
    \/ ParallelJoinWaits \/ ParallelGateway \/ InclusiveJoinWaits \/ InclusiveJoin
    \/ AsideEnds \/ BranchEnds \/ InstanceEnds \/ SubProcessEnds \/ ProcessInstanceEnds
    \/ TerminateInstance \/ TerminateSubProcess \/ TerminateProcessInstance
    \/ TakeNowhere \/ TakeOutgoing
    \/ ActivateInactiveJoins \/ Commit

Spec == Init /\ [][Next]_vars

(***************************************************************************)
(* Properties                                                              *)
(***************************************************************************)
\* The rows, the agenda and the clients have their types; a row is stored under its
\* own id.
TypeOK ==
    /\ IsDefinition(pd)
    /\ \A i \in DOMAIN executions : i \in Nat /\ executions[i] \in Execution
                                              /\ executions[i].id = i
    /\ \A t \in DOMAIN tasks : t \in Nat /\ tasks[t] \in Nat
    /\ jobs \subseteq Job
    /\ \A b \in DOMAIN boundaries : Kind(b) = "boundary" /\ boundaries[b] \in Nat
    /\ \A i \in DOMAIN waits : i \in Nat /\ Kind(waits[i]) = "catch"
    /\ subscriptions \subseteq Subscription
    /\ instance \in {"none", "running", "ended"}
    /\ nextId \in Nat
    /\ \A k \in DOMAIN agenda : agenda[k] \in Operation
    /\ inCommand \in BOOLEAN
    /\ \A c \in Clients : reading[c] = << >> \/ reading[c] \in Nat \X Nat

AtRest == ~inCommand

Open(i) == ~executions[i].ended

AtJoin(e) ==
    /\ e.activity # NoNode /\ ~e.active /\ e.concurrent
    /\ Kind(e.activity) \in {"parallel", "inclusive"} /\ Incoming(e.activity) > 1

\* What can move execution i from outside: its task, its job or timer, its event.
Moved(i) ==
    \/ \E t \in DOMAIN tasks : tasks[t] = i
    \/ \E j \in jobs : j.execution = i /\ j.type # "boundary"
    \/ i \in DOMAIN waits

OpenBelow(i) == {k \in DOMAIN executions : executions[k].parent = i /\ Open(k)}

\* The instance of a sequential activity that waits for the job of its root.
WaitsForRoot(i) ==
    LET p == executions[i].parent
    IN  p \in DOMAIN executions /\ executions[p].multi /\ Moved(p)

\* Between commands no token of a running instance is lost: every open execution
\* has a task, a job or an event that will move it, waits at a join, or is the scope
\* of an open execution; and a multi-instance activity has an open instance for every
\* one that has yet to complete, or one at a time.
NoTokenLost ==
    AtRest /\ instance = "running" =>
        \A i \in DOMAIN executions :
            Open(i) =>
                /\ Moved(i) \/ WaitsForRoot(i) \/ AtJoin(executions[i]) \/ OpenBelow(i) # {}
                /\ executions[i].multi =>
                      LET n == executions[i].activity
                          left == pd.instances[n] - executions[i].completed
                      IN  /\ left > 0
                          /\ Cardinality(OpenBelow(i)) =
                                IF pd.loop[n] = "parallel" THEN left
                                ELSE IF Moved(i) /\ Kind(n) = "sub" THEN 0 ELSE 1

\* Between commands a running instance can be moved from outside: it never sits
\* with all its tokens parked at joins that nobody will open (the stuck join that
\* the re-evaluation after the agenda is there to prevent).
NotStuck ==
    AtRest /\ instance = "running" => \E i \in DOMAIN executions : Moved(i)

\* An instance ends only when its work is done: no task, no job, no event and no
\* token is left behind an ended instance.
EndsOnlyWhenDone ==
    AtRest /\ instance = "ended" =>
        /\ DOMAIN tasks = {} /\ jobs = {} /\ DOMAIN boundaries = {} /\ DOMAIN waits = {}
        /\ subscriptions = {}
        /\ \A i \in DOMAIN executions : Open(i) => i = Root

\* A fork keeps the parent of its branches: the scope row of a running instance
\* is there, and the parent of every open execution can be loaded.
ParentsKept ==
    instance = "running" =>
        /\ Root \in DOMAIN executions
        /\ \A i \in DOMAIN executions :
              Open(i) => executions[i].parent \in DOMAIN executions \cup {NoId}

\* The nodes that a boundary event can start several tokens to.
Repeatable ==
    UNION {ReachableFrom(pd, b) : b \in {n \in DOMAIN pd.kind \ pd.cancel :
                                             Kind(n) = "boundary"}}

\* The instances of multi-instance activities that execution i is in.
InstancesOf(i) ==
    {k \in DOMAIN executions : /\ i \in Tree(executions, k)
                               /\ executions[k].parent \in DOMAIN executions
                               /\ executions[executions[k].parent].multi}

\* Tokens are not doubled: a join lets one token through, an event gateway one event
\* and a multi-instance activity one token after its last instance.  Between commands
\* no activity is occupied by two open executions, unless they are in different
\* instances of a multi-instance activity, and behind an event gateway no event still
\* waits beside a branch that has gone on.
OneTokenPerActivity ==
    AtRest => \A i, k \in DOMAIN executions :
        LET at(m) == executions[m].activity
            p == executions[i].parent
        IN  /\ Open(i) /\ Open(k) /\ i # k /\ at(i) # NoNode =>
                  /\ at(i) = at(k) => \/ AtJoin(executions[i]) \/ at(i) \in Repeatable
                                     \/ InstancesOf(i) # InstancesOf(k)
                  /\ /\ executions[k].parent = p /\ p \in DOMAIN executions
                     /\ at(p) # NoNode /\ Kind(at(p)) = "event"
                     /\ Kind(at(i)) = "catch"
                     => Kind(at(k)) = "catch"

WaitsIn(i, kind) ==
    /\ i \in DOMAIN executions /\ ~executions[i].active /\ Open(i)
    /\ executions[i].activity # NoNode /\ Kind(executions[i].activity) = kind

\* What can happen to a token belongs to where the token is: a task to an execution
\* that waits in a user task and to no other, a wait state or a timer to an execution
\* that waits in that catching event, a boundary event of a user task fires only for an
\* execution that is in this user task, and an event subprocess starts only in a scope
\* that is open.
WaitsAtItsToken ==
    AtRest =>
        /\ IsInjective(tasks)
        /\ \A t \in DOMAIN tasks : WaitsIn(tasks[t], "user")
        /\ \A i \in DOMAIN waits : WaitsIn(i, "catch") /\ executions[i].activity = waits[i]
        /\ \A b \in DOMAIN boundaries :
              Kind(pd.attached[b]) = "user" /\ CanFire(boundaries[b]) =>
                  executions[boundaries[b]].activity = pd.attached[b]
        /\ \A s \in subscriptions :
              /\ s.scope \in DOMAIN executions
              /\ pd.within[s.event] # NoNode =>
                    /\ Open(s.scope)
                    /\ executions[s.scope].activity = pd.within[s.event]
        /\ \A j \in jobs :
              /\ j.type = "timer" => /\ WaitsIn(j.execution, "catch")
                                     /\ executions[j.execution].activity = j.activity
              /\ j.type = "boundary" /\ CanFire(j.execution) =>
                    \/ executions[j.execution].active
                    \/ executions[j.execution].activity = pd.attached[j.activity]

\* No operation brings back a deleted execution from the clone it holds: a row
\* that appears has a fresh id, or is restored by the rollback of the command.
NoResurrection ==
    [][\A i \in DOMAIN executions' \ DOMAIN executions :
          i >= nextId \/ executions' = committed.executions]_vars

====
