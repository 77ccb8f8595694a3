------------------------------- MODULE CasePlan -------------------------------
(***************************************************************************)
(* One CMMN case instance, as runtime.rs of the CMMN engine runs it: the   *)
(* tables of the case, the cascade a lifecycle event starts through the    *)
(* sentries of its container (exit criteria, then entry criteria, then the *)
(* derived exit event), the completion checks of stages and of the case,   *)
(* and the commands of CmmnRuntimeService, each of which is one database   *)
(* session that commits at the end or not at all.                          *)
(*                                                                         *)
(* A plan is data, chosen in Init.  Its items carry their kind, the        *)
(* container they stand in, their criteria and their control rules; a rule *)
(* is "no", "yes" or "flag", the last one true when the case's one         *)
(* variable is.  Case files, milestone variables, lifecycle listeners and  *)
(* the text of expressions are left out; child processes and child cases   *)
(* are environment.  plan.maxRows bounds the rows a case of the plan ever  *)
(* inserts.                                                                *)
(***************************************************************************)
EXTENDS Naturals, Sequences, FiniteSets, SequencesExt

CONSTANTS Plans,      \* the case plan models to run
          Allowed     \* bound: the tallies of Irregular steps a behaviour may reach

VARIABLES plan,       \* the case plan model of this behaviour
          used,       \* how many irregular steps of each kind there were
          db,         \* the rows of the case
          held,       \* task rows a command has read and not yet acted on
          seen        \* the case row a change of plan item states has read

vars == <<plan, used, db, held, seen>>

Top == 0              \* the stage instance id of what stands in the case itself
Case == "case"        \* the outermost container

Item(i) == plan.items[i]
Kind(i) == Item(i).kind
Listeners == {"listener", "variable", "timer"}
Sentry(x) == plan.sentries[x]

\* The items of a container, and of the containers in it.
RECURSIVE Within(_)
Within(k) == LET direct == ToSet(plan.order[k])
             IN direct \cup UNION {Within(i) : i \in {j \in direct : Kind(j) = "stage"}}

Holds(rule, s) == rule = "yes" \/ (rule = "flag" /\ s.flag)

\* A case that has not been started: no row in any table.
NoCase == [state |-> "NONE", flag |-> FALSE, tasks |-> {}, stages |-> {}, rows |-> {},
           children |-> {}, subs |-> {}, timers |-> {}, log |-> {}, marks |-> {},
           ended |-> {}, done |-> {}, said |-> {}, next |-> 1, failed |-> FALSE]

\* Mutant of Insert: every row gets the same id.
InsertSameId(s, table, i, st, state) ==
    [s EXCEPT ![table] = @ \cup {[id |-> s.next, item |-> i, stage |-> st, state |-> state]}]
Insert(s, table, i, st, state) ==
    [s EXCEPT ![table] = @ \cup {[id |-> s.next, item |-> i, stage |-> st, state |-> state]},
              !.next = @ + 1]
Upsert(s, table, r, state) ==
    [s EXCEPT ![table] = {x \in @ : x.id # r.id} \cup {[r EXCEPT !.state = state]}]
Tables(s) == s.tasks \cup s.stages \cup s.rows \cup s.children \cup s.subs
Open(R) == {r \in R : r.state # "COMPLETED"}
NotEnded(R) == {r \in R : r.state \notin {"COMPLETED", "TERMINATED"}}
Of(R, i) == {r \in R : r.item = i}
In(R, st) == {r \in R : r.stage = st}
Having(R, state) == {r \in R : r.state = state}
InOrder(R) == SetToSortSeq(R, LAMBDA a, b : a.id < b.id)
First(R) == {r \in R : \A x \in R : r.id <= x.id}

Record(s, i, e) == [s EXCEPT !.log = @ \cup {<<i, e>>}]
Occurred(s, i, e) == <<i, e>> \in s.log
StageActive(s, st) == st = Top \/ \E r \in s.stages : r.id = st /\ r.state = "ACTIVE"
SetRows(s, i, state) ==
    [s EXCEPT !.rows = {IF r.item = i THEN [r EXCEPT !.state = state] ELSE r : r \in @}]
DropRows(s, i) == [s EXCEPT !.rows = @ \ Of(@, i)]
DropEnabled(s, I) ==
    [s EXCEPT !.rows = {r \in @ : ~(r.item \in I /\ r.state = "ENABLED")}]
\* Subscriptions and timer jobs of the items go with them.
Silence(s, I) == [s EXCEPT !.subs = {x \in @ : x.item \notin I},
                           !.timers = {x \in @ : x.item \notin I}]

-----------------------------------------------------------------------------
(* Sentries.                                                               *)

HasIf(x) == Sentry(x).ifPart # "none"
Sticky(x) == HasIf(x) /\ Sentry(x).on # {} /\ ~Sentry(x).onEvent

\* Mutant of OnPartsSatisfied: one event of several is enough.
OnPartsAny(s, x) == \E p \in Sentry(x).on : p \in s.log
\* A default sentry reads the event log, and for tasks their history too; an
\* onEvent sentry only what this command has said.
OnPartsSatisfied(s, x) ==
    \A p \in Sentry(x).on :
        IF Sentry(x).onEvent THEN p \in s.said
        ELSE \/ p \in s.log
             \/ p[2] = "complete" /\ Having(Of(s.tasks, p[1]), "COMPLETED") # {}
             \/ p[2] = "terminate" /\ p[1] \in s.ended

IfPartSatisfied(s, x) ==
    \/ ~HasIf(x)
    \/ Sticky(x) /\ x \in s.marks
    \/ Holds(Sentry(x).ifPart, s)

\* The criteria of the source's own container that the event satisfies.
Matching(s, i, e, criteria) ==
    {x \in DOMAIN plan.sentries :
        /\ Sentry(x).in = Item(i).in
        /\ \E j \in ToSet(plan.order[Item(i).in]) : x \in Item(j)[criteria]
        /\ <<i, e>> \in Sentry(x).on
        /\ OnPartsSatisfied(s, x)
        /\ IfPartSatisfied(s, x)}

Remember(s, X) == [s EXCEPT !.marks = @ \cup {x \in X : Sticky(x)}]
Sweep(s) == Remember(s, {x \in DOMAIN plan.sentries : Sticky(x) /\ Holds(Sentry(x).ifPart, s)})
Forget(s, X) == [s EXCEPT !.marks = @ \ X]

-----------------------------------------------------------------------------
(* The functions of the runtime call each other to any depth.  Here one of *)
(* them gives the state it leaves and the calls that come next, in order;  *)
(* Run makes them, depth first.  arg is the event of a handle, and what    *)
(* else a call is about.                                                   *)

Call(do, i, arg, st) == [do |-> do, item |-> i, arg |-> arg, stage |-> st]
Handle(i, e, st) == Call("handle", i, e, st)
MaybeCompleteStage(st) == Call("stage", Case, "", st)
MaybeCompleteCase == Call("case", Case, "", Top)

After(s, calls) == [s |-> s, calls |-> calls]
Then(a, b) == [s |-> b.s, calls |-> a.calls \o b.calls]
Push(a, c) == After(a.s, Append(a.calls, c))
Each(q, Op(_)) == [n \in 1..Len(q) |-> Op(q[n])]
Fire(s, i, e, st) == After(Record(s, i, e), <<Handle(i, e, st)>>)

-----------------------------------------------------------------------------
(* Termination.                                                            *)

DeleteTasks(s, R) == [s EXCEPT !.tasks = @ \ R, !.ended = @ \cup {r.item : r \in R}]
TerminateTasks(s, R) ==
    After(DeleteTasks(s, R), Each(InOrder(R), LAMBDA r : Handle(r.item, "terminate", r.stage)))

StagesOf(k) == SelectSeq(plan.order[k], LAMBDA i : Kind(i) = "stage")

\* Mutant of EndTasksOf: the stage goes, its tasks stay.
EndNoTasksOf(a, r) == a
\* The last of a stage instance: its tasks, what listens for its items, itself.
EndTasksOf(a, r) == Then(a, TerminateTasks(a.s, Open(In(a.s.tasks, r.id))))
EndStage(a, r) ==
    Push(After([Silence(a.s, Within(r.item)) EXCEPT !.stages = {x \in @ : x.id # r.id},
                                                    !.done = @ \ {r.item}], a.calls),
         Handle(r.item, "terminate", r.stage))

RepeatStage(s, r) ==
    IF /\ Holds(Item(r.item).repeats, s)
       /\ StageActive(s, r.stage)
       /\ Open(Of(s.stages, r.item)) = {}
    THEN Insert(s, "stages", r.item, r.stage, "AVAILABLE") ELSE s

Again(a, r) == After(RepeatStage(a.s, r), a.calls)

\* A stage item has every open instance terminated, and may wait again.
RECURSIVE TerminateStage(_, _)
TerminateStageItem(s, i) ==
    FoldLeft(LAMBDA a, r : Again(Then(a, TerminateStage(a.s, r)), r),
             After(s, <<>>), InOrder(Open(Of(s.stages, i))))
TerminateStage(s, r) ==
    EndStage(EndTasksOf(FoldLeft(LAMBDA a, i : Then(a, TerminateStageItem(a.s, i)),
                                 After(s, <<>>), StagesOf(r.item)), r), r)

TerminateMilestone(s, i) ==
    IF Occurred(s, i, "occur") /\ ~Occurred(s, i, "terminate")
    THEN After(SetRows(Record(s, i, "terminate"), i, "TERMINATED"), <<Handle(i, "terminate", Top)>>)
    ELSE After(s, <<>>)

TerminateListener(s, i) ==
    LET quiet == Silence(s, {i})
    IN IF quiet = s \/ Occurred(s, i, "terminate") THEN After(quiet, <<>>)
       ELSE After(SetRows(Record(quiet, i, "terminate"), i, "TERMINATED"), <<Handle(i, "terminate", Top)>>)

\* Mutant of TerminateItem: a stage ignores its exit criteria.
TerminateItemNotStage(s, i) ==
    IF Kind(i) = "task" THEN TerminateTasks(s, Open(Of(s.tasks, i))) ELSE After(s, <<>>)
TerminateItem(s, i) ==
    CASE Kind(i) = "task" -> TerminateTasks(s, Open(Of(s.tasks, i)))
      [] Kind(i) = "stage" -> TerminateStageItem(s, i)
      [] Kind(i) = "milestone" -> TerminateMilestone(s, i)
      [] Kind(i) \in Listeners -> TerminateListener(s, i)
      [] OTHER -> After([s EXCEPT !.failed = TRUE], <<>>)
\* The items of container k that one of the sentries X is an exit criterion
\* of, in the plan's order.
TerminateExitTargets(s, k, X) ==
    FoldLeft(LAMBDA a, i : Then(a, TerminateItem(a.s, i)), After(s, <<>>),
             SelectSeq(plan.order[k], LAMBDA i : Item(i).exit \cap X # {}))

-----------------------------------------------------------------------------
(* Completion of a stage and of the case.  All tables share one row shape, *)
(* so what is open in a container is one set of rows.                      *)

Lifecycle(state) == IF state \in {"ACTIVE", "ENABLED"} THEN state ELSE "AVAILABLE"

\* parentCompletionRule and completionNeutralRule of an item below k.
Ignored(s, k, r) ==
    LET it == Item(r.item)
        state == Lifecycle(r.state)
        before == Occurred(s, r.item, "complete")
        again == Holds(it.repeats, s)
    IN /\ r.item \in Within(k)
       /\ \/ it.rule = "ignore"
          \/ it.rule = "ignoreIfAvailable" /\ state = "AVAILABLE"
          \/ it.rule = "ignoreIfAvailableOrEnabled" /\ state # "ACTIVE"
          \/ it.rule = "ignoreAfterFirstCompletion" /\ before /\ (state = "ACTIVE" \/ again)
          \/ /\ it.rule = "ignoreAfterFirstCompletionIfAvailableOrEnabled"
             /\ before /\ again /\ state # "ACTIVE"
          \/ Holds(it.neutral, s) /\ state = "AVAILABLE"

Blocks(s, k, r) ==
    /\ ~Ignored(s, k, r)
    /\ ~(Kind(r.item) = "milestone" /\ r.state = "AVAILABLE")

\* Mutant of IncompleteRequired: an item that is available counts as done.
RequiredUnavailable(s, k, open) ==
    \E i \in Within(k) : /\ Holds(Item(i).required, s)
                         /\ ~Occurred(s, i, "complete")
                         /\ Of(Tables(s), i) = {}
IncompleteRequired(s, k, open) ==
    \E i \in Within(k) \ {r.item : r \in {x \in open : Ignored(s, k, x)}} :
        /\ Holds(Item(i).required, s)
        /\ ~Occurred(s, i, "complete")
        /\ i \notin s.done
        /\ Having(Of(s.rows, i), "COMPLETED") = {}

\* The rows a completion check counts.  An auto-complete container waits for
\* active tasks and stages only.  Active child processes and cases are
\* counted for the case, not for a stage.
OpenInStage(s, r) ==
    LET work == In(s.tasks \cup s.stages, r.id)
    IN IF Holds(plan.auto[r.item], s) THEN Having(work, "ACTIVE")
       ELSE Open(work) \cup {x \in s.subs : x.item \in Within(r.item)}
                       \cup NotEnded(In(s.rows, r.id))
\* Mutant of OpenInCase: running child processes and cases are forgotten.
OpenWithoutChildren(s) ==
    LET work == s.tasks \cup s.stages
    IN IF Holds(plan.auto[Case], s) THEN Having(work, "ACTIVE")
       ELSE Open(work) \cup s.subs \cup NotEnded(In(s.rows, Top))
OpenInCase(s) ==
    LET work == s.tasks \cup s.stages
    IN Having(s.children, "ACTIVE")
       \cup (IF Holds(plan.auto[Case], s) THEN Having(work, "ACTIVE")
             ELSE Open(work) \cup s.subs \cup NotEnded(In(s.rows, Top)))

CanComplete(s, k, open) ==
    /\ \A r \in open : ~Blocks(s, k, r)
    /\ ~IncompleteRequired(s, k, open)

\* Discretionary items of the case plan that nobody has planned yet.
PendingExtras(s) ==
    /\ ~Holds(plan.auto[Case], s)
    /\ \E i \in plan.extras : Item(i).in = Case /\ In(Of(s.tasks, i), Top) = {}

\* What an auto-complete container still holds ends with it.
TerminateRows(s, R) ==
    FoldLeft(LAMBDA a, r : IF r \in a.stages THEN TerminateStage(a, r).s ELSE a, s, InOrder(R))
DeleteTasksOf(s, st) == DeleteTasks(s, Open(In(s.tasks, st)))
DeleteAllTasks(s) == DeleteTasks(s, Open(s.tasks))
ResidualOfStage(s, r) ==
    DropEnabled(Silence(DeleteTasksOf(TerminateRows(s, Open(In(s.stages, r.id))), r.id),
                        Within(r.item)), Within(r.item))
ResidualOfCase(s) ==
    [DeleteAllTasks(TerminateRows(s, Open(s.stages))) EXCEPT !.subs = {}]

EndedStage(s, r) == [Upsert(s, "stages", r, "COMPLETED") EXCEPT !.done = @ \cup {r.item}]
\* Mutant of CompleteStage: the parent stage is not looked at again.
CompleteStageAlone(s, r) ==
    After(IF CanComplete(s, r.item, OpenInStage(s, r)) THEN EndedStage(s, r) ELSE s, <<>>)
CompleteStage(s, r) ==
    IF ~CanComplete(s, r.item, OpenInStage(s, r)) THEN After(s, <<>>)
    ELSE After(RepeatStage(EndedStage(IF Holds(plan.auto[r.item], s) THEN ResidualOfStage(s, r)
                                      ELSE s, r), r),
               <<MaybeCompleteStage(r.stage)>>)

EndedCase(s) ==
    [s EXCEPT !.state = "COMPLETED",
              !.rows = {IF r \in NotEnded(@) THEN [r EXCEPT !.state = "TERMINATED"] ELSE r : r \in @}]
CompleteCase(s) ==
    IF s.state = "ACTIVE" /\ CanComplete(s, Case, OpenInCase(s)) /\ ~PendingExtras(s)
    THEN EndedCase(IF Holds(plan.auto[Case], s) THEN ResidualOfCase(s) ELSE s) ELSE s

-----------------------------------------------------------------------------
(* Activation.                                                             *)

\* Mutant of Present: a criterion that is met again instantiates again.
PresentNever(s, i, st) == FALSE
\* An entry target that has been instantiated is not instantiated again.
Present(s, i, st) ==
    CASE Kind(i) = "task" -> In(Of(s.tasks, i), st) # {}
      [] Kind(i) = "stage" -> Of(s.stages, i) # {}
      [] Kind(i) = "decision" -> Occurred(s, i, "complete")
      [] Kind(i) = "milestone" -> Occurred(s, i, "occur")
      [] OTHER -> In(Of(s.children, i), st) # {}

\* Manual activation parks an item without a table of its own in a row.
EnableRow(s, i, st) ==
    LET R == NotEnded(In(Of(s.rows, i), st))
    IN IF R # {} THEN Upsert(s, "rows", Head(InOrder(R)), "ENABLED")
       ELSE Insert(s, "rows", i, st, "ENABLED")

\* A timer listener owns a job, at most one; any other one a subscription.
ActivateListener(s, i, st) ==
    LET owner == IF Kind(i) # "timer" THEN Insert(s, "subs", i, Top, "AVAILABLE")
                 ELSE [s EXCEPT !.timers = @ \cup {[id |-> s.next, item |-> i,
                                                    left |-> Item(i).cycles]},
                                !.next = @ + 1]
    IN IF \/ Item(i).when # "none" /\ ~Holds(Item(i).when, s)
          \/ Kind(i) = "timer" /\ Of(s.timers, i) # {}
       THEN s ELSE Insert(DropRows(owner, i), "rows", i, st, "AVAILABLE")

ReachMilestone(s, i, st) ==
    LET R == NotEnded(In(Of(s.rows, i), st))
        reached == IF R # {} THEN Upsert(s, "rows", Head(InOrder(R)), "COMPLETED")
                   ELSE Insert(s, "rows", i, st, "COMPLETED")
    IN IF Occurred(s, i, "occur") THEN After(s, <<>>) ELSE Fire(reached, i, "occur", st)

CompleteDecision(s, i, st) ==
    After(Record(s, i, "complete"), <<Handle(i, "complete", st), Call("decided", i, "", st)>>)
RepeatDecision(s, i, st) ==
    IF Holds(Item(i).repeats, s) /\ StageActive(s, st) THEN EnableRow(s, i, st) ELSE s

\* A child process needs the runner, which only the start of a case passes,
\* and only to the items of the case itself.
StartChild(s, i, st, runner) ==
    IF In(Of(s.children, i), st) # {} THEN After(s, <<>>)
    ELSE IF Kind(i) = "process" /\ ~runner THEN After([s EXCEPT !.failed = TRUE], <<>>)
    ELSE IF Item(i).blocking THEN After(Insert(s, "children", i, st, "ACTIVE"), <<>>)
    ELSE Fire(Insert(s, "children", i, st, "COMPLETED"), i, "complete", st)

OpenStage(i, id) == <<Call("container", i, FALSE, id), MaybeCompleteStage(id)>>
NewStage(s, i, st) ==
    After(Record(Insert(s, "stages", i, st, "ACTIVE"), i, "start"),
          <<Handle(i, "start", st)>> \o OpenStage(i, s.next))
ActivateStage(s, i, st) ==
    IF Item(i).manual THEN After(Insert(s, "stages", i, st, "ENABLED"), <<>>) ELSE NewStage(s, i, st)

ActivateTask(s, i, st) ==
    IF Item(i).manual THEN After(Insert(s, "tasks", i, st, "ENABLED"), <<>>)
    ELSE IF Item(i).blocking THEN Fire(Insert(s, "tasks", i, st, "ACTIVE"), i, "start", st)
    ELSE After(Record(s, i, "start"), <<Handle(i, "start", st), Call("complete", i, "", st)>>)
RepeatTask(s, i, st) ==
    IF Kind(i) = "task" /\ Holds(Item(i).repeats, s) /\ StageActive(s, st)
    THEN ActivateTask(s, i, st) ELSE After(s, <<>>)

ActivateItem(s, i, st, runner) ==
    IF Kind(i) = "task" THEN ActivateTask(s, i, st)
    ELSE IF Kind(i) = "stage" THEN ActivateStage(s, i, st)
    ELSE IF Item(i).manual THEN After(EnableRow(s, i, st), <<>>)
    ELSE CASE Kind(i) = "decision" -> CompleteDecision(s, i, st)
           [] Kind(i) = "milestone" -> ReachMilestone(s, i, st)
           [] Kind(i) \in Listeners -> After(ActivateListener(s, i, st), <<>>)
           [] OTHER -> StartChild(s, i, st, runner)

\* Milestones are there before anything else of their container; items with
\* entry criteria wait for them.
ActivateContainer(s, k, st, runner) ==
    LET Offer(a, i) == IF NotEnded(In(Of(s.rows, i), st)) # {} THEN a
                       ELSE Insert(a, "rows", i, st, "AVAILABLE")
    IN After(FoldLeft(Offer, s, SelectSeq(plan.order[k], LAMBDA i : Kind(i) = "milestone")),
             Each(SelectSeq(plan.order[k], LAMBDA i : Item(i).entry = {}),
                  LAMBDA i : Call("activate", i, runner, st)))

-----------------------------------------------------------------------------
(* What one lifecycle event sets off: the exit criteria of its container,  *)
(* the entry criteria, the derived exit event.                             *)

HandleEvent(s, i, e, st) ==
    IF Kind(i) = "extra" THEN After(s, <<>>)
    ELSE After(Sweep([s EXCEPT !.said = @ \cup {<<i, e>>}]),
               <<Call("exits", i, e, st), Call("entries", i, e, st), Call("derive", i, e, st)>>)

Forgetting(a, X) == After(Forget(a.s, X), a.calls)
ExitDependents(s, i, e) ==
    LET X == Matching(s, i, e, "exit")
    IN IF X = {} THEN After(s, <<>>)
       ELSE Forgetting(TerminateExitTargets(Remember(s, X), Item(i).in, X), X)

\* For the stage instance the source was in, and only while that one is active.
EntryDependents(s, i, e, st) ==
    LET X == Matching(s, i, e, "entry")
        targets == SelectSeq(plan.order[Item(i).in], LAMBDA j : Item(j).entry \cap X # {})
    IN After(Remember(s, X),
             IF X = {} \/ ~StageActive(s, st) THEN <<>>
             ELSE Each(targets, LAMBDA j : Call("enter", j, FALSE, st)) \o <<Call("forget", i, X, st)>>)

Enter(s, i, st) ==
    IF Kind(i) \in Listeners THEN After([s EXCEPT !.failed = TRUE], <<>>)
    ELSE IF Present(s, i, st) THEN After(s, <<>>) ELSE ActivateItem(s, i, st, FALSE)

\* exit is derived from complete and terminate, once for a task or a stage.
DerivedExit(s, i, e, st) ==
    IF e \notin {"complete", "terminate"} \/ Kind(i) \notin {"task", "stage"} THEN After(s, <<>>)
    ELSE IF Occurred(s, i, "exit") THEN After(Record(s, i, e), <<>>)
    ELSE Fire(Record(s, i, e), i, "exit", st)

-----------------------------------------------------------------------------
(* Event listeners, timers and criteria without an on-part.                *)

OccurListener(s, x) ==
    Fire(SetRows([s EXCEPT !.subs = @ \ {x}], x.item, "COMPLETED"), x.item, "occur", Top)

Reschedule(s, j) ==
    LET R == First(Of(s.rows, j.item))
        st == IF R = {} THEN Top ELSE (CHOOSE r \in R : TRUE).stage
        next == [s EXCEPT !.timers = @ \cup {[id |-> s.next, item |-> j.item, left |-> j.left - 1]},
                          !.next = @ + 1]
    IN IF j.left = 0 \/ s.state # "ACTIVE" THEN s ELSE Insert(next, "rows", j.item, st, "AVAILABLE")

OccurTimer(s, i) ==
    After(Record(SetRows(s, i, "COMPLETED"), i, "occur"),
          <<Handle(i, "occur", Top), MaybeCompleteCase>>)

\* Mutant of RunTimer: a job fires whether its listener is available or not.
RunTimerUnchecked(s, j) == Push(OccurTimer(s, j.item), Call("fired", j.item, j, Top))
\* One due job of run_due_timer_jobs, which has read them all beforehand.
RunTimer(s, j) ==
    IF Having(Of(s.rows, j.item), "AVAILABLE") = {} THEN After([s EXCEPT !.timers = @ \ {j}], <<>>)
    ELSE Push(OccurTimer(s, j.item), Call("fired", j.item, j, Top))
TimerFired(s, j) ==
    [(IF j \in s.timers THEN Reschedule(s, j) ELSE s) EXCEPT !.timers = @ \ {j}]

\* Listeners with an available condition, in the containers that run.
RECURSIVE Conditional(_, _)
Conditional(s, k) ==
    LET mine == SelectSeq(plan.order[k], LAMBDA i : Kind(i) \in Listeners /\ Item(i).when # "none")
        runs == k = Case \/ Having(Of(s.stages, k), "ACTIVE") # {}
    IN FoldLeft(LAMBDA q, i : q \o Conditional(s, i), IF runs THEN mine ELSE <<>>, StagesOf(k))

OwnerStage(s, i) ==
    LET R == Having(Of(s.stages, Item(i).in), "ACTIVE")
    IN IF R = {} THEN Top ELSE Head(InOrder(R)).id

Reevaluate(s) ==
    LET One(a, i) ==
            IF \/ \E e \in {"occur", "terminate", "exit"} : Occurred(a, i, e)
               \/ Having(Of(a.rows, i), "ENABLED") # {} THEN a
            ELSE IF ~Holds(Item(i).when, a)
            THEN IF Of(s.subs, i) = {} /\ Of(a.timers, i) = {} THEN a
                 ELSE DropRows([a EXCEPT !.subs = @ \ First(Of(s.subs, i)),
                                         !.timers = @ \ Of(@, i)], i)
            ELSE IF Of(s.subs, i) = {} THEN ActivateListener(a, i, OwnerStage(a, i)) ELSE a
    IN IF s.state # "ACTIVE" THEN s ELSE FoldLeft(One, s, Conditional(s, Case))

RECURSIVE TerminateIfOnly(_, _)
TerminateIfOnly(s, k) ==
    LET X == {x \in DOMAIN plan.sentries : /\ Sentry(x).in = k /\ Sentry(x).on = {}
                                           /\ HasIf(x) /\ Holds(Sentry(x).ifPart, s)}
    IN FoldLeft(LAMBDA a, i : Then(a, TerminateIfOnly(a.s, i)),
                TerminateExitTargets(s, k, X), StagesOf(k))

\* The tail of every command that changes variables or asks for criteria.
Evaluate == <<Call("criteria", Case, "", Top), MaybeCompleteCase>>

-----------------------------------------------------------------------------

Do(s, c) ==
    CASE c.do = "handle" -> HandleEvent(s, c.item, c.arg, c.stage)
      [] c.do = "exits" -> ExitDependents(s, c.item, c.arg)
      [] c.do = "entries" -> EntryDependents(s, c.item, c.arg, c.stage)
      [] c.do = "derive" -> DerivedExit(s, c.item, c.arg, c.stage)
      [] c.do = "enter" -> Enter(s, c.item, c.stage)
      [] c.do = "forget" -> After(Forget(s, c.arg), <<>>)
      [] c.do = "activate" -> ActivateItem(s, c.item, c.stage, c.arg)
      [] c.do = "container" -> ActivateContainer(s, c.item, c.stage, c.arg)
      [] c.do = "begin" -> After(Upsert(s, "stages", c.arg, "ACTIVE"), OpenStage(c.item, c.arg.id))
      [] c.do = "complete" -> Fire(s, c.item, "complete", c.stage)
      [] c.do = "decided" -> After(RepeatDecision(s, c.item, c.stage), <<>>)
      [] c.do = "repeat" -> RepeatTask(s, c.item, c.stage)
      [] c.do = "stage" -> IF StageActive(s, c.stage) /\ c.stage # Top
                           THEN CompleteStage(s, CHOOSE r \in s.stages : r.id = c.stage)
                           ELSE After(s, <<>>)
      [] c.do = "case" -> After(CompleteCase(s), <<>>)
      [] c.do = "occur" -> OccurListener(s, c.arg)
      [] c.do = "timer" -> RunTimer(s, c.arg)
      [] c.do = "fired" -> After(TimerFired(s, c.arg), <<>>)
      [] c.do = "fire" -> OccurTimer(s, c.item)
      [] c.do = "drop" -> After([s EXCEPT !.timers = @ \ {c.arg}], <<>>)
      [] c.do = "again" -> After(Reschedule(s, c.arg), <<>>)
      [] c.do = "criteria" -> TerminateIfOnly(Sweep(s), Case)

RECURSIVE Run(_, _)
Resume(a, calls) == Run(a.s, a.calls \o calls)
Run(s, calls) == IF calls = <<>> THEN s ELSE Resume(Do(s, Head(calls)), Tail(calls))

-----------------------------------------------------------------------------
(* The commands.  A command is one session; an error rolls it back, so only *)
(* commands that succeed are steps.                                         *)

\* What can only happen beside the plain commands: a row read before another
\* command commits, a job executed directly, a change made by an operator.
Irregular == {"race", "direct", "change"}

Init ==
    /\ plan \in Plans
    /\ used = [k \in Irregular |-> 0]
    /\ db = NoCase
    /\ held = {}
    /\ seen = {}

\* A case that was ended by hand has no row, and every command on it fails.
Commit(s, calls) ==
    /\ s.state \notin {"NONE", "TERMINATED"}
    /\ db' = [Run(s, calls) EXCEPT !.said = {}]
    /\ ~db'.failed /\ db'.next <= plan.maxRows
    /\ UNCHANGED plan
Command(s, calls) == Commit(s, calls) /\ UNCHANGED <<used, held, seen>>
Use(k) ==
    /\ [used EXCEPT ![k] = @ + 1] \in Allowed
    /\ used' = [used EXCEPT ![k] = @ + 1]

Start(f) ==
    /\ db.state = "NONE"
    /\ Command([NoCase EXCEPT !.state = "ACTIVE", !.flag = f],
               <<Call("container", Case, TRUE, Top), MaybeCompleteCase>>)

\* A store with one connection serialises the commands.  With a pool of them
\* ("race") a command may have read its task before another one commits; rows
\* are written back whole, by insert or update.
ReadTask(r) ==
    /\ Use("race") /\ held = {} /\ r \in Open(db.tasks)
    /\ held' = {r}
    /\ UNCHANGED <<plan, db, seen>>
TaskCommand(r, s, calls) == Commit(s, calls) /\ held' = held \ {r} /\ UNCHANGED <<used, seen>>
TaskEvent(r, state, e, calls) ==
    TaskCommand(r, Record(Upsert(db, "tasks", r, state), r.item, e),
                <<Handle(r.item, e, r.stage)>> \o calls)

CompleteHumanTask(r, f) ==
    /\ r.state = "ACTIVE"
    /\ TaskCommand(r, Record([Upsert(db, "tasks", r, "COMPLETED") EXCEPT !.flag = f],
                             r.item, "complete"),
                   <<Handle(r.item, "complete", r.stage), Call("repeat", r.item, "", r.stage),
                     MaybeCompleteStage(r.stage), MaybeCompleteCase>>)

StartPlanItem(r) == r.state = "ENABLED" /\ TaskEvent(r, "ACTIVE", "start", <<MaybeCompleteCase>>)
Disable(r) == r.state = "ENABLED" /\ TaskEvent(r, "DISABLED", "disable", <<>>)
Enable(r) == r.state = "DISABLED" /\ TaskEvent(r, "ENABLED", "enable", <<>>)

OccurEventSubscription(x, f) ==
    Command([db EXCEPT !.flag = f], <<Call("occur", x.item, x, Top), MaybeCompleteCase>>)

RunDueTimerJobs(J) == Command(db, Each(InOrder(J), LAMBDA j : Call("timer", j.item, j, Top)))

\* execute_job fires the listener in one session and deletes the job in a
\* second one, which a crash prevents.
ExecuteJob(j, crash) ==
    /\ Use("direct")
    /\ Commit(db, <<Call("fire", j.item, "", Top), Call("again", j.item, j, Top)>>
                     \o IF crash THEN <<>> ELSE <<Call("drop", j.item, j, Top)>>)
    /\ UNCHANGED <<held, seen>>

SetVariables(f) ==
    LET s == Reevaluate([db EXCEPT !.flag = f])
        told == {x \in s.subs : Kind(x.item) = "variable"}
    IN Command(s, Each(InOrder(told), LAMBDA x : Call("occur", x.item, x, Top)) \o Evaluate)

EvaluateCriteria == Command(Reevaluate(db), Evaluate)

\* The child process or case of a task ends, well or not.
ChildEnds(r, e, f) ==
    LET s == [Upsert(db, "children", r, IF e = "complete" THEN "COMPLETED" ELSE "FAILED")
                 EXCEPT !.flag = IF e = "complete" THEN f ELSE @]
    IN Command(Record(s, r.item, e), <<Handle(r.item, e, r.stage), MaybeCompleteCase>>)

EndCaseInstance ==
    /\ db.state \notin {"NONE", "TERMINATED"}
    /\ db' = [NoCase EXCEPT !.state = "TERMINATED", !.next = db.next]
    /\ UNCHANGED <<plan, used, held, seen>>

\* set_case_instance_state, as suspension uses it.
SetCaseInstanceState(state) ==
    /\ Use("change") /\ db.state \in {"ACTIVE", "SUSPENDED"} \ {state}
    /\ Commit([db EXCEPT !.state = state], <<>>)
    /\ UNCHANGED <<held, seen>>

-----------------------------------------------------------------------------
(* Changes of plan item states by an operator: the case row is read in one *)
(* session and the change made in a second one.                            *)

ReadCase ==
    /\ Use("change") /\ seen = {} /\ db.state \in {"ACTIVE", "COMPLETED"}
    /\ seen' = {[state |-> db.state, flag |-> db.flag]}
    /\ UNCHANGED <<plan, db, held>>
Change(a) == Commit(a.s, a.calls) /\ seen' = {} /\ UNCHANGED <<used, held>>
Settling(a) == Push(a, MaybeCompleteCase)
SeenActive == \E c \in seen : c.state = "ACTIVE"

TerminateByDefinition(i) ==
    LET R == Open(Of(db.tasks, i))
    IN SeenActive /\ R # {} /\ Change(Settling(TerminateTasks(db, R)))

\* The rows go; no event, no history of termination, no completion check.
MoveToAvailable(i) ==
    LET R == Open(Of(db.tasks, i))
    IN SeenActive /\ R # {} /\ Change(After([db EXCEPT !.tasks = @ \ R], <<>>))

\* A completed case is reopened by writing back the row that was read.
AddWaitingForRepetition(i, c) ==
    LET s == IF c.state = "COMPLETED" THEN [db EXCEPT !.state = "ACTIVE", !.flag = c.flag] ELSE db
    IN /\ Kind(i) = "task" /\ Item(i).repeats # "no"
       /\ db.state # "TERMINATED"
       /\ Change(After(IF Open(Of(s.tasks, i)) # {} THEN s
                       ELSE Insert(s, "tasks", i, Top, "AVAILABLE"), <<MaybeCompleteCase>>))

RemoveWaitingForRepetition(i) ==
    /\ SeenActive
    /\ Change(After([db EXCEPT !.tasks = @ \ Having(Of(@, i), "AVAILABLE")],
                    <<MaybeCompleteCase>>))

\* The source ends, its termination is handled, the target starts in its place.
ChangeTo(r, i) ==
    /\ SeenActive
    /\ Kind(i) = IF r \in db.tasks THEN "task" ELSE "stage"
    /\ Change(Settling(Push(IF r \in db.tasks THEN TerminateTasks(db, {r})
                            ELSE TerminateStage(db, r), Call("activate", i, FALSE, r.stage))))

\* What waits for manual activation, else a discretionary item, else a new
\* instance in a case where nothing is open.
ActivateEnabled(s, i) ==
    After([s EXCEPT !.tasks = {IF r.item = i /\ r.state = "ENABLED"
                               THEN [r EXCEPT !.state = "ACTIVE"] ELSE r : r \in @}],
          Each(InOrder(Having(Of(s.stages, i), "ENABLED")), LAMBDA r : Call("begin", i, r, Top)))
PlanDiscretionary(s, i) ==
    LET homes == IF Item(i).in = Case THEN {Top}
                 ELSE {r.id : r \in Having(Of(s.stages, Item(i).in), "ACTIVE")}
        free == {st \in homes : IF st = Top THEN Open(Of(s.tasks, i)) = {}
                                ELSE Open(In(Of(s.tasks, i), st)) = {}}
    IN FoldLeft(LAMBDA a, st : Insert(a, "tasks", i, st, "ACTIVE"), s, SetToSortSeq(free, <))
ActivateFresh(s, i) ==
    CASE Kind(i) = "task" -> After(Insert(s, "tasks", i, Top, "ACTIVE"), <<>>)
      [] Kind(i) = "stage" -> NewStage(s, i, Top)
      [] Kind(i) = "decision" -> CompleteDecision(DropEnabled(s, {i}), i, Top)
      [] Kind(i) = "milestone" -> ReachMilestone(s, i, Top)
      [] OTHER -> After(ActivateListener(DropEnabled(s, {i}), i, OwnerStage(s, i)), <<>>)
ActivateByDefinition(i) ==
    LET planned == IF Kind(i) = "extra" THEN After(PlanDiscretionary(db, i), <<>>)
                   ELSE ActivateEnabled(db, i)
    IN /\ SeenActive
       /\ \/ planned # After(db, <<>>) /\ Change(Settling(planned))
          \/ /\ planned = After(db, <<>>)
             /\ Kind(i) \notin {"extra", "process", "case"}
             /\ Open(db.tasks) = {} /\ Having(db.stages, "ACTIVE") = {}
             /\ Change(Settling(ActivateFresh(db, i)))

\* A new instance of a task of the case itself that has some history.
ReactivateHumanTask(i, st) ==
    /\ Use("change") /\ db.state = "ACTIVE"
    /\ Kind(i) = "task" /\ Item(i).in = Case
    /\ \/ \E r \in Of(db.tasks, i) : r.stage = st
       \/ i \in db.ended /\ st = Top
    /\ Commit(Insert(db, "tasks", i, st, "ACTIVE"), <<>>)
    /\ UNCHANGED <<held, seen>>

-----------------------------------------------------------------------------

Next ==
    \/ \E f \in BOOLEAN :
          \/ Start(f)
          \/ SetVariables(f)
          \/ \E r \in db.tasks \cup held : CompleteHumanTask(r, f)
          \/ \E x \in db.subs : OccurEventSubscription(x, f)
          \/ \E r \in Having(db.children, "ACTIVE"), e \in {"complete", "terminate"} :
                ChildEnds(r, e, f)
    \/ \E r \in db.tasks \cup held : StartPlanItem(r) \/ Disable(r) \/ Enable(r)
    \/ \E r \in db.tasks : ReadTask(r)
    \/ \E J \in SUBSET db.timers : J # {} /\ RunDueTimerJobs(J)
    \/ \E j \in db.timers, crash \in BOOLEAN : ExecuteJob(j, crash)
    \/ EvaluateCriteria
    \/ EndCaseInstance
    \/ \E state \in {"ACTIVE", "SUSPENDED"} : SetCaseInstanceState(state)
    \/ ReadCase
    \/ \E i \in DOMAIN plan.items :
          \/ TerminateByDefinition(i)
          \/ MoveToAvailable(i)
          \/ \E c \in seen : AddWaitingForRepetition(i, c)
          \/ RemoveWaitingForRepetition(i)
          \/ \E r \in Open(db.tasks \cup db.stages) : ChangeTo(r, i)
          \/ ActivateByDefinition(i)
          \/ \E st \in {Top} \cup {r.id : r \in db.stages} : ReactivateHumanTask(i, st)

Spec == Init /\ [][Next]_vars

-----------------------------------------------------------------------------

(* Properties.  Each one names the irregular steps it does not survive.    *)

Calm(K) == \A k \in K : used[k] = 0
Work == db.tasks \cup db.stages

\* Rows name items of the plan and a stage instance that was inserted before
\* them, and no id is given out twice, whichever table a row went to.
TypeOK ==
    /\ plan \in Plans /\ used \in Allowed
    /\ db.state \in {"NONE", "ACTIVE", "COMPLETED", "SUSPENDED", "TERMINATED"}
    /\ db.flag \in BOOLEAN /\ ~db.failed /\ db.said = {}
    /\ \A r \in Tables(db) : /\ r.item \in DOMAIN plan.items
                             /\ r.stage < r.id /\ r.id < db.next
                             /\ r.state \in {"ACTIVE", "AVAILABLE", "ENABLED", "DISABLED",
                                            "COMPLETED", "TERMINATED", "FAILED"}
    /\ \A r, q \in Tables(db) : r.id = q.id => r = q
    /\ \A j \in db.timers : Kind(j.item) = "timer" /\ j.left <= Item(j.item).cycles
    /\ db.marks \subseteq DOMAIN plan.sentries
    /\ Cardinality(held) <= 1 /\ Cardinality(seen) <= 1

\* No task and no stage is open inside a stage instance that completed or was
\* terminated: terminate_stage_instance and the completion checks take all
\* that is below along.  A command that writes back a task it read earlier
\* (persist_human_task_session inserts or updates) puts the row back.
NoOrphan == Calm({"race"}) => \A r \in Open(Work) : StageActive(db, r.stage)

\* maybe_complete_case completes a case only when nothing is left that it has
\* to wait for: what is open in a completed case carries a rule by which the
\* case does not wait for it.
CompletedQuiet ==
    Calm({"race", "change"}) /\ db.state = "COMPLETED" =>
        \A r \in Open(Work) \cup Having(db.children, "ACTIVE") \cup db.subs :
            Item(r.item).rule # "no" \/ Item(r.item).neutral # "no"

\* An item with entry criteria has a row or has done anything only if all the
\* events of one of them have happened, in whatever order and however many commands apart
\* (sentry_plan_item_on_parts_satisfied); an operator may bring it in anyhow.
EntryHonoured ==
    Calm({"change"}) =>
        \A i \in {r.item : r \in Work \cup db.children} \cup {p[1] : p \in db.log} :
            Item(i).entry # {} => \E x \in Item(i).entry : \A p \in Sentry(x).on :
                p \in db.log \/ (p[2] = "terminate" /\ p[1] \in db.ended)

\* Criteria that are met twice, repetition and manual activation never give a
\* stage instance two open instances of one item.
OneOpenInstance ==
    Calm({"change"}) =>
        \A r, q \in Open(Work) : r.item = q.item /\ r.stage = q.stage => r = q

\* A case completes only after every item it requires
\* (has_incomplete_required_plan_items).
RequiredDone ==
    Calm({"change"}) /\ db.state = "COMPLETED" =>
        \A i \in Within(Case) : Item(i).required = "yes" =>
            i \in db.done \/ \E e \in {"complete", "occur"} : Occurred(db, i, e)

\* The commands look for completion only where they have been: the stage of
\* the task, its parents, the case.  That is enough: whatever could complete
\* has, when the command ends.  (Stages with listeners or child cases in them
\* are left out: their events are handled without the stage.)
Settled ==
    Calm({"change"}) =>
        /\ \A r \in Having(db.stages, "ACTIVE") :
              (\A i \in Within(r.item) : Kind(i) \notin Listeners \cup {"process", "case"})
                  => ~CanComplete(db, r.item, OpenInStage(db, r))
        /\ db.state = "ACTIVE" => ~CanComplete(db, Case, OpenInCase(db)) \/ PendingExtras(db)

\* Nothing starts in a completed case, whatever is sent to it: late timers,
\* variables, events.
CompletedStays ==
    [][db.state = "COMPLETED" /\ Calm({"race", "direct", "change"})' =>
          /\ db'.state \in {"COMPLETED", "TERMINATED"}
          /\ Open(Work)' \subseteq Open(Work)
          /\ Having(db.children, "ACTIVE")' \subseteq Having(db.children, "ACTIVE")
          /\ NotEnded(db.rows)' \subseteq NotEnded(db.rows)]_vars

\* The step in which the last event of an unconditional exit criterion happens
\* ends every instance that was open of the items that carry it.
ExitHonoured ==
    [][\A i \in DOMAIN plan.items : \A x \in Item(i).exit :
          (/\ Sentry(x).on # {} /\ ~HasIf(x)
           /\ Sentry(x).on \subseteq db'.log /\ ~(Sentry(x).on \subseteq db.log))
          => {r.id : r \in Of(Open(Work), i)} \cap {r.id : r \in Of(Open(Work)', i)} = {}]_vars

=============================================================================
