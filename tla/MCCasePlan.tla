----------------------------- MODULE MCCasePlan -----------------------------
(* Case plans and bounds for CasePlan. *)
EXTENDS CasePlan

An(kind, k) == [kind |-> kind, in |-> k, entry |-> {}, exit |-> {}, manual |-> FALSE,
                repeats |-> "no", required |-> "no", neutral |-> "no", rule |-> "no",
                when |-> "none", blocking |-> TRUE, cycles |-> 0]
On(k, on) == [in |-> k, on |-> on, ifPart |-> "none", onEvent |-> FALSE]

\* A task, then a stage that a user event may cut short, with a task, a stage
\* that follows it and discretionary work, then a last task.
Review ==
    [items |-> [draft |-> An("task", "case"),
                work |-> [An("stage", "case") EXCEPT !.entry = {"drafted"}, !.exit = {"stopped"}],
                write |-> [An("task", "work") EXCEPT !.repeats = "flag"],
                part |-> [An("stage", "work") EXCEPT !.entry = {"written"}],
                check |-> [An("task", "part") EXCEPT !.manual = TRUE],
                aside |-> An("extra", "work"),
                stop |-> An("listener", "case"),
                close |-> [An("task", "case") EXCEPT !.entry = {"ended"}]],
     order |-> [case |-> <<"draft", "work", "stop", "close">>, work |-> <<"write", "part">>,
                part |-> <<"check">>],
     sentries |-> [drafted |-> On("case", {<<"draft", "complete">>}),
                   stopped |-> On("case", {<<"stop", "occur">>}),
                   written |-> On("work", {<<"write", "complete">>}),
                   ended |-> On("case", {<<"work", "exit">>})],
     auto |-> [case |-> "no", work |-> "no", part |-> "no"],
     extras |-> {"aside"},
     maxRows |-> 10]

\* A milestone that needs two events and a condition, a timer that ends a
\* stage which completes by itself, a listener that is there on a condition.
Supervise ==
    [items |-> [ask |-> An("task", "case"),
                half |-> [An("stage", "case") EXCEPT !.exit = {"late"}],
                clock |-> [An("timer", "case") EXCEPT !.cycles = 1],
                answer |-> An("task", "half"),
                spare |-> [An("task", "half") EXCEPT !.manual = TRUE],
                hear |-> [An("variable", "half") EXCEPT !.when = "flag"],
                goal |-> [An("milestone", "case") EXCEPT !.entry = {"both"}, !.required = "yes"],
                judge |-> [An("decision", "case") EXCEPT !.entry = {"goal"}]],
     order |-> [case |-> <<"ask", "half", "clock", "goal", "judge">>,
                half |-> <<"answer", "spare", "hear">>],
     sentries |-> [late |-> On("case", {<<"clock", "occur">>}),
                   both |-> [On("case", {<<"ask", "complete">>, <<"clock", "occur">>})
                                EXCEPT !.ifPart = "flag"],
                   goal |-> On("case", {<<"goal", "occur">>})],
     auto |-> [case |-> "no", half |-> "yes"],
     extras |-> {},
     maxRows |-> 11]

\* Children, a stage started by hand, a criterion without an on-part, an item
\* the case does not wait for.
Delegate ==
    [items |-> [run |-> An("process", "case"),
                sub |-> [An("case", "case") EXCEPT !.entry = {"ran"}],
                tell |-> [An("case", "case") EXCEPT !.entry = {"broke"}, !.blocking = FALSE],
                help |-> [An("stage", "case") EXCEPT !.manual = TRUE, !.exit = {"off"}],
                call |-> [An("task", "help") EXCEPT !.required = "flag"],
                reach |-> [An("milestone", "help") EXCEPT !.entry = {"called"}],
                note |-> [An("task", "case") EXCEPT !.rule = "ignoreAfterFirstCompletionIfAvailableOrEnabled",
                                                     !.manual = TRUE, !.repeats = "flag"]],
     order |-> [case |-> <<"run", "sub", "tell", "help", "note">>, help |-> <<"call", "reach">>],
     sentries |-> [ran |-> On("case", {<<"run", "complete">>}),
                   broke |-> On("case", {<<"run", "terminate">>}),
                   off |-> [On("case", {}) EXCEPT !.ifPart = "flag"],
                   called |-> [On("help", {<<"call", "complete">>}) EXCEPT !.onEvent = TRUE]],
     auto |-> [case |-> "no", help |-> "no"],
     extras |-> {},
     maxRows |-> 8]

\* A stage in a stage, work that starts and completes at once, two timers of
\* which one silences the other, a milestone that is reached and withdrawn, and
\* discretionary work of the case.
Nested ==
    [items |-> [outer |-> [An("stage", "case") EXCEPT !.repeats = "flag", !.exit = {"cut"}],
                first |-> [An("task", "outer") EXCEPT !.blocking = FALSE],
                inner |-> [An("stage", "outer") EXCEPT !.entry = {"begun"}],
                deep |-> [An("task", "inner") EXCEPT !.exit = {"mute"}],
                skim |-> [An("task", "inner") EXCEPT !.manual = TRUE],
                next |-> [An("task", "inner") EXCEPT !.entry = {"skipped"}],
                bell |-> An("listener", "inner"),
                memo |-> An("extra", "case"),
                soon |-> An("timer", "case"),
                late |-> [An("timer", "case") EXCEPT !.exit = {"cut"}],
                mark |-> [An("milestone", "case") EXCEPT !.exit = {"cut"}],
                vote |-> [An("decision", "case") EXCEPT !.entry = {"unmarked"}, !.repeats = "flag",
                                                         !.manual = TRUE, !.neutral = "yes"]],
     order |-> [case |-> <<"outer", "soon", "late", "mark", "vote">>,
                outer |-> <<"first", "inner">>, inner |-> <<"deep", "skim", "next", "bell">>],
     sentries |-> [cut |-> On("case", {<<"soon", "occur">>}),
                   unmarked |-> On("case", {<<"mark", "terminate">>}),
                   begun |-> On("outer", {<<"first", "complete">>}),
                   mute |-> On("inner", {<<"bell", "occur">>}),
                   skipped |-> On("inner", {<<"skim", "disable">>})],
     auto |-> [case |-> "flag", outer |-> "no", inner |-> "yes"],
     extras |-> {"memo"},
     maxRows |-> 14]

MCPlans == {Review, Supervise, Delegate, Nested}
MCAllowed == {u \in [Irregular -> 0..1] : u["race"] + u["direct"] + u["change"] <= 1}
=============================================================================
