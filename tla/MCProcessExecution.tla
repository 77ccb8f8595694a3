-------------------------- MODULE MCProcessExecution --------------------------
(***************************************************************************)
(* Small process definitions for ProcessExecution, one per shape of graph  *)
(* the engine treats differently.  Nodes are named by strings.             *)
(***************************************************************************)
EXTENDS ProcessExecution, TLC

MaxId == 24          \* enough for every definition without repeating events to end
MaxIdRepeating == 14 \* at least four repetitions

Graph(kind, out) ==
    [kind |-> kind,
     out |-> [n \in DOMAIN kind |-> IF n \in DOMAIN out THEN out[n] ELSE << >>],
     cond |-> {}, default |-> [n \in DOMAIN kind |-> NoNode],
     asyncBefore |-> {}, asyncAfter |-> {},
     within |-> [n \in DOMAIN kind |-> NoNode],
     attached |-> [n \in DOMAIN kind |-> NoNode],
     cancel |-> {}, timer |-> {}, cycle |-> {},
     loop |-> [n \in DOMAIN kind |-> "none"], instances |-> [n \in DOMAIN kind |-> 0],
     completion |-> {}, maxId |-> MaxId]

\* A user task beside an asynchronous task, joined before another user task.
ForkJoin ==
    [Graph([s |-> "start", f |-> "parallel", a |-> "user", b |-> "task",
            j |-> "parallel", c |-> "user", e |-> "end"],
           [s |-> <<"f">>, f |-> <<"a", "b">>, a |-> <<"j">>, b |-> <<"j">>,
            j |-> <<"c">>, c |-> <<"e">>])
     EXCEPT !.asyncBefore = {"b"}]

\* Two automatic branches: both tokens are queued at the join when it opens.
AutomaticJoin ==
    Graph([s |-> "start", f |-> "parallel", a |-> "task", b |-> "task",
           j |-> "parallel", c |-> "user", e |-> "end"],
          [s |-> <<"f">>, f |-> <<"a", "b">>, a |-> <<"j">>, b |-> <<"j">>,
           j |-> <<"c">>, c |-> <<"e">>])

\* A subprocess beside a user task.
SubBranch ==
    [Graph([s |-> "start", f |-> "parallel", p |-> "sub", ps |-> "start",
            x |-> "user", pe |-> "end", b |-> "user", j |-> "parallel", e |-> "end"],
           [s |-> <<"f">>, f |-> <<"p", "b">>, ps |-> <<"x">>, x |-> <<"pe">>,
            p |-> <<"j">>, b |-> <<"j">>, j |-> <<"e">>])
     EXCEPT !.within = [@ EXCEPT !["ps"] = "p", !["x"] = "p", !["pe"] = "p"],
            !.asyncBefore = {"p"}]

\* An inclusive split and join; one branch may leave the join out.
InclusiveDeadPath ==
    [Graph([s |-> "start", i |-> "inclusive", a |-> "user", b |-> "user", c |-> "task",
            x |-> "exclusive", j |-> "inclusive", d |-> "user", e |-> "end", o |-> "end"],
           [s |-> <<"i">>, i |-> <<"a", "b", "c">>, a |-> <<"x">>, b |-> <<"j">>,
            c |-> <<"j">>, x |-> <<"o", "j">>, j |-> <<"d">>, d |-> <<"e">>])
     EXCEPT !.cond = {<<"i", "a">>, <<"i", "b">>, <<"x", "o">>},
            !.default = [@ EXCEPT !["i"] = "c", !["x"] = "j"]]

\* A terminate end event beside a user task.
Terminate ==
    Graph([s |-> "start", f |-> "parallel", a |-> "user", b |-> "user",
           t |-> "terminate", e |-> "end"],
          [s |-> <<"f">>, f |-> <<"a", "b">>, a |-> <<"t">>, b |-> <<"e">>])

\* The same inside a subprocess.
TerminateSub ==
    [Graph([s |-> "start", p |-> "sub", ps |-> "start", f |-> "parallel", a |-> "user",
            b |-> "task", t |-> "terminate", pe |-> "end", d |-> "user", e |-> "end"],
           [s |-> <<"p">>, ps |-> <<"f">>, f |-> <<"a", "b">>, a |-> <<"t">>,
            b |-> <<"pe">>, p |-> <<"d">>, d |-> <<"e">>])
     EXCEPT !.within = [@ EXCEPT !["ps"] = "p", !["f"] = "p", !["a"] = "p", !["b"] = "p",
                                 !["t"] = "p", !["pe"] = "p"],
            !.asyncBefore = {"b"}]

\* A task that leaves by a job, then a loop whose gateway may find no flow.
AsyncAfterLoop ==
    [Graph([s |-> "start", a |-> "task", b |-> "user", x |-> "exclusive", e |-> "end"],
           [s |-> <<"a">>, a |-> <<"b">>, b |-> <<"x">>, x |-> <<"b", "e">>])
     EXCEPT !.asyncAfter = {"a"}, !.cond = {<<"x", "b">>, <<"x", "e">>}]

\* Two flows out of a user task, without a gateway.
ImplicitFork ==
    Graph([s |-> "start", a |-> "user", b |-> "user", c |-> "user", e |-> "end", o |-> "end"],
          [s |-> <<"a">>, a |-> <<"b", "c">>, b |-> <<"e">>, c |-> <<"o">>])

\* A branch that stops at a task without outgoing flows.
Dangling ==
    Graph([s |-> "start", f |-> "parallel", a |-> "user", b |-> "task", e |-> "end"],
          [s |-> <<"f">>, f |-> <<"a", "b">>, a |-> <<"e">>])

\* Branches that end on their own, one of them after a loop.
NoJoin ==
    [Graph([s |-> "start", f |-> "parallel", a |-> "user", x |-> "exclusive", b |-> "task",
            c |-> "catch", e |-> "end", o |-> "end"],
           [s |-> <<"f">>, f |-> <<"a", "b">>, a |-> <<"x">>, x |-> <<"a", "e">>,
            b |-> <<"c">>, c |-> <<"o">>])
     EXCEPT !.asyncBefore = {"b"}, !.cond = {<<"x", "a">>, <<"x", "e">>}, !.timer = {"c"}]

\* A branch with a subprocess and then a user task, beside an automatic branch that
\* ends while the first one is on its way from the subprocess to the user task.
SubThenUser ==
    [Graph([s |-> "start", f |-> "parallel", p |-> "sub", ps |-> "start", pe |-> "end",
            b |-> "user", e |-> "end", t |-> "task", u |-> "task", o |-> "end"],
           [s |-> <<"f">>, f |-> <<"p", "t">>, ps |-> <<"pe">>, p |-> <<"b">>, b |-> <<"e">>,
            t |-> <<"u">>, u |-> <<"o">>])
     EXCEPT !.within = [@ EXCEPT !["ps"] = "p", !["pe"] = "p"]]

(***************************************************************************)
(* Shapes with events                                                      *)
(***************************************************************************)
\* A user task in a branch is left by a message or a timer, to the join by another
\* way; cancel holds the events that interrupt.
Escalation(cancel, timer) ==
    [Graph([s |-> "start", f |-> "parallel", a |-> "user", m |-> "boundary",
            h |-> "user", x |-> "exclusive", b |-> "user", j |-> "parallel", e |-> "end"],
           [s |-> <<"f">>, f |-> <<"a", "b">>, a |-> <<"x">>, m |-> <<"h">>, h |-> <<"x">>,
            x |-> <<"j">>, b |-> <<"j">>, j |-> <<"e">>])
     EXCEPT !.attached = [@ EXCEPT !["m"] = "a"], !.cancel = cancel, !.timer = timer]

\* A reminder beside a user task of a branch: it does not interrupt.
Reminder(timer, cycle) ==
    [Graph([s |-> "start", f |-> "parallel", a |-> "user", m |-> "boundary",
            h |-> "user", o |-> "end", b |-> "user", j |-> "parallel", e |-> "end"],
           [s |-> <<"f">>, f |-> <<"a", "b">>, a |-> <<"j">>, m |-> <<"h">>, h |-> <<"o">>,
            b |-> <<"j">>, j |-> <<"e">>])
     EXCEPT !.attached = [@ EXCEPT !["m"] = "a"], !.timer = timer, !.cycle = cycle,
            !.maxId = MaxIdRepeating]

\* A message and a timer on the user task of the only token.
Deadline(cancel) ==
    [Graph([s |-> "start", a |-> "user", m |-> "boundary", t |-> "boundary", h |-> "user",
            b |-> "user", e |-> "end", o |-> "end"],
           [s |-> <<"a">>, a |-> <<"b">>, b |-> <<"e">>, m |-> <<"h">>, t |-> <<"o">>,
            h |-> <<"o">>])
     EXCEPT !.attached = [@ EXCEPT !["m"] = "a", !["t"] = "a"], !.timer = {"t"},
            !.cancel = cancel, !.maxId = MaxIdRepeating]

\* A message interrupts a subprocess with two branches, to the join by another way.
Abort ==
    [Graph([s |-> "start", f |-> "parallel", p |-> "sub", ps |-> "start", g |-> "parallel",
            x |-> "user", y |-> "catch", pe |-> "end", qe |-> "end", m |-> "boundary",
            h |-> "user", k |-> "exclusive", b |-> "user", j |-> "parallel", e |-> "end"],
           [s |-> <<"f">>, f |-> <<"p", "b">>, ps |-> <<"g">>, g |-> <<"x", "y">>,
            x |-> <<"pe">>, y |-> <<"qe">>, p |-> <<"k">>, m |-> <<"h">>, h |-> <<"k">>,
            k |-> <<"j">>, b |-> <<"j">>, j |-> <<"e">>])
     EXCEPT !.within = [@ EXCEPT !["ps"] = "p", !["g"] = "p", !["x"] = "p", !["y"] = "p",
                                 !["pe"] = "p", !["qe"] = "p"],
            !.attached = [@ EXCEPT !["m"] = "p"], !.cancel = {"m"}]

\* A message and a timer are awaited in parallel.
Catches ==
    [Graph([s |-> "start", f |-> "parallel", a |-> "catch", b |-> "catch",
            j |-> "parallel", c |-> "catch", e |-> "end"],
           [s |-> <<"f">>, f |-> <<"a", "b">>, a |-> <<"j">>, b |-> <<"j">>,
            j |-> <<"c">>, c |-> <<"e">>])
     EXCEPT !.timer = {"b"}]

\* The first of a message and a timer decides, then the instance is terminated.
Race ==
    [Graph([s |-> "start", g |-> "event", a |-> "catch", b |-> "catch", c |-> "user",
            d |-> "user", t |-> "terminate"],
           [s |-> <<"g">>, g |-> <<"a", "b">>, a |-> <<"c">>, b |-> <<"d">>,
            c |-> <<"t">>, d |-> <<"t">>])
     EXCEPT !.timer = {"b"}]

\* The same in a branch.
RaceBranch ==
    [Graph([s |-> "start", f |-> "parallel", u |-> "user", o |-> "end", g |-> "event",
            a |-> "catch", b |-> "catch", c |-> "user", d |-> "user", t |-> "terminate"],
           [s |-> <<"f">>, f |-> <<"u", "g">>, u |-> <<"o">>, g |-> <<"a", "b">>,
            a |-> <<"c">>, b |-> <<"d">>, c |-> <<"t">>, d |-> <<"t">>])
     EXCEPT !.timer = {"b"}]

EventShapes ==
    {Escalation({"m"}, {}), Escalation({"m"}, {"m"}),
     Reminder({}, {}), Reminder({"m"}, {}), Reminder({"m"}, {"m"}),
     Deadline({}), Deadline({"m"}), Deadline({"m", "t"}),
     Abort, Catches, Race, RaceBranch}

(***************************************************************************)
(* Shapes with multi-instance activities                                   *)
(***************************************************************************)
Looped(d, n, loop, instances, completion) ==
    [d EXCEPT !.loop = [@ EXCEPT ![n] = loop], !.instances = [@ EXCEPT ![n] = instances],
              !.completion = completion]

\* Everybody votes, then one decides.
Votes == Graph([s |-> "start", a |-> "user", c |-> "user", e |-> "end"],
               [s |-> <<"a">>, a |-> <<"c">>, c |-> <<"e">>])

\* The same in a branch, with an event that interrupts the votes.
VotesInBranch(timer) == Escalation({"m"}, timer)

\* A reminder while they vote.
VotesReminded(timer) == Reminder(timer, {})

\* A subprocess per item, with a branch that may terminate it.
Items ==
    [Graph([s |-> "start", p |-> "sub", ps |-> "start", f |-> "parallel", x |-> "user",
            y |-> "user", k |-> "exclusive", pe |-> "end", t |-> "terminate",
            m |-> "boundary", h |-> "user", c |-> "user", e |-> "end", o |-> "end"],
           [s |-> <<"p">>, ps |-> <<"f">>, f |-> <<"x", "y">>, x |-> <<"pe">>, y |-> <<"k">>,
            k |-> <<"t", "pe">>, p |-> <<"c">>, m |-> <<"h">>, h |-> <<"o">>, c |-> <<"e">>])
     EXCEPT !.within = [@ EXCEPT !["ps"] = "p", !["f"] = "p", !["x"] = "p", !["y"] = "p",
                                 !["k"] = "p", !["pe"] = "p", !["t"] = "p"],
            !.cond = {<<"k", "t">>}, !.default = [@ EXCEPT !["k"] = "pe"],
            !.attached = [@ EXCEPT !["m"] = "p"], !.cancel = {"m"}]

\* A service task per item in one of two branches.
Calls ==
    Graph([s |-> "start", f |-> "parallel", a |-> "task", b |-> "user", j |-> "parallel",
           c |-> "user", e |-> "end"],
          [s |-> <<"f">>, f |-> <<"a", "b">>, a |-> <<"j">>, b |-> <<"j">>, j |-> <<"c">>,
           c |-> <<"e">>])

Loops == {"sequential", "parallel"}

MultiShapes ==
    {Looped(Votes, "a", loop, n, cond) : loop \in Loops, n \in {0, 3}, cond \in {{}, {"a"}}}
        \cup {Looped([d EXCEPT !.asyncBefore = {"a"}], "a", loop, 2, {}) :
                 loop \in Loops, d \in {Votes, Calls}}
        \cup {Looped(d, "a", loop, 2, {}) :
                 loop \in Loops, d \in {VotesInBranch({}), VotesInBranch({"m"}),
                                        VotesReminded({}), VotesReminded({"m"})}}
        \cup {Looped([Items EXCEPT !.timer = timer, !.asyncBefore = async],
                      "p", loop, 2, cond) :
                 loop \in Loops, cond \in {{}, {"p"}}, timer \in {{}, {"m"}},
                 async \in {{}, {"p"}}}
        \cup {Looped(Calls, "a", loop, 2, {"a"}) : loop \in Loops}

(***************************************************************************)
(* Shapes with an event subprocess                                         *)
(***************************************************************************)
\* Definition d with an event subprocess of one activity in subprocess n, or in the
\* process itself.
Watched(d, n, activity, cancel) ==
    LET new == [E |-> "eventSub", Es |-> "start", Ex |-> activity, Ee |-> "end"]
        each(v) == [m \in DOMAIN new |-> v]
    IN  [d EXCEPT !.kind = new @@ @,
                  !.out = [E |-> << >>, Es |-> <<"Ex">>, Ex |-> <<"Ee">>, Ee |-> << >>] @@ @,
                  !.within = [each("E") EXCEPT !["E"] = n] @@ @,
                  !.default = each(NoNode) @@ @, !.attached = each(NoNode) @@ @,
                  !.loop = each("none") @@ @, !.instances = each(0) @@ @,
                  !.cancel = @ \cup IF cancel THEN {"E"} ELSE {},
                  !.maxId = MaxIdRepeating]

\* Where an event subprocess can lie.
Places(d) == {NoNode} \cup {n \in DOMAIN d.kind : d.kind[n] = "sub"}

WatchedHosts ==
    {ForkJoin, SubBranch, InclusiveDeadPath, Terminate, TerminateSub, Abort,
     RaceBranch}
        \cup {Looped(d, "a", loop, 2, {}) : loop \in Loops, d \in {Votes, VotesInBranch({})}}
        \cup {Looped(Items, "p", loop, 2, {}) : loop \in Loops}

\* One that interrupts has a user task or an automatic one, one that runs beside its
\* scope an automatic one.
WatchedShapes ==
    UNION {{Watched(w[1], w[2], "user", TRUE), Watched(w[1], w[2], "task", TRUE),
            Watched(w[1], w[2], "task", FALSE)} : w \in
               UNION {{d} \X Places(d) : d \in WatchedHosts}}

(***************************************************************************)
(* Block-structured definitions.  A block is a graph with one entry and    *)
(* one exit; its nodes are named by their path in the block.               *)
(***************************************************************************)
Leaf(kind, async) ==
    [kind |-> "n" :> kind, out |-> "n" :> << >>, within |-> "n" :> NoNode,
     cond |-> {}, asyncBefore |-> IF async THEN {"n"} ELSE {},
     attached |-> "n" :> NoNode, cancel |-> {}, timer |-> {}, loop |-> "n" :> "none",
     first |-> "n", last |-> "n"]

Named(k, b) ==
    LET at(n) == IF n = NoNode THEN NoNode ELSE k \o n
        old(n) == CHOOSE m \in DOMAIN b.kind : at(m) = n
        nodes == {at(n) : n \in DOMAIN b.kind}
    IN  [kind |-> [n \in nodes |-> b.kind[old(n)]],
         out |-> [n \in nodes |-> [i \in DOMAIN b.out[old(n)] |-> at(b.out[old(n)][i])]],
         within |-> [n \in nodes |-> at(b.within[old(n)])],
         cond |-> {<<at(f[1]), at(f[2])>> : f \in b.cond},
         asyncBefore |-> {at(n) : n \in b.asyncBefore},
         attached |-> [n \in nodes |-> at(b.attached[old(n)])],
         cancel |-> {at(n) : n \in b.cancel}, timer |-> {at(n) : n \in b.timer},
         loop |-> [n \in nodes |-> b.loop[old(n)]],
         first |-> at(b.first), last |-> at(b.last)]

\* The union of two named blocks, with some flows added.
Both(x, y, flows) ==
    [kind |-> x.kind @@ y.kind, out |-> flows @@ x.out @@ y.out,
     within |-> x.within @@ y.within, cond |-> x.cond \cup y.cond,
     asyncBefore |-> x.asyncBefore \cup y.asyncBefore,
     attached |-> x.attached @@ y.attached, cancel |-> x.cancel \cup y.cancel,
     timer |-> x.timer \cup y.timer, loop |-> x.loop @@ y.loop,
     first |-> x.first, last |-> y.last]

Sequence(b, c) ==
    LET x == Named("1", b)
        y == Named("2", c)
    IN  Both(x, y, x.last :> <<y.first>>)

\* A split and its join around two branches; the first flow of an inclusive split
\* is conditional.
Split(gateway, b, c) ==
    LET f == Named("0", Leaf(gateway, FALSE))
        x == Named("1", b)
        y == Named("2", c)
        j == Named("3", Leaf(gateway, FALSE))
        inner == Both(x, y, x.last :> <<j.first>> @@ y.last :> <<j.first>>)
    IN  [Both(Both(f, inner, f.last :> <<x.first, y.first>>), j, << >>)
         EXCEPT !.cond = @ \cup IF gateway = "inclusive" THEN {<<f.last, x.first>>} ELSE {}]

Sub(b, async) ==
    LET p == Named("0", Leaf("sub", async))
        s == Named("1", Leaf("start", FALSE))
        x == Named("2", b)
        e == Named("3", Leaf("end", FALSE))
        inner == Both(Both(s, x, s.last :> <<x.first>>), e, x.last :> <<e.first>>)
        whole == Both(p, [inner EXCEPT !.within =
                            [n \in DOMAIN @ |-> IF @[n] = NoNode THEN p.first ELSE @[n]]], << >>)
    IN  [whole EXCEPT !.last = p.first]

\* A block that begins with a multi-instance activity.
Each(b, loop) == [b EXCEPT !.loop = (b.first :> loop) @@ @]

\* A user task that a message or a timer interrupts; both ways leave by one gateway.
Guarded(timer) ==
    LET u == Named("0", Leaf("user", FALSE))
        m == Named("1", Leaf("boundary", FALSE))
        x == Named("2", Leaf("exclusive", FALSE))
        both == Both(u, m, u.last :> <<x.first>> @@ m.last :> <<x.first>>)
    IN  [Both(both, x, << >>) EXCEPT !.attached = (m.first :> u.first) @@ @,
                                     !.cancel = {m.first},
                                     !.timer = IF timer THEN {m.first} ELSE {}]

Process(b) ==
    LET s == Named("0", Leaf("start", FALSE))
        x == Named("1", b)
        e == Named("2", Leaf("end", FALSE))
        g == Both(Both(s, x, s.last :> <<x.first>>), e, x.last :> <<e.first>>)
    IN  [kind |-> g.kind, out |-> g.out, cond |-> g.cond,
         default |-> [n \in DOMAIN g.kind |-> NoNode], asyncBefore |-> g.asyncBefore,
         asyncAfter |-> {}, within |-> g.within,
         attached |-> g.attached, cancel |-> g.cancel, timer |-> g.timer,
         cycle |-> {}, loop |-> g.loop, completion |-> {}, maxId |-> MaxId,
         instances |-> [n \in DOMAIN g.kind |-> IF g.loop[n] = "none" THEN 0 ELSE 2]]

(***************************************************************************)
(* A definition is identified by a term: <<"user">>, <<"sub", x>>,         *)
(* <<"parallel", x, y>>, ... or by the name of one of the shapes above.    *)
(***************************************************************************)
LeafOf(t) ==
    CASE t[1] = "user" -> Leaf("user", FALSE)
      [] t[1] = "task" -> Leaf("task", FALSE)
      [] t[1] = "message" -> Leaf("catch", FALSE)
      [] t[1] = "timer" -> [Leaf("catch", FALSE) EXCEPT !.timer = {"n"}]
      [] t[1] = "guarded" -> Guarded(FALSE)
      [] t[1] = "limited" -> Guarded(TRUE)
      [] t[1] \in Loops -> Each(Leaf("user", FALSE), t[1])
      [] OTHER -> Leaf("task", TRUE)

\* The block of a term whose subterms denote the blocks B(_).
Build(t, B(_)) ==
    CASE Len(t) = 1 -> LeafOf(t)
      [] t[1] = "sub" -> Sub(B(t[2]), FALSE)
      [] t[1] = "asyncSub" -> Sub(B(t[2]), TRUE)
      [] Len(t) = 2 /\ t[1] \in Loops -> Each(Sub(B(t[2]), FALSE), t[1])
      [] t[1] = "seq" -> Sequence(B(t[2]), B(t[3]))
      [] OTHER -> Split(t[1], B(t[2]), B(t[3]))

\* Terms are at most three deep above their leaves.
Block1(t) == Build(t, LeafOf)
Block2(t) == Build(t, Block1)
Block(t) == Build(t, Block2)

Simple == {<<"user">>, <<"task">>, <<"async">>}
Two(ops, X, Y) == {<<op, x, y>> : op \in ops, x \in X, y \in Y}
Gateways == {"parallel", "inclusive"}
Compound == Two(Gateways, Simple, Simple) \cup {<<"sub", x>> : x \in Simple}

Eventful == {<<"message">>, <<"timer">>, <<"guarded">>, <<"limited">>}
WithEvents == Two(Gateways, Eventful, Simple) \cup {<<"sub", x>> : x \in Eventful}

\* A multi-instance user task, a multi-instance subprocess of one activity, and one
\* with a split and a join in every instance.
Repeated == {<<loop>> : loop \in Loops}
                \cup {<<loop, x>> : loop \in Loops, x \in Simple}
Joining == {<<loop, x>> : loop \in Loops, x \in Two(Gateways, {<<"user">>}, Simple)}
WithLoops == Repeated \cup Joining \cup Two(Gateways, Repeated, Simple)

Terms ==
    Two({"seq"}, Two(Gateways, Simple \cup Compound, Simple), {<<"user">>})
        \cup Two({"seq"}, Compound, Compound)
        \cup {<<op, x>> : op \in {"sub", "asyncSub"}, x \in Compound \cup WithEvents}
        \cup Two({"seq"}, WithEvents, {<<"user">>, <<"timer">>, <<"guarded">>})
        \cup Two({"seq"}, WithLoops, {<<"user">>} \cup Repeated)

\* A subprocess on the scope row before an inclusive split.
SubBeforeInclusive(t) == t[1] = "seq" /\ t[2][1] = "sub" /\ t[3][1] = "inclusive"

Blocks == {t \in Terms : ~SubBeforeInclusive(t)}

Shapes ==
    {ForkJoin, AutomaticJoin, SubBranch, InclusiveDeadPath, Terminate, TerminateSub,
     AsyncAfterLoop, ImplicitFork, Dangling, NoJoin}

AllDefinitions ==
    Shapes \cup EventShapes \cup MultiShapes \cup WatchedShapes
        \cup {Process(Block(t)) : t \in Blocks}

SubThenUserOnly == {SubThenUser}
====
