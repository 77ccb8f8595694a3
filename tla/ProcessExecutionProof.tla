------------------------- MODULE ProcessExecutionProof -------------------------
(***************************************************************************)
(* The token game of plain processes, for every graph: no token is lost,   *)
(* doubled or brought back, and the instance ends when its work is done.   *)
(***************************************************************************)
EXTENDS ProcessExecution, TLAPS

Nodes == DOMAIN pd.kind

\* What a token goes through on its own, with one flow to leave by.
Steps == {"start", "task", "user", "catch"}

\* A plain process has events, tasks and gateways, and some of its tasks may be async.
\* Each of its steps has one flow, without a condition, every fork has a flow to take,
\* and inclusive gateways do not join.  There is no asyncLeave, which drops what is
\* planned for other tokens.
Plain ==
    /\ \A n \in Nodes :
          /\ Kind(n) \in Steps \cup {"exclusive", "parallel", "inclusive", "end"}
          /\ pd.loop[n] = "none" /\ pd.attached[n] = NoNode
          /\ Kind(n) \in Steps => /\ Len(pd.out[n]) = 1 /\ pd.default[n] = NoNode
                                  /\ <<n, pd.out[n][1]>> \notin pd.cond
          /\ Kind(n) = "parallel" => pd.out[n] # << >>
          /\ Kind(n) = "inclusive" => Incoming(n) \in {0, 1} /\ pd.default[n] # NoNode
    /\ pd.asyncAfter = {}

\* A row, or the copy of one that an operation has: that of the process instance, or
\* one below it.
Token(e, next) ==
    /\ e \in Execution /\ e.id \in 1 .. next - 1
    /\ e.parent = IF e.id = Root THEN NoId ELSE Root
    /\ e.scope <=> e.id = Root
    /\ ~e.multi /\ ~e.aside

\* The row of the instance is a token itself until the first fork, and is then kept
\* without an activity.
RowsSound(ex, next) ==
    \A i \in DOMAIN ex :
        /\ Token(ex[i], next) /\ ex[i].id = i
        /\ i # Root => /\ ex[i].activity # NoNode
                       /\ Root \in DOMAIN ex /\ ex[Root].activity = NoNode

Queued(ag, i) == \E k \in DOMAIN ag : ag[k].execution.id = i

\* An operation has a copy of a row.  A token that a join has deleted is not continued,
\* and none is to leave.  A row that is marked as ended is not left waiting.
OpSound(ex, next, n, o) ==
    LET e == o.execution IN
    /\ Token(e, next) /\ e.activity # NoNode
    /\ e.id \in DOMAIN ex => ex[e.id].activity = e.activity /\ (ex[e.id].ended => n = 1)
    /\ e.ended => n = 1
    /\ e.id \notin DOMAIN ex => /\ o.op = "continue" /\ Kind(e.activity) = "parallel"
                                /\ e.id # Root
    /\ o.op = "take" => Kind(e.activity) \in Steps \cup {"exclusive", "inclusive"}

OneEach(ag) ==
    \A k, l \in 1 .. Len(ag) : ag[k].execution.id = ag[l].execution.id => k = l

AgendaSound(ex, next, ag) ==
    /\ ag \in Seq(Operation)
    /\ \A k \in 1 .. Len(ag) : OpSound(ex, next, Len(ag), ag[k])
    /\ OneEach(ag)

HasTask(tk, i) == \E t \in DOMAIN tk : tk[t] = i

HasJob(jb, i) == \E j \in jb : j.execution = i

\* The work that waits is that of rows.
WorkSound(ex, tk, jb, wt, next) ==
    /\ \A t \in DOMAIN tk : t \in 1 .. next - 1 /\ tk[t] \in DOMAIN ex
    /\ \A j \in jb : j \in Job /\ j.execution \in DOMAIN ex
    /\ DOMAIN wt \subseteq DOMAIN ex

Waiting(e, kinds) == ~e.ended /\ e.activity # NoNode /\ Kind(e.activity) \in kinds

JobSound(e, j) ==
    /\ e.activity = j.activity
    /\ \/ j.type = "before" /\ Waiting(e, {"task", "user"})
       \/ j.type = "timer" /\ Waiting(e, {"catch"}) /\ ~e.active /\ j.activity \in pd.timer

TaskSound(e, tk, jb, ag, i) ==
    /\ HasTask(tk, i) => /\ ~Queued(ag, i) /\ ~HasJob(jb, i)
                         /\ ~e.active /\ Waiting(e, {"user"})
    /\ \A t, u \in DOMAIN tk : tk[t] = i /\ tk[u] = i => t = u

JobsSound(e, jb, ag, i) ==
    \A j \in jb : j.execution = i => ~Queued(ag, i) /\ JobSound(e, j)

WaitSound(e, wt, ag, i) ==
    i \in DOMAIN wt => /\ ~Queued(ag, i) /\ ~e.active /\ Waiting(e, {"catch"})
                       /\ e.activity = wt[i] /\ wt[i] \notin pd.timer

Idle(tk, jb, wt, i) == ~HasTask(tk, i) /\ ~HasJob(jb, i) /\ i \notin DOMAIN wt

\* A token is where its task, its job or its event says, and has one of these, an
\* operation, or a place at a join.
RowWork(e, tk, jb, wt, ag, i) ==
    /\ TaskSound(e, tk, jb, ag, i) /\ JobsSound(e, jb, ag, i) /\ WaitSound(e, wt, ag, i)
    /\ ~e.ended /\ e.activity # NoNode =>
          \/ Queued(ag, i) \/ ~Idle(tk, jb, wt, i)
          \/ AtJoin(e) /\ Kind(e.activity) = "parallel"

\* A running instance has a token that goes on, an ended one has none.
Live(ex, ag, i) == ex[i].activity # NoNode /\ (~ex[i].ended \/ Queued(ag, i))

InstanceSound(ex, inst, ag) ==
    /\ inst \in {"none", "running", "ended"}
    /\ inst = "none" => DOMAIN ex = {} /\ ag = << >>
    /\ inst = "running" => Root \in DOMAIN ex /\ \E i \in DOMAIN ex : Live(ex, ag, i)
    /\ inst = "ended" => \A i \in DOMAIN ex : ~Live(ex, ag, i)

Sound(ex, tk, jb, wt, inst, next, ag) ==
    /\ next \in Nat \ {0}
    /\ RowsSound(ex, next) /\ AgendaSound(ex, next, ag) /\ WorkSound(ex, tk, jb, wt, next)
    /\ \A i \in DOMAIN ex : RowWork(ex[i], tk, jb, wt, ag, i)
    /\ InstanceSound(ex, inst, ag) /\ (inst = "none" => next = Root)

NoEvents ==
    /\ DOMAIN boundaries = {} /\ subscriptions = {}
    /\ DOMAIN committed.boundaries = {} /\ committed.subscriptions = {}

\* A task that was read is there until its reader completes it, whether the command
\* under way is committed or not.
ReadersSound ==
    /\ reading = [c \in Clients |-> reading[c]]
    /\ \A c \in Clients : reading[c] # << >> =>
          \E t \in DOMAIN tasks \cap DOMAIN committed.tasks :
             reading[c] = <<t, tasks[t]>> /\ tasks[t] = committed.tasks[t]
    /\ \A b, c \in Clients : reading[c] # << >> /\ reading[b] = reading[c] => b = c

RestSound ==
    /\ inCommand \in BOOLEAN
    /\ ~inCommand =>
          /\ agenda = << >> /\ executions = committed.executions /\ tasks = committed.tasks
          /\ jobs = committed.jobs /\ waits = committed.waits
          /\ instance = committed.instance /\ nextId = committed.nextId

IInv ==
    /\ IsDefinition(pd) /\ Plain
    /\ Sound(executions, tasks, jobs, waits, instance, nextId, agenda)
    /\ Sound(committed.executions, committed.tasks, committed.jobs, committed.waits,
             committed.instance, committed.nextId, << >>)
    /\ NoEvents /\ ReadersSound /\ RestSound

-----------------------------------------------------------------------------
(* Rows.                                                                   *)

LEMMA PutAgain ==
    ASSUME NEW ex, NEW f, NEW i \in DOMAIN ex, f.id = i
    PROVE  /\ DOMAIN Put(ex, f) = DOMAIN ex /\ Put(ex, f)[i] = f
           /\ \A k \in DOMAIN ex \ {i} : Put(ex, f)[k] = ex[k]
BY Zenon DEF Put, Over

LEMMA PutAllRows ==
    ASSUME NEW ex, NEW seq, \A j, k \in DOMAIN seq : seq[j].id = seq[k].id => j = k
    PROVE  /\ DOMAIN PutAll(ex, seq) = DOMAIN ex \cup {seq[j].id : j \in DOMAIN seq}
           /\ \A j \in DOMAIN seq : PutAll(ex, seq)[seq[j].id] = seq[j]
           /\ \A i \in DOMAIN ex : (\A j \in DOMAIN seq : seq[j].id # i) => PutAll(ex, seq)[i] = ex[i]
BY Zenon DEF PutAll, Over

\* f is a later version of the row e.
Same(e, f) ==
    /\ f \in Execution /\ f.id = e.id /\ f.parent = e.parent /\ f.scope = e.scope
    /\ f.multi = e.multi /\ f.aside = e.aside

LEMMA SameToken ==
    ASSUME NEW e, NEW f, NEW next, Token(e, next), Same(e, f)
    PROVE  Token(f, next)
BY Zenon DEF Token, Same

LEMMA Flags ==
    ASSUME NEW e \in Execution, NEW a \in BOOLEAN, NEW d \in BOOLEAN, NEW c \in BOOLEAN,
           NEW r \in SUBSET {"before", "after"}
    PROVE  /\ LET f == [e EXCEPT !.active = a]
              IN  Same(e, f) /\ f.active = a /\ f.ended = e.ended /\ f.activity = e.activity
           /\ LET f == [e EXCEPT !.ended = d]
              IN  Same(e, f) /\ f.ended = d /\ f.activity = e.activity
           /\ LET f == [e EXCEPT !.ended = d, !.active = a]
              IN  Same(e, f) /\ f.active = a /\ f.ended = d /\ f.activity = e.activity
           /\ LET f == [e EXCEPT !.active = a, !.ended = d]
              IN  Same(e, f) /\ f.active = a /\ f.ended = d /\ f.activity = e.activity
           /\ LET f == [e EXCEPT !.active = a, !.ended = d, !.resumed = r]
              IN  Same(e, f) /\ f.active = a /\ f.ended = d /\ f.activity = e.activity
           /\ LET f == [e EXCEPT !.active = a, !.concurrent = c]
              IN  /\ Same(e, f) /\ f.active = a /\ f.concurrent = c /\ f.ended = e.ended
                  /\ f.activity = e.activity
           /\ LET f == [e EXCEPT !.resumed = r]
              IN  /\ Same(e, f) /\ f.active = e.active /\ f.ended = e.ended
                  /\ f.activity = e.activity /\ f.concurrent = e.concurrent
BY Zenon DEF Same, Execution

LEMMA MovedTo ==
    ASSUME NEW e \in Execution, NEW n \in Nodes
    PROVE  LET f == [e EXCEPT !.activity = n]
           IN  Same(e, f) /\ f.activity = n /\ f.ended = e.ended
BY Zenon DEF Same, Execution, Nodes

LEMMA ChildToken ==
    ASSUME IsDefinition(pd), NEW n \in Nodes, NEW next \in Nat, NEW id \in 2 .. next - 1
    PROVE  LET f == [Child(Root, n, id) EXCEPT !.aside = FALSE]
           IN  Token(f, next) /\ f.id = id /\ f.activity = n /\ ~f.ended /\ f \in Execution
<1>1. Child(Root, n, id) \in Execution
  BY DEF Child, Execution, Nodes, Root
<1>2. [Child(Root, n, id) EXCEPT !.aside = FALSE] \in Execution
  BY Zenon, <1>1 DEF Execution
<1>. QED
  BY <1>2 DEF Child, Token, Root, NoId

-----------------------------------------------------------------------------
(* The agenda.                                                             *)

LEMMA Planned ==
    ASSUME NEW op \in {"continue", "take"}, NEW s \in Seq(Execution)
    PROVE  /\ Plan(op, s) \in Seq(Operation) /\ Len(Plan(op, s)) = Len(s)
           /\ \A k \in 1 .. Len(s) : Plan(op, s)[k] = [op |-> op, execution |-> s[k]]
<1>1. \A k \in 1 .. Len(s) : [op |-> op, execution |-> s[k]] \in Operation
  BY DEF Operation
<1>. QED
  BY <1>1 DEF Plan

\* The operation at the head of ag is replaced by others at the end.
Follows(ag, op, s, ag2) ==
    /\ ag \in Seq(Operation) /\ ag2 \in Seq(Operation) /\ s \in Seq(Execution)
    /\ Len(ag) > 0 /\ Len(ag2) = Len(ag) - 1 + Len(s)
    /\ \A k \in 1 .. Len(ag) - 1 : ag2[k] = ag[k + 1]
    /\ \A k \in 1 .. Len(s) : ag2[Len(ag) - 1 + k] = [op |-> op, execution |-> s[k]]

LEMMA NextAgenda ==
    ASSUME NEW ag \in Seq(Operation), ag # << >>, NEW s \in Seq(Execution),
           NEW op \in {"continue", "take"}
    PROVE  Follows(ag, op, s, Tail(ag) \o Plan(op, s))
<1>0. /\ Tail(ag) \in Seq(Operation) /\ Len(Tail(ag)) = Len(ag) - 1 /\ Len(ag) > 0
      /\ \A k \in 1 .. Len(ag) - 1 : Tail(ag)[k] = ag[k + 1]
  OBVIOUS
<1>1. PICK t \in Seq(Operation) : /\ t = Tail(ag) /\ Len(t) = Len(ag) - 1
                                  /\ \A k \in 1 .. Len(t) : t[k] = ag[k + 1]
  BY Zenon, <1>0
<1>2. PICK p \in Seq(Operation) :
            /\ p = Plan(op, s) /\ Len(p) = Len(s)
            /\ \A k \in 1 .. Len(p) : p[k] = [op |-> op, execution |-> s[k]]
  BY Planned
<1>3. /\ t \o p \in Seq(Operation) /\ Len(t \o p) = Len(t) + Len(p)
      /\ \A k \in 1 .. Len(t) : (t \o p)[k] = t[k]
      /\ \A k \in 1 .. Len(p) : (t \o p)[Len(t) + k] = p[k]
  OBVIOUS
<1>. QED
  BY Zenon, <1>0, <1>1, <1>2, <1>3 DEF Follows

LEMMA TailAgenda ==
    ASSUME NEW ag \in Seq(Operation), ag # << >>
    PROVE  Follows(ag, "take", << >>, Tail(ag))
BY DEF Follows

StaysAt(ag, ag2, k) == k \in 1 .. Len(ag) - 1 /\ ag2[k] = ag[k + 1]

AddedAt(ag, op, s, ag2, k) ==
    \E l \in 1 .. Len(s) : k = Len(ag) - 1 + l /\ ag2[k] = [op |-> op, execution |-> s[l]]

LEMMA Following ==
    ASSUME NEW ag, NEW op, NEW s, NEW ag2, Follows(ag, op, s, ag2)
    PROVE  \A k \in 1 .. Len(ag2) : StaysAt(ag, ag2, k) \/ AddedAt(ag, op, s, ag2, k)
<1>. TAKE k \in 1 .. Len(ag2)
<1>1. Len(ag) \in Nat /\ Len(s) \in Nat /\ Len(ag2) = Len(ag) - 1 + Len(s)
  BY DEF Follows
<1>2. CASE k \in 1 .. Len(ag) - 1
  BY Zenon, <1>2 DEF Follows, StaysAt
<1>3. CASE k \notin 1 .. Len(ag) - 1
  <2>. DEFINE l == k - (Len(ag) - 1)
  <2>1. l \in 1 .. Len(s) /\ k = Len(ag) - 1 + l
    BY <1>1, <1>3
  <2>. QED
    BY Zenon, <2>1 DEF Follows, AddedAt
<1>. QED
  BY Zenon, <1>2, <1>3

Adds(s, i) == \E k \in 1 .. Len(s) : s[k].id = i

LEMMA FollowingQueued ==
    ASSUME NEW ag, NEW op, NEW s, NEW ag2, Follows(ag, op, s, ag2), OneEach(ag), NEW i
    PROVE  Queued(ag2, i) <=> \/ Queued(ag, i) /\ i # ag[1].execution.id
                              \/ Adds(s, i)
<1>1. /\ Len(ag) \in Nat /\ Len(s) \in Nat /\ Len(ag) > 0 /\ Len(ag2) = Len(ag) - 1 + Len(s)
      /\ DOMAIN ag2 = 1 .. Len(ag2) /\ DOMAIN ag = 1 .. Len(ag)
  BY DEF Follows
<1>2. ASSUME NEW k \in 1 .. Len(ag), k # 1
      PROVE  /\ ag[k].execution.id # ag[1].execution.id
             /\ k - 1 \in 1 .. Len(ag2) /\ ag2[k - 1] = ag[k]
  <2>1. k - 1 \in 1 .. Len(ag) - 1 /\ (k - 1) + 1 = k /\ 1 \in 1 .. Len(ag)
    BY <1>1, <1>2
  <2>2. ag2[k - 1] = ag[k]
    BY Zenon, <2>1 DEF Follows
  <2>3. ag[k].execution.id # ag[1].execution.id
    BY Zenon, <2>1, <1>2 DEF OneEach
  <2>. QED
    BY <1>1, <2>1, <2>2, <2>3
<1>3. ASSUME Queued(ag2, i)
      PROVE  \/ Queued(ag, i) /\ i # ag[1].execution.id
             \/ Adds(s, i)
  <2>1. PICK k \in 1 .. Len(ag2) : ag2[k].execution.id = i
    BY Zenon, <1>1, <1>3 DEF Queued
  <2>2. CASE StaysAt(ag, ag2, k)
    <3>1. k + 1 \in 1 .. Len(ag) /\ k + 1 # 1 /\ ag2[k] = ag[k + 1]
      BY <1>1, <2>2 DEF StaysAt
    <3>. QED
      BY Zenon, <1>1, <1>2, <2>1, <3>1 DEF Queued
  <2>3. CASE AddedAt(ag, op, s, ag2, k)
    BY <2>1, <2>3 DEF AddedAt, Adds
  <2>. QED
    BY Zenon, <2>2, <2>3, Following
<1>4. ASSUME Queued(ag, i), i # ag[1].execution.id
      PROVE  Queued(ag2, i)
  BY Zenon, <1>1, <1>2, <1>4 DEF Queued
<1>5. ASSUME NEW k \in 1 .. Len(s), s[k].id = i
      PROVE  Queued(ag2, i)
  <2>1. Len(ag) - 1 + k \in 1 .. Len(ag2)
    BY <1>1
  <2>2. ag2[Len(ag) - 1 + k] = [op |-> op, execution |-> s[k]]
    BY Zenon DEF Follows
  <2>. QED
    BY <2>1, <2>2, <1>1, <1>5 DEF Queued
<1>. QED
  BY Zenon, <1>3, <1>4, <1>5 DEF Adds

\* The operations that stay are about rows that are not touched, or that a join deletes.
Undisturbed(ex, ex2, ag) ==
    \A i : Queued(ag, i) /\ i # ag[1].execution.id =>
        /\ i \in DOMAIN ex2 => i \in DOMAIN ex /\ ex2[i] = ex[i]
        /\ i \in DOMAIN ex /\ i \notin DOMAIN ex2 =>
              i # Root /\ Kind(ex[i].activity) = "parallel"

\* The new operations are about rows that have no other.
NewOps(ex, next, n, ag, op, s) ==
    /\ \A k \in 1 .. Len(s) : /\ OpSound(ex, next, n, [op |-> op, execution |-> s[k]])
                              /\ s[k].id = ag[1].execution.id \/ ~Queued(ag, s[k].id)
    /\ \A k, l \in 1 .. Len(s) : s[k].id = s[l].id => k = l

LEMMA FollowingOnce ==
    ASSUME NEW ag, NEW op, NEW s, NEW ag2, Follows(ag, op, s, ag2), OneEach(ag),
           NEW ex, NEW next, NEW n, NewOps(ex, next, n, ag, op, s)
    PROVE  OneEach(ag2)
<1>. SUFFICES ASSUME NEW k \in 1 .. Len(ag2), NEW l \in 1 .. Len(ag2),
                     ag2[k].execution.id = ag2[l].execution.id, k < l
              PROVE  FALSE
  <2>1. Len(ag2) \in Nat
    BY DEF Follows
  <2>. QED
    BY <2>1 DEF OneEach
<1>1. Len(ag) \in Nat /\ Len(ag) > 0 /\ DOMAIN ag = 1 .. Len(ag) /\ Len(s) \in Nat
  BY DEF Follows
<1>2. CASE k \in 1 .. Len(ag) - 1 /\ l \in 1 .. Len(ag) - 1
  <2>1. ag2[k] = ag[k + 1] /\ ag2[l] = ag[l + 1]
    BY Zenon, <1>2 DEF Follows
  <2>2. k + 1 \in 1 .. Len(ag) /\ l + 1 \in 1 .. Len(ag) /\ k + 1 # l + 1
    BY <1>1, <1>2
  <2>. QED
    BY Zenon, <2>1, <2>2 DEF OneEach
<1>3. CASE l \notin 1 .. Len(ag) - 1
  <2>1. PICK m \in 1 .. Len(s) : l = Len(ag) - 1 + m /\ ag2[l] = [op |-> op, execution |-> s[m]]
    BY <1>3, Following DEF StaysAt, AddedAt
  <2>2. CASE k \in 1 .. Len(ag) - 1
    <3>1. ag2[k] = ag[k + 1] /\ k + 1 \in 1 .. Len(ag) /\ k + 1 # 1 /\ 1 \in 1 .. Len(ag)
      BY <1>1, <2>2 DEF Follows
    <3>2. Queued(ag, s[m].id) /\ s[m].id # ag[1].execution.id
      BY <1>1, <2>1, <3>1 DEF Queued, OneEach
    <3>. QED
      BY Zenon, <3>2 DEF NewOps
  <2>3. CASE k \notin 1 .. Len(ag) - 1
    <3>1. PICK j \in 1 .. Len(s) : k = Len(ag) - 1 + j /\ ag2[k] = [op |-> op, execution |-> s[j]]
      BY <2>3, Following DEF StaysAt, AddedAt
    <3>2. j = m
      BY <2>1, <3>1 DEF NewOps
    <3>. QED
      BY <2>1, <3>1, <3>2, <1>1
  <2>. QED
    BY Zenon, <2>2, <2>3
<1>. QED
  BY <1>1, <1>2, <1>3

LEMMA AgendaStep ==
    ASSUME NEW ex, NEW ex2, NEW next \in Nat, NEW next2 \in Nat, next <= next2,
           NEW ag, NEW op, NEW s, NEW ag2,
           AgendaSound(ex, next, ag), Follows(ag, op, s, ag2),
           Undisturbed(ex, ex2, ag), NewOps(ex2, next2, Len(ag2), ag, op, s)
    PROVE  AgendaSound(ex2, next2, ag2)
<1>1. Len(ag) \in Nat /\ Len(ag) > 0 /\ DOMAIN ag = 1 .. Len(ag) /\ ag2 \in Seq(Operation)
  BY DEF Follows
<1>2. OneEach(ag) /\ OneEach(ag2)
  BY Zenon, FollowingOnce DEF AgendaSound
<1>3. ASSUME NEW k \in 1 .. Len(ag), k # 1
      PROVE  OpSound(ex2, next2, Len(ag2), ag[k])
  <2>. DEFINE o == ag[k]
              e == o.execution
  <2>1. 1 \in 1 .. Len(ag) /\ Len(ag) # 1
    BY <1>1, <1>3
  <2>2. OpSound(ex, next, Len(ag), o)
    BY Zenon DEF AgendaSound
  <2>3. Queued(ag, e.id) /\ e.id # ag[1].execution.id
    BY Zenon, <1>1, <1>2, <1>3, <2>1 DEF Queued, OneEach
  <2>4. Token(e, next2)
    BY <2>2 DEF OpSound, Token
  <2>5. o.op \in {"continue", "take"}
    <3>1. o \in Operation
      BY <1>1 DEF Follows
    <3>. QED
      BY Zenon, <3>1 DEF Operation
  <2>6. e.id \in DOMAIN ex2 => ex2[e.id].activity = e.activity /\ ~ex2[e.id].ended
    BY Zenon, <2>1, <2>2, <2>3 DEF OpSound, Undisturbed
  <2>7. e.id \notin DOMAIN ex2 => o.op = "continue" /\ Kind(e.activity) = "parallel" /\ e.id # Root
    BY Zenon, <2>2, <2>3, <2>5 DEF OpSound, Undisturbed, Steps
  <2>. QED
    BY Zenon, <2>1, <2>2, <2>4, <2>6, <2>7 DEF OpSound
<1>4. ASSUME NEW k \in 1 .. Len(ag2)
      PROVE  OpSound(ex2, next2, Len(ag2), ag2[k])
  <2>1. CASE StaysAt(ag, ag2, k)
    <3>1. k + 1 \in 1 .. Len(ag) /\ k + 1 # 1 /\ ag2[k] = ag[k + 1]
      BY <1>1, <2>1 DEF StaysAt
    <3>. QED
      BY Zenon, <1>3, <3>1
  <2>2. CASE AddedAt(ag, op, s, ag2, k)
    BY Zenon, <2>2 DEF NewOps, AddedAt
  <2>. QED
    BY Zenon, <2>1, <2>2, Following
<1>. QED
  BY Zenon, <1>1, <1>2, <1>4 DEF AgendaSound

-----------------------------------------------------------------------------
(* A token that goes on: its row is written again.                         *)

LEMMA AdvanceRows ==
    ASSUME NEW ex, NEW next \in Nat, NEW next2 \in Nat, next <= next2, RowsSound(ex, next),
           NEW e, NEW f, Token(e, next), Same(e, f), e.id \in DOMAIN ex,
           ex[e.id].activity # NoNode, f.activity # NoNode
    PROVE  RowsSound(Put(ex, f), next2)
<1>1. Token(f, next) /\ f.id = e.id
  BY Zenon, SameToken DEF Same
<1>2. /\ DOMAIN Put(ex, f) = DOMAIN ex /\ Put(ex, f)[e.id] = f
      /\ \A i \in DOMAIN ex \ {e.id} : Put(ex, f)[i] = ex[i]
  BY <1>1, PutAgain
<1>3. ASSUME NEW i \in DOMAIN ex
      PROVE  Token(Put(ex, f)[i], next2) /\ Put(ex, f)[i].id = i
  <2>1. Token(Put(ex, f)[i], next) /\ Put(ex, f)[i].id = i
    BY Zenon, <1>1, <1>2 DEF RowsSound
  <2>. QED
    BY <2>1 DEF Token
<1>4. ASSUME NEW i \in DOMAIN ex, i # Root
      PROVE  /\ Put(ex, f)[i].activity # NoNode
             /\ Root \in DOMAIN ex /\ Put(ex, f)[Root].activity = NoNode
  <2>1. Root \in DOMAIN ex /\ ex[Root].activity = NoNode /\ ex[i].activity # NoNode
    BY Zenon, <1>4 DEF RowsSound
  <2>. QED
    BY Zenon, <1>2, <2>1
<1>. QED
  BY Zenon, <1>2, <1>3, <1>4 DEF RowsSound

\* The operation of a token is followed by another one for it, or by none.
GoesOn(op, f, s, ag2) ==
    \/ s = << >>
    \/ /\ s = <<f>> /\ (f.ended => Len(ag2) = 1)
       /\ op = "take" => Kind(f.activity) \in Steps \cup {"exclusive", "inclusive"}

LEMMA AdvanceAgenda ==
    ASSUME NEW ex, NEW next \in Nat, NEW next2 \in Nat, next <= next2,
           NEW ag, NEW op, NEW s, NEW ag2, AgendaSound(ex, next, ag), Follows(ag, op, s, ag2),
           NEW e, NEW f, e = ag[1].execution, Same(e, f), e.id \in DOMAIN ex,
           f.activity # NoNode, GoesOn(op, f, s, ag2)
    PROVE  AgendaSound(Put(ex, f), next2, ag2)
<1>1. Len(ag) \in Nat /\ Len(ag) > 0 /\ 1 \in 1 .. Len(ag)
  BY DEF Follows
<1>2. OpSound(ex, next, Len(ag), ag[1])
  BY Zenon, <1>1 DEF AgendaSound
<1>3. Token(f, next2) /\ f.id = e.id
  <2>1. Token(f, next) /\ f.id = e.id
    BY Zenon, <1>2, SameToken DEF OpSound, Same
  <2>. QED
    BY <2>1 DEF Token
<1>4. /\ DOMAIN Put(ex, f) = DOMAIN ex /\ Put(ex, f)[e.id] = f
      /\ \A i \in DOMAIN ex \ {e.id} : Put(ex, f)[i] = ex[i]
  BY <1>3, PutAgain
<1>5. Undisturbed(ex, Put(ex, f), ag)
  BY Zenon, <1>4 DEF Undisturbed
<1>6. NewOps(Put(ex, f), next2, Len(ag2), ag, op, s)
  <2>1. CASE s = << >>
    BY <2>1 DEF NewOps
  <2>2. CASE s # << >>
    <3>1. /\ s = <<f>> /\ (f.ended => Len(ag2) = 1)
          /\ op = "take" => Kind(f.activity) \in Steps \cup {"exclusive", "inclusive"}
      BY Zenon, <2>2 DEF GoesOn
    <3>2. OpSound(Put(ex, f), next2, Len(ag2), [op |-> op, execution |-> f])
      BY Zenon, <1>3, <1>4, <3>1 DEF OpSound
    <3>3. Len(s) = 1 /\ s[1] = f
      BY Zenon, <3>1
    <3>. QED
      BY <1>3, <3>2, <3>3 DEF NewOps
  <2>. QED
    BY Zenon, <2>1, <2>2
<1>. QED
  BY Zenon, <1>5, <1>6, AgendaStep

LEMMA AdvanceQueued ==
    ASSUME NEW ag, NEW op, NEW s, NEW ag2, OneEach(ag), Follows(ag, op, s, ag2),
           NEW f, f.id = ag[1].execution.id, GoesOn(op, f, s, ag2)
    PROVE  /\ \A i : i # f.id => (Queued(ag2, i) <=> Queued(ag, i))
           /\ Queued(ag2, f.id) <=> s # << >>
           /\ Queued(ag, f.id)
<1>1. s = << >> \/ s = <<f>>
  BY Zenon DEF GoesOn
<1>2. \A i : (\E k \in 1 .. Len(s) : s[k].id = i) <=> (s # << >> /\ i = f.id)
  BY <1>1
<1>3. \A i : Queued(ag2, i) <=> \/ Queued(ag, i) /\ i # f.id
                                \/ s # << >> /\ i = f.id
  BY <1>2, FollowingQueued DEF Adds
<1>4. Queued(ag, f.id)
  BY DEF Queued, Follows
<1>. QED
  BY Zenon, <1>3, <1>4

\* The definition that an instance runs does not change under it.
LEMMA SamePd ==
    ASSUME pd' = pd
    PROVE  \A ex, tk, jb, wt, inst, next, ag :
              Sound(ex, tk, jb, wt, inst, next, ag)' <=> Sound(ex, tk, jb, wt, inst, next, ag)
<1>1. Execution' = Execution /\ Job' = Job /\ Operation' = Operation
  BY Zenon DEF Execution, Job, Operation
<1>2. \A e, next : Token(e, next)' <=> Token(e, next)
  BY Zenon, <1>1 DEF Token
<1>3. \A ex, next : RowsSound(ex, next)' <=> RowsSound(ex, next)
  BY Zenon, <1>2 DEF RowsSound
<1>4. \A e : AtJoin(e)' <=> AtJoin(e)
  BY Zenon DEF AtJoin, Kind, Incoming
<1>5. \A ex, next, n, o : OpSound(ex, next, n, o)' <=> OpSound(ex, next, n, o)
  BY <1>2 DEF OpSound, Kind
<1>6. \A ex, next, ag : AgendaSound(ex, next, ag)' <=> AgendaSound(ex, next, ag)
  BY Zenon, <1>1, <1>5 DEF AgendaSound
<1>7. \A ex, tk, jb, wt, next : WorkSound(ex, tk, jb, wt, next)' <=> WorkSound(ex, tk, jb, wt, next)
  BY <1>1 DEF WorkSound
<1>8. \A e, tk, jb, wt, ag, i : RowWork(e, tk, jb, wt, ag, i)' <=> RowWork(e, tk, jb, wt, ag, i)
  BY <1>4 DEF RowWork, TaskSound, JobsSound, WaitSound, Waiting, JobSound, Kind
<1>. QED
  BY <1>3, <1>6, <1>7, <1>8 DEF Sound

-----------------------------------------------------------------------------
(* A step changes a few rows and what they wait for.                       *)

SoundNow == Sound(executions, tasks, jobs, waits, instance, nextId, agenda)

SoundNext == Sound(executions', tasks', jobs', waits', instance', nextId', agenda')

\* The step leaves row i alone.
Agree(i) ==
    /\ executions'[i] = executions[i]
    /\ Queued(agenda', i) <=> Queued(agenda, i)
    /\ \A t : t \in DOMAIN tasks' /\ tasks'[t] = i <=> t \in DOMAIN tasks /\ tasks[t] = i
    /\ \A j : j.execution = i => (j \in jobs' <=> j \in jobs)
    /\ i \in DOMAIN waits' <=> i \in DOMAIN waits
    /\ i \in DOMAIN waits => waits'[i] = waits[i]

LEMMA AgreeRow ==
    ASSUME NEW i, Agree(i), RowWork(executions[i], tasks, jobs, waits, agenda, i)
    PROVE  RowWork(executions'[i], tasks', jobs', waits', agenda', i)
<1>1. /\ HasTask(tasks', i) <=> HasTask(tasks, i)
      /\ \A t \in DOMAIN tasks' : tasks'[t] = i => t \in DOMAIN tasks /\ tasks[t] = i
  BY Zenon DEF Agree, HasTask
<1>2. HasJob(jobs', i) <=> HasJob(jobs, i)
  BY Zenon DEF Agree, HasJob
<1>3. executions'[i] = executions[i] /\ (Queued(agenda', i) <=> Queued(agenda, i))
  BY Zenon DEF Agree
<1>4. TaskSound(executions'[i], tasks', jobs', agenda', i)
  BY Zenon, <1>1, <1>2, <1>3 DEF TaskSound, RowWork
<1>5. JobsSound(executions'[i], jobs', agenda', i)
  BY Zenon DEF JobsSound, RowWork, Agree
<1>6. /\ WaitSound(executions'[i], waits', agenda', i)
      /\ i \in DOMAIN waits' <=> i \in DOMAIN waits
  BY Zenon DEF WaitSound, RowWork, Agree
<1>. QED
  BY Zenon, <1>1, <1>2, <1>3, <1>4, <1>5, <1>6 DEF RowWork, Idle

\* A row that has an operation has nothing else to wait for.
LEMMA QueuedIdle ==
    ASSUME NEW e, NEW tk, NEW jb, NEW wt, NEW ag, NEW i, RowWork(e, tk, jb, wt, ag, i),
           Queued(ag, i)
    PROVE  Idle(tk, jb, wt, i)
BY Zenon DEF RowWork, TaskSound, JobsSound, WaitSound, Idle, HasTask, HasJob

LEMMA IdleRow ==
    ASSUME NEW e, NEW tk, NEW jb, NEW wt, NEW ag, NEW i, Idle(tk, jb, wt, i),
           \/ e.ended \/ e.activity = NoNode \/ Queued(ag, i)
           \/ AtJoin(e) /\ Kind(e.activity) = "parallel"
    PROVE  RowWork(e, tk, jb, wt, ag, i)
BY Zenon DEF RowWork, TaskSound, JobsSound, WaitSound, Idle, HasTask, HasJob

AgreeOutside(G) ==
    \A i \in DOMAIN executions' \ G : i \in DOMAIN executions /\ Agree(i)

WorkInside(G) ==
    \A i \in DOMAIN executions' \cap G :
        RowWork(executions'[i], tasks', jobs', waits', agenda', i)

LEMMA StepSound ==
    ASSUME SoundNow, NEW G, AgreeOutside(G), WorkInside(G), nextId' \in Nat \ {0},
           RowsSound(executions', nextId'), AgendaSound(executions', nextId', agenda'),
           WorkSound(executions', tasks', jobs', waits', nextId'),
           InstanceSound(executions', instance', agenda'), instance' # "none"
    PROVE  SoundNext
<1>1. ASSUME NEW i \in DOMAIN executions'
      PROVE  RowWork(executions'[i], tasks', jobs', waits', agenda', i)
  <2>1. CASE i \in G
    BY Zenon, <2>1 DEF WorkInside
  <2>2. CASE i \notin G
    <3>1. i \in DOMAIN executions /\ Agree(i)
      BY Zenon, <2>2 DEF AgreeOutside
    <3>. QED
      BY Zenon, <3>1, AgreeRow DEF SoundNow, Sound
  <2>. QED
    BY Zenon, <2>1, <2>2
<1>. QED
  BY Zenon, <1>1 DEF SoundNext, Sound

-----------------------------------------------------------------------------
(* The operation at the head of the agenda runs for token e.               *)

LEMMA HeadOp ==
    ASSUME SoundNow, agenda # << >>, NEW e, e = Head(agenda).execution
    PROVE  /\ agenda \in Seq(Operation) /\ OneEach(agenda) /\ e = agenda[1].execution
           /\ OpSound(executions, nextId, Len(agenda), Head(agenda))
           /\ Token(e, nextId) /\ e \in Execution /\ e.activity \in Nodes /\ e.activity # NoNode
           /\ Queued(agenda, e.id)
           /\ e.id \in DOMAIN executions =>
                 /\ executions[e.id].activity = e.activity /\ instance = "running"
                 /\ Idle(tasks, jobs, waits, e.id)
<1>1. AgendaSound(executions, nextId, agenda) /\ InstanceSound(executions, instance, agenda)
  BY Zenon DEF SoundNow, Sound
<1>2. agenda \in Seq(Operation) /\ OneEach(agenda)
  BY Zenon, <1>1 DEF AgendaSound
<1>3. Head(agenda) = agenda[1] /\ 1 \in 1 .. Len(agenda) /\ DOMAIN agenda = 1 .. Len(agenda)
  BY <1>2
<1>4. OpSound(executions, nextId, Len(agenda), Head(agenda))
  BY Zenon, <1>1, <1>3 DEF AgendaSound
<1>5. Token(e, nextId) /\ e \in Execution /\ e.activity # NoNode
  BY Zenon, <1>4 DEF OpSound, Token
<1>6. e.activity \in Nodes
  BY Zenon, <1>5 DEF Execution, Nodes
<1>7. Queued(agenda, e.id)
  BY Zenon, <1>3 DEF Queued
<1>8. ASSUME e.id \in DOMAIN executions
      PROVE  /\ executions[e.id].activity = e.activity /\ instance = "running"
             /\ Idle(tasks, jobs, waits, e.id)
  <2>1. executions[e.id].activity = e.activity
    BY Zenon, <1>4, <1>8 DEF OpSound
  <2>2. instance = "running"
    BY Zenon, <1>1, <1>5, <1>7, <1>8, <2>1 DEF InstanceSound, Live
  <2>3. RowWork(executions[e.id], tasks, jobs, waits, agenda, e.id)
    BY Zenon, <1>8 DEF SoundNow, Sound
  <2>. QED
    BY Zenon, <2>1, <2>2, <2>3, <1>7, QueuedIdle
<1>. QED
  BY Zenon, <1>2, <1>3, <1>4, <1>5, <1>6, <1>7, <1>8

\* Nothing but what row i waits for changes.
OthersKept(i) ==
    \A k : k # i =>
        /\ \A t : t \in DOMAIN tasks' /\ tasks'[t] = k <=> t \in DOMAIN tasks /\ tasks[t] = k
        /\ \A j : j.execution = k => (j \in jobs' <=> j \in jobs)
        /\ k \in DOMAIN waits' <=> k \in DOMAIN waits
        /\ k \in DOMAIN waits => waits'[k] = waits[k]

\* The row of the token is written, its operation is done, perhaps another follows.
Advances(e, f, op, s) ==
    /\ agenda # << >> /\ e = Head(agenda).execution /\ e.id \in DOMAIN executions
    /\ Same(e, f) /\ f.activity # NoNode
    /\ executions' = Put(executions, f)
    /\ Follows(agenda, op, s, agenda') /\ GoesOn(op, f, s, agenda')
    /\ nextId' \in Nat /\ nextId <= nextId'
    /\ OthersKept(e.id)

LEMMA AdvancedRows ==
    ASSUME SoundNow, NEW e, NEW f, NEW op, NEW s, Advances(e, f, op, s)
    PROVE  /\ RowsSound(executions', nextId') /\ AgendaSound(executions', nextId', agenda')
           /\ AgreeOutside({e.id}) /\ f.id = e.id
           /\ DOMAIN executions' = DOMAIN executions /\ executions'[e.id] = f
           /\ \A i \in DOMAIN executions \ {e.id} : executions'[i] = executions[i]
           /\ \A i : i # e.id => (Queued(agenda', i) <=> Queued(agenda, i))
           /\ Queued(agenda', e.id) <=> s # << >>
<1>1. /\ agenda # << >> /\ e = Head(agenda).execution /\ e.id \in DOMAIN executions
      /\ Same(e, f) /\ f.activity # NoNode /\ executions' = Put(executions, f)
      /\ Follows(agenda, op, s, agenda') /\ GoesOn(op, f, s, agenda')
      /\ nextId' \in Nat /\ nextId <= nextId' /\ f.id = e.id
  BY Zenon DEF Advances, Same
<1>2. /\ OneEach(agenda) /\ e = agenda[1].execution /\ Token(e, nextId)
      /\ executions[e.id].activity # NoNode
  BY Zenon, <1>1, HeadOp
<1>3. /\ RowsSound(executions, nextId) /\ AgendaSound(executions, nextId, agenda)
      /\ nextId \in Nat
  BY Zenon DEF SoundNow, Sound
<1>4. RowsSound(executions', nextId')
  BY Zenon, <1>1, <1>2, <1>3, AdvanceRows
<1>5. AgendaSound(executions', nextId', agenda')
  BY Zenon, <1>1, <1>2, <1>3, AdvanceAgenda
<1>6. /\ DOMAIN executions' = DOMAIN executions /\ executions'[e.id] = f
      /\ \A i \in DOMAIN executions \ {e.id} : executions'[i] = executions[i]
  BY <1>1, PutAgain
<1>7. /\ \A i : i # e.id => (Queued(agenda', i) <=> Queued(agenda, i))
      /\ Queued(agenda', e.id) <=> s # << >>
  BY <1>1, <1>2, AdvanceQueued
<1>8. AgreeOutside({e.id})
  BY Zenon, <1>6, <1>7 DEF AgreeOutside, Agree, Advances, OthersKept
<1>. QED
  BY Zenon, <1>1, <1>4, <1>5, <1>6, <1>7, <1>8

LEMMA AdvanceSound ==
    ASSUME SoundNow, NEW e, NEW f, NEW op, NEW s, Advances(e, f, op, s),
           RowWork(f, tasks', jobs', waits', agenda', e.id),
           WorkSound(executions', tasks', jobs', waits', nextId'), instance' = instance,
           \/ ~f.ended \/ s # << >>
           \/ \E i \in DOMAIN executions \ {e.id} :
                 executions[i].activity # NoNode /\ ~executions[i].ended
    PROVE  SoundNext
<1>1. /\ RowsSound(executions', nextId') /\ AgendaSound(executions', nextId', agenda')
      /\ AgreeOutside({e.id}) /\ f.id = e.id
      /\ DOMAIN executions' = DOMAIN executions /\ executions'[e.id] = f
      /\ \A i \in DOMAIN executions \ {e.id} : executions'[i] = executions[i]
      /\ Queued(agenda', e.id) <=> s # << >>
  BY Zenon, AdvancedRows
<1>2. /\ agenda # << >> /\ e = Head(agenda).execution /\ e.id \in DOMAIN executions
      /\ f.activity # NoNode /\ nextId' \in Nat /\ nextId <= nextId'
  BY Zenon DEF Advances
<1>3. instance = "running"
  BY Zenon, <1>2, HeadOp
<1>4. nextId \in Nat \ {0} /\ InstanceSound(executions, instance, agenda)
  BY Zenon DEF SoundNow, Sound
<1>5. \E i \in DOMAIN executions : Live(executions', agenda', i)
  <2>1. CASE ~f.ended \/ s # << >>
    BY Zenon, <1>1, <1>2, <2>1 DEF Live
  <2>2. CASE \E i \in DOMAIN executions \ {e.id} :
                executions[i].activity # NoNode /\ ~executions[i].ended
    BY Zenon, <1>1, <2>2 DEF Live
  <2>. QED
    BY Zenon, <2>1, <2>2
<1>6. InstanceSound(executions', instance', agenda')
  BY Zenon, <1>1, <1>3, <1>4, <1>5 DEF InstanceSound
<1>7. WorkInside({e.id})
  BY Zenon, <1>1 DEF WorkInside
<1>. QED
  BY <1>1, <1>2, <1>3, <1>4, <1>6, <1>7, StepSound

LEMMA WorkKept ==
    ASSUME UNCHANGED <<tasks, jobs, waits>>
    PROVE  /\ \A i : OthersKept(i)
           /\ \A ex, ex2, next, next2 :
                 /\ WorkSound(ex, tasks, jobs, waits, next) /\ next \in Nat /\ next2 \in Nat
                 /\ next <= next2 /\ DOMAIN ex2 = DOMAIN ex
                 => WorkSound(ex2, tasks', jobs', waits', next2)
BY DEF OthersKept, WorkSound

\* The token goes on, ends, or waits at a join.
LEMMA GoOnSound ==
    ASSUME SoundNow, NEW e, NEW f, NEW op, NEW s, Advances(e, f, op, s),
           UNCHANGED <<tasks, jobs, waits, instance>>,
           \/ f.ended \/ s # << >> \/ (AtJoin(f) /\ Kind(f.activity) = "parallel"),
           \/ ~f.ended \/ s # << >>
           \/ \E i \in DOMAIN executions \ {e.id} :
                 executions[i].activity # NoNode /\ ~executions[i].ended
    PROVE  SoundNext
<1>1. /\ agenda # << >> /\ e = Head(agenda).execution /\ e.id \in DOMAIN executions
      /\ nextId' \in Nat /\ nextId <= nextId'
  BY Zenon DEF Advances
<1>2. Idle(tasks, jobs, waits, e.id)
  BY Zenon, <1>1, HeadOp
<1>3. /\ Queued(agenda', e.id) <=> s # << >>
      /\ DOMAIN executions' = DOMAIN executions
  BY Zenon, AdvancedRows
<1>4. RowWork(f, tasks', jobs', waits', agenda', e.id)
  BY Zenon, <1>2, <1>3, IdleRow
<1>5. WorkSound(executions', tasks', jobs', waits', nextId')
  BY Zenon, <1>1, <1>3, WorkKept DEF SoundNow, Sound
<1>. QED
  BY Zenon, <1>4, <1>5, AdvanceSound

LEMMA SameSame ==
    ASSUME NEW e, NEW f, NEW g, Same(e, f), Same(f, g)
    PROVE  Same(e, g)
BY Zenon DEF Same

LEMMA Enters ==
    ASSUME SoundNow, agenda # << >>
    PROVE  LET e == Head(agenda).execution
           IN  /\ Same(e, Entering) /\ Entering \in Execution /\ Entering.id = e.id
               /\ Entering.activity = e.activity /\ e.activity # NoNode
               /\ Entering.activity \in Nodes
               /\ ~Entering.ended /\ Entering.active
               /\ Entering.parent = e.parent /\ Entering.scope = e.scope /\ ~Entering.aside
<1>. DEFINE e == Head(agenda).execution
<1>1. e \in Execution /\ e.activity \in Nodes /\ e.activity # NoNode /\ Token(e, nextId)
  BY Zenon, HeadOp
<1>2. /\ Same(e, Entering) /\ Entering.active = TRUE /\ Entering.ended = FALSE
      /\ Entering.activity = e.activity
  BY Zenon, <1>1, Flags DEF Entering
<1>. QED
  BY Zenon, <1>1, <1>2 DEF Same, Token

-----------------------------------------------------------------------------
(* One lemma per action.                                                   *)

LEMMA Stops ==
    ASSUME SoundNow, agenda # << >>, NEW f, agenda' = Tail(agenda)
    PROVE  Follows(agenda, "take", << >>, agenda') /\ GoesOn("take", f, << >>, agenda')
BY Zenon, HeadOp, TailAgenda DEF GoesOn

LEMMA PassThroughSound ==
    ASSUME SoundNow, PassThrough
    PROVE  SoundNext
<1>. DEFINE e == Head(agenda).execution
<1>1. /\ agenda # << >> /\ Entering.id \in DOMAIN executions
      /\ Kind(Entering.activity) \in {"start", "task", "exclusive", "inclusive"}
      /\ executions' = Put(executions, Entering)
      /\ agenda' = Tail(agenda) \o Plan("take", <<Entering>>)
      /\ UNCHANGED <<tasks, jobs, waits, instance, nextId>>
  BY Zenon DEF PassThrough, Runs, Popped, events
<1>2. /\ Same(e, Entering) /\ Entering \in Execution /\ Entering.id = e.id
      /\ Entering.activity # NoNode /\ ~Entering.ended
  BY Zenon, <1>1, Enters
<1>3. agenda \in Seq(Operation) /\ <<Entering>> \in Seq(Execution)
  BY <1>1, <1>2, HeadOp
<1>4. Follows(agenda, "take", <<Entering>>, agenda')
  BY Zenon, <1>1, <1>3, NextAgenda
<1>5. GoesOn("take", Entering, <<Entering>>, agenda')
  BY Zenon, <1>1, <1>2 DEF GoesOn, Steps
<1>6. nextId' \in Nat /\ nextId <= nextId'
  BY <1>1 DEF SoundNow, Sound
<1>7. Advances(e, Entering, "take", <<Entering>>)
  BY Zenon, <1>1, <1>2, <1>4, <1>5, <1>6, WorkKept DEF Advances
<1>8. <<Entering>> # << >>
  BY Zenon
<1>. QED
  BY Zenon, <1>1, <1>2, <1>7, <1>8, GoOnSound

\* A token that waits: the common part.
LEMMA WaitsNow ==
    ASSUME SoundNow, agenda # << >>, Entering.id \in DOMAIN executions,
           executions' = Put(executions, [Entering EXCEPT !.active = FALSE]),
           agenda' = Tail(agenda), nextId' \in Nat, nextId <= nextId',
           OthersKept(Entering.id)
    PROVE  LET e == Head(agenda).execution
               f == [Entering EXCEPT !.active = FALSE]
           IN  /\ Advances(e, f, "take", << >>) /\ ~f.ended /\ ~f.active
               /\ f.activity = e.activity /\ f.id = e.id /\ e.id = Entering.id
               /\ Entering.activity = e.activity /\ e.activity # NoNode /\ e.activity \in Nodes
               /\ Idle(tasks, jobs, waits, e.id)
               /\ ~Queued(agenda', e.id) /\ DOMAIN executions' = DOMAIN executions
<1>. DEFINE e == Head(agenda).execution
            f == [Entering EXCEPT !.active = FALSE]
<1>1. /\ Same(e, Entering) /\ Entering \in Execution /\ Entering.id = e.id
      /\ Entering.activity = e.activity /\ e.activity # NoNode /\ ~Entering.ended
      /\ e.activity \in Nodes
  BY Zenon, Enters
<1>2. Same(Entering, f) /\ f.activity = e.activity /\ ~f.active /\ ~f.ended /\ f.id = e.id
  <2>1. /\ Same(Entering, f) /\ f.active = FALSE
        /\ f.ended = Entering.ended /\ f.activity = Entering.activity
    BY Zenon, <1>1 DEF Same, Execution
  <2>. QED
    BY Zenon, <1>1, <2>1 DEF Same
<1>3. Follows(agenda, "take", << >>, agenda') /\ GoesOn("take", f, << >>, agenda')
  BY Zenon, Stops
<1>4. Advances(e, f, "take", << >>)
  BY Zenon, <1>1, <1>2, <1>3, SameSame DEF Advances
<1>5. ~Queued(agenda', e.id) /\ DOMAIN executions' = DOMAIN executions
  BY Zenon, <1>4, AdvancedRows
<1>6. Idle(tasks, jobs, waits, e.id)
  BY Zenon, <1>1, HeadOp
<1>. QED
  BY <1>1, <1>2, <1>4, <1>5, <1>6

LEMMA PlainKind ==
    ASSUME Plain, NEW n \in Nodes
    PROVE  /\ Kind(n) \in Steps \cup {"exclusive", "parallel", "inclusive", "end"}
           /\ pd.loop[n] = "none" /\ pd.attached[n] = NoNode
BY Zenon DEF Plain

LEMMA ScheduleAsyncContinuationSound ==
    ASSUME SoundNow, Plain, ScheduleAsyncContinuation
    PROVE  SoundNext
<1>. DEFINE e == Head(agenda).execution
            f == [Entering EXCEPT !.active = FALSE]
<1>1. /\ agenda # << >> /\ Entering.id \in DOMAIN executions
      /\ Kind(Entering.activity) \in Activities
      /\ executions' = Put(executions, f) /\ agenda' = Tail(agenda)
      /\ jobs' = jobs \cup {Scheduled("before")}
      /\ UNCHANGED <<tasks, waits, instance, nextId>>
  BY Zenon DEF ScheduleAsyncContinuation, Popped, WaitsForJob, events
<1>. PICK j : j = Scheduled("before")
  BY Zenon
<1>2. /\ j.execution = Entering.id /\ j.type = "before" /\ j.activity = Entering.activity
      /\ jobs' = jobs \cup {j}
  BY Zenon, <1>1 DEF Scheduled
<1>3. OthersKept(Entering.id)
  BY Zenon, <1>1, <1>2 DEF OthersKept
<1>4. nextId' \in Nat /\ nextId <= nextId' /\ nextId \in Nat
  BY <1>1 DEF SoundNow, Sound
<1>5. /\ Advances(e, f, "take", << >>) /\ ~f.ended /\ ~f.active
      /\ f.activity = e.activity /\ f.id = e.id /\ e.id = Entering.id
      /\ Entering.activity = e.activity /\ e.activity # NoNode /\ e.activity \in Nodes
      /\ Idle(tasks, jobs, waits, e.id)
      /\ ~Queued(agenda', e.id) /\ DOMAIN executions' = DOMAIN executions
  BY Zenon, <1>1, <1>3, <1>4, WaitsNow
<1>6. Kind(e.activity) \in {"task", "user"}
  BY Zenon, <1>1, <1>5, PlainKind DEF Activities, Steps
<1>7. RowWork(f, tasks', jobs', waits', agenda', e.id)
  <2>1. \A k \in jobs' : k.execution = e.id => k = j
    BY Zenon, <1>2, <1>5 DEF Idle, HasJob
  <2>2. JobSound(f, j)
    BY Zenon, <1>2, <1>5, <1>6 DEF JobSound, Waiting
  <2>3. JobsSound(f, jobs', agenda', e.id)
    BY Zenon, <1>5, <2>1, <2>2 DEF JobsSound
  <2>4. HasJob(jobs', e.id)
    BY Zenon, <1>2, <1>5 DEF HasJob
  <2>. QED
    BY Zenon, <1>1, <1>5, <2>3, <2>4 DEF RowWork, TaskSound, WaitSound, Idle, HasTask
<1>8. WorkSound(executions', tasks', jobs', waits', nextId')
  <2>1. j \in Job
    <3>1. Entering.id \in Nat /\ Entering.activity \in DOMAIN pd.kind
      <4>1. Entering \in Execution
        BY Zenon, <1>1, Enters
      <4>. QED
        BY Zenon, <1>5, <4>1 DEF Execution, Nodes
    <3>. QED
      BY Zenon, <3>1 DEF Job, Scheduled
  <2>. QED
    BY Zenon, <1>1, <1>2, <1>5, <2>1 DEF WorkSound, SoundNow, Sound
<1>. QED
  BY Zenon, <1>1, <1>5, <1>7, <1>8, AdvanceSound

\* Without boundary events and event subprocesses an activity registers nothing.
LEMMA RegistersNothing ==
    ASSUME Plain, IsDefinition(pd), NoEvents, Entering.activity # NoNode, NEW host,
           RegisterEvents(host, {}, {}, ProcessSubscribes)
    PROVE  /\ jobs' = jobs /\ DOMAIN boundaries' = {} /\ subscriptions' = {}
           /\ DOMAIN waits' = DOMAIN waits /\ \A i \in DOMAIN waits : waits'[i] = waits[i]
<1>1. \A n \in DOMAIN pd.kind : pd.attached[n] # Entering.activity /\ Kind(n) # "eventSub"
  BY Zenon, PlainKind DEF Nodes, Steps
<1>2. BoundaryTimers(host) = {}
  BY <1>1 DEF BoundaryTimers, IsDefinition
<1>3. JobsOf({}) = {} /\ BoundariesOf({}) = {}
  BY Zenon DEF JobsOf, BoundariesOf
<1>4. jobs' = jobs
  BY Zenon, <1>2, <1>3 DEF RegisterEvents
<1>5. ProcessSubscribes = {}
  BY Zenon, <1>1 DEF ProcessSubscribes, Subscribing
<1>6. subscriptions' = {}
  BY Zenon, <1>5 DEF RegisterEvents, NoEvents
<1>7. DOMAIN waits' = DOMAIN waits /\ \A i \in DOMAIN waits : waits'[i] = waits[i]
  <2>1. waits' = Without(waits, {})
    BY Zenon DEF RegisterEvents
  <2>. QED
    BY Zenon, <2>1 DEF Without
<1>8. DOMAIN boundaries' = {}
  <2>. DEFINE others == {n \in DOMAIN pd.kind \ pd.timer : pd.attached[n] = Entering.activity}
              old == Without(boundaries, BoundariesOf({}))
  <2>1. boundaries' = Over([b \in others |-> host], old)
    BY Zenon DEF RegisterEvents
  <2>2. others = {}
    BY Zenon, <1>1
  <2>3. DOMAIN old = {}
    BY Zenon DEF Without, NoEvents
  <2>. QED
    BY Zenon, <2>1, <2>2, <2>3 DEF Over
<1>. QED
  BY Zenon, <1>4, <1>6, <1>7, <1>8

LEMMA UserTaskSound ==
    ASSUME SoundNow, Plain, IsDefinition(pd), NoEvents, UserTask
    PROVE  SoundNext
<1>. DEFINE e == Head(agenda).execution
            f == [Entering EXCEPT !.active = FALSE]
<1>1. /\ agenda # << >> /\ Entering.id \in DOMAIN executions
      /\ Kind(Entering.activity) = "user"
      /\ executions' = Put(executions, f) /\ agenda' = Tail(agenda)
      /\ tasks' = Over([t \in {nextId} |-> Entering.id], tasks)
      /\ RegisterEvents(Entering.id, {}, {}, ProcessSubscribes)
      /\ nextId' = nextId + 1 /\ instance' = instance
  BY Zenon DEF UserTask, Runs, Popped
<1>2. nextId' \in Nat /\ nextId <= nextId' /\ nextId \in Nat
  BY <1>1 DEF SoundNow, Sound
<1>3. /\ jobs' = jobs
      /\ DOMAIN waits' = DOMAIN waits /\ \A i \in DOMAIN waits : waits'[i] = waits[i]
  BY Zenon, <1>1, Enters, RegistersNothing
<1>4. nextId \notin DOMAIN tasks
  BY <1>2 DEF SoundNow, Sound, WorkSound
<1>5. /\ DOMAIN tasks' = DOMAIN tasks \cup {nextId} /\ tasks'[nextId] = Entering.id
      /\ \A t \in DOMAIN tasks : tasks'[t] = tasks[t]
  BY Zenon, <1>1, <1>4 DEF Over
<1>6. OthersKept(Entering.id)
  BY Zenon, <1>3, <1>5 DEF OthersKept
<1>7. /\ Advances(e, f, "take", << >>) /\ ~f.ended /\ ~f.active
      /\ f.activity = e.activity /\ f.id = e.id /\ e.id = Entering.id
      /\ Entering.activity = e.activity /\ e.activity # NoNode
      /\ Idle(tasks, jobs, waits, e.id)
      /\ ~Queued(agenda', e.id) /\ DOMAIN executions' = DOMAIN executions
  BY Zenon, <1>1, <1>2, <1>6, WaitsNow
<1>8. RowWork(f, tasks', jobs', waits', agenda', e.id)
  <2>1. \A t \in DOMAIN tasks' : tasks'[t] = e.id => t = nextId
    BY Zenon, <1>5, <1>7 DEF Idle, HasTask
  <2>2. Waiting(f, {"user"})
    BY Zenon, <1>1, <1>7 DEF Waiting
  <2>3. TaskSound(f, tasks', jobs', agenda', e.id)
    BY Zenon, <1>3, <1>7, <2>1, <2>2 DEF TaskSound, Idle
  <2>4. HasTask(tasks', e.id)
    BY Zenon, <1>5, <1>7 DEF HasTask
  <2>. QED
    BY Zenon, <1>3, <1>7, <2>3, <2>4 DEF RowWork, JobsSound, WaitSound, Idle, HasJob
<1>9. WorkSound(executions', tasks', jobs', waits', nextId')
  <2>1. WorkSound(executions, tasks, jobs, waits, nextId)
    BY Zenon DEF SoundNow, Sound
  <2>2. \A t \in DOMAIN tasks' : t \in 1 .. nextId' - 1 /\ tasks'[t] \in DOMAIN executions'
    <3>1. nextId \in 1 .. nextId' - 1 /\ 1 .. nextId - 1 \subseteq 1 .. nextId' - 1
      BY <1>1, <1>2 DEF SoundNow, Sound
    <3>. QED
      BY Zenon, <1>1, <1>5, <1>7, <2>1, <3>1 DEF WorkSound
  <2>. QED
    BY Zenon, <1>3, <1>7, <2>1, <2>2 DEF WorkSound
<1>. QED
  BY Zenon, <1>1, <1>7, <1>8, <1>9, AdvanceSound

LEMMA IntermediateCatchEventSound ==
    ASSUME SoundNow, IntermediateCatchEvent
    PROVE  SoundNext
<1>. DEFINE e == Head(agenda).execution
            f == [Entering EXCEPT !.active = FALSE]
            timer == Entering.activity \in pd.timer
<1>1. /\ agenda # << >> /\ Entering.id \in DOMAIN executions
      /\ Kind(Entering.activity) = "catch"
      /\ executions' = Put(executions, f) /\ agenda' = Tail(agenda)
      /\ UNCHANGED <<tasks, instance, nextId>>
      /\ timer => jobs' = jobs \cup {Scheduled("timer")} /\ UNCHANGED waits
      /\ ~timer => /\ waits' = Over([i \in {Entering.id} |-> Entering.activity], waits)
                   /\ UNCHANGED jobs
  BY Zenon DEF IntermediateCatchEvent, Runs, Popped
<1>. PICK j : j = Scheduled("timer")
  BY Zenon
<1>2. j.execution = Entering.id /\ j.type = "timer" /\ j.activity = Entering.activity
  BY Zenon DEF Scheduled
<1>3. /\ timer => jobs' = jobs \cup {j} /\ waits' = waits
      /\ ~timer => /\ DOMAIN waits' = DOMAIN waits \cup {Entering.id}
                   /\ waits'[Entering.id] = Entering.activity /\ jobs' = jobs
                   /\ \A i \in DOMAIN waits \ {Entering.id} : waits'[i] = waits[i]
  BY Zenon, <1>1 DEF Over
<1>4. OthersKept(Entering.id)
  BY Zenon, <1>1, <1>2, <1>3 DEF OthersKept
<1>5. nextId' \in Nat /\ nextId <= nextId' /\ nextId \in Nat
  BY <1>1 DEF SoundNow, Sound
<1>6. /\ Advances(e, f, "take", << >>) /\ ~f.ended /\ ~f.active
      /\ f.activity = e.activity /\ f.id = e.id /\ e.id = Entering.id
      /\ Entering.activity = e.activity /\ e.activity # NoNode /\ e.activity \in Nodes
      /\ Idle(tasks, jobs, waits, e.id)
      /\ ~Queued(agenda', e.id) /\ DOMAIN executions' = DOMAIN executions
  BY Zenon, <1>1, <1>4, <1>5, WaitsNow
<1>7. Waiting(f, {"catch"})
  BY Zenon, <1>1, <1>6 DEF Waiting
<1>8. RowWork(f, tasks', jobs', waits', agenda', e.id)
  <2>1. ~HasTask(tasks', e.id)
    BY Zenon, <1>1, <1>6 DEF Idle
  <2>2. CASE timer
    <3>1. \A k \in jobs' : k.execution = e.id => k = j
      BY Zenon, <1>3, <1>6, <2>2 DEF Idle, HasJob
    <3>2. JobSound(f, j)
      BY <1>2, <1>6, <1>7, <2>2 DEF JobSound
    <3>3. JobsSound(f, jobs', agenda', e.id) /\ HasJob(jobs', e.id)
      BY Zenon, <1>2, <1>3, <1>6, <2>2, <3>1, <3>2 DEF JobsSound, HasJob
    <3>. QED
      BY <1>3, <1>6, <2>1, <2>2, <3>3 DEF RowWork, TaskSound, WaitSound, Idle, HasTask
  <2>3. CASE ~timer
    <3>1. e.id \in DOMAIN waits' /\ WaitSound(f, waits', agenda', e.id)
      BY Zenon, <1>3, <1>6, <1>7, <2>3 DEF WaitSound
    <3>. QED
      BY <1>3, <1>6, <2>1, <2>3, <3>1 DEF RowWork, TaskSound, JobsSound, Idle, HasTask, HasJob
  <2>. QED
    BY Zenon, <2>2, <2>3
<1>9. WorkSound(executions', tasks', jobs', waits', nextId')
  <2>1. j \in Job
    <3>1. Entering.id \in Nat /\ Entering.activity \in DOMAIN pd.kind
      <4>1. Entering \in Execution
        BY Zenon, <1>1, Enters
      <4>. QED
        BY Zenon, <1>6, <4>1 DEF Execution, Nodes
    <3>. QED
      BY Zenon, <3>1 DEF Job, Scheduled
  <2>. QED
    BY Zenon, <1>1, <1>2, <1>3, <1>6, <2>1 DEF WorkSound, SoundNow, Sound
<1>. QED
  BY Zenon, <1>1, <1>6, <1>8, <1>9, AdvanceSound

\* The operation of a token that a join has deleted.
LEMMA ContinueSkippedSound ==
    ASSUME SoundNow, ContinueSkipped
    PROVE  SoundNext
<1>. DEFINE e == Head(agenda).execution
<1>1. /\ agenda # << >> /\ Entering.id \notin DOMAIN executions /\ agenda' = Tail(agenda)
      /\ UNCHANGED <<executions, tasks, jobs, waits, instance, nextId>>
  BY Zenon DEF ContinueSkipped, Popped, rows, events
<1>2. e.id \notin DOMAIN executions /\ OneEach(agenda) /\ e = agenda[1].execution
  BY Zenon, <1>1, Enters, HeadOp
<1>3. Follows(agenda, "take", << >>, agenda') /\ GoesOn("take", e, << >>, agenda')
  BY Zenon, <1>1, Stops
<1>4. \A i \in DOMAIN executions : Queued(agenda', i) <=> Queued(agenda, i)
  BY Zenon, <1>2, <1>3, AdvanceQueued
<1>5. /\ nextId \in Nat \ {0} /\ AgendaSound(executions, nextId, agenda)
      /\ RowsSound(executions, nextId) /\ InstanceSound(executions, instance, agenda)
      /\ WorkSound(executions, tasks, jobs, waits, nextId)
  BY Zenon DEF SoundNow, Sound
<1>6. AgendaSound(executions', nextId', agenda')
  <2>1. Undisturbed(executions, executions, agenda)
    BY Zenon DEF Undisturbed
  <2>2. NewOps(executions, nextId, Len(agenda'), agenda, "take", << >>)
    BY DEF NewOps
  <2>3. nextId <= nextId
    BY <1>5
  <2>. QED
    BY Zenon, <1>1, <1>3, <1>5, <2>1, <2>2, <2>3, AgendaStep
<1>7. InstanceSound(executions', instance', agenda') /\ instance' # "none"
  BY Zenon, <1>1, <1>4, <1>5 DEF InstanceSound, Live
<1>8. AgreeOutside({}) /\ WorkInside({})
  BY Zenon, <1>1, <1>4 DEF AgreeOutside, Agree, WorkInside
<1>. QED
  BY Zenon, <1>1, <1>5, <1>6, <1>7, <1>8, StepSound

LEMMA EndsToken ==
    ASSUME SoundNow, agenda # << >>, Entering.id \in DOMAIN executions,
           executions' = Ended, agenda' = Tail(agenda), nextId' = nextId,
           OthersKept(Entering.id)
    PROVE  LET e == Head(agenda).execution
               f == [Entering EXCEPT !.ended = TRUE]
           IN  Advances(e, f, "take", << >>) /\ f.ended /\ e.id = Entering.id
<1>. DEFINE e == Head(agenda).execution
            f == [Entering EXCEPT !.ended = TRUE]
<1>1. /\ Same(e, Entering) /\ Entering \in Execution /\ Entering.id = e.id
      /\ Entering.activity # NoNode
  BY Zenon, Enters
<1>2. Same(Entering, f) /\ f.activity = Entering.activity /\ f.ended
  BY Zenon, <1>1 DEF Same, Execution
<1>3. Follows(agenda, "take", << >>, agenda') /\ GoesOn("take", f, << >>, agenda')
  BY Zenon, Stops
<1>4. nextId' \in Nat /\ nextId <= nextId'
  BY DEF SoundNow, Sound
<1>5. executions' = Put(executions, f)
  BY Zenon DEF Ended
<1>. QED
  BY Zenon, <1>1, <1>2, <1>3, <1>4, <1>5, SameSame DEF Advances

LEMMA BranchEndsSound ==
    ASSUME SoundNow, BranchEnds
    PROVE  SoundNext
<1>. DEFINE e == Head(agenda).execution
            f == [Entering EXCEPT !.ended = TRUE]
<1>1. /\ agenda # << >> /\ Entering.id \in DOMAIN executions /\ OpenSiblings # {}
      /\ executions' = Ended /\ agenda' = Tail(agenda)
      /\ UNCHANGED <<tasks, jobs, waits, instance, nextId>>
  BY Zenon DEF BranchEnds, Ends, Runs, Popped, events
<1>2. Advances(e, f, "take", << >>) /\ f.ended /\ e.id = Entering.id
  BY Zenon, <1>1, EndsToken, WorkKept
<1>3. PICK i \in DOMAIN executions \ {e.id} :
            executions[i].parent = Entering.parent /\ ~executions[i].ended
  BY Zenon, <1>1, <1>2 DEF OpenSiblings
<1>4. executions[i].activity # NoNode
  <2>1. Token(e, nextId) /\ Entering.parent = e.parent
    BY Zenon, <1>1, HeadOp, Enters
  <2>2. /\ Token(executions[i], nextId) /\ executions[i].id = i
        /\ i # Root => executions[i].activity # NoNode
    BY Zenon, <1>3 DEF SoundNow, Sound, RowsSound
  <2>. QED
    BY <1>3, <2>1, <2>2 DEF Token, Root, NoId
<1>. QED
  BY Zenon, <1>1, <1>2, <1>3, <1>4, GoOnSound

\* The last token is at an end event: every other row is ended.
LEMMA LastToken ==
    ASSUME SoundNow, agenda # << >>, Entering.id \in DOMAIN executions, OpenSiblings = {},
           NEW i \in DOMAIN executions \ {Entering.id}
    PROVE  ~Live(executions, agenda, i)
<1>. DEFINE e == Head(agenda).execution
<1>1. /\ Token(e, nextId) /\ Entering.id = e.id /\ e.activity # NoNode
      /\ Entering.parent = e.parent /\ executions[e.id].activity = e.activity
      /\ OpSound(executions, nextId, Len(agenda), Head(agenda))
      /\ OneEach(agenda) /\ agenda \in Seq(Operation) /\ e = agenda[1].execution
  BY Zenon, HeadOp, Enters
<1>2. /\ Token(executions[i], nextId) /\ executions[i].id = i
      /\ i # Root => Root \in DOMAIN executions /\ executions[Root].activity = NoNode
      /\ e.id # Root => executions[Root].activity = NoNode
  BY Zenon, <1>1 DEF SoundNow, Sound, RowsSound
<1>3. CASE i = Root
  BY Zenon, <1>1, <1>2, <1>3 DEF Live
<1>4. CASE i # Root
  <2>1. e.id # Root
    BY Zenon, <1>1, <1>2, <1>4
  <2>2. executions[i].ended
    <3>1. executions[i].parent = Entering.parent /\ ~executions[i].aside
      BY Zenon, <1>1, <1>2, <1>4, <2>1 DEF Token
    <3>. QED
      BY Zenon, <3>1 DEF OpenSiblings
  <2>3. ASSUME Queued(agenda, i)
        PROVE  FALSE
    <3>1. PICK k \in 1 .. Len(agenda) : agenda[k].execution.id = i
      BY <1>1, <2>3 DEF Queued
    <3>2. OpSound(executions, nextId, Len(agenda), agenda[k])
      BY Zenon DEF SoundNow, Sound, AgendaSound
    <3>3. Len(agenda) = 1
      BY Zenon, <3>1, <3>2, <2>2 DEF OpSound
    <3>4. k = 1
      BY <3>1, <3>3
    <3>. QED
      BY Zenon, <1>1, <3>1, <3>4
  <2>. QED
    BY Zenon, <2>2, <2>3 DEF Live
<1>. QED
  BY Zenon, <1>3, <1>4

LEMMA ProcessInstanceEndsSound ==
    ASSUME SoundNow, ProcessInstanceEnds
    PROVE  SoundNext /\ tasks' = tasks /\ DOMAIN tasks = {}
<1>. DEFINE e == Head(agenda).execution
            f == [Entering EXCEPT !.ended = TRUE]
<1>1. /\ agenda # << >> /\ Entering.id \in DOMAIN executions /\ OpenSiblings = {}
      /\ executions' = Ended /\ agenda' = Tail(agenda) /\ instance' = "ended"
      /\ jobs' = IF instance = "ended" THEN jobs ELSE {}
      /\ UNCHANGED <<tasks, waits, nextId>>
  BY Zenon DEF ProcessInstanceEnds, Ends, Runs, Popped
<1>2. e.id = Entering.id /\ instance = "running" /\ Idle(tasks, jobs, waits, e.id)
  BY Zenon, <1>1, HeadOp, Enters
<1>3. \A i \in DOMAIN executions \ {e.id} : ~Live(executions, agenda, i)
  BY Zenon, <1>1, <1>2, LastToken
<1>4. \A i \in DOMAIN executions : Idle(tasks, jobs, waits, i)
  <2>. SUFFICES ASSUME NEW i \in DOMAIN executions, i # e.id
                PROVE  Idle(tasks, jobs, waits, i)
    BY Zenon, <1>2
  <2>1. RowWork(executions[i], tasks, jobs, waits, agenda, i) /\ ~Live(executions, agenda, i)
    BY Zenon, <1>3 DEF SoundNow, Sound
  <2>. QED
    BY Zenon, <2>1 DEF RowWork, TaskSound, JobsSound, JobSound, WaitSound, Waiting, Live, Idle,
                HasTask, HasJob
<1>5. DOMAIN tasks = {} /\ jobs = {} /\ DOMAIN waits = {}
  BY Zenon, <1>4 DEF SoundNow, Sound, WorkSound, Idle, HasTask, HasJob
<1>6. jobs' = {} /\ UNCHANGED <<tasks, jobs, waits>>
  BY Zenon, <1>1, <1>2, <1>5
<1>7. Advances(e, f, "take", << >>) /\ f.ended
  BY Zenon, <1>1, <1>6, EndsToken, WorkKept
<1>8. /\ RowsSound(executions', nextId') /\ AgendaSound(executions', nextId', agenda')
      /\ AgreeOutside({e.id})
      /\ DOMAIN executions' = DOMAIN executions /\ executions'[e.id] = f
      /\ \A i \in DOMAIN executions \ {e.id} : executions'[i] = executions[i]
      /\ \A i : i # e.id => (Queued(agenda', i) <=> Queued(agenda, i))
      /\ ~Queued(agenda', e.id)
  BY Zenon, <1>7, AdvancedRows
<1>9. InstanceSound(executions', instance', agenda')
  <2>1. \A i \in DOMAIN executions' : ~Live(executions', agenda', i)
    BY Zenon, <1>3, <1>7, <1>8 DEF Live
  <2>. QED
    BY Zenon, <1>1, <2>1 DEF InstanceSound
<1>10. WorkInside({e.id})
  <2>1. Idle(tasks', jobs', waits', e.id)
    BY Zenon, <1>2, <1>6
  <2>2. RowWork(f, tasks', jobs', waits', agenda', e.id)
    BY Zenon, <1>7, <2>1, IdleRow
  <2>. QED
    BY Zenon, <1>8, <2>2 DEF WorkInside
<1>11. WorkSound(executions', tasks', jobs', waits', nextId') /\ nextId' \in Nat \ {0}
  BY Zenon, <1>1, <1>5, <1>6 DEF WorkSound, SoundNow, Sound
<1>. QED
  BY Zenon, <1>1, <1>5, <1>8, <1>9, <1>10, <1>11, StepSound

LEMMA MoveToSound ==
    ASSUME SoundNow, IsDefinition(pd), Popped("take"), NEW n \in Nodes, MoveTo(n)
    PROVE  SoundNext
<1>. DEFINE e == Head(agenda).execution
            f == [e EXCEPT !.activity = n]
<1>1. /\ agenda # << >> /\ Head(agenda).op = "take"
      /\ executions' = Put(executions, f)
      /\ agenda' = Tail(agenda) \o Plan("continue", <<f>>)
      /\ UNCHANGED <<tasks, jobs, waits, instance, nextId>>
  BY Zenon DEF MoveTo, Leaving, Popped, events
<1>2. /\ OpSound(executions, nextId, Len(agenda), Head(agenda)) /\ e \in Execution
      /\ agenda \in Seq(Operation)
  BY Zenon, <1>1, HeadOp
<1>3. e.id \in DOMAIN executions /\ (e.ended => Len(agenda) = 1)
  BY Zenon, <1>1, <1>2 DEF OpSound
<1>4. Same(e, f) /\ f.activity = n /\ f.ended = e.ended /\ n # NoNode
  BY Zenon, <1>2, MovedTo DEF IsDefinition, Nodes
<1>5. f \in Execution /\ <<f>> \in Seq(Execution) /\ <<f>> # << >> /\ Len(<<f>>) = 1
  BY <1>4 DEF Same
<1>6. Follows(agenda, "continue", <<f>>, agenda')
  BY Zenon, <1>1, <1>2, <1>5, NextAgenda
<1>7. GoesOn("continue", f, <<f>>, agenda')
  BY <1>3, <1>4, <1>5, <1>6 DEF GoesOn, Follows
<1>8. nextId' \in Nat /\ nextId <= nextId'
  BY <1>1 DEF SoundNow, Sound
<1>9. Advances(e, f, "continue", <<f>>)
  BY Zenon, <1>1, <1>3, <1>4, <1>6, <1>7, <1>8, WorkKept DEF Advances
<1>. QED
  BY Zenon, <1>1, <1>5, <1>9, GoOnSound

-----------------------------------------------------------------------------
(* A fork: the token of the operation goes, with those it is joined with,  *)
(* and children are put in their place below the row of the instance.      *)

ForkBase(base, e, joined) ==
    /\ DOMAIN base = DOMAIN executions \ (joined \cup ({e.id} \ {Root}))
    /\ \A i \in DOMAIN base \ {e.id} : base[i] = executions[i]
    /\ e.id = Root => /\ Token(base[Root], nextId) /\ base[Root].id = Root
                      /\ base[Root].activity = NoNode

JoinedAt(e, joined) ==
    \A i \in joined : /\ i \in DOMAIN executions /\ i # e.id
                      /\ executions[i].activity # NoNode
                      /\ Kind(executions[i].activity) = "parallel"

\* The children of a fork, as rows.
ForkChildren(children, targets, next2) ==
    /\ children \in Seq(Execution) /\ Len(children) = Len(targets)
    /\ next2 = nextId + Len(children) /\ Len(children) > 0
    /\ \A k \in 1 .. Len(children) :
          /\ Token(children[k], next2) /\ children[k].id = nextId + k - 1
          /\ children[k].activity \in Nodes /\ ~children[k].ended

LEMMA ChildrenOfFork ==
    ASSUME SoundNow, IsDefinition(pd), NEW targets \in Seq(Nodes), targets # << >>, nextId > 1
    PROVE  ForkChildren([k \in DOMAIN targets |->
                            [Child(Root, targets[k], nextId + k - 1) EXCEPT !.aside = FALSE]],
                        targets, nextId + Len(targets))
<1>. DEFINE c(k) == [Child(Root, targets[k], nextId + k - 1) EXCEPT !.aside = FALSE]
            next2 == nextId + Len(targets)
<1>1. /\ Len(targets) \in Nat /\ Len(targets) > 0 /\ DOMAIN targets = 1 .. Len(targets)
      /\ next2 \in Nat /\ nextId \in Nat
  BY DEF SoundNow, Sound
<1>3. ASSUME NEW k \in 1 .. Len(targets)
      PROVE  /\ Token(c(k), next2) /\ c(k).id = nextId + k - 1 /\ c(k).activity \in Nodes
             /\ ~c(k).ended /\ c(k) \in Execution
  <2>1. nextId + k - 1 \in 2 .. next2 - 1 /\ targets[k] \in Nodes
    BY <1>1
  <2>. QED
    BY <1>1, <2>1, ChildToken
<1>. DEFINE cs == [k \in 1 .. Len(targets) |-> c(k)]
<1>4. cs \in Seq(Execution) /\ Len(cs) = Len(targets) /\ \A k \in 1 .. Len(targets) : cs[k] = c(k)
  BY <1>1, <1>3
<1>. HIDE DEF c, cs
<1>5. ForkChildren(cs, targets, next2)
  BY Zenon, <1>1, <1>3, <1>4 DEF ForkChildren
<1>. QED
  BY Zenon, <1>1, <1>5 DEF cs, c

Forks(e, base, joined, children, targets) ==
    /\ agenda # << >> /\ e = Head(agenda).execution /\ e.id \in DOMAIN executions
    /\ ForkBase(base, e, joined) /\ JoinedAt(e, joined)
    /\ ForkChildren(children, targets, nextId')
    /\ executions' = PutAll(base, children)
    /\ agenda' = Tail(agenda) \o Plan("continue", children)
    /\ UNCHANGED <<tasks, jobs, waits, instance>>

\* The rows after a fork.
Forked(base, children) ==
    /\ nextId \in Nat \ {0} /\ nextId' \in Nat \ {0} /\ nextId < nextId'
    /\ \A i \in DOMAIN executions : i < nextId /\ i \in Nat
    /\ DOMAIN executions' = DOMAIN base \cup (nextId .. nextId' - 1)
    /\ DOMAIN base \subseteq DOMAIN executions
    /\ \A i \in DOMAIN base : executions'[i] = base[i]
    /\ \A k \in 1 .. Len(children) : executions'[nextId + k - 1] = children[k]
    /\ \A i \in nextId .. nextId' - 1 : /\ i - nextId + 1 \in 1 .. Len(children)
                                         /\ executions'[i] = children[i - nextId + 1]

LEMMA ForkedRows ==
    ASSUME SoundNow, NEW e, NEW base, NEW joined, NEW children, NEW targets,
           Forks(e, base, joined, children, targets)
    PROVE  Forked(base, children)
<1>1. /\ ForkBase(base, e, joined) /\ ForkChildren(children, targets, nextId')
      /\ executions' = PutAll(base, children)
  BY Zenon DEF Forks
<1>2. nextId \in Nat \ {0} /\ RowsSound(executions, nextId)
  BY Zenon DEF SoundNow, Sound
<1>3. /\ Len(children) \in Nat /\ Len(children) > 0 /\ nextId' = nextId + Len(children)
      /\ DOMAIN children = 1 .. Len(children)
  BY <1>1 DEF ForkChildren
<1>4. \A i \in DOMAIN executions : i < nextId /\ i \in Nat
  BY <1>2 DEF RowsSound, Token
<1>5. DOMAIN base \subseteq DOMAIN executions
  BY Zenon, <1>1 DEF ForkBase
<1>6. \A k \in DOMAIN children : children[k].id = nextId + k - 1
  BY Zenon, <1>1, <1>3 DEF ForkChildren
<1>7. \A j, k \in DOMAIN children : children[j].id = children[k].id => j = k
  BY <1>2, <1>3, <1>6
<1>8. /\ DOMAIN executions' = DOMAIN base \cup {children[j].id : j \in DOMAIN children}
      /\ \A j \in DOMAIN children : executions'[children[j].id] = children[j]
      /\ \A i \in DOMAIN base : (\A j \in DOMAIN children : children[j].id # i) =>
                                   executions'[i] = base[i]
  <2>1. /\ DOMAIN PutAll(base, children)
               = DOMAIN base \cup {children[j].id : j \in DOMAIN children}
        /\ \A j \in DOMAIN children : PutAll(base, children)[children[j].id] = children[j]
        /\ \A i \in DOMAIN base : (\A j \in DOMAIN children : children[j].id # i) =>
                                     PutAll(base, children)[i] = base[i]
    BY <1>7, PutAllRows, Zenon
  <2>. QED
    BY Zenon, <1>1, <2>1
<1>9. {children[j].id : j \in DOMAIN children} = nextId .. nextId' - 1
  <2>1. ASSUME NEW i \in nextId .. nextId' - 1
        PROVE  i - nextId + 1 \in DOMAIN children /\ children[i - nextId + 1].id = i
    <3>1. i - nextId + 1 \in DOMAIN children
      BY <1>2, <1>3
    <3>. QED
      BY <1>2, <1>6, <3>1
  <2>2. \A j \in DOMAIN children : children[j].id \in nextId .. nextId' - 1
    BY <1>2, <1>3, <1>6
  <2>. QED
    BY Zenon, <2>1, <2>2
<1>10. \A i \in DOMAIN base : executions'[i] = base[i]
  <2>1. \A i \in DOMAIN base : \A j \in DOMAIN children : children[j].id # i
    BY <1>2, <1>3, <1>4, <1>5, <1>6
  <2>. QED
    BY Zenon, <1>8, <2>1
<1>11. \A k \in 1 .. Len(children) : executions'[nextId + k - 1] = children[k]
  BY Zenon, <1>3, <1>6, <1>8
<1>12. ASSUME NEW i \in nextId .. nextId' - 1
       PROVE  /\ i - nextId + 1 \in 1 .. Len(children)
              /\ executions'[i] = children[i - nextId + 1]
  <2>1. i - nextId + 1 \in 1 .. Len(children) /\ nextId + (i - nextId + 1) - 1 = i
    BY <1>2, <1>3
  <2>. QED
    BY Zenon, <1>11, <2>1
<1>13. nextId' \in Nat \ {0} /\ nextId < nextId'
  BY <1>2, <1>3
<1>. QED
  BY Zenon, <1>2, <1>4, <1>5, <1>8, <1>9, <1>10, <1>11, <1>12, <1>13 DEF Forked

LEMMA ForkedRoot ==
    ASSUME SoundNow, NEW e, NEW base, NEW joined, NEW children, NEW targets,
           Forks(e, base, joined, children, targets)
    PROVE  Root \in DOMAIN base /\ base[Root].activity = NoNode
<1>1. /\ ForkBase(base, e, joined) /\ JoinedAt(e, joined) /\ e.id \in DOMAIN executions
  BY Zenon DEF Forks
<1>2. e.id # Root => Root \in DOMAIN executions /\ executions[Root].activity = NoNode
  BY Zenon, <1>1 DEF SoundNow, Sound, RowsSound
<1>3. CASE e.id = Root
  BY Zenon, <1>1, <1>3 DEF ForkBase, JoinedAt
<1>4. CASE e.id # Root
  BY <1>1, <1>2, <1>4 DEF ForkBase, JoinedAt
<1>. QED
  BY Zenon, <1>3, <1>4

LEMMA ForkRowsSound ==
    ASSUME SoundNow, IsDefinition(pd), NEW e, NEW base, NEW joined, NEW children, NEW targets,
           Forks(e, base, joined, children, targets)
    PROVE  RowsSound(executions', nextId')
<1>0. Forked(base, children)
  BY Zenon, ForkedRows
<1>1. /\ nextId \in Nat /\ nextId' \in Nat /\ nextId < nextId'
      /\ \A i \in DOMAIN executions : i < nextId /\ i \in Nat
      /\ DOMAIN executions' = DOMAIN base \cup (nextId .. nextId' - 1)
      /\ DOMAIN base \subseteq DOMAIN executions
      /\ \A i \in DOMAIN base : executions'[i] = base[i]
      /\ \A i \in nextId .. nextId' - 1 : /\ i - nextId + 1 \in 1 .. Len(children)
                                          /\ executions'[i] = children[i - nextId + 1]
  BY Zenon, <1>0 DEF Forked
<1>2. Root \in DOMAIN executions' /\ executions'[Root].activity = NoNode
  BY Zenon, <1>1, ForkedRoot
<1>3. ForkBase(base, e, joined) /\ ForkChildren(children, targets, nextId')
  BY Zenon DEF Forks
<1>4. RowsSound(executions, nextId)
  BY Zenon DEF SoundNow, Sound
<1>5. ASSUME NEW i \in DOMAIN base
      PROVE  /\ Token(executions'[i], nextId') /\ executions'[i].id = i
             /\ i # Root => executions'[i].activity # NoNode
  <2>1. CASE i = e.id
    <3>1. e.id = Root
      BY Zenon, <1>3, <2>1 DEF ForkBase
    <3>2. Token(base[i], nextId) /\ base[i].id = i
      BY Zenon, <1>3, <2>1, <3>1 DEF ForkBase
    <3>. QED
      BY <1>1, <2>1, <3>1, <3>2 DEF Token
  <2>2. CASE i # e.id
    <3>1. executions'[i] = executions[i]
      BY Zenon, <1>1, <1>3, <2>2 DEF ForkBase
    <3>2. /\ Token(executions[i], nextId) /\ executions[i].id = i
          /\ i # Root => executions[i].activity # NoNode
      BY Zenon, <1>1, <1>4 DEF RowsSound
    <3>. QED
      BY <1>1, <3>1, <3>2 DEF Token
  <2>. QED
    BY Zenon, <2>1, <2>2
<1>6. ASSUME NEW i \in nextId .. nextId' - 1
      PROVE  /\ Token(executions'[i], nextId') /\ executions'[i].id = i
             /\ executions'[i].activity # NoNode
  <2>1. PICK k \in 1 .. Len(children) : k = i - nextId + 1 /\ executions'[i] = children[k]
    BY Zenon, <1>1
  <2>2. /\ Token(children[k], nextId') /\ children[k].id = nextId + k - 1
        /\ children[k].activity \in Nodes
    BY Zenon, <1>3 DEF ForkChildren
  <2>. QED
    BY <1>1, <2>1, <2>2 DEF IsDefinition, Nodes
<1>. QED
  BY Zenon, <1>1, <1>2, <1>5, <1>6 DEF RowsSound

LEMMA ForkAgendaSound ==
    ASSUME SoundNow, IsDefinition(pd), NEW e, NEW base, NEW joined, NEW children, NEW targets,
           Forks(e, base, joined, children, targets)
    PROVE  /\ AgendaSound(executions', nextId', agenda')
           /\ \A i \in DOMAIN base \ {e.id} : Queued(agenda', i) <=> Queued(agenda, i)
           /\ \A i \in nextId .. nextId' - 1 : Queued(agenda', i)
<1>0. Forked(base, children)
  BY Zenon, ForkedRows
<1>1. /\ nextId \in Nat /\ nextId' \in Nat /\ nextId < nextId'
      /\ \A i \in DOMAIN executions : i < nextId /\ i \in Nat
      /\ DOMAIN executions' = DOMAIN base \cup (nextId .. nextId' - 1)
      /\ DOMAIN base \subseteq DOMAIN executions
      /\ \A i \in DOMAIN base : executions'[i] = base[i]
      /\ \A k \in 1 .. Len(children) : executions'[nextId + k - 1] = children[k]
      /\ \A i \in nextId .. nextId' - 1 : /\ i - nextId + 1 \in 1 .. Len(children)
                                          /\ executions'[i] = children[i - nextId + 1]
  BY Zenon, <1>0 DEF Forked
<1>2. /\ agenda # << >> /\ e = Head(agenda).execution
      /\ ForkBase(base, e, joined) /\ ForkChildren(children, targets, nextId')
      /\ JoinedAt(e, joined) /\ agenda' = Tail(agenda) \o Plan("continue", children)
  BY Zenon DEF Forks
<1>3. agenda \in Seq(Operation) /\ OneEach(agenda) /\ e = agenda[1].execution
  BY Zenon, <1>2, HeadOp
<1>4. AgendaSound(executions, nextId, agenda)
  BY Zenon DEF SoundNow, Sound
<1>5. /\ children \in Seq(Execution) /\ Len(children) \in Nat
      /\ \A k \in 1 .. Len(children) : children[k].id = nextId + k - 1
  BY <1>2 DEF ForkChildren
<1>6. Follows(agenda, "continue", children, agenda')
  BY Zenon, <1>2, <1>3, <1>5, NextAgenda
<1>7. ASSUME NEW i, Queued(agenda, i)
      PROVE  i \in Nat /\ i < nextId
  <2>1. PICK k \in 1 .. Len(agenda) : agenda[k].execution.id = i
    BY <1>3, <1>7 DEF Queued
  <2>2. Token(agenda[k].execution, nextId)
    BY Zenon, <1>4 DEF AgendaSound, OpSound
  <2>. QED
    BY <1>1, <2>1, <2>2 DEF Token
<1>8. Undisturbed(executions, executions', agenda)
  <2>. SUFFICES ASSUME NEW i, Queued(agenda, i), i # e.id
                PROVE  /\ i \in DOMAIN executions' => i \in DOMAIN executions
                                                      /\ executions'[i] = executions[i]
                       /\ i \in DOMAIN executions /\ i \notin DOMAIN executions' =>
                             i # Root /\ Kind(executions[i].activity) = "parallel"
    BY Zenon, <1>3 DEF Undisturbed
  <2>1. i \in DOMAIN executions' <=> i \in DOMAIN base
    BY <1>1, <1>7
  <2>2. i \in DOMAIN base => i \in DOMAIN executions /\ executions'[i] = executions[i]
    BY Zenon, <1>1, <1>2 DEF ForkBase
  <2>3. i \in DOMAIN executions /\ i \notin DOMAIN base => i \in joined
    BY Zenon, <1>2 DEF ForkBase
  <2>4. i \notin DOMAIN base => i # Root
    BY Zenon, ForkedRoot
  <2>5. i \in joined => Kind(executions[i].activity) = "parallel"
    BY Zenon, <1>2 DEF JoinedAt
  <2>. QED
    BY Zenon, <2>1, <2>2, <2>3, <2>4, <2>5
<1>9. NewOps(executions', nextId', Len(agenda'), agenda, "continue", children)
  <2>1. ASSUME NEW k \in 1 .. Len(children)
        PROVE  /\ OpSound(executions', nextId', Len(agenda'),
                          [op |-> "continue", execution |-> children[k]])
               /\ ~Queued(agenda, children[k].id)
    <3>1. /\ Token(children[k], nextId') /\ children[k].activity \in Nodes /\ ~children[k].ended
          /\ children[k].id = nextId + k - 1
      BY Zenon, <1>2 DEF ForkChildren
    <3>2. children[k].id \in DOMAIN executions' /\ executions'[children[k].id] = children[k]
      <4>1. nextId + k - 1 \in nextId .. nextId' - 1
        BY <1>1, <1>2, <1>5 DEF ForkChildren
      <4>. QED
        BY Zenon, <1>1, <3>1, <4>1
    <3>3. children[k].activity # NoNode
      BY Zenon, <3>1 DEF IsDefinition, Nodes
    <3>4. ~Queued(agenda, children[k].id)
      <4>1. nextId \in Nat
        BY Zenon, <1>1
      <4>2. ~(nextId + k - 1 < nextId)
        BY <4>1
      <4>. QED
        BY Zenon, <1>7, <3>1, <4>2
    <3>. QED
      BY Zenon, <3>1, <3>2, <3>3, <3>4 DEF OpSound
  <2>2. \A k, l \in 1 .. Len(children) : children[k].id = children[l].id => k = l
    BY <1>1, <1>5
  <2>. QED
    BY Zenon, <2>1, <2>2 DEF NewOps
<1>10. AgendaSound(executions', nextId', agenda')
  <2>1. nextId \in Nat /\ nextId' \in Nat /\ nextId <= nextId'
    BY <1>1
  <2>. QED
    BY Zenon, <1>4, <1>6, <1>8, <1>9, <2>1, AgendaStep
<1>11. ASSUME NEW i \in DOMAIN base \ {e.id}
       PROVE  Queued(agenda', i) <=> Queued(agenda, i)
  <2>1. \A k \in 1 .. Len(children) : children[k].id # i
    BY <1>1, <1>5
  <2>2. i # agenda[1].execution.id
    BY Zenon, <1>3
  <2>3. Queued(agenda', i) <=> \/ Queued(agenda, i) /\ i # agenda[1].execution.id
                               \/ Adds(children, i)
    BY Zenon, <1>3, <1>6, FollowingQueued
  <2>. QED
    BY Zenon, <2>1, <2>2, <2>3 DEF Adds
<1>12. ASSUME NEW i \in nextId .. nextId' - 1
       PROVE  Queued(agenda', i)
  <2>1. PICK k \in 1 .. Len(children) : children[k].id = i
    <3>1. i - nextId + 1 \in 1 .. Len(children)
      BY Zenon, <1>1
    <3>2. nextId + (i - nextId + 1) - 1 = i
      BY <1>1
    <3>. QED
      BY Zenon, <1>5, <3>1, <3>2
  <2>. QED
    BY Zenon, <1>3, <1>6, <2>1, FollowingQueued DEF Adds
<1>. QED
  BY Zenon, <1>10, <1>11, <1>12

LEMMA ForkSound ==
    ASSUME SoundNow, IsDefinition(pd), NEW e, NEW base, NEW joined, NEW children, NEW targets,
           Forks(e, base, joined, children, targets)
    PROVE  SoundNext
<1>0. Forked(base, children)
  BY Zenon, ForkedRows
<1>1. /\ nextId \in Nat /\ nextId' \in Nat \ {0} /\ nextId < nextId'
      /\ \A i \in DOMAIN executions : i < nextId /\ i \in Nat
      /\ DOMAIN executions' = DOMAIN base \cup (nextId .. nextId' - 1)
      /\ \A i \in DOMAIN base : executions'[i] = base[i]
      /\ DOMAIN base \subseteq DOMAIN executions
  BY Zenon, <1>0 DEF Forked
<1>2. /\ agenda # << >> /\ e = Head(agenda).execution /\ e.id \in DOMAIN executions
      /\ ForkBase(base, e, joined) /\ ForkChildren(children, targets, nextId')
      /\ JoinedAt(e, joined) /\ UNCHANGED <<tasks, jobs, waits, instance>>
  BY Zenon DEF Forks
<1>3. RowsSound(executions', nextId') /\ AgendaSound(executions', nextId', agenda')
  BY Zenon, ForkRowsSound, ForkAgendaSound
<1>4. /\ \A i \in DOMAIN base \ {e.id} : Queued(agenda', i) <=> Queued(agenda, i)
      /\ \A i \in nextId .. nextId' - 1 : Queued(agenda', i)
  BY Zenon, ForkAgendaSound
<1>5. Idle(tasks, jobs, waits, e.id) /\ instance = "running"
  BY Zenon, <1>2, HeadOp
<1>6. WorkSound(executions, tasks, jobs, waits, nextId)
  BY Zenon DEF SoundNow, Sound
<1>7. ASSUME NEW i \in joined
      PROVE  Idle(tasks, jobs, waits, i)
  <2>1. RowWork(executions[i], tasks, jobs, waits, agenda, i)
    BY Zenon, <1>2 DEF JoinedAt, SoundNow, Sound
  <2>2. Kind(executions[i].activity) = "parallel"
    BY Zenon, <1>2 DEF JoinedAt
  <2>. QED
    BY Zenon, <2>1, <2>2 DEF RowWork, TaskSound, JobsSound, JobSound, WaitSound, Waiting, Idle,
                      HasTask, HasJob
<1>8. ASSUME NEW i, i \notin DOMAIN executions
      PROVE  Idle(tasks, jobs, waits, i)
  BY Zenon, <1>6, <1>8 DEF WorkSound, Idle, HasTask, HasJob
<1>9. ASSUME NEW i, i \notin DOMAIN base
      PROVE  Idle(tasks, jobs, waits, i)
  BY <1>2, <1>5, <1>7, <1>8, <1>9 DEF ForkBase
<1>10. WorkSound(executions', tasks', jobs', waits', nextId')
  <2>1. /\ \A t \in DOMAIN tasks : tasks[t] \in DOMAIN base
        /\ \A j \in jobs : j.execution \in DOMAIN base
        /\ DOMAIN waits \subseteq DOMAIN base
    BY Zenon, <1>9 DEF Idle, HasTask, HasJob
  <2>2. DOMAIN base \subseteq DOMAIN executions'
    BY Zenon, <1>1
  <2>3. \A t \in DOMAIN tasks : t \in 1 .. nextId' - 1
    BY <1>1, <1>6 DEF WorkSound
  <2>4. \A j \in jobs : j \in Job
    BY Zenon, <1>6 DEF WorkSound
  <2>. QED
    BY Zenon, <1>2, <2>1, <2>2, <2>3, <2>4 DEF WorkSound
<1>. DEFINE G == {e.id} \cup (nextId .. nextId' - 1)
<1>11. AgreeOutside(G)
  <2>. SUFFICES ASSUME NEW i \in DOMAIN executions' \ G
                PROVE  i \in DOMAIN executions /\ Agree(i)
    BY Zenon DEF AgreeOutside
  <2>1. i \in DOMAIN base \ {e.id}
    BY Zenon, <1>1
  <2>2. executions'[i] = executions[i]
    BY Zenon, <1>1, <1>2, <2>1 DEF ForkBase
  <2>3. Queued(agenda', i) <=> Queued(agenda, i)
    BY Zenon, <1>4, <2>1
  <2>. QED
    BY Zenon, <1>1, <1>2, <2>1, <2>2, <2>3 DEF Agree
<1>12. WorkInside(G)
  <2>. SUFFICES ASSUME NEW i \in DOMAIN executions' \cap G
                PROVE  RowWork(executions'[i], tasks', jobs', waits', agenda', i)
    BY Zenon DEF WorkInside
  <2>1. CASE i \in nextId .. nextId' - 1
    <3>1. Queued(agenda', i) /\ Idle(tasks', jobs', waits', i)
      <4>1. i \notin DOMAIN executions
        BY <1>1, <2>1
      <4>. QED
        BY Zenon, <1>2, <1>4, <1>8, <2>1, <4>1
    <3>. QED
      BY <3>1, IdleRow
  <2>2. CASE i \notin nextId .. nextId' - 1
    <3>1. i = e.id /\ i \in DOMAIN base
      BY Zenon, <1>1, <2>2
    <3>2. i = Root
      BY <1>2, <3>1 DEF ForkBase
    <3>3. executions'[i].activity = NoNode /\ Idle(tasks', jobs', waits', i)
      BY Zenon, <1>1, <1>2, <1>5, <3>1, <3>2 DEF ForkBase
    <3>. QED
      BY Zenon, <3>3, IdleRow
  <2>. QED
    BY Zenon, <2>1, <2>2
<1>13. InstanceSound(executions', instance', agenda') /\ instance' # "none"
  <2>1. Root \in DOMAIN executions'
    BY Zenon, <1>1, ForkedRoot
  <2>2. nextId \in nextId .. nextId' - 1
    <3>1. \A a, b \in Nat : a < b => a \in a .. b - 1
      OBVIOUS
    <3>. QED
      BY Zenon, <1>1, <3>1
  <2>3. executions'[nextId].activity # NoNode
    <3>0. children \in Seq(Execution) /\ Len(children) > 0 /\ nextId \in Nat
      BY Zenon, <1>1, <1>2 DEF ForkChildren
    <3>1. 1 \in 1 .. Len(children) /\ nextId + 1 - 1 = nextId
      BY <3>0
    <3>2. executions'[nextId + 1 - 1] = children[1]
      BY Zenon, <1>0, <3>1 DEF Forked
    <3>3. children[1].activity \in Nodes
      BY Zenon, <1>2, <3>1 DEF ForkChildren
    <3>4. children[1].activity # NoNode
      BY Zenon, <3>3 DEF IsDefinition, Nodes
    <3>. QED
      BY Zenon, <3>1, <3>2, <3>4
  <2>4. Live(executions', agenda', nextId)
    BY <1>4, <2>2, <2>3 DEF Live
  <2>. QED
    BY <1>1, <1>2, <1>5, <2>1, <2>2, <2>4 DEF InstanceSound
<1>. QED
  BY Zenon, <1>1, <1>3, <1>10, <1>11, <1>12, <1>13, StepSound

LEMMA ForkFromBase ==
    ASSUME SoundNow, IsDefinition(pd), agenda # << >>, NEW e, e = Head(agenda).execution,
           e.id \in DOMAIN executions, NEW base, NEW joined, ForkBase(base, e, joined),
           JoinedAt(e, joined), NEW targets \in Seq(Nodes), targets # << >>,
           Fork(base, Root, targets, FALSE)
    PROVE  SoundNext
<1>1. nextId \in Nat /\ e.id \in 1 .. nextId - 1
  BY Zenon, HeadOp DEF Token, SoundNow, Sound
<1>2. PICK children :
          children = [k \in DOMAIN targets |->
                         [Child(Root, targets[k], nextId + k - 1) EXCEPT !.aside = FALSE]]
  BY Zenon
<1>3. nextId > 1
  BY <1>1
<1>4. ForkChildren(children, targets, nextId + Len(targets))
  BY Zenon, <1>2, <1>3, ChildrenOfFork
<1>5. /\ executions' = PutAll(base, children) /\ nextId' = nextId + Len(targets)
      /\ agenda' = Tail(agenda) \o Plan("continue", children)
      /\ UNCHANGED <<tasks, jobs, waits, instance>>
  BY Zenon, <1>2 DEF Fork, events
<1>6. Forks(e, base, joined, children, targets)
  BY <1>4, <1>5 DEF Forks
<1>. QED
  BY Zenon, <1>6, ForkSound

\* The token that splits is deleted, or kept as the row of the instance.
LEMMA SplitBase ==
    ASSUME NEW e, Token(e, nextId), e.id \in DOMAIN executions, NEW joined, NEW old,
           DOMAIN old = DOMAIN executions \ joined, e.id \notin joined,
           \A i \in DOMAIN old \ {e.id} : old[i] = executions[i]
    PROVE  ForkBase(DeleteOrPreserve(old, e), e, joined)
<1>1. IsProcessInstanceScope(e) <=> e.id = Root
  BY DEF IsProcessInstanceScope, Token
<1>2. CASE e.id = Root
  <2>. DEFINE f == [e EXCEPT !.active = FALSE, !.scope = TRUE, !.activity = NoNode]
  <2>1. DeleteOrPreserve(old, e) = Put(old, f)
    BY <1>1, <1>2 DEF DeleteOrPreserve
  <2>2. e \in Execution /\ e.scope = TRUE
    BY Zenon, <1>2 DEF Token, Execution
  <2>3. Same(e, f) /\ f.activity = NoNode /\ f.id = e.id
    BY Zenon, <2>2 DEF Same, Execution
  <2>4. Token(f, nextId)
    BY Zenon, <2>3, SameToken
  <2>. HIDE DEF f
  <2>5. DOMAIN Put(old, f) = DOMAIN old /\ Put(old, f)[e.id] = f
        /\ \A i \in DOMAIN old \ {e.id} : Put(old, f)[i] = old[i]
    <3>1. e.id \in DOMAIN old
      BY Zenon
    <3>. QED
      BY Zenon, <2>3, <3>1 DEF Put, Over
  <2>. QED
    BY <1>2, <2>1, <2>3, <2>4, <2>5 DEF ForkBase
<1>3. CASE e.id # Root
  <2>1. DeleteOrPreserve(old, e) = Without(old, {e.id})
    BY Zenon, <1>1, <1>3 DEF DeleteOrPreserve
  <2>. QED
    BY Zenon, <1>3, <2>1 DEF ForkBase, Without
<1>. QED
  BY Zenon, <1>2, <1>3

LEMMA ParallelGatewaySound ==
    ASSUME SoundNow, IsDefinition(pd), Plain, ParallelGateway
    PROVE  SoundNext
<1>. DEFINE e == Head(agenda).execution
            n == Entering.activity
            joined == IF Incoming(n) > 1 THEN TokensAt(Arrived, Entering) \ {Entering.id} ELSE {}
            old == Without(executions, joined)
<1>1. /\ agenda # << >> /\ Entering.id \in DOMAIN executions
      /\ Kind(n) = "parallel"
      /\ Fork(DeleteOrPreserve(old, Entering), ParallelScope(Entering), pd.out[n], Entering.aside)
  BY Zenon DEF ParallelGateway, Runs, Popped
<1>2. /\ Same(e, Entering) /\ Entering \in Execution /\ Entering.id = e.id
      /\ n # NoNode /\ n \in Nodes /\ ~Entering.aside
  BY Zenon, <1>1, Enters
<1>3. Token(Entering, nextId)
  BY Zenon, <1>1, <1>2, HeadOp, SameToken
<1>4. ParallelScope(Entering) = Root /\ Entering.aside = FALSE
  BY <1>2, <1>3 DEF ParallelScope, Token, Execution, Root, NoId
<1>5. JoinedAt(e, joined) /\ Entering.id \notin joined
  <2>1. Parked(Entering).id = Entering.id
    BY Zenon, <1>2 DEF Parked, Execution
  <2>2. /\ DOMAIN Arrived = DOMAIN executions
        /\ \A i \in DOMAIN executions \ {Entering.id} : Arrived[i] = executions[i]
    BY <1>1, <2>1, PutAgain DEF Arrived
  <2>3. \A i \in joined : /\ i \in DOMAIN executions /\ i # Entering.id
                          /\ executions[i].activity = n
    BY Zenon, <2>2 DEF TokensAt
  <2>. HIDE DEF joined
  <2>. QED
    BY Zenon, <1>1, <1>2, <2>3 DEF JoinedAt
<1>. HIDE DEF joined
<1>6. /\ DOMAIN old = DOMAIN executions \ joined
      /\ \A i \in DOMAIN old \ {Entering.id} : old[i] = executions[i]
  BY Zenon DEF Without
<1>. HIDE DEF old
<1>7. ForkBase(DeleteOrPreserve(old, Entering), Entering, joined)
  BY Zenon, <1>1, <1>3, <1>5, <1>6, SplitBase
<1>8. ForkBase(DeleteOrPreserve(old, Entering), e, joined)
  BY <1>2, <1>7 DEF ForkBase
<1>9. pd.out[n] \in Seq(Nodes) /\ pd.out[n] # << >>
  BY Zenon, <1>1, <1>2 DEF Plain, IsDefinition, Nodes
<1>10. Fork(DeleteOrPreserve(old, Entering), Root, pd.out[n], FALSE)
  BY Zenon, <1>1, <1>4
<1>. QED
  BY Zenon, <1>1, <1>2, <1>5, <1>8, <1>9, <1>10, ForkFromBase

LEMMA TakeInclusiveSound ==
    ASSUME SoundNow, IsDefinition(pd), Popped("take"), NEW flows \in Seq(Nodes),
           flows # << >>, TakeInclusive(flows)
    PROVE  SoundNext
<1>. DEFINE e == Head(agenda).execution
<1>1. /\ agenda # << >> /\ Head(agenda).op = "take" /\ Leaving = e
      /\ Fork(DeleteOrPreserve(Put(executions, e), e), ParallelScope(e), flows, FALSE)
  BY Zenon DEF TakeInclusive, Leaving, Written, Popped
<1>2. Token(e, nextId) /\ OpSound(executions, nextId, Len(agenda), Head(agenda))
  BY Zenon, <1>1, HeadOp
<1>3. e.id \in DOMAIN executions
  BY Zenon, <1>1, <1>2 DEF OpSound
<1>4. ParallelScope(e) = Root
  BY <1>2 DEF ParallelScope, Token, Root, NoId
<1>5. PICK old : old = Put(executions, e)
  BY Zenon
<1>6. /\ DOMAIN old = DOMAIN executions \ {}
      /\ \A i \in DOMAIN old \ {e.id} : old[i] = executions[i]
  BY Zenon, <1>3, <1>5 DEF Put, Over
<1>7. ForkBase(DeleteOrPreserve(old, e), e, {})
  BY Zenon, <1>2, <1>3, <1>6, SplitBase
<1>8. JoinedAt(e, {})
  BY Zenon DEF JoinedAt
<1>9. Fork(DeleteOrPreserve(old, e), Root, flows, FALSE)
  BY Zenon, <1>1, <1>4, <1>5
<1>. QED
  BY Zenon, <1>1, <1>3, <1>7, <1>8, <1>9, ForkFromBase

SoundCommitted ==
    Sound(committed.executions, committed.tasks, committed.jobs, committed.waits,
          committed.instance, committed.nextId, << >>)

LEMMA RollbackSound ==
    ASSUME SoundCommitted, Rollback
    PROVE  SoundNext
BY Zenon DEF SoundCommitted, SoundNext, Rollback

-----------------------------------------------------------------------------
(* Commands.  A command that moves a waiting token plans one operation.    *)

LEMMA OneOperation ==
    ASSUME NEW ex, NEW next, NEW op \in {"continue", "take"}, NEW f \in Execution, NEW ag,
           ag = Plan(op, <<f>>), OpSound(ex, next, 1, [op |-> op, execution |-> f])
    PROVE  AgendaSound(ex, next, ag) /\ \A i : Queued(ag, i) <=> i = f.id
<1>1. <<f>> \in Seq(Execution) /\ Len(<<f>>) = 1 /\ <<f>>[1] = f
  OBVIOUS
<1>2. /\ ag \in Seq(Operation) /\ Len(ag) = 1 /\ ag[1] = [op |-> op, execution |-> f]
  <2>1. PICK s \in Seq(Execution) : s = <<f>> /\ Len(s) = 1 /\ s[1] = f
    BY Zenon, <1>1
  <2>2. 1 \in 1 .. Len(s)
    BY <2>1
  <2>3. /\ Plan(op, s) \in Seq(Operation) /\ Len(Plan(op, s)) = Len(s)
        /\ Plan(op, s)[1] = [op |-> op, execution |-> s[1]]
    BY <2>2, Planned
  <2>. QED
    BY Zenon, <2>1, <2>3
<1>3. AgendaSound(ex, next, ag)
  <2>0. \A k \in 1 .. 1 : k = 1
    OBVIOUS
  <2>1. \A k \in 1 .. Len(ag) : k = 1
    BY <1>2, <2>0, Zenon
  <2>2. \A k \in 1 .. Len(ag) : OpSound(ex, next, Len(ag), ag[k])
    BY Zenon, <1>2, <2>1
  <2>3. OneEach(ag)
    BY Zenon, <2>1 DEF OneEach
  <2>. QED
    BY Zenon, <1>2, <2>2, <2>3 DEF AgendaSound
<1>4. \A i : Queued(ag, i) <=> i = f.id
  BY <1>2 DEF Queued
<1>. QED
  BY Zenon, <1>3, <1>4

\* Row i, a token that waits, is written as g, and goes on as f.
Begins(i, g, f, op) ==
    /\ agenda = << >> /\ i \in DOMAIN executions
    /\ executions[i].activity # NoNode /\ ~executions[i].ended
    /\ Same(executions[i], g) /\ g.activity = executions[i].activity
    /\ Same(executions[i], f) /\ f.activity = executions[i].activity
    /\ DOMAIN executions' = DOMAIN executions /\ executions'[i] = g
    /\ \A k \in DOMAIN executions \ {i} : executions'[k] = executions[k]
    /\ op \in {"continue", "take"} /\ agenda' = Plan(op, <<f>>)
    /\ op = "take" => Kind(f.activity) \in Steps
    /\ nextId' = nextId /\ instance' = instance
    /\ OthersKept(i) /\ Idle(tasks', jobs', waits', i)
    /\ WorkSound(executions', tasks', jobs', waits', nextId')

LEMMA BeginSound ==
    ASSUME SoundNow, NEW i, NEW g, NEW f, NEW op, Begins(i, g, f, op)
    PROVE  SoundNext
<1>1. /\ agenda = << >> /\ i \in DOMAIN executions
      /\ executions[i].activity # NoNode /\ ~executions[i].ended
      /\ Same(executions[i], g) /\ g.activity = executions[i].activity
      /\ Same(executions[i], f) /\ f.activity = executions[i].activity
      /\ DOMAIN executions' = DOMAIN executions /\ executions'[i] = g
      /\ \A k \in DOMAIN executions \ {i} : executions'[k] = executions[k]
      /\ nextId' = nextId /\ instance' = instance
  BY Zenon DEF Begins
<1>2. /\ RowsSound(executions, nextId) /\ InstanceSound(executions, instance, agenda)
      /\ nextId \in Nat \ {0}
  BY Zenon DEF SoundNow, Sound
<1>3. instance = "running"
  BY Zenon, <1>1, <1>2 DEF InstanceSound, Live
<1>4. Token(executions[i], nextId) /\ executions[i].id = i
  BY <1>1, <1>2 DEF RowsSound
<1>5. Token(g, nextId) /\ g.id = i /\ Token(f, nextId) /\ f.id = i /\ f \in Execution
  BY Zenon, <1>1, <1>4, SameToken DEF Same
<1>6. RowsSound(executions', nextId')
  <2>1. \A k \in DOMAIN executions : executions'[k].activity = executions[k].activity
    BY Zenon, <1>1
  <2>2. \A k \in DOMAIN executions : Token(executions'[k], nextId) /\ executions'[k].id = k
    BY <1>1, <1>2, <1>5 DEF RowsSound
  <2>. QED
    BY Zenon, <1>1, <1>2, <2>1, <2>2 DEF RowsSound
<1>7. OpSound(executions', nextId', 1, [op |-> op, execution |-> f])
  BY Zenon, <1>1, <1>5 DEF OpSound, Begins
<1>8. /\ AgendaSound(executions', nextId', agenda')
      /\ \A k : Queued(agenda', k) <=> k = i
  BY Zenon, <1>5, <1>7, OneOperation DEF Begins
<1>9. \A k : ~Queued(agenda, k)
  <2>1. agenda = << >>
    BY Zenon, <1>1
  <2>. QED
    BY <2>1 DEF Queued
<1>10. AgreeOutside({i})
  <2>1. OthersKept(i) /\ DOMAIN executions' = DOMAIN executions
        /\ \A k \in DOMAIN executions \ {i} : executions'[k] = executions[k]
    BY Zenon DEF Begins
  <2>. QED
    BY Zenon, <1>8, <1>9, <2>1 DEF AgreeOutside, Agree, OthersKept
<1>11. WorkInside({i})
  <2>1. Idle(tasks', jobs', waits', i) /\ Queued(agenda', i)
    BY Zenon, <1>8 DEF Begins
  <2>. QED
    BY <2>1, IdleRow DEF WorkInside
<1>12. InstanceSound(executions', instance', agenda')
  <2>1. Live(executions', agenda', i)
    BY Zenon, <1>1, <1>8 DEF Live
  <2>. QED
    BY <1>1, <1>2, <1>3, <2>1 DEF InstanceSound
<1>13. WorkSound(executions', tasks', jobs', waits', nextId')
  BY DEF Begins
<1>. QED
  BY <1>1, <1>2, <1>3, <1>6, <1>8, <1>10, <1>11, <1>12, <1>13, StepSound

\* A client completes a task that it has read.
LEMMA LeaveTaskSound ==
    ASSUME SoundNow, agenda = << >>, NEW t \in DOMAIN tasks, LeaveTask(tasks[t], t),
           instance' = instance
    PROVE  SoundNext
<1>. DEFINE i == tasks[t]
            f == [executions[i] EXCEPT !.active = TRUE, !.ended = TRUE]
<1>1. i \in DOMAIN executions
  BY Zenon DEF SoundNow, Sound, WorkSound
<1>2. /\ executions' = Put(executions, f) /\ agenda' = Plan("take", <<f>>)
      /\ tasks' = Without(tasks, {t}) /\ StripEvents({i}) /\ nextId' = nextId
  BY Zenon, <1>1 DEF LeaveTask
<1>3. /\ Token(executions[i], nextId) /\ executions[i].id = i
      /\ RowWork(executions[i], tasks, jobs, waits, agenda, i)
  BY Zenon, <1>1 DEF SoundNow, Sound, RowsSound
<1>4. HasTask(tasks, i)
  BY Zenon DEF HasTask
<1>5. /\ ~HasJob(jobs, i) /\ Waiting(executions[i], {"user"})
      /\ \A u \in DOMAIN tasks : tasks[u] = i => u = t
  BY Zenon, <1>3, <1>4 DEF RowWork, TaskSound
<1>6. i \notin DOMAIN waits
  BY Zenon, <1>3, <1>5 DEF RowWork, WaitSound, Waiting
<1>7. executions[i] \in Execution
  BY Zenon, <1>3 DEF Token
<1>8. Same(executions[i], f) /\ f.activity = executions[i].activity /\ f.id = i
  BY Zenon, <1>3, <1>7 DEF Same, Execution
<1>9. /\ DOMAIN executions' = DOMAIN executions /\ executions'[i] = f
      /\ \A k \in DOMAIN executions \ {i} : executions'[k] = executions[k]
  <2>. HIDE DEF f, i
  <2>. QED
    BY <1>1, <1>2, <1>8, PutAgain
<1>10. jobs' = jobs /\ DOMAIN waits' = DOMAIN waits /\ \A k \in DOMAIN waits : waits'[k] = waits[k]
  <2>1. JobsOf({i}) = {}
    BY Zenon, <1>5 DEF JobsOf, HasJob
  <2>2. waits' = Without(waits, {i}) /\ jobs' = jobs \ JobsOf({i})
    BY Zenon, <1>2 DEF StripEvents
  <2>. QED
    BY Zenon, <1>6, <2>1, <2>2 DEF Without
<1>11. /\ DOMAIN tasks' = DOMAIN tasks \ {t}
       /\ \A u \in DOMAIN tasks \ {t} : tasks'[u] = tasks[u]
  BY Zenon, <1>2 DEF Without
<1>12. OthersKept(i)
  BY <1>10, <1>11 DEF OthersKept
<1>13. Idle(tasks', jobs', waits', i)
  BY Zenon, <1>5, <1>6, <1>10, <1>11 DEF Idle, HasTask
<1>14. WorkSound(executions', tasks', jobs', waits', nextId')
  BY Zenon, <1>2, <1>9, <1>10, <1>11 DEF WorkSound, SoundNow, Sound
<1>15. Begins(i, f, f, "take")
  <2>1. executions[i].activity # NoNode /\ ~executions[i].ended /\ Kind(f.activity) \in Steps
    BY Zenon, <1>5, <1>8 DEF Waiting, Steps
  <2>. HIDE DEF f, i
  <2>. QED
    BY Zenon, <1>1, <1>2, <1>8, <1>9, <1>12, <1>13, <1>14, <2>1 DEF Begins
<1>. QED
  BY Zenon, <1>15, BeginSound

\* A row has one job.
LEMMA OneJob ==
    ASSUME SoundNow, NEW j \in jobs, NEW k \in jobs, k.execution = j.execution
    PROVE  k = j
<1>. DEFINE i == j.execution
<1>1. j \in Job /\ k \in Job /\ i \in DOMAIN executions
  BY Zenon DEF SoundNow, Sound, WorkSound
<1>2. RowWork(executions[i], tasks, jobs, waits, agenda, i)
  BY Zenon, <1>1 DEF SoundNow, Sound
<1>3. JobSound(executions[i], j) /\ JobSound(executions[i], k)
  BY Zenon, <1>2 DEF RowWork, JobsSound
<1>4. k.type = j.type /\ k.activity = j.activity
  BY Zenon, <1>3 DEF JobSound, Waiting
<1>. QED
  BY <1>1, <1>4 DEF Job

LEMMA ExecuteJobSound ==
    ASSUME SoundNow, agenda = << >>, NEW j \in jobs, ExecuteJob(j)
    PROVE  SoundNext
<1>. DEFINE i == j.execution
            f == [executions[i] EXCEPT !.active = TRUE, !.ended = FALSE,
                                       !.resumed = @ \cup {j.type}]
<1>1. /\ j.type \in {"before", "after"} /\ i \in DOMAIN executions
      /\ jobs' = jobs \ {j}
      /\ agenda' = Plan(IF j.type = "before" THEN "continue" ELSE "take", <<f>>)
      /\ UNCHANGED <<executions, tasks, waits, instance, nextId>>
  BY Zenon DEF ExecuteJob, events
<1>2. /\ Token(executions[i], nextId) /\ executions[i].id = i
      /\ RowWork(executions[i], tasks, jobs, waits, agenda, i)
  BY Zenon, <1>1 DEF SoundNow, Sound, RowsSound
<1>3. HasJob(jobs, i) /\ JobSound(executions[i], j)
  BY Zenon, <1>2 DEF HasJob, RowWork, JobsSound
<1>4. j.type = "before" /\ Waiting(executions[i], {"task", "user"})
  BY Zenon, <1>1, <1>3 DEF JobSound
<1>5. ~HasTask(tasks, i) /\ i \notin DOMAIN waits
  BY Zenon, <1>2, <1>3, <1>4 DEF RowWork, TaskSound, WaitSound, Waiting
<1>6. executions[i] \in Execution
  BY Zenon, <1>2 DEF Token
<1>7. Same(executions[i], f) /\ f.activity = executions[i].activity
  BY Zenon, <1>4, <1>6 DEF Same, Execution
<1>8. Same(executions[i], executions[i])
  BY Zenon, <1>6 DEF Same
<1>9. OthersKept(i)
  BY Zenon, <1>1 DEF OthersKept
<1>10. Idle(tasks', jobs', waits', i)
  <2>1. ~HasJob(jobs', i)
    BY Zenon, <1>1, OneJob DEF HasJob
  <2>. QED
    BY Zenon, <1>1, <1>5, <2>1 DEF Idle
<1>11. WorkSound(executions', tasks', jobs', waits', nextId')
  BY Zenon, <1>1 DEF WorkSound, SoundNow, Sound
<1>12. Begins(i, executions[i], f, "continue")
  <2>1. executions[i].activity # NoNode /\ ~executions[i].ended
    BY Zenon, <1>4 DEF Waiting
  <2>2. agenda' = Plan("continue", <<f>>)
    BY <1>1, <1>4
  <2>. HIDE DEF f, i
  <2>. QED
    BY Zenon, <1>1, <1>7, <1>8, <1>9, <1>10, <1>11, <2>1, <2>2 DEF Begins
<1>. QED
  BY Zenon, <1>12, BeginSound

\* A catching event is met: there is no event gateway, and so no rival.
LEMMA LeaveCatchEventSound ==
    ASSUME SoundNow, IsDefinition(pd), Plain, agenda = << >>, NEW i, NEW wait, NEW timer,
           LeaveCatchEvent(i, wait, timer),
           \/ wait = {i} /\ timer = {} /\ i \in DOMAIN waits
           \/ wait = {} /\ \E j \in jobs : timer = {j} /\ j.execution = i /\ j.type = "timer"
    PROVE  SoundNext /\ Rivals(i) = {}
<1>. DEFINE f == [executions[i] EXCEPT !.active = TRUE]
<1>1. /\ i \in DOMAIN executions
      /\ executions' = Put(Without(executions, Rivals(i)), f) /\ agenda' = Plan("take", <<f>>)
      /\ jobs' = jobs \ (JobsOf(Rivals(i)) \cup timer)
      /\ waits' = Without(waits, Rivals(i) \cup wait)
      /\ UNCHANGED <<tasks, instance, nextId>>
  BY Zenon DEF LeaveCatchEvent
<1>2. /\ RowsSound(executions, nextId) /\ WorkSound(executions, tasks, jobs, waits, nextId)
      /\ RowWork(executions[i], tasks, jobs, waits, agenda, i)
  BY Zenon, <1>1 DEF SoundNow, Sound
<1>3. Rivals(i) = {}
  <2>1. \A p \in DOMAIN executions : executions[p].activity # NoNode =>
            Kind(executions[p].activity) # "event"
    <3>. SUFFICES ASSUME NEW p \in DOMAIN executions, executions[p].activity # NoNode
                  PROVE  Kind(executions[p].activity) # "event"
      BY Zenon
    <3>1. executions[p] \in Execution
      BY Zenon, <1>2 DEF RowsSound, Token
    <3>2. executions[p].activity \in Nodes
      BY Zenon, <3>1 DEF Execution, Nodes
    <3>. QED
      BY Zenon, <3>2, PlainKind DEF Steps
  <2>. QED
    BY Zenon, <2>1 DEF Rivals
<1>4. /\ Token(executions[i], nextId) /\ executions[i].id = i
  BY Zenon, <1>1, <1>2 DEF RowsSound
<1>5. executions[i] \in Execution
  BY Zenon, <1>4 DEF Token
<1>6. Same(executions[i], f) /\ f.activity = executions[i].activity /\ f.id = i
  BY Zenon, <1>4, <1>5 DEF Same, Execution
<1>7. /\ DOMAIN executions' = DOMAIN executions /\ executions'[i] = f
      /\ \A k \in DOMAIN executions \ {i} : executions'[k] = executions[k]
  <2>. HIDE DEF f
  <2>. QED
    BY Zenon, <1>1, <1>3, <1>6 DEF Put, Over, Without
<1>8. JobsOf(Rivals(i)) = {}
  BY Zenon, <1>3 DEF JobsOf
<1>9. jobs' = jobs \ timer /\ waits' = Without(waits, wait)
  BY Zenon, <1>1, <1>3, <1>8
<1>10. /\ Waiting(executions[i], {"catch"}) /\ ~HasTask(tasks, i)
       /\ \A j \in jobs : j.execution = i => j \in timer
       /\ i \in DOMAIN waits => i \in wait
       /\ \A j \in timer : j.execution = i
       /\ wait \subseteq {i}
  <2>1. CASE wait = {i} /\ timer = {} /\ i \in DOMAIN waits
    <3>1. /\ Waiting(executions[i], {"catch"}) /\ executions[i].activity \notin pd.timer
      BY Zenon, <1>2, <2>1 DEF RowWork, WaitSound
    <3>2. \A j \in jobs : j.execution # i
      BY Zenon, <1>2, <3>1 DEF RowWork, JobsSound, JobSound, Waiting
    <3>3. ~HasTask(tasks, i)
      BY Zenon, <1>2, <3>1 DEF RowWork, TaskSound, Waiting
    <3>. QED
      BY <2>1, <3>1, <3>2, <3>3
  <2>2. ASSUME wait = {}, NEW j \in jobs, timer = {j}, j.execution = i, j.type = "timer"
        PROVE  /\ Waiting(executions[i], {"catch"}) /\ ~HasTask(tasks, i)
               /\ \A k \in jobs : k.execution = i => k \in timer
               /\ i \notin DOMAIN waits
               /\ \A k \in timer : k.execution = i
    <3>1. Waiting(executions[i], {"catch"}) /\ executions[i].activity \in pd.timer
      BY Zenon, <1>2, <2>2 DEF RowWork, JobsSound, JobSound
    <3>2. \A k \in jobs : k.execution = i => k = j
      BY <2>2, OneJob
    <3>3. ~HasTask(tasks, i)
      BY Zenon, <1>2, <3>1 DEF RowWork, TaskSound, Waiting
    <3>4. i \notin DOMAIN waits
      BY Zenon, <1>2, <3>1 DEF RowWork, WaitSound
    <3>. QED
      BY <2>2, <3>1, <3>2, <3>3, <3>4
  <2>. QED
    BY Zenon, <2>1, <2>2
<1>11. /\ DOMAIN waits' = DOMAIN waits \ wait
       /\ \A k \in DOMAIN waits \ wait : waits'[k] = waits[k]
  BY Zenon, <1>9 DEF Without
<1>12. OthersKept(i)
  <2>1. tasks' = tasks
    BY Zenon, <1>1
  <2>2. \A k : k # i => (k \in DOMAIN waits' <=> k \in DOMAIN waits)
                        /\ (k \in DOMAIN waits => waits'[k] = waits[k])
    BY Zenon, <1>10, <1>11
  <2>3. \A j : j.execution # i => (j \in jobs' <=> j \in jobs)
    BY Zenon, <1>9, <1>10
  <2>. QED
    BY <2>1, <2>2, <2>3 DEF OthersKept
<1>13. Idle(tasks', jobs', waits', i)
  BY Zenon, <1>1, <1>9, <1>10, <1>11 DEF Idle, HasJob, HasTask
<1>14. WorkSound(executions', tasks', jobs', waits', nextId')
  BY Zenon, <1>1, <1>2, <1>7, <1>9, <1>11 DEF WorkSound
<1>15. Begins(i, f, f, "take")
  <2>1. executions[i].activity # NoNode /\ ~executions[i].ended /\ Kind(f.activity) \in Steps
    BY Zenon, <1>6, <1>10 DEF Waiting, Steps
  <2>. HIDE DEF f
  <2>. QED
    BY Zenon, <1>1, <1>6, <1>7, <1>12, <1>13, <1>14, <2>1 DEF Begins
<1>. QED
  BY Zenon, <1>3, <1>15, BeginSound

LEMMA StartSound ==
    ASSUME SoundNow, IsDefinition(pd), StartProcessInstance
    PROVE  SoundNext
<1>1. /\ nextId = Root /\ nextId \in Nat /\ DOMAIN executions = {}
      /\ WorkSound(executions, tasks, jobs, waits, nextId)
  BY Zenon DEF StartProcessInstance, SoundNow, Sound, InstanceSound
<1>2. PICK n \in DOMAIN pd.kind :
          LET e == [Child(NoId, n, Root) EXCEPT !.scope = TRUE, !.concurrent = FALSE]
          IN  executions' = Put(executions, e) /\ agenda' = Plan("continue", <<e>>)
  BY Zenon DEF StartProcessInstance
<1>3. PICK e : e = [Child(NoId, n, Root) EXCEPT !.scope = TRUE, !.concurrent = FALSE]
  BY Zenon
<1>4. /\ executions' = Put(executions, e) /\ agenda' = Plan("continue", <<e>>)
      /\ UNCHANGED <<tasks, jobs, waits>> /\ instance' = "running" /\ nextId' = nextId + 1
  BY <1>2, <1>3 DEF StartProcessInstance, events
<1>5. /\ e \in Execution /\ e.id = Root /\ e.parent = NoId /\ e.scope = TRUE
      /\ e.activity = n /\ e.ended = FALSE /\ e.multi = FALSE /\ e.aside = FALSE
  <2>1. Child(NoId, n, Root) \in Execution
    BY Zenon DEF Child, Execution, Root, NoId
  <2>. QED
    BY Zenon, <1>3, <2>1 DEF Child, Execution
<1>6. nextId' = 2 /\ Token(e, nextId')
  BY <1>1, <1>4, <1>5 DEF Token, Root
<1>7. DOMAIN executions' = {Root} /\ executions'[Root] = e
  BY Zenon, <1>1, <1>4, <1>5 DEF Put, Over
<1>8. n # NoNode
  BY DEF IsDefinition
<1>9. RowsSound(executions', nextId')
  BY Zenon, <1>5, <1>6, <1>7 DEF RowsSound
<1>10. OpSound(executions', nextId', 1, [op |-> "continue", execution |-> e])
  BY <1>5, <1>6, <1>7, <1>8 DEF OpSound
<1>11. AgendaSound(executions', nextId', agenda') /\ Queued(agenda', Root)
  BY <1>4, <1>5, <1>10, OneOperation
<1>12. /\ DOMAIN tasks = {} /\ jobs = {} /\ DOMAIN waits = {}
  BY Zenon, <1>1 DEF WorkSound
<1>13. WorkSound(executions', tasks', jobs', waits', nextId')
  BY Zenon, <1>4, <1>12 DEF WorkSound
<1>14. AgreeOutside({Root})
  BY <1>7 DEF AgreeOutside
<1>15. WorkInside({Root})
  <2>1. Idle(tasks', jobs', waits', Root)
    BY <1>4, <1>12 DEF Idle, HasTask, HasJob
  <2>. QED
    BY Zenon, <1>11, <2>1, IdleRow DEF WorkInside
<1>16. InstanceSound(executions', instance', agenda') /\ instance' # "none"
  BY <1>4, <1>5, <1>7, <1>8 DEF InstanceSound, Live
<1>. QED
  BY <1>6, <1>9, <1>11, <1>13, <1>14, <1>15, <1>16, StepSound

\* The commit forgets how a token was resumed.
LEMMA CommitSound ==
    ASSUME SoundNow, Commit
    PROVE  SoundNext
<1>1. /\ agenda = << >> /\ UNCHANGED <<tasks, jobs, waits, instance, nextId, agenda>>
      /\ DOMAIN executions' = DOMAIN executions
      /\ \A i \in DOMAIN executions : executions'[i] = [executions[i] EXCEPT !.resumed = {}]
  BY Zenon DEF Commit, events
<1>2. /\ RowsSound(executions, nextId) /\ AgendaSound(executions, nextId, agenda)
      /\ WorkSound(executions, tasks, jobs, waits, nextId)
      /\ InstanceSound(executions, instance, agenda)
      /\ nextId \in Nat \ {0} /\ (instance = "none" => nextId = Root)
      /\ \A i \in DOMAIN executions : RowWork(executions[i], tasks, jobs, waits, agenda, i)
  BY DEF SoundNow, Sound
<1>3. ASSUME NEW i \in DOMAIN executions
      PROVE  /\ Same(executions[i], executions'[i])
             /\ executions'[i].active = executions[i].active
             /\ executions'[i].ended = executions[i].ended
             /\ executions'[i].activity = executions[i].activity
             /\ executions'[i].concurrent = executions[i].concurrent
  <2>1. executions[i] \in Execution
    BY Zenon, <1>2 DEF RowsSound, Token
  <2>. QED
    BY <1>1, <2>1 DEF Same, Execution
<1>4. RowsSound(executions', nextId')
  <2>1. ASSUME NEW i \in DOMAIN executions
        PROVE  Token(executions'[i], nextId) /\ executions'[i].id = i
    <3>1. Token(executions[i], nextId) /\ executions[i].id = i
      BY Zenon, <1>2 DEF RowsSound
    <3>2. Same(executions[i], executions'[i])
      BY <1>3
    <3>. QED
      BY Zenon, <3>1, <3>2, SameToken DEF Same
  <2>. QED
    BY <1>1, <1>2, <1>3, <2>1 DEF RowsSound
<1>5. AgendaSound(executions', nextId', agenda')
  BY <1>1, <1>2 DEF AgendaSound, OneEach
<1>6. WorkSound(executions', tasks', jobs', waits', nextId')
  BY Zenon, <1>1, <1>2 DEF WorkSound
<1>7. ASSUME NEW i \in DOMAIN executions
      PROVE  RowWork(executions'[i], tasks', jobs', waits', agenda', i)
  <2>. DEFINE e == executions[i]
              f == executions'[i]
  <2>1. /\ f.active = e.active /\ f.ended = e.ended /\ f.activity = e.activity
        /\ f.concurrent = e.concurrent
    BY Zenon, <1>3
  <2>2. RowWork(e, tasks, jobs, waits, agenda, i)
    BY <1>2
  <2>. HIDE DEF e, f
  <2>3. \A kinds : Waiting(f, kinds) <=> Waiting(e, kinds)
    BY Zenon, <2>1 DEF Waiting
  <2>4. AtJoin(f) <=> AtJoin(e)
    BY <2>1 DEF AtJoin
  <2>5. TaskSound(f, tasks, jobs, agenda, i)
    BY Zenon, <2>1, <2>2, <2>3 DEF RowWork, TaskSound
  <2>6. JobsSound(f, jobs, agenda, i)
    BY <2>1, <2>2, <2>3 DEF RowWork, JobsSound, JobSound
  <2>7. WaitSound(f, waits, agenda, i)
    BY Zenon, <2>1, <2>2, <2>3 DEF RowWork, WaitSound
  <2>8. RowWork(f, tasks, jobs, waits, agenda, i)
    BY <2>1, <2>2, <2>4, <2>5, <2>6, <2>7 DEF RowWork
  <2>. QED
    BY Zenon, <1>1, <2>8 DEF f
<1>8. InstanceSound(executions', instance', agenda')
  <2>1. \A i \in DOMAIN executions : Live(executions', agenda, i) <=> Live(executions, agenda, i)
    BY <1>3 DEF Live
  <2>. QED
    BY Zenon, <1>1, <1>2, <2>1 DEF InstanceSound
<1>. QED
  BY <1>1, <1>2, <1>4, <1>5, <1>6, <1>7, <1>8 DEF SoundNext, Sound

-----------------------------------------------------------------------------
(* The invariant.                                                          *)

LEMMA PlainInit ==
    Plain /\ Init => IInv
<1>. SUFFICES ASSUME Plain, Init PROVE IInv
  OBVIOUS
<1>1. IsDefinition(pd)
  BY Zenon, DefinitionsAssumption DEF Init
<1>2. /\ DOMAIN executions = {} /\ DOMAIN tasks = {} /\ jobs = {} /\ DOMAIN waits = {}
      /\ instance = "none" /\ nextId = Root /\ agenda = << >>
      /\ DOMAIN boundaries = {} /\ subscriptions = {}
  BY DEF Init
<1>3. /\ executions = committed.executions /\ tasks = committed.tasks
      /\ jobs = committed.jobs /\ waits = committed.waits
      /\ instance = committed.instance /\ nextId = committed.nextId
      /\ DOMAIN committed.boundaries = {} /\ committed.subscriptions = {}
  BY DEF Init
<1>4. Sound(executions, tasks, jobs, waits, instance, nextId, agenda)
  BY <1>2 DEF Sound, RowsSound, AgendaSound, OneEach, WorkSound, InstanceSound, Root
<1>5. Sound(committed.executions, committed.tasks, committed.jobs, committed.waits,
            committed.instance, committed.nextId, << >>)
  BY Zenon, <1>2, <1>3, <1>4
<1>6. NoEvents /\ RestSound
  BY Zenon, <1>2, <1>3 DEF NoEvents, RestSound, Init
<1>7. ReadersSound
  BY Zenon DEF ReadersSound, Init
<1>. QED
  BY <1>1, <1>4, <1>5, <1>6, <1>7 DEF IInv

TasksGrow == \A t \in DOMAIN tasks : t \in DOMAIN tasks' /\ tasks'[t] = tasks[t]

LEMMA SamePlain ==
    ASSUME pd' = pd, IsDefinition(pd), Plain
    PROVE  IsDefinition(pd)' /\ Plain'
BY ZenonT(30) DEF Plain, IsDefinition, Nodes, Kind, Incoming

\* A step within a command, or one that begins a command.
LEMMA RunningStep ==
    ASSUME IInv, SoundNext, inCommand' = TRUE, UNCHANGED <<pd, committed, reading>>, TasksGrow,
           DOMAIN boundaries' = {}, subscriptions' = {}
    PROVE  IInv'
<1>1. IsDefinition(pd)' /\ Plain'
  BY Zenon, SamePlain DEF IInv
<1>2. Sound(executions, tasks, jobs, waits, instance, nextId, agenda)'
  BY Zenon, SamePd DEF SoundNext
<1>3. Sound(committed.executions, committed.tasks, committed.jobs, committed.waits,
            committed.instance, committed.nextId, << >>)'
  BY Zenon, SamePd DEF IInv
<1>4. NoEvents' /\ RestSound'
  BY Zenon DEF IInv, NoEvents, RestSound
<1>5. ReadersSound'
  <2>1. ReadersSound
    BY Zenon DEF IInv
  <2>2. reading' = [c \in Clients |-> reading'[c]]
    BY Zenon, <2>1 DEF ReadersSound
  <2>3. ASSUME NEW c \in Clients, reading'[c] # << >>
        PROVE  \E t \in DOMAIN tasks' \cap DOMAIN committed'.tasks :
                  reading'[c] = <<t, tasks'[t]>> /\ tasks'[t] = committed'.tasks[t]
    <3>1. PICK t \in DOMAIN tasks \cap DOMAIN committed.tasks :
                  reading[c] = <<t, tasks[t]>> /\ tasks[t] = committed.tasks[t]
      BY <2>1, <2>3 DEF ReadersSound
    <3>. QED
      BY Zenon, <3>1 DEF TasksGrow
  <2>4. \A b, c \in Clients : reading'[c] # << >> /\ reading'[b] = reading'[c] => b = c
    BY Zenon, <2>1 DEF ReadersSound
  <2>. QED
    BY <2>2, <2>3, <2>4 DEF ReadersSound
<1>. QED
  BY <1>1, <1>2, <1>3, <1>4, <1>5 DEF IInv

LEMMA RollbackStep ==
    ASSUME IInv, Rollback
    PROVE  IInv'
<1>0. /\ pd' = pd /\ committed' = committed /\ reading' = reading
      /\ inCommand' = FALSE /\ agenda' = << >>
      /\ executions' = committed.executions /\ tasks' = committed.tasks
      /\ jobs' = committed.jobs /\ waits' = committed.waits
      /\ instance' = committed.instance /\ nextId' = committed.nextId
      /\ boundaries' = committed.boundaries /\ subscriptions' = committed.subscriptions
  BY Zenon DEF Rollback
<1>1. IsDefinition(pd)' /\ Plain'
  BY <1>0, SamePlain DEF IInv
<1>2. SoundNext
  BY Zenon, RollbackSound DEF IInv, SoundCommitted
<1>3. Sound(executions, tasks, jobs, waits, instance, nextId, agenda)'
  BY <1>0, <1>2, SamePd DEF SoundNext
<1>4. Sound(committed.executions, committed.tasks, committed.jobs, committed.waits,
            committed.instance, committed.nextId, << >>)'
  BY Zenon, <1>0, SamePd DEF IInv
<1>5. NoEvents' /\ RestSound'
  BY Zenon, <1>0 DEF IInv, NoEvents, RestSound
<1>6. ReadersSound'
  <2>1. ReadersSound
    BY DEF IInv
  <2>2. ASSUME NEW c \in Clients, reading'[c] # << >>
        PROVE  \E t \in DOMAIN tasks' \cap DOMAIN committed'.tasks :
                  reading'[c] = <<t, tasks'[t]>> /\ tasks'[t] = committed'.tasks[t]
    <3>1. PICK t \in DOMAIN tasks \cap DOMAIN committed.tasks :
                  reading[c] = <<t, tasks[t]>> /\ tasks[t] = committed.tasks[t]
      BY <1>0, <2>1, <2>2 DEF ReadersSound
    <3>. QED
      BY Zenon, <1>0, <3>1
  <2>. QED
    BY Zenon, <1>0, <2>1, <2>2 DEF ReadersSound
<1>. QED
  BY <1>1, <1>3, <1>4, <1>5, <1>6 DEF IInv

LEMMA CommitStep ==
    ASSUME IInv, Commit
    PROVE  IInv'
<1>0. /\ pd' = pd /\ reading' = reading /\ inCommand' = FALSE /\ agenda = << >>
      /\ UNCHANGED <<tasks, jobs, waits, instance, nextId, agenda, boundaries, subscriptions>>
      /\ committed'.executions = executions' /\ committed'.tasks = tasks
      /\ committed'.jobs = jobs /\ committed'.waits = waits
      /\ committed'.instance = instance /\ committed'.nextId = nextId
      /\ committed'.boundaries = boundaries /\ committed'.subscriptions = subscriptions
  BY Zenon DEF Commit, events
<1>1. IsDefinition(pd)' /\ Plain'
  BY <1>0, SamePlain DEF IInv
<1>2. SoundNext
  BY Zenon, CommitSound DEF IInv, SoundNow
<1>3. Sound(executions, tasks, jobs, waits, instance, nextId, agenda)'
  BY <1>0, <1>2, SamePd DEF SoundNext
<1>4. Sound(committed'.executions, committed'.tasks, committed'.jobs, committed'.waits,
            committed'.instance, committed'.nextId, << >>)
  BY Zenon, <1>0, <1>2 DEF SoundNext
<1>5. Sound(committed.executions, committed.tasks, committed.jobs, committed.waits,
            committed.instance, committed.nextId, << >>)'
  BY <1>0, <1>4, SamePd
<1>6. NoEvents' /\ RestSound'
  BY Zenon, <1>0 DEF IInv, NoEvents, RestSound
<1>7. ReadersSound'
  <2>1. ReadersSound
    BY Zenon DEF IInv
  <2>2. ASSUME NEW c \in Clients, reading'[c] # << >>
        PROVE  \E t \in DOMAIN tasks' \cap DOMAIN committed'.tasks :
                  reading'[c] = <<t, tasks'[t]>> /\ tasks'[t] = committed'.tasks[t]
    <3>1. PICK t \in DOMAIN tasks \cap DOMAIN committed.tasks :
                  reading[c] = <<t, tasks[t]>> /\ tasks[t] = committed.tasks[t]
      BY <1>0, <2>1, <2>2 DEF ReadersSound
    <3>. QED
      BY Zenon, <1>0, <3>1
  <2>. QED
    BY <1>0, <2>1, <2>2 DEF ReadersSound
<1>. QED
  BY Zenon, <1>1, <1>3, <1>5, <1>6, <1>7 DEF IInv

LEMMA ReadTaskStep ==
    ASSUME IInv, ~SameTaskRace, NEW c \in Clients, ReadTask(c)
    PROVE  IInv'
<1>0. /\ pd' = pd /\ committed' = committed /\ inCommand' = inCommand /\ ~inCommand
      /\ UNCHANGED <<executions, tasks, jobs, waits, instance, nextId, agenda>>
      /\ UNCHANGED <<boundaries, subscriptions>>
  BY DEF ReadTask, rows, events
<1>1. IsDefinition(pd)' /\ Plain'
  BY Zenon, <1>0, SamePlain DEF IInv
<1>2. SoundNext
  BY <1>0 DEF IInv, SoundNext
<1>3. Sound(executions, tasks, jobs, waits, instance, nextId, agenda)'
  BY Zenon, <1>0, <1>2, SamePd DEF SoundNext
<1>4. Sound(committed.executions, committed.tasks, committed.jobs, committed.waits,
            committed.instance, committed.nextId, << >>)'
  BY <1>0, SamePd DEF IInv
<1>5. NoEvents' /\ RestSound'
  BY Zenon, <1>0 DEF IInv, NoEvents, RestSound
<1>6. ReadersSound'
  <2>1. ReadersSound /\ tasks = committed.tasks
    BY Zenon, <1>0 DEF IInv, RestSound
  <2>2. PICK t \in DOMAIN tasks : /\ \A b \in Clients : reading[b] # <<t, tasks[t]>>
                                  /\ reading' = [reading EXCEPT ![c] = <<t, tasks[t]>>]
    BY Zenon DEF ReadTask
  <2>3. /\ reading = [b \in Clients |-> reading[b]] /\ reading'[c] = <<t, tasks[t]>>
        /\ reading' = [b \in Clients |-> reading'[b]]
        /\ \A b \in Clients \ {c} : reading'[b] = reading[b]
    BY Zenon, <2>1, <2>2 DEF ReadersSound
  <2>4. ASSUME NEW b \in Clients, reading'[b] # << >>
        PROVE  \E u \in DOMAIN tasks' \cap DOMAIN committed'.tasks :
                  reading'[b] = <<u, tasks'[u]>> /\ tasks'[u] = committed'.tasks[u]
    <3>1. CASE b = c
      BY <1>0, <2>1, <2>3, <3>1
    <3>2. CASE b # c
      <4>1. PICK u \in DOMAIN tasks \cap DOMAIN committed.tasks :
                    reading[b] = <<u, tasks[u]>> /\ tasks[u] = committed.tasks[u]
        BY <2>1, <2>3, <2>4, <3>2 DEF ReadersSound
      <4>. QED
        BY <1>0, <2>3, <3>2, <4>1
    <3>. QED
      BY <3>1, <3>2
  <2>5. \A a, b \in Clients : reading'[b] # << >> /\ reading'[a] = reading'[b] => a = b
    BY <2>1, <2>2, <2>3 DEF ReadersSound
  <2>. QED
    BY <1>0, <2>3, <2>4, <2>5 DEF ReadersSound
<1>. QED
  BY <1>1, <1>3, <1>4, <1>5, <1>6 DEF IInv

LEMMA CompleteTaskStep ==
    ASSUME IInv, NEW c \in Clients, CompleteTask(c)
    PROVE  IInv'
<1>1. /\ reading[c] # << >> /\ ~inCommand /\ inCommand' = TRUE
      /\ reading' = [reading EXCEPT ![c] = << >>]
      /\ UNCHANGED <<pd, instance, committed>>
  BY Zenon DEF CompleteTask, BeginCommand
<1>2. ReadersSound /\ tasks = committed.tasks /\ agenda = << >>
  BY Zenon, <1>1 DEF IInv, RestSound
<1>3. PICK t \in DOMAIN tasks : reading[c] = <<t, tasks[t]>>
  BY <1>1, <1>2 DEF ReadersSound
<1>4. SoundNow
  BY Zenon DEF IInv, SoundNow
<1>5. ~IsInstance(tasks[t])
  <2>1. \A p \in DOMAIN executions : ~executions[p].multi
    BY Zenon, <1>4 DEF SoundNow, Sound, RowsSound, Token
  <2>. QED
    BY <2>1 DEF IsInstance
<1>6. LeaveTask(tasks[t], t)
  BY <1>3, <1>5 DEF CompleteTask
<1>7. SoundNext
  BY <1>1, <1>2, <1>4, <1>6, LeaveTaskSound
<1>8. tasks' = Without(tasks, {t}) /\ StripEvents({tasks[t]}) /\ subscriptions' = subscriptions
  BY Zenon, <1>6 DEF LeaveTask
<1>9. DOMAIN boundaries' = {} /\ subscriptions' = {}
  BY <1>8 DEF StripEvents, Without, IInv, NoEvents
<1>10. IsDefinition(pd)' /\ Plain'
  BY Zenon, <1>1, SamePlain DEF IInv
<1>11. Sound(executions, tasks, jobs, waits, instance, nextId, agenda)'
  BY <1>1, <1>7, SamePd DEF SoundNext
<1>12. Sound(committed.executions, committed.tasks, committed.jobs, committed.waits,
             committed.instance, committed.nextId, << >>)'
  BY Zenon, <1>1, SamePd DEF IInv
<1>13. NoEvents' /\ RestSound'
  BY <1>1, <1>9 DEF IInv, NoEvents, RestSound
<1>14. ReadersSound'
  <2>1. /\ reading = [b \in Clients |-> reading[b]] /\ reading'[c] = << >>
        /\ reading' = [b \in Clients |-> reading'[b]]
        /\ \A b \in Clients \ {c} : reading'[b] = reading[b]
    BY <1>1, <1>2 DEF ReadersSound
  <2>2. ASSUME NEW b \in Clients, reading'[b] # << >>
        PROVE  \E u \in DOMAIN tasks' \cap DOMAIN committed'.tasks :
                  reading'[b] = <<u, tasks'[u]>> /\ tasks'[u] = committed'.tasks[u]
    <3>1. b # c /\ reading[b] # << >> /\ reading'[b] = reading[b]
      BY <2>1, <2>2
    <3>2. PICK u \in DOMAIN tasks \cap DOMAIN committed.tasks :
                  reading[b] = <<u, tasks[u]>> /\ tasks[u] = committed.tasks[u]
      BY Zenon, <1>2, <3>1 DEF ReadersSound
    <3>3. u # t
      BY <1>1, <1>2, <1>3, <3>1, <3>2 DEF ReadersSound
    <3>4. u \in DOMAIN tasks' /\ tasks'[u] = tasks[u]
      BY Zenon, <1>8, <3>2, <3>3 DEF Without
    <3>. QED
      BY <1>1, <3>1, <3>2, <3>4
  <2>3. \A a, b \in Clients : reading'[b] # << >> /\ reading'[a] = reading'[b] => a = b
    BY <1>2, <2>1 DEF ReadersSound
  <2>. QED
    BY <1>1, <2>1, <2>2, <2>3 DEF ReadersSound
<1>. QED
  BY <1>10, <1>11, <1>12, <1>13, <1>14 DEF IInv

\* The token of an operation is at a node of a plain process.
LEMMA EnteringPlain ==
    ASSUME IInv, agenda # << >>
    PROVE  LET n == Head(agenda).execution.activity IN
           /\ Entering.activity = n /\ Leaving.activity = n /\ n # NoNode
           /\ Entering.id = Head(agenda).execution.id
           /\ Kind(n) \in Steps \cup {"exclusive", "parallel", "inclusive", "end"}
           /\ pd.loop[n] = "none" /\ pd.attached[n] = NoNode
           /\ Kind(n) = "inclusive" => Incoming(n) \in {0, 1}
           /\ ~Entering.aside
           /\ Entering.id \in DOMAIN executions => ~EndsScope
<1>1. SoundNow /\ Plain
  BY DEF IInv, SoundNow
<1>2. PICK e : e = Head(agenda).execution
  BY Zenon
<1>3. /\ Token(e, nextId) /\ e \in Execution /\ e.activity \in Nodes /\ e.activity # NoNode
      /\ e.id \in DOMAIN executions => executions[e.id].activity = e.activity
  BY <1>1, <1>2, HeadOp
<1>4. /\ Entering.activity = e.activity /\ Entering.id = e.id /\ Entering.parent = e.parent
      /\ Entering.aside = e.aside /\ Leaving.activity = e.activity
  BY Zenon, <1>2, <1>3 DEF Entering, Leaving, Execution
<1>5. /\ Kind(e.activity) \in Steps \cup {"exclusive", "parallel", "inclusive", "end"}
      /\ pd.loop[e.activity] = "none" /\ pd.attached[e.activity] = NoNode
      /\ Kind(e.activity) = "inclusive" => Incoming(e.activity) \in {0, 1}
  BY Zenon, <1>1, <1>3 DEF Plain
<1>6. ASSUME Entering.id \in DOMAIN executions, EndsScope
      PROVE  FALSE
  <2>1. e.parent \in DOMAIN executions /\ executions[e.parent].activity # NoNode
    BY <1>4, <1>6 DEF EndsScope
  <2>2. RowsSound(executions, nextId)
    BY Zenon, <1>1 DEF SoundNow, Sound
  <2>3. NoId \notin DOMAIN executions
    BY <2>2 DEF RowsSound, Token, NoId
  <2>4. e.id # Root /\ e.parent = Root
    BY <1>3, <2>1, <2>3 DEF Token
  <2>. QED
    BY <1>4, <1>6, <2>1, <2>2, <2>4 DEF RowsSound
<1>. QED
  BY <1>2, <1>3, <1>4, <1>5, <1>6 DEF Token

\* What a plain process does not have.
Others ==
    \/ SubProcess \/ ScheduleAsyncAfter
    \/ MultiInstanceAtOnce \/ MultiInstanceUserTask \/ MultiInstanceSubProcess
    \/ BoundaryEvent \/ EventBasedGateway \/ InclusiveJoinWaits \/ InclusiveJoin
    \/ AsideEnds \/ InstanceEnds \/ SubProcessEnds
    \/ TerminateInstance \/ TerminateSubProcess \/ TerminateProcessInstance
    \/ TakeNowhere

LEMMA NoOthers ==
    ASSUME IInv
    PROVE  ~Others
<1>. SUFFICES ASSUME Others PROVE FALSE
  OBVIOUS
<1>0. agenda # << >>
  BY Zenon DEF Others, SubProcess, ScheduleAsyncAfter, MultiInstanceAtOnce, MultiInstanceUserTask,
         MultiInstanceSubProcess, MultiInstanceWaits, BoundaryEvent, EventBasedGateway,
         InclusiveJoinWaits, InclusiveJoin, AsideEnds, InstanceEnds, SubProcessEnds, Ends,
         TerminateInstance, TerminateSubProcess, TerminateProcessInstance, TakeNowhere,
         Runs, RunsMulti, Popped
<1>1. PICK n : n = Head(agenda).execution.activity
  OBVIOUS
<1>2. /\ Entering.activity = n /\ Leaving.activity = n /\ n # NoNode
      /\ Kind(n) \in Steps \cup {"exclusive", "parallel", "inclusive", "end"}
      /\ pd.loop[n] = "none"
      /\ Kind(n) = "inclusive" => Incoming(n) \in {0, 1}
      /\ ~Entering.aside
      /\ Entering.id \in DOMAIN executions => ~EndsScope
  BY <1>0, <1>1, EnteringPlain
<1>3. ~Multi(Entering.activity) /\ pd.asyncAfter = {}
  BY <1>2 DEF Multi, IInv, Plain
<1>4. ~SubProcess /\ ~BoundaryEvent /\ ~EventBasedGateway
  BY Zenon, <1>2 DEF SubProcess, BoundaryEvent, EventBasedGateway, Runs, Steps
<1>5. ~ScheduleAsyncAfter
  BY <1>3 DEF ScheduleAsyncAfter, LeavesByJob
<1>6. ~MultiInstanceAtOnce /\ ~MultiInstanceUserTask /\ ~MultiInstanceSubProcess
  BY Zenon, <1>3 DEF MultiInstanceAtOnce, MultiInstanceUserTask, MultiInstanceSubProcess,
              MultiInstanceWaits, RunsMulti
<1>7. ~InclusiveJoinWaits /\ ~InclusiveJoin
  BY <1>2 DEF InclusiveJoinWaits, InclusiveJoin, Runs
<1>8. ~AsideEnds /\ ~InstanceEnds /\ ~SubProcessEnds
  BY Zenon, <1>2 DEF AsideEnds, InstanceEnds, SubProcessEnds, Ends, Runs
<1>9. ~TerminateInstance /\ ~TerminateSubProcess /\ ~TerminateProcessInstance
  BY Zenon, <1>2 DEF TerminateInstance, TerminateSubProcess, TerminateProcessInstance, Runs, Steps
<1>10. ~TakeNowhere
  BY <1>2 DEF TakeNowhere
<1>. QED
  BY Zenon, <1>4, <1>5, <1>6, <1>7, <1>8, <1>9, <1>10 DEF Others

=============================================================================
