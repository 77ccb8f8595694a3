------------------------- MODULE ExternalWorkerProof -------------------------
(***************************************************************************)
(* Proofs about the external-worker commands, for any number of jobs,      *)
(* workers and requests, any lock duration and any number of retries: the  *)
(* inductive invariant and the invariants that follow from it, what a step *)
(* may not do, and that the commands implement the contract of LeasedWork. *)
(***************************************************************************)
EXTENDS ExternalWorker, TLAPS

USE ConstantsAssumption, NullsAssumption

Reports == {"complete", "error", "fail", "unlock"}

\* What a request has read said so much when it read it: a report was loaded for
\* the owner of the lock, a fetch selected waiting rows with no live lock, and a
\* reset rows whose lock lapsed.
ReadWasRight ==
    \A c \in Clients : request[c] # Idle =>
      LET r == request[c]
      IN  /\ \A j \in Read(r) :
               r.rows[j].state = "deadletter" => r.rows[j].owner = Nobody
          /\ r.op = "fetch" =>
               /\ r.worker \in Workers
               /\ \A j \in Read(r) :
                    /\ r.rows[j].state = "timer"
                    /\ r.rows[j].owner = Nobody \/ r.rows[j].expires <= now
          /\ r.op \in Reports =>
               /\ r.worker \in Workers
               /\ \E j \in Jobs : Read(r) = {j} /\ r.rows[j].owner = r.worker
          /\ r.op = "reset" =>
               \A j \in Read(r) : r.rows[j].owner # Nobody /\ r.rows[j].expires < now

\* A dead-letter row has no lock.
DeadUnlocked ==
    \A j \in Jobs : jobs[j] # NoRow /\ jobs[j].state = "deadletter"
                      => jobs[j].owner = Nobody

\* A report was accepted only for a token that is no longer at its task.
AcceptedLeft ==
    "complete" \notin windows =>
      \A j \in Jobs :
        accepted[j] <= IF at[j] \in {"next", "error", "beyond"} THEN 1 ELSE 0

IInv == TypeOK /\ RowWithToken /\ ReadWasRight /\ DeadUnlocked /\ AcceptedLeft

-----------------------------------------------------------------------------
(* Lemmas about rows and requests.                                         *)

\* A report has read the one row that its worker holds.
LEMMA ReportOwned ==
    ASSUME IInv, NEW c \in Clients, request[c] # Idle,
           request[c].op \in {"complete", "error", "fail", "unlock"}
    PROVE  /\ request[c].worker \in Workers
           /\ \E j \in Jobs : /\ Read(request[c]) = {j}
                               /\ request[c].rows[j].owner = request[c].worker
  BY DEF IInv, ReadWasRight, Reports

\* The rows the commands write are rows.
LEMMA RowsWritten ==
    ASSUME TypeOK, NEW c \in Clients, request[c] # Idle,
           NEW j \in Read(request[c])
    PROVE  /\ j \in Jobs
           /\ request[c].rows[j] \in Row
           /\ Unlocked(request[c].rows[j]) \in Row
           /\ request[c].worker \in Workers => Taken(request[c], j) \in Row
           /\ Failed(request[c], j) \in Row
<1> DEFINE r == request[c]
           o == r.rows[j]
<1>1. r \in Request
  BY DEF TypeOK
<1>2. j \in Jobs /\ o # NoRow /\ r.rows \in [Jobs -> Row \cup {NoRow}] /\ r.asked \in Nat
      /\ r.retries \in Int
  BY <1>1 DEF Read, Request
<1>3. o \in Row
  BY <1>2
<1>4. Unlocked(o) \in Row
  BY Zenon, <1>3 DEF Unlocked, Row
<1>5. r.worker \in Workers => Taken(r, j) \in Row
  <2>1. r.asked + LockDuration \in Nat
    BY <1>2
  <2> QED
    BY Zenon, <1>3, <2>1 DEF Taken, Row
<1>6. RetriesLeft(r, j) \in Nat
  BY <1>2, <1>3 DEF RetriesLeft, Row
<1>7. Failed(r, j) \in Row
  <2>1. r.asked + RetryDelay \in Nat
    BY <1>2
  <2> QED
    BY Zenon, <1>4, <1>6, <2>1 DEF Failed, Row
<1> QED
  BY <1>2, <1>3, <1>4, <1>5, <1>7

\* A request that was just opened is well-formed.
LEMMA OpenType ==
    ASSUME TypeOK, NEW c \in Clients, NEW op \in Operations,
           NEW w \in Workers \cup {Nobody}, NEW n \in Int, NEW S \in SUBSET Present,
           Open(c, op, w, n, S)
    PROVE  /\ TypeOK'
           /\ request'[c] # Idle
           /\ request'[c].op = op /\ request'[c].worker = w
           /\ Read(request'[c]) = S
           /\ \A j \in S : request'[c].rows[j] = jobs[j]
           /\ \A d \in Clients \ {c} : request'[d] = request[d]
<1> DEFINE q == [op |-> op, worker |-> w, retries |-> n,
                 asked |-> IF op \in {"fetch", "fail"} THEN now ELSE 0,
                 rows |-> [j \in Jobs |-> IF j \in S THEN jobs[j] ELSE NoRow]]
<1>1. q \in Request
  BY DEF TypeOK, Request, Present
<1>2. request' = [request EXCEPT ![c] = q] /\ UNCHANGED <<now, jobs, at, accepted, windows>>
  BY DEF Open
<1>3. TypeOK'
  BY <1>1, <1>2 DEF TypeOK
<1>4. request'[c] = q /\ \A d \in Clients \ {c} : request'[d] = request[d]
  BY <1>2 DEF TypeOK
<1>5. Read(q) = S /\ \A j \in S : q.rows[j] = jobs[j]
  BY Zenon DEF Read, Present
<1> HIDE DEF q
<1>6. q # Idle
  BY <1>1
<1>7. q.op = op /\ q.worker = w
  BY DEF q
<1> QED
  BY <1>3, <1>4, <1>5, <1>6, <1>7

\* Opening a request leaves the table, the tokens and the clock alone, so that only
\* what the new request has read has to be shown right.
LEMMA OpenKeeps ==
    ASSUME IInv, NEW c \in Clients, NEW op \in Operations,
           NEW w \in Workers \cup {Nobody}, NEW n \in Int, NEW S \in SUBSET Present,
           Open(c, op, w, n, S),
           op = "fetch" =>
             /\ w \in Workers
             /\ \A j \in S : /\ jobs[j].state = "timer"
                             /\ jobs[j].owner = Nobody \/ jobs[j].expires <= now,
           op \in Reports =>
             w \in Workers /\ \E j \in Jobs : S = {j} /\ jobs[j].owner = w,
           op = "reset" =>
             \A j \in S : jobs[j].owner # Nobody /\ jobs[j].expires < now
    PROVE  IInv'
<1>1. /\ TypeOK'
      /\ request'[c] # Idle
      /\ request'[c].op = op /\ request'[c].worker = w
      /\ Read(request'[c]) = S
      /\ \A j \in S : request'[c].rows[j] = jobs[j]
      /\ \A d \in Clients \ {c} : request'[d] = request[d]
  BY OpenType DEF IInv
<1>2. UNCHANGED <<now, jobs, at, accepted, windows>>
  BY DEF Open
<1>3. RowWithToken' /\ DeadUnlocked' /\ AcceptedLeft'
  BY <1>2 DEF IInv, RowWithToken, DeadUnlocked, AcceptedLeft, Present
<1>4. ReadWasRight'
  <2> SUFFICES ASSUME NEW d \in Clients, request'[d] # Idle
               PROVE  ReadWasRight!(d)'
    BY DEF ReadWasRight
  <2>1. CASE d = c
    <3>1. \A j \in S : jobs[j].state = "deadletter" => jobs[j].owner = Nobody
      BY DEF IInv, DeadUnlocked, Present
    <3> QED
      BY <1>1, <1>2, <2>1, <3>1
  <2>2. CASE d # c
    BY <1>1, <1>2, <2>2 DEF IInv, ReadWasRight
  <2> QED
    BY <2>1, <2>2
<1> QED
  BY <1>1, <1>3, <1>4 DEF IInv

\* A request that is over takes nothing with it.
LEMMA CloseKeeps ==
    ASSUME TypeOK, ReadWasRight, NEW c \in Clients, Close(c), now' = now
    PROVE  request' \in [Clients -> Request \cup {Idle}] /\ ReadWasRight'
<1>1. request' \in [Clients -> Request \cup {Idle}]
  BY DEF TypeOK, Close
<1>2. \A d \in Clients : request'[d] # Idle => request'[d] = request[d]
  BY DEF TypeOK, Close
<1>3. ReadWasRight'
  BY <1>2 DEF ReadWasRight
<1> QED
  BY <1>1, <1>3

-----------------------------------------------------------------------------
(* The inductive invariant.                                                *)

LEMMA InitIInv == Init => IInv
  BY DEF Init, IInv, TypeOK, RowWithToken, ReadWasRight, DeadUnlocked, AcceptedLeft,
         Present, Places

LEMMA ReadsKeepIInv ==
    ASSUME IInv, NEW c \in Clients,
           \/ \E w \in Workers : FetchRead(c, w)
           \/ \E w \in Workers, j \in Jobs : LoadRead(c, w, j) \/ FailRead(c, w, j)
           \/ ResetRead(c)
    PROVE  IInv'
<1>1. ASSUME NEW w \in Workers, FetchRead(c, w) PROVE IInv'
  <2>1. PICK S \in SUBSET Present :
             /\ \A j \in S : Candidate(j)
             /\ Open(c, "fetch", w, 0, S)
    BY <1>1 DEF FetchRead
  <2> QED
    BY <2>1, OpenKeeps DEF Candidate, Operations, Reports
<1>2. ASSUME NEW w \in Workers, NEW j \in Jobs, LoadRead(c, w, j) PROVE IInv'
  <2>1. PICK op \in {"complete", "error", "unlock"} : Open(c, op, w, 0, {j})
    BY <1>2 DEF LoadRead
  <2>2. {j} \in SUBSET Present /\ jobs[j].owner = w
    BY <1>2 DEF LoadRead, Loadable
  <2> QED
    BY <2>1, <2>2, OpenKeeps DEF Operations, Reports
<1>3. ASSUME NEW w \in Workers, NEW j \in Jobs, FailRead(c, w, j) PROVE IInv'
  <2>1. PICK n \in {-1, 0} \cup 1..Retries : Open(c, "fail", w, n, {j})
    BY <1>3 DEF FailRead
  <2>2. {j} \in SUBSET Present /\ jobs[j].owner = w
    BY <1>3 DEF FailRead, Loadable
  <2>3. n \in Int
    OBVIOUS
  <2> QED
    BY <2>1, <2>2, <2>3, OpenKeeps DEF Operations, Reports
<1>4. CASE ResetRead(c)
  <2>1. PICK S \in SUBSET Present :
             /\ \A j \in S : jobs[j].owner # Nobody /\ jobs[j].expires < now
             /\ Open(c, "reset", Nobody, 0, S)
    BY <1>4 DEF ResetRead
  <2> QED
    BY <2>1, OpenKeeps DEF Operations, Reports
<1> QED
  BY <1>1, <1>2, <1>3, <1>4

\* The commands that end with a row for every row they found: fetch, fail, unlock
\* and reset.  Only the type of the new rows and the lock of dead ones is at stake.
LEMMA RewriteKeeps ==
    ASSUME IInv, NEW c \in Clients, Close(c),
           UNCHANGED <<now, at, accepted, windows>>,
           jobs' \in [Jobs -> Row \cup {NoRow}],
           \A j \in Jobs : jobs'[j] = NoRow <=> jobs[j] = NoRow,
           \A j \in Jobs : jobs'[j] # NoRow /\ jobs'[j] # jobs[j]
             => (jobs'[j].state = "deadletter" => jobs'[j].owner = Nobody)
    PROVE  IInv'
<1>1. TypeOK'
  BY CloseKeeps DEF IInv, TypeOK
<1>2. RowWithToken' /\ AcceptedLeft'
  BY DEF IInv, RowWithToken, AcceptedLeft, Present
<1>3. ReadWasRight'
  BY CloseKeeps DEF IInv
<1>4. DeadUnlocked'
  BY DEF IInv, DeadUnlocked
<1> QED
  BY <1>1, <1>2, <1>3, <1>4 DEF IInv

LEMMA FetchKeepsIInv ==
    ASSUME IInv, NEW c \in Clients, FetchWrite(c)
    PROVE  IInv'
<1> DEFINE r == request[c]
           won == {j \in Read(r) : SameLock(r, j)}
<1>1. r # Idle /\ r.op = "fetch" /\ Close(c) /\ UNCHANGED <<now, at, accepted, windows>>
  BY DEF FetchWrite
<1>2. jobs' = [j \in Jobs |-> IF j \in won THEN Taken(r, j) ELSE jobs[j]]
  BY DEF FetchWrite
<1>3. r.worker \in Workers /\ \A j \in Read(r) : r.rows[j].state = "timer"
  BY <1>1 DEF IInv, ReadWasRight
<1>4. \A j \in won : j \in Jobs /\ Taken(r, j) \in Row /\ jobs[j] # NoRow
                     /\ r.rows[j] \in Row
  BY <1>1, <1>3, RowsWritten DEF IInv, SameLock, Present
<1>5. \A j \in won : Taken(r, j).state = "timer"
  BY Zenon, <1>3, <1>4 DEF Taken, Row
<1>6. jobs \in [Jobs -> Row \cup {NoRow}]
  BY DEF IInv, TypeOK
<1> HIDE DEF won
<1>7. \A j \in Jobs : jobs'[j] = NoRow <=> jobs[j] = NoRow
  BY <1>2, <1>4
<1>8. \A j \in Jobs : jobs'[j] # NoRow /\ jobs'[j] # jobs[j]
         => (jobs'[j].state = "deadletter" => jobs'[j].owner = Nobody)
  BY <1>2, <1>5
<1>9. jobs' \in [Jobs -> Row \cup {NoRow}]
  BY <1>2, <1>4, <1>6
<1> QED
  BY <1>1, <1>7, <1>8, <1>9, RewriteKeeps

LEMMA FailKeepsIInv ==
    ASSUME IInv, NEW c \in Clients, FailWrite(c)
    PROVE  IInv'
<1> DEFINE r == request[c]
<1>1. r # Idle /\ r.op = "fail" /\ Close(c) /\ UNCHANGED <<now, at, accepted, windows>>
  BY DEF FailWrite
<1>2. jobs' = [j \in Jobs |-> IF j \in Read(r) THEN Failed(r, j) ELSE jobs[j]]
  BY DEF FailWrite
<1>3. \A j \in Read(r) : j \in Jobs /\ Failed(r, j) \in Row /\ jobs[j] # NoRow
                         /\ r.rows[j] \in Row
  BY <1>1, RowsWritten DEF IInv, FailWrite, SameLock, Present
<1>4. \A j \in Read(r) : Failed(r, j).owner = Nobody
  BY Zenon, <1>3 DEF Failed, Unlocked, Row
<1>5. jobs \in [Jobs -> Row \cup {NoRow}]
  BY DEF IInv, TypeOK
<1>6. \A j \in Jobs : jobs'[j] = NoRow <=> jobs[j] = NoRow
  BY <1>2, <1>3
<1>7. \A j \in Jobs : jobs'[j] # NoRow /\ jobs'[j] # jobs[j]
         => (jobs'[j].state = "deadletter" => jobs'[j].owner = Nobody)
  BY <1>2, <1>4
<1>8. jobs' \in [Jobs -> Row \cup {NoRow}]
  BY <1>2, <1>3, <1>5
<1> QED
  BY <1>1, <1>6, <1>7, <1>8, RewriteKeeps

LEMMA UnlockKeepsIInv ==
    ASSUME IInv, NEW c \in Clients, UnlockWrite(c)
    PROVE  IInv'
<1> DEFINE r == request[c]
           won == {j \in Read(r) : SameLock(r, j)}
<1>1. r # Idle /\ Close(c) /\ UNCHANGED <<now, at, accepted, windows>>
  BY DEF UnlockWrite
<1>2. jobs' = [j \in Jobs |-> IF j \in won THEN Unlocked(r.rows[j]) ELSE jobs[j]]
  BY DEF UnlockWrite
<1>3. \A j \in won : j \in Jobs /\ Unlocked(r.rows[j]) \in Row /\ jobs[j] # NoRow
                     /\ r.rows[j] \in Row
  BY <1>1, RowsWritten DEF IInv, SameLock, Present
<1>4. \A j \in won : Unlocked(r.rows[j]).owner = Nobody
  BY Zenon, <1>3 DEF Unlocked, Row
<1>5. jobs \in [Jobs -> Row \cup {NoRow}]
  BY DEF IInv, TypeOK
<1> HIDE DEF won
<1>6. \A j \in Jobs : jobs'[j] = NoRow <=> jobs[j] = NoRow
  BY <1>2, <1>3
<1>7. \A j \in Jobs : jobs'[j] # NoRow /\ jobs'[j] # jobs[j]
         => (jobs'[j].state = "deadletter" => jobs'[j].owner = Nobody)
  BY <1>2, <1>4
<1>8. jobs' \in [Jobs -> Row \cup {NoRow}]
  BY <1>2, <1>3, <1>5
<1> QED
  BY <1>1, <1>6, <1>7, <1>8, RewriteKeeps

\* A report that is accepted moves the token off the task and deletes its row.
LEMMA EndKeepsIInv ==
    ASSUME IInv, NEW c \in Clients, CompleteWrite(c) \/ ErrorWrite(c)
    PROVE  IInv'
<1> DEFINE r == request[c]
<1>1. /\ r # Idle /\ Close(c) /\ UNCHANGED <<now, windows>>
      /\ MayWrite(r, "complete")
  BY DEF CompleteWrite, ErrorWrite
<1>2. PICK j \in Read(r), p \in {"next", "error", "beyond"} :
           /\ jobs' = [jobs EXCEPT ![j] = NoRow]
           /\ at' = [at EXCEPT ![j] = p]
           /\ accepted' = [accepted EXCEPT ![j] = @ + 1]
           /\ at[j] \in {"task", "next"}
  BY DEF CompleteWrite, ErrorWrite, Leave, Throw, Deleted
<1>3. j \in Jobs
  BY DEF Read
<1>4. TypeOK'
  BY <1>1, <1>2, <1>3, CloseKeeps DEF IInv, TypeOK, Places
<1>5. RowWithToken'
  BY <1>2, <1>3 DEF IInv, TypeOK, RowWithToken, Present
<1>6. DeadUnlocked'
  BY <1>2, <1>3 DEF IInv, TypeOK, DeadUnlocked
<1>7. ReadWasRight'
  BY <1>1, CloseKeeps DEF IInv
<1>8. AcceptedLeft'
  <2> SUFFICES ASSUME "complete" \notin windows', NEW k \in Jobs
               PROVE  accepted'[k] <= IF at'[k] \in {"next", "error", "beyond"} THEN 1 ELSE 0
    BY DEF AcceptedLeft
  <2>1. at[j] = "task"
    BY <1>1, <1>2, <1>3 DEF MayWrite, Current, IInv, RowWithToken
  <2>2. accepted[j] <= 0 /\ accepted[j] \in Nat
    BY <1>1, <1>3, <2>1 DEF IInv, AcceptedLeft, TypeOK
  <2>3. CASE k = j
    BY <1>2, <1>3, <2>2, <2>3 DEF IInv, TypeOK
  <2>4. CASE k # j
    BY <1>1, <1>2, <1>3, <2>4 DEF IInv, TypeOK, AcceptedLeft
  <2> QED
    BY <2>3, <2>4
<1> QED
  BY <1>4, <1>5, <1>6, <1>7, <1>8 DEF IInv

\* Steps of the rest of the engine, and of the clock.
LEMMA OthersKeepIInv ==
    ASSUME IInv, \/ \E j \in Jobs : Arrive(j) \/ Onward(j) \/ Cancel(j)
                 \/ \E c \in Clients : Refused(c)
                 \/ Tick
                 \/ UNCHANGED vars
    PROVE  IInv'
<1> USE DEF IInv
<1>1. ASSUME NEW j \in Jobs, Arrive(j) PROVE IInv'
  <2>1. NewRow \in Row /\ NewRow.state = "timer"
    BY DEF NewRow, Row, TypeOK
  <2>2. TypeOK'
    BY <1>1, <2>1 DEF Arrive, TypeOK, Places
  <2>3. RowWithToken'
    BY <1>1, <2>1 DEF Arrive, TypeOK, RowWithToken, Present
  <2>4. DeadUnlocked'
    BY <1>1, <2>1 DEF Arrive, TypeOK, DeadUnlocked
  <2>5. ReadWasRight'
    BY <1>1 DEF Arrive, ReadWasRight
  <2>6. AcceptedLeft'
    BY <1>1 DEF Arrive, TypeOK, AcceptedLeft
  <2> QED
    BY <2>2, <2>3, <2>4, <2>5, <2>6
<1>2. ASSUME NEW j \in Jobs, Onward(j) PROVE IInv'
  BY <1>2 DEF Onward, TypeOK, RowWithToken, Present, DeadUnlocked, ReadWasRight,
              AcceptedLeft, Places
<1>3. ASSUME NEW j \in Jobs, Cancel(j) PROVE IInv'
  <2>1. TypeOK'
    BY <1>3 DEF Cancel, Deleted, TypeOK, Places
  <2>2. RowWithToken' /\ DeadUnlocked'
    BY <1>3 DEF Cancel, Deleted, TypeOK, RowWithToken, Present, DeadUnlocked
  <2>3. ReadWasRight'
    BY Zenon, <1>3 DEF Cancel, ReadWasRight
  <2>4. AcceptedLeft'
    BY <1>3 DEF Cancel, TypeOK, AcceptedLeft
  <2> QED
    BY <2>1, <2>2, <2>3, <2>4
<1>4. ASSUME NEW c \in Clients, Refused(c) PROVE IInv'
  <2>1. UNCHANGED <<now, jobs, at, accepted, windows>> /\ Close(c)
    BY <1>4 DEF Refused
  <2> QED
    BY <2>1, CloseKeeps DEF TypeOK, RowWithToken, Present, DeadUnlocked, AcceptedLeft
<1>5. CASE Tick
  <2>1. now' \in Nat /\ now' >= now /\ now \in Nat
        /\ UNCHANGED <<jobs, at, request, accepted, windows>>
    BY <1>5 DEF Tick, TypeOK
  <2>2. TypeOK' /\ RowWithToken' /\ DeadUnlocked' /\ AcceptedLeft'
    BY <2>1 DEF TypeOK, RowWithToken, Present, DeadUnlocked, AcceptedLeft
  <2>3. ReadWasRight'
    <3> SUFFICES ASSUME NEW c \in Clients, request[c] # Idle
                 PROVE  ReadWasRight!(c)'
      BY <2>1 DEF ReadWasRight
    <3>1. \A j \in Read(request[c]) : request[c].rows[j].expires \in Nat
      BY RowsWritten DEF Row
    <3> QED
      BY <2>1, <3>1 DEF ReadWasRight
  <2> QED
    BY <2>2, <2>3
<1>6. CASE UNCHANGED vars
  BY <1>6 DEF vars, TypeOK, RowWithToken, Present, DeadUnlocked, ReadWasRight, AcceptedLeft
<1> QED
  BY <1>1, <1>2, <1>3, <1>4, <1>5, <1>6

\* The inductive invariant of the external-worker commands: beyond the type, a row
\* for every waiting token and no other, requests that read what their guards ask
\* for, dead rows without a lock, and no report accepted for a waiting token.
THEOREM ExternalWorkerInvariant == Spec => []IInv
<1>1. IInv /\ [Next]_vars => IInv'
  BY ReadsKeepIInv, FetchKeepsIInv, FailKeepsIInv, UnlockKeepsIInv, EndKeepsIInv,
     OthersKeepIInv DEF Next
<1> QED
  BY <1>1, InitIInv, PTL DEF Spec

\* Type correctness, and that rows and waiting tokens come and go together: both are
\* parts of the inductive invariant.
THEOREM ExternalWorkerSafe == Spec => [](TypeOK /\ RowWithToken)
  BY ExternalWorkerInvariant, PTL DEF IInv

\* With the completing window closed the engine says yes to one completion or error
\* per job, however many workers report one: the report it accepts moves the token
\* on, and the later ones find no row.
THEOREM ExternalWorkerAcceptedOnce == Spec => []AcceptedOnce
<1>1. IInv => AcceptedOnce
  <2> SUFFICES ASSUME IInv, "complete" \notin windows, NEW j \in Jobs
               PROVE  accepted[j] <= 1
    BY Zenon DEF AcceptedOnce
  <2>1. accepted[j] \in Nat
    BY DEF IInv, TypeOK
  <2>2. accepted[j] <= IF at[j] \in {"next", "error", "beyond"} THEN 1 ELSE 0
    BY DEF IInv, AcceptedLeft
  <2> QED
    BY <2>1, <2>2
<1> QED
  BY <1>1, ExternalWorkerInvariant, PTL

-----------------------------------------------------------------------------
(* What a step does to one row.                                            *)

\* A row changes because its token arrives, because its instance is cancelled, or
\* because of a request: a fetch or a reset that found the lock lapsed, or a report
\* of the worker that holds it.
LEMMA RowSteps ==
    ASSUME IInv, Next, NEW j \in Jobs, jobs'[j] # jobs[j]
    PROVE  \/ at[j] = "before"
           \/ jobs'[j] = NoRow /\ at'[j] = "cancelled"
           \/ \E c \in Clients :
                /\ request[c] # Idle /\ request'[c] = Idle
                /\ j \in Read(request[c])
                /\ \/ FetchWrite(c) /\ SameLock(request[c], j)
                                    /\ jobs'[j] = Taken(request[c], j)
                   \/ jobs'[j] = NoRow /\ MayWrite(request[c], "complete")
                                       /\ request[c].op \in Reports
                   \/ FailWrite(c) /\ SameLock(request[c], j)
                                   /\ jobs'[j] = Failed(request[c], j)
                   \/ UnlockWrite(c) /\ SameLock(request[c], j)
                                     /\ jobs'[j] = Unlocked(request[c].rows[j])
<1> DEFINE Goal == \/ at[j] = "before"
                   \/ jobs'[j] = NoRow /\ at'[j] = "cancelled"
                   \/ \E c \in Clients :
                        /\ request[c] # Idle /\ request'[c] = Idle
                        /\ j \in Read(request[c])
                        /\ \/ FetchWrite(c) /\ SameLock(request[c], j)
                                            /\ jobs'[j] = Taken(request[c], j)
                           \/ jobs'[j] = NoRow /\ MayWrite(request[c], "complete")
                                               /\ request[c].op \in Reports
                           \/ FailWrite(c) /\ SameLock(request[c], j)
                                           /\ jobs'[j] = Failed(request[c], j)
                           \/ UnlockWrite(c) /\ SameLock(request[c], j)
                                             /\ jobs'[j] = Unlocked(request[c].rows[j])
<1>1. /\ jobs \in [Jobs -> Row \cup {NoRow}]
      /\ at \in [Jobs -> Places]
      /\ request \in [Clients -> Request \cup {Idle}]
  BY DEF IInv, TypeOK
<1>2. \A c \in Clients : Close(c) => request'[c] = Idle
  BY <1>1 DEF Close
<1>3. ASSUME NEW k \in Jobs, Arrive(k) \/ Onward(k) \/ Cancel(k) PROVE Goal
  BY Zenon, <1>1, <1>3 DEF Arrive, Onward, Cancel, Deleted
<1>4. ASSUME NEW c \in Clients, FetchWrite(c) PROVE Goal
  <2>1. j \in Read(request[c]) /\ SameLock(request[c], j) /\ jobs'[j] = Taken(request[c], j)
    BY <1>1, <1>4 DEF FetchWrite
  <2> QED
    BY <1>2, <1>4, <2>1 DEF FetchWrite
<1>5. ASSUME NEW c \in Clients, CompleteWrite(c) \/ ErrorWrite(c) PROVE Goal
  <2>1. j \in Read(request[c]) /\ jobs'[j] = NoRow
    BY <1>1, <1>5 DEF CompleteWrite, ErrorWrite, Leave, Throw, Deleted
  <2>2. /\ request[c] # Idle /\ Close(c) /\ MayWrite(request[c], "complete")
        /\ request[c].op \in Reports
    BY <1>5 DEF CompleteWrite, ErrorWrite, Reports
  <2> QED
    BY <1>2, <2>1, <2>2
<1>6. ASSUME NEW c \in Clients, FailWrite(c) PROVE Goal
  <2>1. j \in Read(request[c]) /\ SameLock(request[c], j) /\ jobs'[j] = Failed(request[c], j)
    BY <1>1, <1>6 DEF FailWrite
  <2> QED
    BY <1>2, <1>6, <2>1 DEF FailWrite
<1>7. ASSUME NEW c \in Clients, UnlockWrite(c) PROVE Goal
  <2>1. j \in Read(request[c]) /\ SameLock(request[c], j)
        /\ jobs'[j] = Unlocked(request[c].rows[j])
    BY <1>1, <1>7 DEF UnlockWrite
  <2> QED
    BY <1>2, <1>7, <2>1 DEF UnlockWrite
<1>8. jobs' # jobs
  OBVIOUS
<1> QED
  BY Zenon, <1>3, <1>4, <1>5, <1>6, <1>7, <1>8
     DEF Next, FetchRead, LoadRead, FailRead, ResetRead, Open, Refused, Tick

\* No request of another worker, and no reset, changes a row under a live lock: the
\* conditional updates of fetch_and_lock, replace_timer_job_state_if_lock_matches
\* and compare_and_reset_expired_job_locks.
THEOREM LiveLockIsKept == Spec => LiveLockKept
<1> DEFINE Kept == \A j \in Present :
         LET held == jobs[j]
         IN  /\ "complete" \notin windows
             /\ held.owner # Nobody /\ held.expires > now
             /\ jobs'[j] # held
             => \/ at'[j] = "cancelled"
                \/ \E c \in Clients : /\ request[c] # Idle /\ request'[c] = Idle
                                      /\ request[c].worker = held.owner
<1>1. IInv /\ [Next]_vars => [Kept]_vars
  <2> SUFFICES ASSUME IInv, Next, NEW j \in Jobs, jobs[j] # NoRow,
                      "complete" \notin windows,
                      jobs[j].owner # Nobody, jobs[j].expires > now,
                      jobs'[j] # jobs[j], at'[j] # "cancelled"
               PROVE  \E c \in Clients : /\ request[c] # Idle /\ request'[c] = Idle
                                         /\ request[c].worker = jobs[j].owner
    BY DEF Present
  <2>1. at[j] = "task" /\ now \in Nat /\ jobs[j].expires \in Nat
    BY DEF IInv, RowWithToken, Present, TypeOK, Row
  <2>2. PICK c \in Clients :
           /\ request[c] # Idle /\ request'[c] = Idle
           /\ j \in Read(request[c])
           /\ \/ FetchWrite(c) /\ SameLock(request[c], j)
              \/ MayWrite(request[c], "complete") /\ request[c].op \in Reports
              \/ FailWrite(c) /\ SameLock(request[c], j)
              \/ UnlockWrite(c) /\ SameLock(request[c], j)
    BY <2>1, RowSteps
  <2>3. CASE FetchWrite(c) /\ SameLock(request[c], j)
    <3>1. /\ request[c].rows[j].owner = jobs[j].owner
          /\ request[c].rows[j].expires = jobs[j].expires
      BY <2>3 DEF SameLock
    <3>2. request[c].rows[j].owner = Nobody \/ request[c].rows[j].expires <= now
      BY <2>2, <2>3 DEF FetchWrite, IInv, ReadWasRight
    <3> QED
      BY <2>1, <3>1, <3>2
  <2>4. CASE MayWrite(request[c], "complete") /\ request[c].op \in Reports
    <3>1. jobs[j] = request[c].rows[j]
      BY <2>2, <2>4 DEF MayWrite, Current
    <3> QED
      BY Zenon, <2>2, <2>4, <3>1 DEF IInv, ReadWasRight
  <2>5. CASE FailWrite(c) /\ SameLock(request[c], j)
    <3>1. request[c].op = "fail" /\ jobs[j].owner = request[c].rows[j].owner
      BY <2>5 DEF FailWrite, SameLock
    <3> QED
      BY <2>2, <3>1, ReportOwned
  <2>6. CASE UnlockWrite(c) /\ SameLock(request[c], j)
    <3>1. /\ request[c].rows[j].owner = jobs[j].owner
          /\ request[c].rows[j].expires = jobs[j].expires
      BY <2>6 DEF SameLock
    <3>2. CASE request[c].op = "unlock"
      BY <2>2, <3>1, <3>2, ReportOwned
    <3>3. CASE request[c].op = "reset"
      BY <2>1, <2>2, <3>1, <3>3 DEF IInv, ReadWasRight
    <3> QED
      BY <2>6, <3>2, <3>3 DEF UnlockWrite
  <2> QED
    BY <2>2, <2>3, <2>4, <2>5, <2>6
<1> QED
  BY <1>1, ExternalWorkerInvariant, PTL DEF Spec, LiveLockKept

\* A dead-letter row is never alive again while no other command comes between
\* what a fetch reads and what it writes back.
THEOREM DeadLetterIsFinal == Spec => DeadLetterFinal
<1> DEFINE Stays == \A j \in Present :
         "fetch" \notin windows /\ jobs[j].state = "deadletter"
         => jobs'[j] = NoRow \/ jobs'[j].state = "deadletter"
<1>1. IInv /\ [Next]_vars => [Stays]_vars
  <2> SUFFICES ASSUME IInv, Next, NEW j \in Jobs, jobs[j] # NoRow,
                      "fetch" \notin windows, jobs[j].state = "deadletter",
                      jobs'[j] # NoRow, jobs'[j] # jobs[j]
               PROVE  FALSE
    BY DEF Present
  <2>1. at[j] = "task" /\ jobs[j].owner = Nobody
    BY DEF IInv, RowWithToken, Present, DeadUnlocked
  <2>2. PICK c \in Clients :
           /\ request[c] # Idle /\ j \in Read(request[c])
           /\ \/ FetchWrite(c)
              \/ FailWrite(c) /\ SameLock(request[c], j)
              \/ UnlockWrite(c) /\ SameLock(request[c], j)
    BY <2>1, RowSteps
  <2>3. CASE FetchWrite(c)
    BY <2>2, <2>3 DEF FetchWrite, MayWrite, Current, IInv, ReadWasRight
  <2>4. CASE (FailWrite(c) \/ UnlockWrite(c)) /\ SameLock(request[c], j)
    <3>1. request[c].rows[j].owner = Nobody
      BY <2>1, <2>4 DEF SameLock
    <3>2. request[c].op \in {"fail", "unlock", "reset"}
      BY <2>4 DEF FailWrite, UnlockWrite
    <3>3. CASE request[c].op = "reset"
      BY <2>2, <3>1, <3>3 DEF IInv, ReadWasRight
    <3>4. CASE request[c].op \in {"fail", "unlock"}
      <4>1. request[c].rows[j].owner \in Workers
        BY <2>2, <3>4, ReportOwned
      <4> QED
        BY <3>1, <4>1, NullsAssumption
    <3> QED
      BY <3>2, <3>3, <3>4
  <2> QED
    BY <2>2, <2>3, <2>4
<1> QED
  BY <1>1, ExternalWorkerInvariant, PTL DEF Spec, DeadLetterFinal

-----------------------------------------------------------------------------
(* The commands implement LeasedWork.                                      *)

\* The mapping of one job depends on its row, its token and the windows only.
LEMMA SameMapped ==
    ASSUME NEW j \in Jobs, at'[j] = at[j], jobs'[j] = jobs[j], windows' = windows
    PROVE  Contract!Same(j)
  BY DEF Contract!Same, StatusOf, HolderOf

\* The mapping is well-typed after every step.
LEMMA MappedType ==
    ASSUME IInv'
    PROVE  Contract!WorkTypeOK'
<1>1. ASSUME NEW j \in Jobs
      PROVE  /\ StatusOf(j)' \in Contract!Statuses
             /\ HolderOf(j)' \in Workers \cup {Nobody}
  <2>1. at'[j] = "task" => jobs'[j] \in Row
    BY DEF IInv, TypeOK, RowWithToken, Present
  <2> QED
    BY <2>1 DEF StatusOf, HolderOf, Contract!Statuses, Row
<1> QED
  BY <1>1 DEF Contract!WorkTypeOK

\* A step that nothing of the mapping sees.
LEMMA UnseenStep ==
    ASSUME IInv, windows' = windows,
           windows # {} \/ (UNCHANGED <<at, jobs>>)
    PROVE  UNCHANGED Contract!workVars
<1>1. ASSUME NEW j \in Jobs
      PROVE  StatusOf(j)' = StatusOf(j) /\ HolderOf(j)' = HolderOf(j)
  <2>1. CASE windows # {}
    BY <2>1 DEF StatusOf, HolderOf
  <2>2. CASE UNCHANGED <<at, jobs>>
    BY <2>2 DEF StatusOf, HolderOf
  <2> QED
    BY <2>1, <2>2
<1>2. [j \in Jobs |-> StatusOf(j)]' = [j \in Jobs |-> StatusOf(j)]
  BY <1>1
<1>3. [j \in Jobs |-> HolderOf(j)]' = [j \in Jobs |-> HolderOf(j)]
  BY <1>1
<1> QED
  BY <1>2, <1>3 DEF Contract!workVars

\* A step of one job: the others look the same, and the new state has its type.
LEMMA StepOfOne ==
    ASSUME IInv', windows' = windows, NEW j \in Jobs,
           \A k \in Jobs \ {j} : at'[k] = at[k] /\ jobs'[k] = jobs[k]
    PROVE  Contract!Only(j)
  BY SameMapped DEF Contract!Only

\* With the windows closed, every step is a step of LeasedWork or leaves its
\* variables as they are.
LEMMA StepMapped ==
    ASSUME IInv, IInv', Next, windows = {}
    PROVE  Contract!WorkNext \/ UNCHANGED Contract!workVars
<1>1. windows' = windows
  BY Zenon DEF Next, Arrive, Onward, Cancel, FetchRead, LoadRead, FailRead, ResetRead, Open,
         FetchWrite, CompleteWrite, ErrorWrite, FailWrite, UnlockWrite, Refused, Tick
<1>2. Contract!WorkTypeOK'
  BY MappedType
<1>t. /\ jobs \in [Jobs -> Row \cup {NoRow}]
      /\ at \in [Jobs -> Places]
      /\ \A j \in Jobs : at[j] = "task" <=> jobs[j] # NoRow
  BY DEF IInv, TypeOK, RowWithToken, Present
<1>3. ASSUME NEW j \in Jobs, Arrive(j) PROVE Contract!WorkNext
  <2>1. Contract!Only(j)
    BY <1>1, <1>3, <1>t, StepOfOne DEF Arrive
  <2>2. at'[j] = "task" /\ jobs'[j] = NewRow
    BY <1>3, <1>t DEF Arrive
  <2>3. StatusOf(j) = "none" /\ StatusOf(j)' = "open" /\ HolderOf(j)' = Nobody
    BY <1>1, <1>3, <2>2 DEF Arrive, StatusOf, HolderOf, NewRow
  <2>4. Contract!Offer(j)
    BY <2>1, <2>3 DEF Contract!Offer, Contract!Becomes
  <2> QED
    BY <1>2, <2>4 DEF Contract!WorkNext
<1>4. ASSUME NEW j \in Jobs, Cancel(j) PROVE Contract!WorkNext
  <2>1. Contract!Only(j)
    BY <1>1, <1>4, <1>t, StepOfOne DEF Cancel, Deleted
  <2>2. at[j] = "task" /\ at'[j] = "cancelled"
    BY <1>4, <1>t DEF Cancel
  <2>3. /\ StatusOf(j) \in {"open", "held", "dead"}
        /\ StatusOf(j)' = "withdrawn" /\ HolderOf(j)' = Nobody
    BY <1>1, <2>2 DEF StatusOf, HolderOf
  <2>4. Contract!Withdraw(j)
    BY <2>1, <2>3 DEF Contract!Withdraw, Contract!Becomes
  <2> QED
    BY <1>2, <2>4 DEF Contract!WorkNext
<1>5. ASSUME NEW j \in Jobs, Onward(j) PROVE UNCHANGED Contract!workVars
  <2>1. \A k \in Jobs : StatusOf(k)' = StatusOf(k) /\ HolderOf(k)' = HolderOf(k)
    BY <1>1, <1>5, <1>t DEF Onward, StatusOf, HolderOf
  <2> QED
    BY <2>1 DEF Contract!workVars
<1>6. ASSUME NEW c \in Clients, FetchWrite(c) PROVE Contract!WorkNext
  <2> DEFINE r == request[c]
  <2>1. /\ r.worker \in Workers
        /\ \A j \in Read(r) : r.rows[j].state = "timer" /\ r.rows[j] \in Row /\ j \in Jobs
    BY Zenon, <1>6, RowsWritten DEF FetchWrite, IInv, ReadWasRight
  <2>2. \A j \in Read(r) : jobs[j] = r.rows[j]
    BY <1>6 DEF FetchWrite, MayWrite, Current
  <2>3. ASSUME NEW j \in Jobs, jobs'[j] = jobs[j] PROVE Contract!Same(j)
    BY Zenon, <1>1, <1>6, <2>3, SameMapped DEF FetchWrite
  <2>4. ASSUME NEW j \in Jobs, jobs'[j] # jobs[j]
        PROVE  Contract!Take(r.worker)!(j)
    <3>1. j \in Read(r) /\ jobs'[j] = Taken(r, j) /\ at'[j] = at[j]
      BY <1>6, <2>4 DEF FetchWrite
    <3>2. at[j] = "task" /\ jobs[j].state = "timer"
      BY <1>t, <2>1, <2>2, <3>1
    <3>3. Taken(r, j).state = "timer" /\ Taken(r, j).owner = r.worker
      BY <2>1, <3>1 DEF Taken, Row
    <3>4. r.worker # Nobody
      BY <2>1
    <3>5. /\ StatusOf(j) \in {"open", "held"}
          /\ StatusOf(j)' = "held" /\ HolderOf(j)' = r.worker
      BY <1>1, <3>1, <3>2, <3>3, <3>4 DEF StatusOf, HolderOf
    <3> QED
      BY <3>5 DEF Contract!Becomes
  <2>5. Contract!Take(r.worker)
    BY <2>3, <2>4 DEF Contract!Take
  <2> QED
    BY <1>2, <2>1, <2>5 DEF Contract!WorkNext
<1>7. ASSUME NEW c \in Clients, CompleteWrite(c) \/ ErrorWrite(c) PROVE Contract!WorkNext
  <2> DEFINE r == request[c]
  <2>1. PICK j \in Read(r), p \in {"next", "error", "beyond"} :
             /\ jobs' = [jobs EXCEPT ![j] = NoRow]
             /\ at' = [at EXCEPT ![j] = p]
    BY <1>7 DEF CompleteWrite, ErrorWrite, Leave, Throw, Deleted
  <2>2. /\ j \in Jobs /\ jobs[j] = r.rows[j] /\ jobs[j] # NoRow
        /\ r.worker \in Workers /\ r.rows[j].owner = r.worker
    <3>1. r # Idle /\ r.op \in {"complete", "error"} /\ Current(r)
      BY <1>7 DEF CompleteWrite, ErrorWrite, MayWrite
    <3>2. r.worker \in Workers /\ r.rows[j].owner = r.worker
      BY <2>1, <3>1, ReportOwned
    <3> QED
      BY <2>1, <3>1, <3>2 DEF Current, Read, Present
  <2>3. Contract!Only(j)
    BY <1>1, <1>t, <2>1, <2>2, StepOfOne
  <2>4. at[j] = "task" /\ at'[j] \in {"next", "error", "beyond"}
    BY <1>t, <2>1, <2>2
  <2>5. jobs[j].state # "deadletter"
    BY <2>2 DEF IInv, DeadUnlocked
  <2>6. /\ StatusOf(j) = "held" /\ HolderOf(j) = r.worker
        /\ StatusOf(j)' = "done" /\ HolderOf(j)' = Nobody
    BY <1>1, <2>2, <2>4, <2>5 DEF StatusOf, HolderOf
  <2>7. Contract!End(r.worker, j)
    BY <2>3, <2>6, <2>2 DEF Contract!End, Contract!Becomes
  <2> QED
    BY <1>2, <2>2, <2>7 DEF Contract!WorkNext
<1>8. ASSUME NEW c \in Clients, FailWrite(c)
      PROVE  Contract!WorkNext
  <2> DEFINE r == request[c]
  <2>1. PICK j \in Jobs : Read(r) = {j} /\ r.rows[j].owner = r.worker /\ r.worker \in Workers
    <3>1. r # Idle /\ r.op = "fail"
      BY <1>8 DEF FailWrite
    <3> QED
      BY <3>1, ReportOwned
  <2>2. /\ jobs' = [k \in Jobs |-> IF k \in Read(r) THEN Failed(r, k) ELSE jobs[k]]
        /\ at' = at /\ SameLock(r, j) /\ r.rows[j] \in Row /\ Failed(r, j) \in Row
    BY <1>8, <2>1, RowsWritten DEF FailWrite, IInv
  <2>3. Contract!Only(j)
    BY <1>1, <2>1, <2>2, StepOfOne
  <2>4. /\ at[j] = "task" /\ at'[j] = "task" /\ jobs'[j] = Failed(r, j)
        /\ jobs[j].owner = r.worker
    BY <1>t, <2>1, <2>2 DEF SameLock, Present
  <2>5. jobs[j].state # "deadletter"
    BY <2>1, <2>4, <1>t DEF IInv, DeadUnlocked
  <2>6. StatusOf(j) = "held" /\ HolderOf(j) = r.worker
    BY <2>1, <2>4, <2>5 DEF StatusOf, HolderOf
  <2>7. Failed(r, j).owner = Nobody
    BY Zenon, <2>2 DEF Failed, Unlocked, Row
  <2>8. StatusOf(j)' \in {"open", "dead"} /\ HolderOf(j)' = Nobody
    BY <1>1, <2>4, <2>7 DEF StatusOf, HolderOf
  <2>9. CASE StatusOf(j)' = "dead"
    <3>1. Contract!End(r.worker, j)
      BY <2>3, <2>6, <2>8, <2>9, <2>1 DEF Contract!End, Contract!Becomes
    <3> QED
      BY <1>2, <2>1, <3>1 DEF Contract!WorkNext
  <2>10. CASE StatusOf(j)' = "open"
    <3>1. Contract!Release
      BY <2>3, <2>6, <2>8, <2>10 DEF Contract!Release, Contract!Only, Contract!Becomes
    <3> QED
      BY <1>2, <3>1 DEF Contract!WorkNext
  <2> QED
    BY <2>8, <2>9, <2>10
<1>9. ASSUME NEW c \in Clients, UnlockWrite(c) PROVE Contract!WorkNext
  <2> DEFINE r == request[c]
  <2>1. /\ r # Idle /\ at' = at
        /\ \A j \in Jobs : jobs'[j] # jobs[j] =>
             j \in Read(r) /\ SameLock(r, j) /\ jobs'[j] = Unlocked(r.rows[j])
    BY <1>9, <1>t DEF UnlockWrite
  <2>2. \A j \in Read(r) : r.rows[j].owner # Nobody /\ r.rows[j] \in Row
    <3>1. r # Idle /\ r.op \in {"unlock", "reset"}
      BY <1>9 DEF UnlockWrite
    <3>2. ASSUME NEW j \in Read(r) PROVE r.rows[j] \in Row
      BY <3>1, RowsWritten DEF IInv
    <3>3. CASE r.op = "unlock"
      BY <3>1, <3>2, <3>3, <1>t, ReportOwned
    <3>4. CASE r.op = "reset"
      BY <3>1, <3>2, <3>4 DEF IInv, ReadWasRight
    <3> QED
      BY <3>1, <3>3, <3>4
  <2>3. ASSUME NEW j \in Jobs, jobs'[j] = jobs[j] PROVE Contract!Same(j)
    BY <1>1, <2>1, <2>3, SameMapped
  <2>4. ASSUME NEW j \in Jobs, jobs'[j] # jobs[j]
        PROVE  Contract!Release!(j)
    <3>1. /\ at[j] = "task" /\ at'[j] = "task" /\ jobs[j].owner # Nobody
          /\ jobs[j].owner = r.rows[j].owner /\ jobs[j] # NoRow
      <4>1. j \in Read(r) /\ SameLock(r, j) /\ at' = at
        BY <2>1, <2>4
      <4>2. jobs[j].owner = r.rows[j].owner /\ jobs[j] # NoRow
        BY <4>1 DEF SameLock, Present
      <4>3. jobs[j].owner # Nobody
        BY <2>2, <4>1, <4>2
      <4> QED
        BY <1>t, <4>1, <4>2, <4>3
    <3>2. jobs[j].state # "deadletter"
      BY <3>1 DEF IInv, DeadUnlocked
    <3>3. r.rows[j].state # "deadletter"
      BY Zenon, <2>1, <2>2, <2>4 DEF IInv, ReadWasRight
    <3>4. jobs'[j].owner = Nobody /\ jobs'[j].state # "deadletter"
      BY Zenon, <2>1, <2>2, <2>4, <3>3 DEF Unlocked, Row
    <3>5. /\ StatusOf(j) = "held"
          /\ HolderOf(j)' = Nobody
          /\ StatusOf(j)' = "open"
      BY <1>1, <3>1, <3>2, <3>4 DEF StatusOf, HolderOf
    <3> QED
      BY <3>5 DEF Contract!Becomes
  <2>5. Contract!Release
    BY <2>3, <2>4 DEF Contract!Release
  <2> QED
    BY <1>2, <2>5 DEF Contract!WorkNext
<1>10. CASE UNCHANGED <<at, jobs>>
  BY <1>1, <1>10, UnseenStep
<1>11. ASSUME NEW c \in Clients,
              \/ Refused(c) \/ ResetRead(c)
              \/ \E w \in Workers : FetchRead(c, w)
              \/ \E w \in Workers, j \in Jobs : LoadRead(c, w, j) \/ FailRead(c, w, j)
       PROVE  UNCHANGED <<at, jobs>>
  BY <1>11 DEF Refused, ResetRead, FetchRead, LoadRead, FailRead, Open
<1>12. Tick => UNCHANGED <<at, jobs>>
  BY DEF Tick
<1> QED
  BY <1>3, <1>4, <1>5, <1>6, <1>7, <1>8, <1>9, <1>10, <1>11, <1>12 DEF Next

\* The external-worker commands implement LeasedWork: the worker that holds the lock
\* ends the work, once, and what has ended stays so.  The windows have to be closed;
\* in the other behaviours the mapping shows nothing.
THEOREM ImplementsContract == Spec => ImplementsLeasedWork
<1>1. Init => Contract!WorkInit
  BY DEF Init, Contract!WorkInit, StatusOf, HolderOf
<1>2. IInv /\ IInv' /\ [Next]_vars => [Contract!WorkNext]_(Contract!workVars)
  <2> SUFFICES ASSUME IInv, IInv', [Next]_vars
               PROVE  Contract!WorkNext \/ UNCHANGED Contract!workVars
    OBVIOUS
  <2>1. windows' = windows
    BY Zenon DEF Next, Arrive, Onward, Cancel, FetchRead, LoadRead, FailRead, ResetRead, Open,
           FetchWrite, CompleteWrite, ErrorWrite, FailWrite, UnlockWrite, Refused, Tick,
           vars
  <2>2. CASE windows # {}
    BY <2>1, <2>2, UnseenStep
  <2>3. CASE UNCHANGED vars
    BY <2>1, <2>3, UnseenStep DEF vars
  <2>4. CASE Next /\ windows = {}
    BY <2>4, StepMapped
  <2> QED
    BY <2>2, <2>3, <2>4
<1> QED
  BY <1>1, <1>2, ExternalWorkerInvariant, PTL
     DEF Spec, ImplementsLeasedWork, Contract!WorkSpec
=============================================================================
