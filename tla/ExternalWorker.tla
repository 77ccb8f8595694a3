---------------------------- MODULE ExternalWorker ----------------------------
(***************************************************************************)
(* External-worker service tasks: a token that reaches one waits there     *)
(* with a job row, remote workers fetch and lock rows, and the holder of a *)
(* lock completes the job, throws a BPMN error, reports a failure or gives *)
(* the lock back, while a background command clears the locks that lapsed. *)
(*                                                                         *)
(* Source: flowable-engine, cmd/external_worker_cmd.rs,                    *)
(* engine/external_worker_service.rs and the external-worker and           *)
(* expired-lock queries of persistence/runtime_store.rs.                   *)
(*                                                                         *)
(* A command reads its rows before its transaction takes the write lock,   *)
(* so it is two steps: what it read is in request until it writes.  The    *)
(* commands that change a lock compare it when they write; completing a    *)
(* job deletes the row unconditionally, and fetching writes back the whole *)
(* row it read.  windows says which of these two windows other commands    *)
(* may use: a command whose window is closed is refused when its rows      *)
(* changed under it, as they would be for commands that run one by one.    *)
(***************************************************************************)
EXTENDS Integers

CONSTANTS
    Jobs,               \* tokens that will wait at an external-worker task of one
                        \* topic, and the job row of each
    Caught,             \* those in a subprocess with a boundary event for the error
    Workers,            \* worker ids
    Clients,            \* requests the engine serves at the same time
    LockDuration,       \* lock_duration_ms of a fetch, in ticks
    RetryDelay,         \* retry_duration_ms of a failure report, in ticks
    Retries,            \* number_of_retries of a new job
    MaxTime,            \* bound: the clock stops here
    Nobody,             \* lock_owner of an unlocked row
    NoRow,              \* a job that has no row
    Idle                \* no request

ASSUME ConstantsAssumption ==
    /\ LockDuration \in Nat \ {0}
    /\ RetryDelay \in Nat
    /\ Retries \in Nat
    /\ MaxTime \in Nat
    /\ Caught \subseteq Jobs

Row == [state : {"timer", "deadletter"}, owner : Workers \cup {Nobody},
        expires : Nat, retries : Nat, due : Nat]

Operations == {"fetch", "complete", "error", "fail", "unlock", "reset"}

Request == [op : Operations, worker : Workers \cup {Nobody}, asked : Nat,
            retries : Int,
            rows : [Jobs -> Row \cup {NoRow}]]

ASSUME NullsAssumption ==
    Nobody \notin Workers /\ NoRow \notin Row /\ Idle \notin Request

VARIABLES
    now,        \* the clock
    jobs,       \* timer_job_states: the row of every job that has one
    at,         \* where each token is
    request,    \* what each request in progress has read
    accepted,   \* history: completions and errors the engine said yes to, per job
    windows     \* which commands others may come in between

vars == <<now, jobs, at, request, accepted, windows>>

Places == {"before", "task", "next", "error", "beyond", "cancelled"}

Windows == {"fetch", "complete"}

Init ==
    /\ now = 0
    /\ jobs = [j \in Jobs |-> NoRow]
    /\ at = [j \in Jobs |-> "before"]
    /\ request = [c \in Clients |-> Idle]
    /\ accepted = [j \in Jobs |-> 0]
    /\ windows \in SUBSET Windows

-----------------------------------------------------------------------------
(* Rows.                                                                   *)

Present == {j \in Jobs : jobs[j] # NoRow}

\* The rows a request has read.
Read(r) == {j \in Jobs : r.rows[j] # NoRow}

Deleted(j) == [jobs EXCEPT ![j] = NoRow]

Unlocked(r) == [r EXCEPT !.owner = Nobody, !.expires = 0]

NewRow == [state |-> "timer", owner |-> Nobody, expires |-> 0,
           retries |-> Retries, due |-> now]

\* create_external_worker_service_task_job: the token stays on the task, and its
\* row can be fetched at once.
Arrive(j) ==
    /\ at[j] = "before"
    /\ at' = [at EXCEPT ![j] = "task"]
    /\ jobs' = [jobs EXCEPT ![j] = NewRow]
    /\ UNCHANGED <<now, request, accepted, windows>>

-----------------------------------------------------------------------------
(* Commands: first what they read.                                         *)

Open(c, op, w, n, S) ==
    /\ request[c] = Idle
    /\ request' = [request EXCEPT ![c] =
                     [op |-> op, worker |-> w, retries |-> n,
                      asked |-> IF op \in {"fetch", "fail"} THEN now ELSE 0,
                      rows |-> [j \in Jobs |-> IF j \in S THEN jobs[j] ELSE NoRow]]]
    /\ UNCHANGED <<now, jobs, at, accepted, windows>>

\* Mutant: fetching looks at the lock only.
CandidateByLock(j) ==
    /\ jobs[j].due <= now
    /\ jobs[j].owner = Nobody \/ jobs[j].expires <= now

\* Rows a fetch may take: due, with retries left, in the state of a waiting job,
\* and not locked or locked under a lock that lapsed.
Candidate(j) ==
    /\ jobs[j].due <= now
    /\ jobs[j].retries > 0
    /\ jobs[j].owner = Nobody \/ jobs[j].expires <= now
    /\ jobs[j].state = "timer"

\* The candidates of the topic, the longest due first, up to max_jobs.
FetchRead(c, w) ==
    \E S \in SUBSET {j \in Present : Candidate(j)} \ {{}} :
      /\ \A j \in S, k \in {i \in Present : Candidate(i)} \ S :
           jobs[j].due <= jobs[k].due
      /\ Open(c, "fetch", w, 0, S)

\* load_locked_runtime_timer_job: the row is there and locked by this worker; that
\* the lock may have lapsed is not looked at.
Loadable(w, j) == jobs[j].owner = w

LoadRead(c, w, j) ==
    /\ j \in Present /\ Loadable(w, j)
    /\ \E op \in {"complete", "error", "unlock"} : Open(c, op, w, 0, {j})

\* A failure report names the retries that remain, or -1 to use one up.
FailRead(c, w, j) ==
    /\ j \in Present /\ Loadable(w, j)
    /\ \E n \in {-1, 0} \cup 1..Retries : Open(c, "fail", w, n, {j})

\* find_expired_job_lock_candidates: strictly past its expiry.
ResetRead(c) ==
    LET expired == {j \in Present : jobs[j].owner # Nobody /\ jobs[j].expires < now}
    IN  expired # {} /\ Open(c, "reset", Nobody, 0, expired)

-----------------------------------------------------------------------------
(* Then what they write.                                                   *)

\* The request of c is over.
Close(c) == request' = [request EXCEPT ![c] = Idle]

\* Mutant: a fetch does not compare the lock it replaces.
AnyLock(r, j) == j \in Present

\* The row still has the lock the command read.
SameLock(r, j) ==
    /\ j \in Present
    /\ jobs[j].owner = r.rows[j].owner
    /\ r.rows[j].owner # Nobody => jobs[j].expires = r.rows[j].expires

\* The rows the request read are as it read them.
Current(r) == \A j \in Read(r) : j \in Present /\ jobs[j] = r.rows[j]

\* May the request go on with what it read?
MayWrite(r, window) == window \in windows \/ Current(r)

\* The row a fetch writes: the one it read, with the new lock on it.
Taken(r, j) ==
    [r.rows[j] EXCEPT !.owner = r.worker, !.expires = r.asked + LockDuration]

\* One conditional update per row; the rows whose lock changed are left out.
FetchWrite(c) ==
    LET r == request[c]
        won == {j \in Read(r) : SameLock(r, j)}
    IN  /\ r # Idle /\ r.op = "fetch"
        /\ MayWrite(r, "fetch")
        /\ jobs' = [j \in Jobs |-> IF j \in won THEN Taken(r, j) ELSE jobs[j]]
        /\ Close(c)
        /\ UNCHANGED <<now, at, accepted, windows>>

\* Mutant: the job row is left for the next worker.
CompleteKeepsRow(c, j) ==
    /\ at[j] \in {"task", "next"}
    /\ at' = [at EXCEPT ![j] = IF at[j] = "task" THEN "next" ELSE "beyond"]
    /\ accepted' = [accepted EXCEPT ![j] = @ + 1]
    /\ UNCHANGED jobs

\* leave_external_worker_service_task: the row is deleted, whatever its lock is by
\* now, and the execution takes the outgoing flow of the activity it is on.
Leave(c, j) ==
    /\ at[j] \in {"task", "next"}
    /\ jobs' = Deleted(j)
    /\ at' = [at EXCEPT ![j] = IF at[j] = "task" THEN "next" ELSE "beyond"]
    /\ accepted' = [accepted EXCEPT ![j] = @ + 1]

CompleteWrite(c) ==
    LET r == request[c]
    IN  /\ r # Idle /\ r.op = "complete"
        /\ MayWrite(r, "complete")
        /\ \E j \in Read(r) : Leave(c, j)
        /\ Close(c)
        /\ UNCHANGED <<now, windows>>

\* Mutant: the boundary event takes the token and the row stays behind.
ThrowKeepsRow(c, j) ==
    /\ at[j] \in {"task", "next"} /\ j \in Caught
    /\ at' = [at EXCEPT ![j] = "error"]
    /\ accepted' = [accepted EXCEPT ![j] = @ + 1]
    /\ UNCHANGED jobs

\* The boundary event of the enclosing subprocess catches the error, wherever in it
\* the token is by now: it deletes the executions of its host with their rows and
\* goes on by itself, and the source row is deleted.
Throw(c, j) ==
    /\ at[j] \in {"task", "next"} /\ j \in Caught
    /\ jobs' = Deleted(j)
    /\ at' = [at EXCEPT ![j] = "error"]
    /\ accepted' = [accepted EXCEPT ![j] = @ + 1]

ErrorWrite(c) ==
    LET r == request[c]
    IN  /\ r # Idle /\ r.op = "error"
        /\ MayWrite(r, "complete")
        /\ \E j \in Read(r) : Throw(c, j)
        /\ Close(c)
        /\ UNCHANGED <<now, windows>>

\* The retries after a failure report.
RetriesLeft(r, j) ==
    IF r.retries >= 0 THEN r.retries
    ELSE IF r.rows[j].retries > 0 THEN r.rows[j].retries - 1 ELSE 0

\* The row after a failure report: unlocked and due later, or dead.
Failed(r, j) ==
    IF RetriesLeft(r, j) > 0
      THEN [Unlocked(r.rows[j]) EXCEPT !.retries = RetriesLeft(r, j),
                                       !.due = r.asked + RetryDelay]
      ELSE [Unlocked(r.rows[j]) EXCEPT !.retries = 0, !.state = "deadletter"]

FailWrite(c) ==
    LET r == request[c]
    IN  /\ r # Idle /\ r.op = "fail"
        /\ \A j \in Read(r) : SameLock(r, j)
        /\ jobs' = [j \in Jobs |-> IF j \in Read(r) THEN Failed(r, j) ELSE jobs[j]]
        /\ Close(c)
        /\ UNCHANGED <<now, at, accepted, windows>>

\* Unlocking one's own row, and resetting the ones whose lock lapsed.
UnlockWrite(c) ==
    LET r == request[c]
        won == {j \in Read(r) : SameLock(r, j)}
    IN  /\ r # Idle /\ r.op \in {"unlock", "reset"}
        /\ won # {}
        /\ jobs' = [j \in Jobs |-> IF j \in won THEN Unlocked(r.rows[j]) ELSE jobs[j]]
        /\ Close(c)
        /\ UNCHANGED <<now, at, accepted, windows>>

\* The command ends with an error (the row or the execution is not found, the lock
\* changed, the error has no handler, the storage fails) and is rolled back.
Refused(c) ==
    /\ request[c] # Idle
    /\ Close(c)
    /\ UNCHANGED <<now, jobs, at, accepted, windows>>

-----------------------------------------------------------------------------
(* The rest of the engine, and time.                                       *)

\* The activity behind the task, or behind the boundary event, is completed, or the
\* instance is deleted there.
Onward(j) ==
    /\ at[j] \in {"next", "error"}
    /\ at' = [at EXCEPT ![j] = "beyond"]
    /\ UNCHANGED <<now, jobs, request, accepted, windows>>

\* The instance is deleted while its token waits, and the row with it.
Cancel(j) ==
    /\ at[j] = "task"
    /\ at' = [at EXCEPT ![j] = "cancelled"]
    /\ jobs' = Deleted(j)
    /\ UNCHANGED <<now, request, accepted, windows>>

Tick ==
    /\ now < MaxTime
    /\ now' = now + 1
    /\ UNCHANGED <<jobs, at, request, accepted, windows>>

Next ==
    \/ \E j \in Jobs : Arrive(j) \/ Onward(j) \/ Cancel(j)
    \/ \E c \in Clients, w \in Workers : FetchRead(c, w)
    \/ \E c \in Clients, w \in Workers, j \in Jobs :
         LoadRead(c, w, j) \/ FailRead(c, w, j)
    \/ \E c \in Clients :
         \/ ResetRead(c) \/ FetchWrite(c) \/ CompleteWrite(c) \/ ErrorWrite(c)
         \/ FailWrite(c) \/ UnlockWrite(c) \/ Refused(c)
    \/ Tick

Spec == Init /\ [][Next]_vars

-----------------------------------------------------------------------------
(* Properties.                                                             *)

TypeOK ==
    /\ now \in Nat
    /\ jobs \in [Jobs -> Row \cup {NoRow}]
    /\ at \in [Jobs -> Places]
    /\ request \in [Clients -> Request \cup {Idle}]
    /\ accepted \in [Jobs -> Nat]
    /\ windows \in SUBSET Windows

\* A job row exists exactly while its token waits at the task: no command leaves
\* a row without a token for the workers to fetch, or a token nobody can complete,
\* whatever comes in between what a command reads and what it writes.
RowWithToken == \A j \in Jobs : j \in Present <=> at[j] = "task"

\* While a lock is live its row is changed only by a request of the worker that
\* holds it, or goes away with its instance: the conditional updates make a fetch,
\* a reset and the report of an earlier holder miss (completing needs its window
\* closed, see windows).
LiveLockKept ==
    [][\A j \in Present :
         LET held == jobs[j]
         IN  /\ "complete" \notin windows
             /\ held.owner # Nobody /\ held.expires > now
             /\ jobs'[j] # held
             => \/ at'[j] = "cancelled"
                \/ \E c \in Clients : /\ request[c] # Idle /\ request'[c] = Idle
                                      /\ request[c].worker = held.owner]_vars

\* The engine says yes to one completion or error per job, however many workers
\* report one: the later ones find no row (with the completing window closed).
AcceptedOnce ==
    "complete" \notin windows => \A j \in Jobs : accepted[j] <= 1

\* A dead-letter row is never alive again: no worker is handed a job whose retries
\* are used up (with the fetching window closed; a fetch that read the row before the
\* last failure was reported writes it back alive).
DeadLetterFinal ==
    [][\A j \in Present :
         "fetch" \notin windows /\ jobs[j].state = "deadletter"
         => jobs'[j] = NoRow \/ jobs'[j].state = "deadletter"]_vars

-----------------------------------------------------------------------------
(* The contract.  With both windows closed the rows and tokens implement   *)
(* LeasedWork; in the other behaviours the mapping shows a system in which *)
(* nothing is ever offered.                                                *)

StatusOf(j) ==
    IF windows # {} THEN "none"
    ELSE CASE at[j] = "before" -> "none"
           [] at[j] = "task" ->
                IF jobs[j].state = "deadletter" THEN "dead"
                ELSE IF jobs[j].owner = Nobody THEN "open" ELSE "held"
           [] at[j] = "cancelled" -> "withdrawn"
           [] OTHER -> "done"

HolderOf(j) == IF windows = {} /\ at[j] = "task" THEN jobs[j].owner ELSE Nobody

Contract == INSTANCE LeasedWork WITH
    Work <- Jobs,
    status <- [j \in Jobs |-> StatusOf(j)],
    holder <- [j \in Jobs |-> HolderOf(j)]

\* The external-worker commands keep the promise of LeasedWork: work is ended only
\* while its lock is held, never by a report that comes after the lock was given
\* back or cleared, and what is done, dead or withdrawn is never offered, taken or
\* ended again.
ImplementsLeasedWork == Contract!WorkSpec
=============================================================================
