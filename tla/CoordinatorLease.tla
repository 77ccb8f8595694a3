--------------------------- MODULE CoordinatorLease ---------------------------
(***************************************************************************)
(* The timer coordinator lease: one row of timer_coordinator_leases, the   *)
(* registry timer_worker_nodes, and the workers that compete for the row.  *)
(*                                                                         *)
(* Source: flowable-engine, persistence/runtime_store.rs (the lease and    *)
(* the registry), cmd/run_due_timers_cmd.rs and engine/timer_worker.rs     *)
(* (the workers), cmd/timer_coordination_control_cmd.rs (administration).  *)
(*                                                                         *)
(* Every store operation reads the row first and writes it with a          *)
(* conditional UPDATE (cas_update) or an exclusive INSERT.  A session      *)
(* opens its transaction at its first write (BEGIN IMMEDIATE) or runs at   *)
(* READ COMMITTED, so any other session may commit between the read and    *)
(* the write: each operation is two actions, and the write is conditional  *)
(* on exactly the columns the UPDATE names.                                *)
(***************************************************************************)
EXTENDS Integers

CONSTANTS
    Workers,            \* threads that run TimerWorker or run_due_timers
    Nodes,              \* owner ids (timer_owner_id), one per engine
    NodeOf,             \* the owner id under which a worker acts
    LeaseTimeout,       \* coordinator_lease_timeout_ms, in clock ticks
    HeartbeatTimeout,   \* heartbeat_timeout_ms of the registry clean-up
    MaxTime,            \* bound of the clock
    MaxToken,           \* bound of the fencing token
    NoLease             \* "no row": the lease has never been acquired

ASSUME NodeOfAssumption == NodeOf \in [Workers -> Nodes]
ASSUME TimeoutAssumption ==
    LeaseTimeout \in Nat \ {0} /\ HeartbeatTimeout \in Nat \ {0}
ASSUME BoundAssumption == MaxTime \in Nat \ {0} /\ MaxToken \in Nat \ {0}

\* The owner column of a released lease is the empty string.
Unowned == "unowned"
NoBeat == 0     \* no row in timer_worker_nodes; the clock starts at 1

Lease == [owner : Nodes \cup {Unowned}, expiry : Nat, token : 1..MaxToken]
LeaseRow == Lease \cup {NoLease}

ASSUME NullAssumption == Unowned \notin Nodes /\ NoLease \notin Lease

VARIABLES
    now,        \* the shared time source
    lease,      \* the row "timer-coordinator"
    beat,       \* last_heartbeat of every node, NoBeat if not registered
    pc,         \* where each worker is
    seen,       \* the row a worker read in its open command
    readAt,     \* the time at which the open command started, 0 if none
    token,      \* the fencing token a worker believes it holds, 0 for none
    stepSeen,   \* the row an open administrative step-down has read
    stale,      \* the nodes an open registry clean-up has decided to delete
    granted     \* history: the <<token, node>> pairs handed to workers

vars == <<now, lease, beat, pc, seen, readAt, token, stepSeen, stale, granted>>
workerVars == <<pc, seen, readAt, token>>

-----------------------------------------------------------------------------
Init ==
    /\ now = 1
    /\ lease = NoLease
    /\ beat = [n \in Nodes |-> NoBeat]
    /\ pc = [w \in Workers |-> "idle"]
    /\ seen = [w \in Workers |-> NoLease]
    /\ readAt = [w \in Workers |-> 0]
    /\ token = [w \in Workers |-> 0]
    /\ stepSeen = NoLease
    /\ stale = {}
    /\ granted = {}

-----------------------------------------------------------------------------
(* A worker's cycle: heartbeat, compete for the lease, keep the token.     *)

\* The registry row is replaced by one with the current time; a failed
\* heartbeat is logged and the cycle goes on all the same.
HeartbeatTimerNode(w) ==
    /\ pc[w] = "idle"
    /\ beat' \in {[beat EXCEPT ![NodeOf[w]] = now], beat}
    /\ pc' = [pc EXCEPT ![w] = "beaten"]
    /\ UNCHANGED <<now, lease, seen, readAt, token, stepSeen, stale, granted>>

\* A registered owner whose last heartbeat is older than the lease timeout;
\* a missing row is not proof of death.
CurrentOwnerDead(l) ==
    /\ l.owner # Unowned
    /\ beat[l.owner] # NoBeat
    /\ beat[l.owner] < now - LeaseTimeout

CanTakeover(l) == l.expiry < now \/ CurrentOwnerDead(l)

\* The read half of acquire_coordinator_lease: a live lease of another node
\* ends the attempt with Ok(None), which resets the worker's token.
AcquireLeaseRead(w) ==
    /\ pc[w] = "beaten"
    /\ IF lease = NoLease \/ lease.owner = NodeOf[w] \/ CanTakeover(lease)
         THEN /\ pc' = [pc EXCEPT ![w] = "acquire"]
              /\ seen' = [seen EXCEPT ![w] = lease]
              /\ readAt' = [readAt EXCEPT ![w] = now]
              /\ UNCHANGED token
         ELSE /\ pc' = [pc EXCEPT ![w] = "idle"]
              /\ token' = [token EXCEPT ![w] = 0]
              /\ UNCHANGED <<seen, readAt>>
    /\ UNCHANGED <<now, lease, beat, stepSeen, stale, granted>>

\* What the conditional write of an acquisition requires of the current row:
\* the exclusive insert needs no row, the renewal the same owner, the
\* takeover the same owner and the same token.
AcquireApplies(w) ==
    \/ seen[w] = NoLease /\ lease = NoLease
    \/ /\ seen[w] # NoLease /\ lease # NoLease
       /\ lease.owner = seen[w].owner
       /\ seen[w].owner # NodeOf[w] => lease.token = seen[w].token

\* Mutant: a takeover keeps the token of the lease it takes.
TakeoverKeepsToken(w) ==
    IF seen[w] = NoLease THEN 1 ELSE seen[w].token

\* The token of the written row: 1 for a new row, unchanged by a renewal,
\* one more after a takeover.
AcquiredToken(w) ==
    IF seen[w] = NoLease THEN 1
    ELSE IF seen[w].owner = NodeOf[w] THEN seen[w].token
    ELSE seen[w].token + 1

\* The write half of acquire_coordinator_lease, committed.
AcquireLeaseWrite(w) ==
    /\ pc[w] = "acquire"
    /\ AcquiredToken(w) <= MaxToken
    /\ IF AcquireApplies(w)
         THEN /\ lease' = [owner |-> NodeOf[w],
                           expiry |-> readAt[w] + LeaseTimeout,
                           token |-> AcquiredToken(w)]
              /\ token' = [token EXCEPT ![w] = AcquiredToken(w)]
              /\ granted' = granted \cup {<<AcquiredToken(w), NodeOf[w]>>}
         ELSE /\ token' = [token EXCEPT ![w] = 0]
              /\ UNCHANGED <<lease, granted>>
    /\ pc' = [pc EXCEPT ![w] = "idle"]
    /\ seen' = [seen EXCEPT ![w] = NoLease]
    /\ readAt' = [readAt EXCEPT ![w] = 0]
    /\ UNCHANGED <<now, beat, stepSeen, stale>>

\* A storage error is an Err, not Ok(None): the cycle is skipped and the
\* worker keeps the token it had.
AcquireLeaseError(w) ==
    /\ pc[w] \in {"beaten", "acquire"}
    /\ pc' = [pc EXCEPT ![w] = "idle"]
    /\ seen' = [seen EXCEPT ![w] = NoLease]
    /\ readAt' = [readAt EXCEPT ![w] = 0]
    /\ UNCHANGED <<now, lease, beat, token, stepSeen, stale, granted>>

\* release_coordinator_lease, read half: owner and token must be the
\* caller's; otherwise nothing is written and the worker drops its token.
ReleaseLeaseRead(w) ==
    /\ pc[w] = "idle"
    /\ token[w] > 0
    /\ IF lease # NoLease /\ lease.owner = NodeOf[w] /\ lease.token = token[w]
         THEN /\ pc' = [pc EXCEPT ![w] = "release"]
              /\ seen' = [seen EXCEPT ![w] = lease]
              /\ UNCHANGED token
         ELSE /\ token' = [token EXCEPT ![w] = 0]
              /\ UNCHANGED <<pc, seen>>
    /\ UNCHANGED <<now, lease, beat, readAt, stepSeen, stale, granted>>

Released(l) == [owner |-> Unowned, expiry |-> now - 1, token |-> l.token + 1]

\* release_coordinator_lease, write half, conditional on owner and token.  A
\* failed write is logged, and the token is dropped in every case.
ReleaseLeaseWrite(w) ==
    /\ pc[w] = "release"
    /\ seen[w].token < MaxToken
    /\ \/ /\ lease.owner = seen[w].owner /\ lease.token = seen[w].token
          /\ lease' = Released(seen[w])
       \/ UNCHANGED lease
    /\ token' = [token EXCEPT ![w] = 0]
    /\ pc' = [pc EXCEPT ![w] = "idle"]
    /\ seen' = [seen EXCEPT ![w] = NoLease]
    /\ UNCHANGED <<now, beat, readAt, stepSeen, stale, granted>>

\* The process dies: its open transaction is rolled back and its memory lost.
Crash(w) ==
    /\ pc[w] # "idle" \/ token[w] # 0
    /\ pc' = [pc EXCEPT ![w] = "idle"]
    /\ seen' = [seen EXCEPT ![w] = NoLease]
    /\ token' = [token EXCEPT ![w] = 0]
    /\ readAt' = [readAt EXCEPT ![w] = 0]
    /\ UNCHANGED <<now, lease, beat, stepSeen, stale, granted>>

-----------------------------------------------------------------------------
(* Administration.                                                         *)

\* force_step_down, read half; a missing or unowned lease needs no write.
StepDownRead ==
    /\ stepSeen = NoLease
    /\ lease # NoLease /\ lease.owner # Unowned
    /\ stepSeen' = lease
    /\ UNCHANGED <<now, lease, beat, workerVars, stale, granted>>

\* force_step_down, write half, conditional on owner and token.
StepDownWrite ==
    /\ stepSeen # NoLease
    /\ stepSeen.token < MaxToken
    /\ \/ /\ lease.owner = stepSeen.owner /\ lease.token = stepSeen.token
          /\ lease' = Released(stepSeen)
       \/ UNCHANGED lease
    /\ stepSeen' = NoLease
    /\ UNCHANGED <<now, beat, workerVars, stale, granted>>

DeregisterTimerNode(n) ==
    /\ beat[n] # NoBeat
    /\ beat' = [beat EXCEPT ![n] = NoBeat]
    /\ UNCHANGED <<now, lease, workerVars, stepSeen, stale, granted>>

\* cleanup_expired_timer_nodes lists the expired nodes first and then deletes
\* them by id: a node may have sent a heartbeat in between.
CleanupRead ==
    /\ stale = {}
    /\ stale' = {n \in Nodes : beat[n] # NoBeat /\ beat[n] < now - HeartbeatTimeout}
    /\ stale' # {}
    /\ UNCHANGED <<now, lease, beat, workerVars, stepSeen, granted>>

CleanupDelete ==
    /\ stale # {}
    /\ beat' = [n \in Nodes |-> IF n \in stale THEN NoBeat ELSE beat[n]]
    /\ stale' = {}
    /\ UNCHANGED <<now, lease, workerVars, stepSeen, granted>>

Tick ==
    /\ now < MaxTime
    /\ now' = now + 1
    /\ UNCHANGED <<lease, beat, workerVars, stepSeen, stale, granted>>

Next ==
    \/ \E w \in Workers :
         \/ HeartbeatTimerNode(w)
         \/ AcquireLeaseRead(w) \/ AcquireLeaseWrite(w) \/ AcquireLeaseError(w)
         \/ ReleaseLeaseRead(w) \/ ReleaseLeaseWrite(w)
         \/ Crash(w)
    \/ StepDownRead \/ StepDownWrite
    \/ \E n \in Nodes : DeregisterTimerNode(n)
    \/ CleanupRead \/ CleanupDelete
    \/ Tick

Spec == Init /\ [][Next]_vars

-----------------------------------------------------------------------------
(* Properties.                                                             *)

\* The lease row, the registry and the workers' memory have their types; the
\* expiry of a row is never before the start of the clock.
TypeOK ==
    /\ now \in 1..MaxTime
    /\ lease \in LeaseRow
    /\ beat \in [Nodes -> Nat]
    /\ pc \in [Workers -> {"idle", "beaten", "acquire", "release"}]
    /\ seen \in [Workers -> LeaseRow]
    /\ \A w \in Workers : pc[w] = "release" => seen[w] \in Lease
    /\ readAt \in [Workers -> 0..MaxTime]
    /\ token \in [Workers -> 0..MaxToken]
    /\ stepSeen \in LeaseRow
    /\ stale \subseteq Nodes
    /\ granted \subseteq (1..MaxToken) \X Nodes

\* The configuration in which every engine runs a single lease worker.
OneWorkerPerNode == \A v, w \in Workers : NodeOf[v] = NodeOf[w] => v = w

\* The check of AcquireTimerWorkCmd, ExecuteTimerWorkCmd and RenewTimerLeaseCmd:
\* the row must carry the token and the owner of the work.
PassesFence(g) == lease # NoLease /\ lease.token = g[1] /\ lease.owner = g[2]

\* A fencing token identifies one node: acquire_coordinator_lease never hands
\* the same token to two owners, whatever releases, step-downs, takeovers and
\* failed writes happen in between.
OneOwnerPerToken ==
    \A g, h \in granted : g[1] = h[1] => g[2] = h[2]

\* Work fenced out once is fenced out for good: when the row no longer carries
\* a granted token (a takeover, a release or an administrative step-down), no
\* later step makes the check of that token succeed again.
RejectedTokenStaysRejected ==
    [][\A g \in granted : ~PassesFence(g) => ~PassesFence(g)']_vars

=============================================================================
