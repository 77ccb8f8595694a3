------------------------------ MODULE GlobalLock ------------------------------
(***************************************************************************)
(* The global acquire lock: one row of ACT_GE_PROPERTY, holding            *)
(* "owner|acquired|expiry" or the empty string, the LockManagers of the    *)
(* acquisition threads that compete for it, and the bulk job acquisition   *)
(* (AcquisitionWritePolicy::SerializedByGlobalLock) that it protects.      *)
(*                                                                         *)
(* Source: flowable-engine, engine/lock_manager.rs, the property lock of   *)
(* persistence/runtime_store.rs, and the loops of                          *)
(* engine/async_job_acquisition.rs and engine/timer_job_acquisition.rs.    *)
(*                                                                         *)
(* Time is relative: the row and every grant carry the ticks that are left *)
(* until they expire, so that no clock has to be bounded.  REV_ only ever  *)
(* grows, so a conditional update needs to know one thing of it: whether   *)
(* the row was written since the manager read it (fresh).                  *)
(***************************************************************************)
EXTENDS Integers

CONSTANTS
    Managers,           \* LockManagers; each has an owner id of its own
    Jobs,               \* due rows of timer_job_states
    LeaseTime,          \* lease_ms, in clock ticks
    Nobody,             \* the lock_owner of an unlocked job; the row's empty value
    NoRow               \* the property does not exist yet

ASSUME LeaseAssumption == LeaseTime \in Nat \ {0}

Row == [owner : Managers \cup {Nobody}, left : 0..LeaseTime]

ASSUME NullsAssumption == Nobody \notin Managers /\ NoRow \notin Row

VARIABLES
    prop,       \* the property row
    has,        \* has_acquired of every manager
    pc,         \* where each manager's acquisition thread is
    fresh,      \* the row was not written since the manager read it
    age,        \* ticks since the manager's open command read the clock
    lease,      \* history: ticks left of the last lease a manager was granted, 0
                \* once it has freed the row without knowing
    batch,      \* the unlocked jobs a manager has selected
    jobOwner,   \* lock_owner of every job
    late        \* history: jobs locked by a manager without a lease

vars == <<prop, has, pc, fresh, age, lease, batch, jobOwner, late>>
jobVars == <<batch, jobOwner, late>>

Init ==
    /\ prop = NoRow
    /\ has = [m \in Managers |-> FALSE]
    /\ pc = [m \in Managers |-> "idle"]
    /\ fresh = [m \in Managers |-> FALSE]
    /\ age = [m \in Managers |-> 0]
    /\ lease = [m \in Managers |-> 0]
    /\ batch = [m \in Managers |-> {}]
    /\ jobOwner = [j \in Jobs |-> Nobody]
    /\ late = {}

-----------------------------------------------------------------------------
(* Taking the lock.                                                        *)

\* Every write of the row increments REV_.
WriteRow(r) ==
    /\ prop' = r
    /\ fresh' = [m \in Managers |-> FALSE]

\* try_acquire asks the database only while has_acquired is false.
AcquireShortcut(m) ==
    /\ pc[m] = "idle" /\ has[m]
    /\ pc' = [pc EXCEPT ![m] = "section"]
    /\ UNCHANGED <<prop, has, fresh, age, lease, jobVars>>

\* Mutant: an expired lock of another owner is not reclaimed.
NeverReclaims(m) == prop # NoRow => prop.owner \in {Nobody, m}

\* Mutant: the lease of another owner is not looked at.
AlwaysReclaims(m) == TRUE

\* The row is missing, free, the manager's own, or expired.
Takeable(m) == prop # NoRow => prop.owner \in {Nobody, m} \/ prop.left = 0

\* try_acquire_property_lock, up to its write.  Ok(false) leaves no trace: the
\* manager sleeps and polls again.
AcquireRead(m) ==
    /\ pc[m] = "idle" /\ ~has[m]
    /\ Takeable(m)
    /\ pc' = [pc EXCEPT ![m] = "acquire"]
    /\ fresh' = [fresh EXCEPT ![m] = TRUE]
    /\ age' = [age EXCEPT ![m] = 0]
    /\ UNCHANGED <<prop, has, lease, jobVars>>

\* Mutant: property_update in place of property_update_if_revision.
RevisionIgnored(m) == TRUE

\* The insert needs a missing row, the update the revision that was read:
\* either way the row has not been written since.
RowUnwritten(m) == fresh[m]

\* The expiry counts from the time the command read, not from its write.
Granted(m) == LeaseTime - age[m]

AcquireWrite(m) ==
    /\ pc[m] = "acquire"
    /\ IF RowUnwritten(m)
         THEN /\ WriteRow([owner |-> m, left |-> Granted(m)])
              /\ has' = [has EXCEPT ![m] = TRUE]
              /\ lease' = [lease EXCEPT ![m] = Granted(m)]
              /\ pc' = [pc EXCEPT ![m] = "section"]
         ELSE /\ pc' = [pc EXCEPT ![m] = "idle"]
              /\ UNCHANGED <<prop, has, fresh, lease>>
    /\ age' = [age EXCEPT ![m] = 0]
    /\ UNCHANGED jobVars

\* Err: has_acquired stays false, and the row is written only if the command
\* failed after its commit (in a COMMITTED listener).
AcquireError(m) ==
    /\ pc[m] = "acquire"
    /\ \/ UNCHANGED <<prop, fresh>>
       \/ RowUnwritten(m) /\ WriteRow([owner |-> m, left |-> Granted(m)])
    /\ pc' = [pc EXCEPT ![m] = "idle"]
    /\ age' = [age EXCEPT ![m] = 0]
    /\ UNCHANGED <<has, lease, jobVars>>

-----------------------------------------------------------------------------
(* The protected section: select unlocked rows, then lock them all with an *)
(* UPDATE that names the row ids only.                                     *)

SelectJobs(m) ==
    /\ pc[m] = "section"
    /\ \E sel \in SUBSET {j \in Jobs : jobOwner[j] = Nobody} \ {{}} :
         batch' = [batch EXCEPT ![m] = sel]
    /\ pc' = [pc EXCEPT ![m] = "bulk"]
    /\ UNCHANGED <<prop, has, fresh, age, lease, jobOwner, late>>

BulkUpdate(m) ==
    /\ pc[m] = "bulk"
    /\ jobOwner' = [j \in Jobs |-> IF j \in batch[m] THEN m ELSE jobOwner[j]]
    /\ late' = IF lease[m] = 0 THEN late \cup batch[m] ELSE late \ batch[m]
    /\ batch' = [batch EXCEPT ![m] = {}]
    /\ pc' = [pc EXCEPT ![m] = "offered"]
    /\ UNCHANGED <<prop, has, fresh, age, lease>>

\* A locked job is executed, rejected or reset, and its row is unlocked.
JobUnlocked(j) ==
    /\ jobOwner[j] # Nobody
    /\ jobOwner' = [jobOwner EXCEPT ![j] = Nobody]
    /\ late' = late \ {j}
    /\ UNCHANGED <<prop, has, pc, fresh, age, lease, batch>>

-----------------------------------------------------------------------------
(* Giving the lock back: permit.finish(), the permit's Drop, release().    *)

Leaving(m) == pc[m] \in {"section", "bulk", "offered"} \/ (pc[m] = "idle" /\ has[m])

OwnsRow(m) == prop # NoRow /\ prop.owner = m

\* release_property_lock, up to its write.  A row that is missing or owned by
\* another manager is OwnershipLost: the local flag is cleared.
ReleaseRead(m) ==
    /\ Leaving(m)
    /\ batch' = [batch EXCEPT ![m] = {}]
    /\ IF OwnsRow(m)
         THEN /\ pc' = [pc EXCEPT ![m] = "release"]
              /\ fresh' = [fresh EXCEPT ![m] = TRUE]
              /\ UNCHANGED has
         ELSE /\ pc' = [pc EXCEPT ![m] = "idle"]
              /\ has' = [has EXCEPT ![m] = FALSE]
              /\ UNCHANGED fresh
    /\ UNCHANGED <<prop, age, lease, jobOwner, late>>

ReleaseWrite(m) ==
    /\ pc[m] = "release"
    /\ IF RowUnwritten(m)
         THEN WriteRow([owner |-> Nobody, left |-> 0])
         ELSE UNCHANGED <<prop, fresh>>
    /\ has' = [has EXCEPT ![m] = FALSE]
    /\ pc' = [pc EXCEPT ![m] = "idle"]
    /\ UNCHANGED <<age, lease, jobVars>>

\* Err: has_acquired stays true, although the row is free if the command
\* failed after its commit.
ReleaseError(m) ==
    /\ pc[m] = "release"
    /\ \/ UNCHANGED <<prop, fresh, lease>>
       \/ /\ RowUnwritten(m) /\ WriteRow([owner |-> Nobody, left |-> 0])
          /\ lease' = [lease EXCEPT ![m] = 0]
    /\ pc' = [pc EXCEPT ![m] = "idle"]
    /\ UNCHANGED <<has, age, jobVars>>

-----------------------------------------------------------------------------
(* A dead engine never comes back under the same owner id: the id ends in  *)
(* a fresh UUID.                                                           *)
Crash(m) ==
    /\ pc[m] # "dead"
    /\ pc' = [pc EXCEPT ![m] = "dead"]
    /\ has' = [has EXCEPT ![m] = FALSE]
    /\ batch' = [batch EXCEPT ![m] = {}]
    /\ age' = [age EXCEPT ![m] = 0]
    /\ UNCHANGED <<prop, fresh, lease, jobOwner, late>>

Less(n) == IF n = 0 THEN 0 ELSE n - 1

Tick ==
    /\ prop' = IF prop = NoRow THEN NoRow ELSE [prop EXCEPT !.left = Less(prop.left)]
    /\ lease' = [m \in Managers |-> Less(lease[m])]
    /\ age' = [m \in Managers |->
                 IF pc[m] = "acquire" /\ age[m] < LeaseTime THEN age[m] + 1 ELSE age[m]]
    /\ UNCHANGED <<has, pc, fresh, jobVars>>

Next ==
    \/ \E m \in Managers :
         \/ AcquireShortcut(m) \/ AcquireRead(m) \/ AcquireWrite(m) \/ AcquireError(m)
         \/ SelectJobs(m) \/ BulkUpdate(m)
         \/ ReleaseRead(m) \/ ReleaseWrite(m) \/ ReleaseError(m)
         \/ Crash(m)
    \/ \E j \in Jobs : JobUnlocked(j)
    \/ Tick

\* The loops poll for ever, time passes, and a store that fails does not fail
\* every time.
Fairness ==
    /\ WF_vars(Tick)
    /\ \A m \in Managers :
         /\ WF_vars(AcquireShortcut(m) \/ AcquireRead(m))
         /\ SF_vars(AcquireWrite(m))
         /\ WF_vars(ReleaseRead(m))
         /\ SF_vars(ReleaseWrite(m))

Spec == Init /\ [][Next]_vars
FairSpec == Spec /\ Fairness

-----------------------------------------------------------------------------
(* Properties.                                                             *)

\* The property row, the managers' memory and the job locks have their types; a
\* lease never exceeds lease_ms.
TypeOK ==
    /\ prop \in Row \cup {NoRow}
    /\ has \in [Managers -> BOOLEAN]
    /\ pc \in [Managers -> {"idle", "acquire", "section", "bulk", "offered", "release", "dead"}]
    /\ fresh \in [Managers -> BOOLEAN]
    /\ age \in [Managers -> 0..LeaseTime]
    /\ lease \in [Managers -> 0..LeaseTime]
    /\ batch \in [Managers -> SUBSET Jobs]
    /\ jobOwner \in [Jobs -> Managers \cup {Nobody}]
    /\ late \subseteq Jobs

\* The lease of a manager that believes it holds the lock has not run out and
\* was not given back by a release that failed after its commit.
HoldsLease(m) == has[m] /\ lease[m] > 0

\* Two managers never hold unexpired leases at once: the revision check of
\* update_engine_property_if_revision lets only one reclaim of an expired or
\* released lock succeed, and no late write revives a lost lock.
LeaseExclusive ==
    \A m, n \in Managers : HoldsLease(m) /\ HoldsLease(n) => m = n

\* The bulk UPDATE does not look at lock_owner.  It replaces the lock of
\* another manager only if one of the two locked the job when its lease had run
\* out or had been given back.
OverwriteNeedsLateHolder ==
    [][\A j \in Jobs :
         (jobOwner[j] # Nobody /\ jobOwner'[j] \notin {jobOwner[j], Nobody})
            => j \in late \/ j \in late']_vars

\* A lock held by an engine that died is reclaimed: as long as some manager is
\* alive, the row does not stay with the dead owner.
DeadHolderReplaced ==
    \A m \in Managers :
        (OwnsRow(m) /\ pc[m] = "dead") ~> (~OwnsRow(m) \/ \A n \in Managers : pc[n] = "dead")

=============================================================================
