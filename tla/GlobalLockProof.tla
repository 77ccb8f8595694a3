---------------------------- MODULE GlobalLockProof ----------------------------
(***************************************************************************)
(* Proofs about the global acquire lock, for any number of managers, jobs  *)
(* and any lease time.                                                     *)
(***************************************************************************)
EXTENDS GlobalLock, TLAPS

\* What a write leaves in the property row is a row, and it ends every open read.
LEMMA WriteRowType ==
    ASSUME NEW o \in Managers \cup {Nobody}, NEW k \in 0..LeaseTime,
           WriteRow([owner |-> o, left |-> k])
    PROVE  /\ prop' \in Row
           /\ fresh' \in [Managers -> BOOLEAN]
  BY DEF WriteRow, Row

\* The type invariant of the global lock: every command of a LockManager and
\* every bulk acquisition leaves the row, the flags and the jobs well-formed.
THEOREM GlobalLockTypeCorrect == Spec => []TypeOK
<1> USE LeaseAssumption, NullsAssumption
<1>1. Init => TypeOK
  BY DEF Init, TypeOK
<1>2. TypeOK /\ [Next]_vars => TypeOK'
  <2> SUFFICES ASSUME TypeOK, [Next]_vars PROVE TypeOK'
    OBVIOUS
  <2> USE DEF TypeOK
  <2>1. ASSUME NEW m \in Managers, AcquireShortcut(m) PROVE TypeOK'
    BY <2>1 DEF AcquireShortcut, jobVars
  <2>2. ASSUME NEW m \in Managers, AcquireRead(m) PROVE TypeOK'
    BY <2>2 DEF AcquireRead, jobVars
  <2>3. ASSUME NEW m \in Managers, AcquireWrite(m) PROVE TypeOK'
    <3>1. Granted(m) \in 0..LeaseTime
      BY DEF Granted
    <3>2. CASE RowUnwritten(m)
      <4>1. prop' \in Row /\ fresh' \in [Managers -> BOOLEAN]
        BY <2>3, <3>1, <3>2, WriteRowType DEF AcquireWrite
      <4>2. has' = [has EXCEPT ![m] = TRUE] /\ lease' = [lease EXCEPT ![m] = Granted(m)]
        BY <2>3, <3>2 DEF AcquireWrite
      <4>3. age' \in [Managers -> 0..LeaseTime]
        BY <2>3 DEF AcquireWrite
      <4>4. UNCHANGED <<batch, jobOwner, late>>
        BY <2>3 DEF AcquireWrite, jobVars
      <4>5. pc' = [pc EXCEPT ![m] = "section"]
        BY <2>3, <3>2 DEF AcquireWrite
      <4> QED
        BY <3>1, <4>1, <4>2, <4>3, <4>4, <4>5
    <3>3. CASE ~RowUnwritten(m)
      BY <2>3, <3>3 DEF AcquireWrite, jobVars
    <3> QED
      BY <3>2, <3>3
  <2>4. ASSUME NEW m \in Managers, AcquireError(m) PROVE TypeOK'
    <3>1. Granted(m) \in 0..LeaseTime
      BY DEF Granted
    <3>2. prop' \in Row \cup {NoRow} /\ fresh' \in [Managers -> BOOLEAN]
      BY <2>4, <3>1, WriteRowType DEF AcquireError
    <3>3. age' \in [Managers -> 0..LeaseTime]
      BY <2>4 DEF AcquireError
    <3>4. UNCHANGED <<has, lease, batch, jobOwner, late>>
      BY <2>4 DEF AcquireError, jobVars
    <3>5. pc' = [pc EXCEPT ![m] = "idle"]
      BY <2>4 DEF AcquireError
    <3> QED
      BY <3>2, <3>3, <3>4, <3>5
  <2>5. ASSUME NEW m \in Managers, SelectJobs(m) PROVE TypeOK'
    BY <2>5 DEF SelectJobs
  <2>6. ASSUME NEW m \in Managers, BulkUpdate(m) PROVE TypeOK'
    BY <2>6 DEF BulkUpdate
  <2>7. ASSUME NEW m \in Managers, ReleaseRead(m) PROVE TypeOK'
    BY Zenon, <2>7 DEF ReleaseRead, OwnsRow
  <2>8. ASSUME NEW m \in Managers, ReleaseWrite(m) PROVE TypeOK'
    <3>1. prop' \in Row \cup {NoRow} /\ fresh' \in [Managers -> BOOLEAN]
      BY <2>8, WriteRowType DEF ReleaseWrite
    <3> QED
      BY Zenon, <2>8, <3>1 DEF ReleaseWrite, jobVars
  <2>9. ASSUME NEW m \in Managers, ReleaseError(m) PROVE TypeOK'
    <3>1. prop' \in Row \cup {NoRow} /\ fresh' \in [Managers -> BOOLEAN]
      BY <2>9, WriteRowType DEF ReleaseError
    <3>2. lease' \in [Managers -> 0..LeaseTime]
      BY <2>9 DEF ReleaseError
    <3> QED
      BY Zenon, <2>9, <3>1, <3>2 DEF ReleaseError, jobVars
  <2>10. ASSUME NEW m \in Managers, Crash(m) PROVE TypeOK'
    BY <2>10 DEF Crash
  <2>11. ASSUME NEW j \in Jobs, JobUnlocked(j) PROVE TypeOK'
    BY <2>11 DEF JobUnlocked
  <2>12. CASE Tick
    <3>1. prop' \in Row \cup {NoRow}
      BY <2>12 DEF Tick, Less, Row
    <3> QED
      BY <2>12, <3>1 DEF Tick, Less, jobVars
  <2>13. CASE UNCHANGED vars
    BY <2>13 DEF vars
  <2> QED
    BY <2>1, <2>2, <2>3, <2>4, <2>5, <2>6, <2>7, <2>8, <2>9, <2>10, <2>11, <2>12, <2>13
       DEF Next
<1> QED
  BY <1>1, <1>2, PTL DEF Spec

-----------------------------------------------------------------------------
(* The strengthening of LeaseExclusive.                                    *)

\* The holder of an unexpired lease owns the row, for at least as long.
HolderOwnsRow ==
    \A m \in Managers : HoldsLease(m) => OwnsRow(m) /\ prop.left >= lease[m]

\* What an open command found in the row is still so unless the row was written.
ReadsStillTrue ==
    \A m \in Managers : fresh[m] =>
        /\ pc[m] = "acquire" => Takeable(m)
        /\ pc[m] = "release" => OwnsRow(m)

\* A manager is in the protected section only while it believes in the lock.
SectionHasLock ==
    \A m \in Managers : pc[m] \in {"section", "bulk", "offered"} => has[m]

\* A manager asks for the lock only while it does not believe in it.
AcquirerHasNone == \A m \in Managers : pc[m] = "acquire" => ~has[m]

\* What a manager in its lease has selected is still unlocked, or was locked by
\* a manager that had outlived its own lease.
SelectionIsUnlocked ==
    \A m \in Managers, j \in Jobs :
        pc[m] = "bulk" /\ j \in batch[m] /\ lease[m] > 0 => jobOwner[j] = Nobody \/ j \in late

LockInv ==
    /\ TypeOK
    /\ HolderOwnsRow
    /\ ReadsStillTrue
    /\ SectionHasLock
    /\ AcquirerHasNone
    /\ SelectionIsUnlocked

\* Leases held by two managers would make both the owner of one row.
LEMMA HolderIsUnique == TypeOK /\ HolderOwnsRow => LeaseExclusive
  BY DEF TypeOK, HolderOwnsRow, LeaseExclusive, HoldsLease, OwnsRow

\* The row is written only by a manager that found it takeable, or its own, and
\* nobody else holds an unexpired lease then.
LEMMA WriterIsAlone ==
    ASSUME TypeOK, HolderOwnsRow, ReadsStillTrue, NEW m \in Managers, NEW n \in Managers,
           fresh[m], pc[m] \in {"acquire", "release"}, HoldsLease(n)
    PROVE  n = m
<1>1. OwnsRow(n) /\ prop.left > 0
  <2>1. OwnsRow(n) /\ prop.left >= lease[n] /\ lease[n] > 0
    BY DEF HolderOwnsRow, HoldsLease
  <2>2. prop \in Row /\ lease[n] \in Nat
    BY <2>1, NullsAssumption, LeaseAssumption DEF TypeOK, OwnsRow
  <2> QED
    BY <2>1, <2>2, LeaseAssumption DEF Row
<1>2. pc[m] = "acquire" => Takeable(m)
  BY DEF ReadsStillTrue
<1>3. pc[m] = "release" => OwnsRow(m)
  BY DEF ReadsStillTrue
<1> QED
  BY <1>1, <1>2, <1>3, NullsAssumption DEF Takeable, OwnsRow

\* Every action keeps the holder of an unexpired lease the owner of the row.
LEMMA LockInvariant == Spec => []LockInv
<1> USE LeaseAssumption, NullsAssumption
<1>1. Init => LockInv
  BY DEF Init, LockInv, TypeOK, HolderOwnsRow, ReadsStillTrue, SectionHasLock, AcquirerHasNone,
         SelectionIsUnlocked, HoldsLease
<1>2. LockInv /\ TypeOK' /\ [Next]_vars => LockInv'
  <2> SUFFICES ASSUME LockInv, TypeOK', [Next]_vars
               PROVE  HolderOwnsRow' /\ ReadsStillTrue' /\ SectionHasLock' /\ AcquirerHasNone'
                      /\ SelectionIsUnlocked'
    BY DEF LockInv
  <2> DEFINE Goal == HolderOwnsRow' /\ ReadsStillTrue' /\ SectionHasLock' /\ AcquirerHasNone'
                      /\ SelectionIsUnlocked'
  <2> USE DEF LockInv, TypeOK
  <2>1. ASSUME NEW m \in Managers, AcquireShortcut(m) PROVE Goal
    BY <2>1 DEF AcquireShortcut, jobVars, HolderOwnsRow, ReadsStillTrue, SectionHasLock,
                    AcquirerHasNone,
                SelectionIsUnlocked, HoldsLease, OwnsRow, Takeable
  <2>2. ASSUME NEW m \in Managers, AcquireRead(m) PROVE Goal
    BY <2>2 DEF AcquireRead, jobVars, HolderOwnsRow, ReadsStillTrue, SectionHasLock,
                    AcquirerHasNone,
                SelectionIsUnlocked, HoldsLease, OwnsRow, Takeable
  <2>3. ASSUME NEW m \in Managers, AcquireWrite(m) PROVE Goal
    <3>1. CASE ~RowUnwritten(m)
      BY <2>3, <3>1 DEF AcquireWrite, jobVars, HolderOwnsRow, ReadsStillTrue, SectionHasLock,
                      AcquirerHasNone,
                        SelectionIsUnlocked, HoldsLease, OwnsRow, Takeable
    <3>2. CASE RowUnwritten(m)
      <4>1. /\ prop' = [owner |-> m, left |-> Granted(m)]
            /\ fresh' = [n \in Managers |-> FALSE]
            /\ has' = [has EXCEPT ![m] = TRUE]
            /\ lease' = [lease EXCEPT ![m] = Granted(m)]
            /\ pc' = [pc EXCEPT ![m] = "section"]
            /\ pc[m] = "acquire" /\ UNCHANGED <<batch, jobOwner, late>>
        BY <2>3, <3>2 DEF AcquireWrite, WriteRow, jobVars
      <4>2. \A n \in Managers : HoldsLease(n) => n = m
        BY <2>3, <3>2, <4>1, WriterIsAlone DEF RowUnwritten
      <4>3. Granted(m) \in Nat
        BY DEF Granted
      <4>4. ASSUME NEW n \in Managers, HoldsLease(n)' PROVE OwnsRow(n)' /\ prop'.left >= lease'[n]
        <5>1. CASE n = m
          <6>1. lease'[m] = Granted(m)
            BY <4>1
          <6>2. prop'.owner = m /\ prop'.left = Granted(m) /\ prop' \in Row
            BY <4>1, <4>3 DEF Granted, Row
          <6> QED
            BY <5>1, <6>1, <6>2, <4>3 DEF OwnsRow
        <5>2. CASE n # m
          BY <4>1, <4>2, <4>4, <5>2 DEF HoldsLease
        <5> QED
          BY <5>1, <5>2
      <4>5. HolderOwnsRow'
        BY <4>4 DEF HolderOwnsRow
      <4>6. ReadsStillTrue' /\ SectionHasLock' /\ AcquirerHasNone'
        BY <4>1 DEF ReadsStillTrue, SectionHasLock, AcquirerHasNone
      <4>7. SelectionIsUnlocked'
        BY <4>1 DEF SelectionIsUnlocked
      <4> QED
        BY <4>5, <4>6, <4>7
    <3> QED
      BY <3>1, <3>2
  <2>4. ASSUME NEW m \in Managers, AcquireError(m) PROVE Goal
    <3>1. /\ UNCHANGED <<has, lease, batch, jobOwner, late>>
          /\ pc' = [pc EXCEPT ![m] = "idle"] /\ pc[m] = "acquire"
      BY <2>4 DEF AcquireError, jobVars
    <3>2. CASE UNCHANGED <<prop, fresh>>
      BY <3>1, <3>2 DEF HolderOwnsRow, ReadsStillTrue, SectionHasLock, AcquirerHasNone,
                        SelectionIsUnlocked, HoldsLease, OwnsRow, Takeable
    <3>3. CASE RowUnwritten(m) /\ WriteRow([owner |-> m, left |-> Granted(m)])
      <4>1. \A n \in Managers : HoldsLease(n) => n = m
        BY <3>1, <3>3, WriterIsAlone DEF RowUnwritten
      <4>2. \A n \in Managers : ~HoldsLease(n)'
        BY <3>1, <4>1 DEF HoldsLease, AcquirerHasNone
      <4> QED
        BY <3>1, <3>3, <4>2 DEF WriteRow, HolderOwnsRow, ReadsStillTrue, SectionHasLock,
                                AcquirerHasNone, SelectionIsUnlocked
    <3> QED
      BY <2>4, <3>2, <3>3 DEF AcquireError
  <2>5. ASSUME NEW m \in Managers, SelectJobs(m) PROVE Goal
    BY <2>5 DEF SelectJobs, HolderOwnsRow, ReadsStillTrue, SectionHasLock, AcquirerHasNone,
                SelectionIsUnlocked, HoldsLease, OwnsRow, Takeable
  <2>6. ASSUME NEW m \in Managers, BulkUpdate(m) PROVE Goal
    <3>1. HolderOwnsRow' /\ ReadsStillTrue' /\ SectionHasLock' /\ AcquirerHasNone'
      BY <2>6 DEF BulkUpdate, HolderOwnsRow, ReadsStillTrue, SectionHasLock, AcquirerHasNone,
                  HoldsLease, OwnsRow, Takeable
    <3>2. ASSUME NEW n \in Managers, NEW j \in Jobs,
                 pc'[n] = "bulk", j \in batch'[n], lease'[n] > 0
          PROVE  jobOwner'[j] = Nobody \/ j \in late'
      <4>1. n # m /\ pc[n] = "bulk" /\ j \in batch[n] /\ lease[n] > 0 /\ pc[m] = "bulk"
        BY <2>6, <3>2 DEF BulkUpdate
      <4>2. CASE j \notin batch[m]
        BY <2>6, <4>1, <4>2 DEF BulkUpdate, SelectionIsUnlocked
      <4>3. CASE j \in batch[m]
        <5>1. HoldsLease(n) /\ has[m]
          BY <4>1 DEF HoldsLease, SectionHasLock
        <5>2. ~HoldsLease(m)
          BY <4>1, <5>1, HolderIsUnique DEF LeaseExclusive
        <5>3. lease[m] = 0
          BY <5>1, <5>2 DEF HoldsLease
        <5> QED
          BY <2>6, <4>3, <5>3 DEF BulkUpdate
      <4> QED
        BY <4>2, <4>3
    <3> QED
      BY <3>1, <3>2 DEF SelectionIsUnlocked
  <2>7. ASSUME NEW m \in Managers, ReleaseRead(m) PROVE Goal
    BY <2>7 DEF ReleaseRead, HolderOwnsRow, ReadsStillTrue, SectionHasLock, AcquirerHasNone,
                SelectionIsUnlocked, HoldsLease, OwnsRow, Takeable
  <2>8. ASSUME NEW m \in Managers, ReleaseWrite(m) PROVE Goal
    <3>1. CASE ~RowUnwritten(m)
      BY <2>8, <3>1 DEF ReleaseWrite, jobVars, HolderOwnsRow, ReadsStillTrue, SectionHasLock,
                      AcquirerHasNone,
                        SelectionIsUnlocked, HoldsLease, OwnsRow, Takeable
    <3>2. CASE RowUnwritten(m)
      <4>1. /\ fresh' = [n \in Managers |-> FALSE]
            /\ has' = [has EXCEPT ![m] = FALSE]
            /\ pc' = [pc EXCEPT ![m] = "idle"]
            /\ pc[m] = "release" /\ UNCHANGED <<lease, batch, jobOwner, late>>
        BY <2>8, <3>2 DEF ReleaseWrite, WriteRow, jobVars
      <4>2. \A n \in Managers : HoldsLease(n) => n = m
        BY <3>2, <4>1, WriterIsAlone DEF RowUnwritten
      <4>3. \A n \in Managers : ~HoldsLease(n)'
        BY <4>1, <4>2 DEF HoldsLease
      <4> QED
        BY <4>1, <4>3 DEF HolderOwnsRow, ReadsStillTrue, SectionHasLock, AcquirerHasNone,
                          SelectionIsUnlocked
    <3> QED
      BY <3>1, <3>2
  <2>9. ASSUME NEW m \in Managers, ReleaseError(m) PROVE Goal
    <3>1. /\ UNCHANGED <<has, batch, jobOwner, late>>
          /\ pc' = [pc EXCEPT ![m] = "idle"] /\ pc[m] = "release"
      BY <2>9 DEF ReleaseError, jobVars
    <3>2. CASE UNCHANGED <<prop, fresh, lease>>
      BY <3>1, <3>2 DEF HolderOwnsRow, ReadsStillTrue, SectionHasLock, AcquirerHasNone,
                        SelectionIsUnlocked, HoldsLease, OwnsRow, Takeable
    <3>3. CASE /\ RowUnwritten(m) /\ WriteRow([owner |-> Nobody, left |-> 0])
               /\ lease' = [lease EXCEPT ![m] = 0]
      <4>1. \A n \in Managers : HoldsLease(n) => n = m
        BY <3>1, <3>3, WriterIsAlone DEF RowUnwritten
      <4>2. \A n \in Managers : ~HoldsLease(n)'
        BY <3>1, <3>3, <4>1 DEF HoldsLease
      <4> QED
        BY <3>1, <3>3, <4>2 DEF WriteRow, HolderOwnsRow, ReadsStillTrue, SectionHasLock,
                                AcquirerHasNone, SelectionIsUnlocked
    <3> QED
      BY <2>9, <3>2, <3>3 DEF ReleaseError
  <2>10. ASSUME NEW m \in Managers, Crash(m) PROVE Goal
    BY <2>10 DEF Crash, HolderOwnsRow, ReadsStillTrue, SectionHasLock, AcquirerHasNone,
                 SelectionIsUnlocked, HoldsLease, OwnsRow, Takeable
  <2>11. ASSUME NEW j \in Jobs, JobUnlocked(j) PROVE Goal
    BY <2>11 DEF JobUnlocked, HolderOwnsRow, ReadsStillTrue, SectionHasLock, AcquirerHasNone,
                 SelectionIsUnlocked, HoldsLease, OwnsRow, Takeable
  <2>12. CASE Tick
    <3>1. /\ UNCHANGED <<has, pc, fresh, batch, jobOwner, late>>
          /\ \A n \in Managers : lease'[n] = Less(lease[n])
          /\ prop = NoRow => prop' = NoRow
          /\ prop # NoRow => prop' # NoRow /\ prop'.owner = prop.owner /\ prop'.left = Less(prop.left)
      <4>1. prop # NoRow => prop \in Row /\ prop' = [prop EXCEPT !.left = Less(prop.left)]
        BY <2>12 DEF Tick
      <4>2. prop # NoRow => prop' \in Row
        <5>1. ASSUME NEW k \in 0..LeaseTime PROVE Less(k) \in 0..LeaseTime
          BY DEF Less
        <5>2. prop \in Row => Less(prop.left) \in 0..LeaseTime
          BY <5>1 DEF Row
        <5> QED
          BY <4>1, <5>2 DEF Row
      <4> QED
        <5>1. prop # NoRow => prop'.owner = prop.owner /\ prop'.left = Less(prop.left)
          BY <4>1 DEF Row
        <5>2. prop # NoRow => prop' # NoRow
          BY <4>2
        <5>3. \A n \in Managers : lease'[n] = Less(lease[n])
          BY <2>12 DEF Tick
        <5> QED
          BY <2>12, <5>1, <5>2, <5>3 DEF Tick, jobVars
    <3>2. prop # NoRow => prop.left \in Nat
      BY DEF Row
    <3>3. HolderOwnsRow'
      BY <3>1, <3>2 DEF HolderOwnsRow, HoldsLease, OwnsRow, Less
    <3>4. ReadsStillTrue'
      BY <3>1, <3>2 DEF ReadsStillTrue, OwnsRow, Takeable, Less
    <3>5. SectionHasLock' /\ AcquirerHasNone'
                      /\ SelectionIsUnlocked'
      BY <3>1 DEF SectionHasLock, AcquirerHasNone, SelectionIsUnlocked, Less
    <3> QED
      BY <3>3, <3>4, <3>5
  <2>13. CASE UNCHANGED vars
    BY <2>13 DEF vars, HolderOwnsRow, ReadsStillTrue, SectionHasLock, AcquirerHasNone,
                 SelectionIsUnlocked, HoldsLease, OwnsRow, Takeable
  <2> QED
    BY <2>1, <2>2, <2>3, <2>4, <2>5, <2>6, <2>7, <2>8, <2>9, <2>10, <2>11, <2>12, <2>13
       DEF Next
<1> QED
  BY <1>1, <1>2, GlobalLockTypeCorrect, PTL DEF Spec

\* No two LockManagers hold unexpired leases on the global lock at once, whichever
\* of their commands fail, before or after the commit.
THEOREM GlobalLockLeaseExclusive == Spec => []LeaseExclusive
<1>1. LockInv => LeaseExclusive
  BY HolderIsUnique DEF LockInv
<1> QED
  BY <1>1, LockInvariant, PTL

\* The serialized bulk UPDATE replaces another manager's job lock only when one
\* of the two had outlived its lease or given it back without knowing.
THEOREM GlobalLockOverwrite == Spec => OverwriteNeedsLateHolder
<1>1. LockInv /\ [Next]_vars
        => [\A j \in Jobs :
              (jobOwner[j] # Nobody /\ jobOwner'[j] \notin {jobOwner[j], Nobody})
                 => j \in late \/ j \in late']_vars
  <2> SUFFICES ASSUME LockInv, Next, NEW j \in Jobs,
                      jobOwner[j] # Nobody, jobOwner'[j] \notin {jobOwner[j], Nobody}
               PROVE  j \in late \/ j \in late'
    OBVIOUS
  <2>1. PICK m \in Managers : BulkUpdate(m)
    BY Zenon DEF Next, AcquireShortcut, AcquireRead, AcquireWrite, AcquireError, SelectJobs,
           ReleaseRead, ReleaseWrite, ReleaseError, Crash, JobUnlocked, Tick, jobVars,
           LockInv, TypeOK
  <2>2. j \in batch[m] /\ pc[m] = "bulk"
    BY <2>1 DEF BulkUpdate, LockInv, TypeOK
  <2>3. CASE lease[m] = 0
    BY <2>1, <2>2, <2>3 DEF BulkUpdate
  <2>4. CASE lease[m] # 0
    <3>1. lease[m] > 0
      BY <2>4, LeaseAssumption DEF LockInv, TypeOK
    <3> QED
      BY <2>2, <3>1 DEF LockInv, SelectionIsUnlocked
  <2> QED
    BY <2>3, <2>4
<1> QED
  BY <1>1, LockInvariant, PTL DEF Spec, OverwriteNeedsLateHolder

=============================================================================
