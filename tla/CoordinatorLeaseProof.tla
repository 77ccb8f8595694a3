------------------------ MODULE CoordinatorLeaseProof ------------------------
(***************************************************************************)
(* What CoordinatorLease guarantees for every set of nodes and workers,    *)
(* every timeout and every bound.  Fencing holds when no two workers share *)
(* an owner id (OneWorkerPerNode); the type invariant needs no hypothesis. *)
(***************************************************************************)
EXTENDS CoordinatorLease, TLAPS

\* Tokens handed out never exceed the row's, and the row's own token has only
\* been handed to the row's owner.
TokensBelowRow ==
    \A g \in granted :
        /\ lease # NoLease
        /\ g[1] <= lease.token
        /\ g[1] = lease.token => g[2] = lease.owner

\* A worker that is about to renew still sees the row's token as long as its
\* node is the owner: this is what the renewal's UPDATE, conditional on the
\* owner alone, relies on.
RenewalIsCurrent ==
    \A w \in Workers :
        (/\ pc[w] = "acquire" /\ seen[w] # NoLease /\ seen[w].owner = NodeOf[w]
         /\ lease # NoLease /\ lease.owner = NodeOf[w])
        => seen[w].token = lease.token

\* A row that was read once is never deleted.
RowStays == (\E w \in Workers : seen[w] # NoLease) \/ stepSeen # NoLease => lease # NoLease

FenceInv == TypeOK /\ TokensBelowRow /\ RenewalIsCurrent /\ RowStays /\ OneOwnerPerToken

-----------------------------------------------------------------------------
\* Init and every action keep the variables of the lease model in their types.
THEOREM LeaseTypeCorrect == Spec => []TypeOK
<1>1. Init => TypeOK
  BY BoundAssumption DEF Init, TypeOK, LeaseRow, NoBeat
<1>2. TypeOK /\ [Next]_vars => TypeOK'
  <2> SUFFICES ASSUME TypeOK, [Next]_vars PROVE TypeOK'
    OBVIOUS
  <2> USE NodeOfAssumption, TimeoutAssumption, BoundAssumption, NullAssumption
  <2>1. ASSUME NEW w \in Workers, HeartbeatTimerNode(w) PROVE TypeOK'
    BY <2>1 DEF TypeOK, HeartbeatTimerNode
  <2>2. ASSUME NEW w \in Workers, AcquireLeaseRead(w) PROVE TypeOK'
    BY <2>2 DEF TypeOK, AcquireLeaseRead, LeaseRow
  <2>3. ASSUME NEW w \in Workers, AcquireLeaseWrite(w) PROVE TypeOK'
    <3>1. AcquiredToken(w) \in 1..MaxToken /\ (AcquireApplies(w) => lease' \in Lease)
      BY <2>3 DEF TypeOK, AcquireLeaseWrite, AcquiredToken, AcquireApplies, LeaseRow, Lease
    <3> QED
      BY <2>3, <3>1 DEF TypeOK, AcquireLeaseWrite, LeaseRow
  <2>4. ASSUME NEW w \in Workers, AcquireLeaseError(w) PROVE TypeOK'
    BY <2>4 DEF TypeOK, AcquireLeaseError, LeaseRow
  <2>5. ASSUME NEW w \in Workers, ReleaseLeaseRead(w) PROVE TypeOK'
    BY <2>5 DEF TypeOK, ReleaseLeaseRead, LeaseRow
  <2>6. ASSUME NEW w \in Workers, ReleaseLeaseWrite(w) PROVE TypeOK'
    BY <2>6 DEF TypeOK, ReleaseLeaseWrite, LeaseRow, Lease, Released
  <2>7. ASSUME NEW w \in Workers, Crash(w) PROVE TypeOK'
    BY <2>7 DEF TypeOK, Crash, LeaseRow
  <2>8. CASE StepDownRead
    BY <2>8 DEF TypeOK, StepDownRead, workerVars
  <2>9. CASE StepDownWrite
    BY <2>9 DEF TypeOK, StepDownWrite, workerVars, LeaseRow, Lease, Released
  <2>10. ASSUME NEW n \in Nodes, DeregisterTimerNode(n) PROVE TypeOK'
    BY <2>10 DEF TypeOK, DeregisterTimerNode, workerVars, NoBeat
  <2>11. CASE CleanupRead
    BY <2>11 DEF TypeOK, CleanupRead, workerVars
  <2>12. CASE CleanupDelete
    BY <2>12 DEF TypeOK, CleanupDelete, workerVars, NoBeat
  <2>13. CASE Tick
    BY <2>13 DEF TypeOK, Tick, workerVars
  <2>14. CASE UNCHANGED vars
    BY <2>14 DEF TypeOK, vars
  <2> QED
    BY <2>1, <2>2, <2>3, <2>4, <2>5, <2>6, <2>7, <2>8, <2>9, <2>10, <2>11, <2>12,
       <2>13, <2>14 DEF Next
<1> QED
  BY <1>1, <1>2, PTL DEF Spec

\* The three facts about tokens are inductive when every node has one worker.
\* Each step either leaves the row and the grants alone, or raises the row's
\* token, or renews the row under the token it already has.
LEMMA FenceInvariant == OneWorkerPerNode => (Spec => []FenceInv)
<1> SUFFICES ASSUME OneWorkerPerNode PROVE Spec => []FenceInv
  OBVIOUS
<1>1. Init => FenceInv
  <2>1. Init => TypeOK
    BY BoundAssumption DEF Init, TypeOK, LeaseRow, NoBeat
  <2>2. Init => TokensBelowRow /\ RenewalIsCurrent /\ RowStays /\ OneOwnerPerToken
    BY DEF Init, TokensBelowRow, RenewalIsCurrent, RowStays, OneOwnerPerToken
  <2> QED
    BY <2>1, <2>2 DEF FenceInv
<1>2. FenceInv /\ TypeOK' /\ [Next]_vars => FenceInv'
  <2> SUFFICES ASSUME FenceInv, TypeOK', [Next]_vars PROVE FenceInv'
    OBVIOUS
  <2> USE NodeOfAssumption, NullAssumption, BoundAssumption
  <2> USE DEF FenceInv, TokensBelowRow, RenewalIsCurrent, RowStays, OneOwnerPerToken
  <2>1. ASSUME NEW w \in Workers, HeartbeatTimerNode(w) PROVE FenceInv'
    BY <2>1 DEF TypeOK, HeartbeatTimerNode
  <2>2. ASSUME NEW w \in Workers, AcquireLeaseRead(w) PROVE FenceInv'
    BY <2>2 DEF TypeOK, AcquireLeaseRead, LeaseRow
  <2>3. ASSUME NEW w \in Workers, AcquireLeaseWrite(w) PROVE FenceInv'
    <3>1. CASE ~AcquireApplies(w)
      BY <2>3, <3>1 DEF TypeOK, AcquireLeaseWrite, LeaseRow
    <3>2. CASE AcquireApplies(w)
      <4> DEFINE t == AcquiredToken(w)
      <4>2. t \in 1..MaxToken
        BY <2>3 DEF TypeOK, AcquiredToken, AcquireLeaseWrite, LeaseRow, Lease
      <4>8. lease' = [owner |-> NodeOf[w], expiry |-> readAt[w] + LeaseTimeout, token |-> t]
        BY <2>3, <3>2 DEF AcquireLeaseWrite
      <4>9. lease' \in Lease
        BY <4>2, <4>8, TimeoutAssumption DEF TypeOK, Lease
      <4>1. /\ lease'.owner = NodeOf[w] /\ lease'.token = t /\ lease' # NoLease
            /\ granted' = granted \cup {<<t, NodeOf[w]>>}
            /\ pc'[w] = "idle"
            /\ \A v \in Workers : v # w => pc'[v] = pc[v] /\ seen'[v] = seen[v]
        BY <2>3, <3>2, <4>8, <4>9 DEF TypeOK, AcquireLeaseWrite
      <4>3. \A g \in granted : g[1] \in Nat /\ g[2] \in Nodes
        BY DEF TypeOK
      <4>4. \A g \in granted : g[1] <= t /\ (g[1] = t => g[2] = NodeOf[w])
        BY <2>3, <3>2, <4>3 DEF TypeOK, AcquireApplies, AcquiredToken, AcquireLeaseWrite,
           LeaseRow, Lease
      <4>5. TokensBelowRow'
        BY <4>1, <4>2, <4>4
      <4>6. RenewalIsCurrent'
        BY Zenon, <4>1 DEF OneWorkerPerNode
      <4>7. OneOwnerPerToken'
        BY <4>1, <4>4
      <4> HIDE DEF t
      <4> QED
        BY <4>1, <4>5, <4>6, <4>7
    <3> QED
      BY <3>1, <3>2
  <2>4. ASSUME NEW w \in Workers, AcquireLeaseError(w) PROVE FenceInv'
    BY <2>4 DEF TypeOK, AcquireLeaseError
  <2>5. ASSUME NEW w \in Workers, ReleaseLeaseRead(w) PROVE FenceInv'
    BY <2>5 DEF TypeOK, ReleaseLeaseRead
  <2>6. ASSUME NEW w \in Workers, ReleaseLeaseWrite(w) PROVE FenceInv'
    BY <2>6 DEF TypeOK, ReleaseLeaseWrite, Released, LeaseRow, Lease
  <2>7. ASSUME NEW w \in Workers, Crash(w) PROVE FenceInv'
    BY <2>7 DEF TypeOK, Crash
  <2>8. CASE StepDownRead
    BY <2>8 DEF StepDownRead, workerVars
  <2>9. CASE StepDownWrite
    BY <2>9 DEF TypeOK, StepDownWrite, workerVars, Released, LeaseRow, Lease
  <2>10. ASSUME NEW n \in Nodes, DeregisterTimerNode(n) PROVE FenceInv'
    BY <2>10 DEF DeregisterTimerNode, workerVars
  <2>11. CASE CleanupRead
    BY <2>11 DEF CleanupRead, workerVars
  <2>12. CASE CleanupDelete
    BY <2>12 DEF CleanupDelete, workerVars
  <2>13. CASE Tick
    BY <2>13 DEF Tick, workerVars
  <2>14. CASE UNCHANGED vars
    BY <2>14 DEF vars
  <2> QED
    BY <2>1, <2>2, <2>3, <2>4, <2>5, <2>6, <2>7, <2>8, <2>9, <2>10, <2>11, <2>12,
       <2>13, <2>14 DEF Next
<1> QED
  BY <1>1, <1>2, LeaseTypeCorrect, PTL DEF Spec

\* With one worker per node, two grants with the same fencing token went to the
\* same owner, however acquisitions, releases and step-downs interleave.
THEOREM LeaseOneOwnerPerToken == OneWorkerPerNode => (Spec => []OneOwnerPerToken)
<1>1. FenceInv => OneOwnerPerToken
  BY DEF FenceInv
<1> QED
  BY <1>1, FenceInvariant, PTL

\* No step lowers the token of an existing row: takeover, release and step-down
\* write one more than they read and require it unchanged, and a renewal writes
\* the row's own token back.
LEMMA TokenNeverShrinks ==
    ASSUME FenceInv, TypeOK', [Next]_vars, lease # NoLease
    PROVE  lease'.token \in Nat /\ lease'.token >= lease.token
<1> USE NullAssumption DEF FenceInv, TypeOK, LeaseRow, Lease
<1>1. CASE UNCHANGED lease
  BY <1>1
<1>2. ASSUME NEW w \in Workers, AcquireLeaseWrite(w), AcquireApplies(w)
      PROVE  lease'.token \in Nat /\ lease'.token >= lease.token
  BY <1>2 DEF AcquireLeaseWrite, AcquireApplies, AcquiredToken, RenewalIsCurrent
<1>3. ASSUME NEW w \in Workers, ReleaseLeaseWrite(w), lease' = Released(seen[w]),
             lease.token = seen[w].token
      PROVE  lease'.token \in Nat /\ lease'.token >= lease.token
  BY <1>3 DEF Released
<1>4. CASE stepSeen # NoLease /\ lease' = Released(stepSeen) /\ lease.token = stepSeen.token
  BY <1>4 DEF Released
<1> QED
  BY <1>1, <1>2, <1>3, <1>4 DEF Next, vars, HeartbeatTimerNode, AcquireLeaseRead,
     AcquireLeaseWrite, AcquireLeaseError, ReleaseLeaseRead, ReleaseLeaseWrite, Crash,
     StepDownRead, StepDownWrite, DeregisterTimerNode, CleanupRead, CleanupDelete, Tick

\* With one worker per node, a token that stopped passing the fence of the timer
\* commands never passes it again: the row's token only grows, and it grows
\* whenever the owner changes.
THEOREM LeaseRejectedStaysRejected ==
    OneWorkerPerNode => (Spec => RejectedTokenStaysRejected)
<1>1. FenceInv /\ FenceInv' /\ [Next]_vars
        => [\A g \in granted : ~PassesFence(g) => ~PassesFence(g)']_vars
  <2> SUFFICES ASSUME FenceInv, FenceInv', [Next]_vars, NEW g \in granted,
                      ~PassesFence(g)
               PROVE  ~PassesFence(g)'
    OBVIOUS
  <2>0. lease # NoLease /\ lease \in Lease /\ g[1] \in Nat
    BY DEF FenceInv, TypeOK, TokensBelowRow, LeaseRow
  <2>1. g[1] < lease.token
    BY <2>0 DEF FenceInv, TokensBelowRow, PassesFence, Lease
  <2>2. lease'.token \in Nat /\ lease'.token >= lease.token
    BY <2>0, TokenNeverShrinks DEF FenceInv
  <2> QED
    BY <2>0, <2>1, <2>2 DEF PassesFence, Lease
<1> QED
  BY <1>1, FenceInvariant, PTL DEF RejectedTokenStaysRejected, Spec

=============================================================================
