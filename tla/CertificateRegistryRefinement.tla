------------------- MODULE CertificateRegistryRefinement -------------------
(***************************************************************************)
(* The proof that CertificateRegistry implements OperationQueue: initial   *)
(* states map to initial states, queueing an operation to Request,         *)
(* carrying one out to Perform.                                            *)
(***************************************************************************)
EXTENDS CertificateRegistryProofs, SequenceTheorems

\* What the mapping relies on.
RefInv == QueueInv /\ TreeMatchesStates

LEMMA RefInvariant == Spec => []RefInv
  BY QueueInvariant, TreeMatches, PTL DEF RefInv

\* The outstanding operations of a queue with pointer p.
Rest(q, p) == [k \in 1 .. Len(q) - p |-> q[p + k]]

LEMMA RestIsSeq ==
  ASSUME NEW q \in Seq(Certs), NEW p \in Nat, p <= Len(q)
  PROVE  /\ Rest(q, p) \in Seq(Certs)
         /\ Len(Rest(q, p)) = Len(q) - p
         /\ \A k \in 1 .. Len(q) - p : Rest(q, p)[k] = q[p + k]
<1>1. Len(q) \in Nat /\ Len(q) - p \in Nat
  OBVIOUS
<1>2. Rest(q, p) \in [1 .. Len(q) - p -> Certs]
  BY <1>1 DEF Rest
<1>3. Rest(q, p) \in Seq(Certs)
  BY <1>1, <1>2, SeqDef
<1> QED BY <1>1, <1>2, <1>3, LenProperties DEF Rest

\* A request at the end of the queue is the last one outstanding.
LEMMA RestOfAppend ==
  ASSUME NEW q \in Seq(Certs), NEW p \in Nat, p <= Len(q), NEW h \in Certs
  PROVE  Rest(Append(q, h), p) = Append(Rest(q, p), h)
<1> DEFINE a == Append(q, h)
           s == Rest(q, p)
<1>1. a \in Seq(Certs) /\ Len(a) = Len(q) + 1 /\ p <= Len(a)
  BY AppendProperties
<1>2. /\ s \in Seq(Certs) /\ Len(s) = Len(q) - p
      /\ \A k \in 1 .. Len(q) - p : s[k] = q[p + k]
  BY RestIsSeq
<1>3. /\ Rest(a, p) \in Seq(Certs) /\ Len(Rest(a, p)) = Len(a) - p
      /\ \A k \in 1 .. Len(a) - p : Rest(a, p)[k] = a[p + k]
  BY <1>1, RestIsSeq
<1>4. Append(s, h) \in Seq(Certs) /\ Len(Append(s, h)) = Len(q) - p + 1
  BY <1>2, AppendProperties
<1>5. ASSUME NEW k \in 1 .. Len(q) - p + 1
      PROVE  Rest(a, p)[k] = Append(s, h)[k]
  <2>1. Rest(a, p)[k] = a[p + k]
    <3>1. Len(q) \in Nat
      BY LenProperties
    <3>2. k \in 1 .. Len(a) - p
      <4> HIDE DEF a, s
      <4> QED BY <1>1, <3>1
    <3> QED BY ONLY <1>3, <3>2, Zenon
  <2>2. CASE k <= Len(q) - p
    BY <1>2, <2>1, <2>2
  <2>3. CASE k = Len(q) - p + 1
    <3>1. p + k = Len(q) + 1 /\ k = Len(s) + 1
      BY <1>2, <2>3, LenProperties
    <3>2. a[Len(q) + 1] = h /\ Append(s, h)[Len(s) + 1] = h
      BY <1>2, AppendProperties
    <3> QED BY <2>1, <3>1, <3>2
  <2>4. k <= Len(q) - p \/ k = Len(q) - p + 1
    <3>1. Len(q) \in Nat
      BY LenProperties
    <3> HIDE DEF a, s
    <3> QED BY <3>1
  <2> QED BY ONLY <2>2, <2>3, <2>4
<1>6. Len(Rest(a, p)) = Len(q) - p + 1
  BY <1>1, <1>3, LenProperties
<1>7. Rest(a, p) = Append(s, h)
  BY <1>3, <1>4, <1>5, <1>6, SeqEqual
<1> QED BY <1>7

\* Moving the pointer takes the oldest operation away.
LEMMA RestOfNext ==
  ASSUME NEW q \in Seq(Certs), NEW p \in Nat, p < Len(q)
  PROVE  /\ Rest(q, p) # <<>>
         /\ Head(Rest(q, p)) = q[p + 1]
         /\ Rest(q, p + 1) = Tail(Rest(q, p))
<1> DEFINE s == Rest(q, p)
<1>1. /\ s \in Seq(Certs) /\ Len(s) = Len(q) - p
      /\ \A k \in 1 .. Len(q) - p : s[k] = q[p + k]
  BY RestIsSeq
<1>2. s # <<>> /\ Head(s) = q[p + 1]
  BY <1>1
<1>3. /\ Rest(q, p + 1) \in Seq(Certs)
      /\ Len(Rest(q, p + 1)) = Len(q) - (p + 1)
      /\ \A k \in 1 .. Len(q) - (p + 1) : Rest(q, p + 1)[k] = q[(p + 1) + k]
  <2>1. p + 1 \in Nat /\ p + 1 <= Len(q)
    OBVIOUS
  <2>2. ASSUME NEW m \in Nat, m <= Len(q)
        PROVE  /\ Rest(q, m) \in Seq(Certs)
               /\ Len(Rest(q, m)) = Len(q) - m
               /\ \A k \in 1 .. Len(q) - m : Rest(q, m)[k] = q[m + k]
    BY <2>2, RestIsSeq
  <2> HIDE DEF s
  <2> QED BY ONLY <2>1, <2>2, Zenon
<1>4. /\ Tail(s) \in Seq(Certs) /\ Len(Tail(s)) = Len(q) - (p + 1)
      /\ \A k \in 1 .. Len(q) - (p + 1) : Tail(s)[k] = s[k + 1]
  BY <1>1, <1>2, HeadTailProperties
<1>5. \A k \in 1 .. Len(q) - (p + 1) : Rest(q, p + 1)[k] = Tail(s)[k]
  BY <1>1, <1>3, <1>4
<1>6. Rest(q, p + 1) = Tail(s)
  BY <1>3, <1>4, <1>5, SeqEqual
<1> QED BY <1>2, <1>6

-----------------------------------------------------------------------------
LEMMA WaitingIsRest == \A r \in Registries : Waiting[r] = Rest(queue[r], pointer[r])
  BY DEF Waiting, Rest

LEMMA InitMapsToInit == Init => Promise!Init
<1> SUFFICES ASSUME Init PROVE Promise!Init
  OBVIOUS
<1>1. ASSUME NEW r \in Registries PROVE Waiting[r] = <<>>
  <2>1. queue[r] = <<>> /\ pointer[r] = 0
    BY DEF Init
  <2>2. queue[r] \in Seq(Certs) /\ Len(queue[r]) = 0
    BY <2>1, EmptySeq
  <2>3. Waiting[r] \in Seq(Certs) /\ Len(Waiting[r]) = 0
    <3>1. pointer[r] \in Nat /\ pointer[r] <= Len(queue[r])
      BY <2>1, <2>2
    <3>2. /\ Rest(queue[r], pointer[r]) \in Seq(Certs)
          /\ Len(Rest(queue[r], pointer[r])) = Len(queue[r]) - pointer[r]
      BY <2>2, <3>1, RestIsSeq
    <3>3. Len(queue[r]) - pointer[r] = 0
      BY <2>1, <2>2
    <3> QED BY ONLY <3>2, <3>3, WaitingIsRest, Zenon
  <2> QED BY <2>3, EmptySeq
<1>2. \A r \in Registries : Valid[r] = {}
  BY RegistryAssumption DEF Init, Valid
<1>3. ASSUME NEW r \in Registries PROVE Revoked[r] = {}
  <2>1. \A h \in Certs : state[r][h] # RevocationMerkleTreeAdded
    BY DEF Init, None, RevocationMerkleTreeAdded
  <2> QED BY <2>1 DEF Revoked
<1> QED
  BY <1>1, <1>2, <1>3 DEF Promise!Init, Waiting, Valid, Revoked

\* Queueing an operation is a request.
LEMMA QueuesMapsToRequest ==
  ASSUME RefInv, NEW r \in Registries, NEW h \in Certs, Queues(r, h)
  PROVE  Promise!Request(r, h)
<1>1. PICK from \in CertificateStates, to \in CertificateStates :
        /\ from \notin Queued \cup {RevocationMerkleTreeAdded} /\ to \in Queued
        /\ Enqueue(r, h, from, to)
  BY DEF Queues
<1>2. /\ queue[r] \in Seq(Certs) /\ Len(queue[r]) \in Nat
      /\ pointer[r] \in Nat /\ pointer[r] <= Len(queue[r])
  BY DEF RefInv, QueueInv, TypeOK, PendingInTurn
<1>3. state[r][h] \notin Queued \cup {RevocationMerkleTreeAdded}
  BY <1>1 DEF Enqueue
<1>4. ASSUME NEW k \in 1 .. Len(Waiting[r]) PROVE Waiting[r][k] # h
  <2>1. /\ k \in 1 .. Len(queue[r]) - pointer[r]
        /\ Waiting[r][k] = queue[r][pointer[r] + k]
    <3>1. Waiting[r] = Rest(queue[r], pointer[r])
      BY WaitingIsRest
    <3>2. /\ Len(Rest(queue[r], pointer[r])) = Len(queue[r]) - pointer[r]
          /\ \A j \in 1 .. Len(queue[r]) - pointer[r] :
               Rest(queue[r], pointer[r])[j] = queue[r][pointer[r] + j]
      BY <1>2, RestIsSeq
    <3> QED BY <3>1, <3>2
  <2>2. pointer[r] + k - 1 \in Pending(r) /\ pointer[r] + k - 1 + 1 = pointer[r] + k
    BY <1>2, <2>1 DEF Pending
  <2>3. state[r][queue[r][pointer[r] + k]] \in Queued
    BY <2>2 DEF RefInv, QueueInv, PendingInTurn
  <2> QED BY <1>3, <2>1, <2>3
<1>5. h \notin Revoked[r]
  BY <1>3 DEF Revoked
<1>6. Waiting' = [Waiting EXCEPT ![r] = Append(@, h)]
  <2>1. \A q \in Registries : Waiting'[q] = Rest(queue'[q], pointer'[q])
    BY DEF Waiting, Rest
  <2>2. queue'[r] = Append(queue[r], h) /\ pointer' = pointer
    BY <1>1 DEF Enqueue, RefInv, QueueInv, TypeOK
  <2>3. \A q \in Registries \ {r} : queue'[q] = queue[q]
    BY <1>1 DEF Enqueue, RefInv, QueueInv, TypeOK
  <2>4. Waiting'[r] = Append(Waiting[r], h)
    BY <1>2, <2>1, <2>2, RestOfAppend, WaitingIsRest
  <2>5. \A q \in Registries \ {r} : Waiting'[q] = Waiting[q]
    BY <2>1, <2>2, <2>3, WaitingIsRest
  <2> QED BY <2>4, <2>5 DEF Waiting
<1>7. Valid' = Valid
  BY <1>1 DEF Valid, Enqueue
<1>8. Revoked' = Revoked
  <2>1. \A q \in Registries, g \in Certs :
          state'[q][g] = RevocationMerkleTreeAdded
            <=> state[q][g] = RevocationMerkleTreeAdded
    BY <1>1, <1>3 DEF Enqueue, RefInv, QueueInv, TypeOK, Queued, IssuanceQueued,
                      RevocationQueued, RevocationMerkleTreeAdded
  <2> QED BY <2>1 DEF Revoked
<1> QED
  BY <1>4, <1>5, <1>6, <1>7, <1>8 DEF Promise!Request

\* Carrying out an operation is performing the oldest one.
LEMMA ProcessesMapsToPerform ==
  ASSUME RefInv, NEW r \in Registries, NEW h \in Certs, Processes(r, h)
  PROVE  Promise!Perform(r)
<1>1. PICK i \in Leaves : ProcessNextOperation(r, h, i, Siblings(tree[r], i))
  BY DEF Processes
<1>2. state[r][h] \in Queued /\ queueIndex[r][h] = pointer[r]
  BY <1>1 DEF ProcessNextOperation, Accepts, InTurn, Queued
<1>3. pointer[r] \in Pending(r) /\ queue[r][pointer[r] + 1] = h
  BY <1>2 DEF RefInv, QueueInv, QueuedIsPending
<1>4. /\ queue[r] \in Seq(Certs) /\ Len(queue[r]) \in Nat
      /\ pointer[r] \in Nat /\ pointer[r] < Len(queue[r])
  BY <1>3 DEF RefInv, QueueInv, TypeOK, Pending
<1>5. /\ Waiting[r] # <<>> /\ Head(Waiting[r]) = h
      /\ Rest(queue[r], pointer[r] + 1) = Tail(Waiting[r])
  BY <1>3, <1>4, RestOfNext, WaitingIsRest
<1>6. Waiting' = [Waiting EXCEPT ![r] = Tail(@)]
  <2>1. \A q \in Registries : Waiting'[q] = Rest(queue'[q], pointer'[q])
    BY DEF Waiting, Rest
  <2>2. /\ queue' = queue /\ pointer'[r] = pointer[r] + 1
        /\ \A q \in Registries \ {r} : pointer'[q] = pointer[q]
    BY <1>1 DEF ProcessNextOperation, RefInv, QueueInv, TypeOK
  <2>3. Waiting'[r] = Tail(Waiting[r])
    BY <1>5, <2>1, <2>2
  <2>4. \A q \in Registries \ {r} : Waiting'[q] = Waiting[q]
    BY <2>1, <2>2, WaitingIsRest
  <2> QED BY <2>3, <2>4 DEF Waiting
<1>7. TreeMatchesStates /\ TreeMatchesStates'
  <2>1. [Next]_chainVars
    BY DEF Processes, Next
  <2> QED BY <2>1, NextKeepsTree DEF RefInv, QueueInv
<1>8. \A q \in Registries :
        /\ Valid[q] = {g \in Certs : InTree(state[q][g])}
        /\ Valid'[q] = {g \in Certs : InTree(state'[q][g])}
  BY <1>7 DEF Valid, TreeMatchesStates
<1>9. /\ state'[r][h] = state[r][h] + 1
      /\ \A q \in Registries, g \in Certs :
           (q # r \/ g # h) => state'[q][g] = state[q][g]
  BY <1>1 DEF ProcessNextOperation, RefInv, QueueInv, TypeOK
<1>10. CASE state[r][h] = IssuanceQueued
  <2>1. /\ ~InTree(state[r][h]) /\ InTree(state'[r][h])
        /\ state[r][h] # RevocationMerkleTreeAdded
        /\ state'[r][h] # RevocationMerkleTreeAdded
    BY <1>9, <1>10 DEF InTree, IssuanceQueued, IssuanceMerkleTreeAdded,
                       RevocationQueued, RevocationMerkleTreeAdded
  <2>2. h \notin Valid[r]
    BY <1>8, <2>1
  <2>3. Valid' = [Valid EXCEPT ![r] = @ \cup {h}]
    <3>1. Valid'[r] = Valid[r] \cup {h}
      BY <1>8, <1>9, <2>1
    <3>2. ASSUME NEW q \in Registries \ {r} PROVE Valid'[q] = Valid[q]
      <4>1. \A g \in Certs : state'[q][g] = state[q][g]
        BY <1>9
      <4>2. {g \in Certs : InTree(state'[q][g])} = {g \in Certs : InTree(state[q][g])}
        BY <4>1
      <4>3. q \in Registries
        OBVIOUS
      <4> QED BY <1>8, <4>2, <4>3
    <3> QED BY <3>1, <3>2 DEF Valid
  <2>4. Revoked' = Revoked
    BY <1>9, <2>1 DEF Revoked
  <2> QED BY <1>5, <1>6, <2>2, <2>3, <2>4 DEF Promise!Perform
<1>11. CASE state[r][h] = RevocationQueued
  <2>1. /\ InTree(state[r][h]) /\ ~InTree(state'[r][h])
        /\ state'[r][h] = RevocationMerkleTreeAdded
    BY <1>9, <1>11 DEF InTree, IssuanceQueued, IssuanceMerkleTreeAdded,
                       RevocationQueued, RevocationMerkleTreeAdded
  <2>2. h \in Valid[r]
    BY <1>8, <2>1
  <2>3. Valid' = [Valid EXCEPT ![r] = @ \ {h}]
    <3>1. Valid'[r] = Valid[r] \ {h}
      BY <1>8, <1>9, <2>1
    <3>2. ASSUME NEW q \in Registries \ {r} PROVE Valid'[q] = Valid[q]
      <4>1. \A g \in Certs : state'[q][g] = state[q][g]
        BY <1>9
      <4>2. {g \in Certs : InTree(state'[q][g])} = {g \in Certs : InTree(state[q][g])}
        BY <4>1
      <4>3. q \in Registries
        OBVIOUS
      <4> QED BY <1>8, <4>2, <4>3
    <3> QED BY <3>1, <3>2 DEF Valid
  <2>4. Revoked' = [Revoked EXCEPT ![r] = @ \cup {h}]
    <3>1. Revoked'[r] = Revoked[r] \cup {h}
      BY <1>9, <2>1 DEF Revoked
    <3>2. \A q \in Registries \ {r} : Revoked'[q] = Revoked[q]
      BY <1>9 DEF Revoked
    <3> QED BY <3>1, <3>2 DEF Revoked
  <2> QED BY <1>5, <1>6, <2>2, <2>3, <2>4 DEF Promise!Perform
<1> QED BY <1>2, <1>10, <1>11 DEF Queued

LEMMA StepMapsToStep ==
  RefInv /\ [Next]_chainVars => [Promise!Next]_(Promise!queueVars)
<1> SUFFICES ASSUME RefInv, [Next]_chainVars
             PROVE  [Promise!Next]_(Promise!queueVars)
  OBVIOUS
<1>1. CASE Next
  <2>1. PICK r \in Registries, h \in Certs : Queues(r, h) \/ Processes(r, h)
    BY <1>1, NextCases
  <2> QED
    BY <2>1, QueuesMapsToRequest, ProcessesMapsToPerform DEF Promise!Next
<1>2. CASE UNCHANGED chainVars
  BY <1>2 DEF chainVars, Promise!queueVars, Waiting, Valid, Revoked
<1> QED BY <1>1, <1>2

(***************************************************************************)
(* The registry implements the operation queue: operations are carried out *)
(* one at a time in the order of their requests, and a certificate is in   *)
(* the tree from its issuance to its revocation, once and for all.         *)
(***************************************************************************)
THEOREM ImplementsOperationQueue == Spec => KeepsPromise
  BY InitMapsToInit, RefInvariant, StepMapsToStep, PTL
     DEF Spec, KeepsPromise, Promise!Spec

=============================================================================
