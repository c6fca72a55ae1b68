--------------------- MODULE CertificateRegistryProofs ---------------------
(***************************************************************************)
(* Proofs about CertificateRegistry, for any registries, certificates and  *)
(* leaves and a queue of any length: what the processor relies on when it  *)
(* reads the queue at the pointer and asks for a leaf.                     *)
(***************************************************************************)
EXTENDS CertificateRegistry, TLAPS

\* The processor's view of a step: an operation is queued for a certificate
\* that has none outstanding, and stays in or out of the tree; or the
\* contract carries out an operation.
Queues(r, h) ==
  \E from, to \in CertificateStates :
    /\ from \notin Queued \cup {RevocationMerkleTreeAdded} /\ to \in Queued
    /\ InTree(from) <=> InTree(to)
    /\ Enqueue(r, h, from, to)

Processes(r, h) ==
  \E i \in Leaves : ProcessNextOperation(r, h, i, Siblings(tree[r], i))

LEMMA NextCases ==
  ASSUME Next
  PROVE  \E r \in Registries, h \in Certs : Queues(r, h) \/ Processes(r, h)
<1>1. PICK r \in Registries, h \in Certs : AddOperation(r, h) \/ Processes(r, h)
  BY DEF Next, Processes
<1>2. CASE AddOperation(r, h)
  <2>1. /\ {None, IssuanceMerkleTreeAdded} \subseteq
             CertificateStates \ (Queued \cup {RevocationMerkleTreeAdded})
        /\ {IssuanceQueued, RevocationQueued} \subseteq CertificateStates \cap Queued
        /\ InTree(None) <=> InTree(IssuanceQueued)
        /\ InTree(IssuanceMerkleTreeAdded) <=> InTree(RevocationQueued)
    BY DEF CertificateStates, Queued, InTree, None, IssuanceQueued,
           IssuanceMerkleTreeAdded, RevocationQueued, RevocationMerkleTreeAdded
  <2> QED BY <1>2, <2>1 DEF AddOperation, Queues
<1> QED BY <1>1, <1>2

-----------------------------------------------------------------------------
(* Type correctness.                                                       *)

LEMMA NextTypeOK == TypeOK /\ [Next]_chainVars => TypeOK'
<1> SUFFICES ASSUME TypeOK, [Next]_chainVars PROVE TypeOK'
  OBVIOUS
<1>1. ASSUME NEW r \in Registries, NEW h \in Certs, Queues(r, h)
      PROVE  TypeOK'
  <2>1. PICK from \in CertificateStates, to \in CertificateStates :
          Enqueue(r, h, from, to)
    BY <1>1 DEF Queues
  <2>2. Append(queue[r], h) \in Seq(Certs) /\ Len(queue[r]) \in Nat
    BY DEF TypeOK
  <2> QED BY <2>1, <2>2 DEF TypeOK, Enqueue
<1>2. ASSUME NEW r \in Registries, NEW h \in Certs, Processes(r, h)
      PROVE  TypeOK'
  <2>1. PICK i \in Leaves : ProcessNextOperation(r, h, i, Siblings(tree[r], i))
    BY <1>2 DEF Processes
  <2>2. state[r][h] \in Queued
    BY <2>1 DEF ProcessNextOperation, Accepts, Queued
  <2>3. state[r][h] + 1 \in CertificateStates
    BY <2>2 DEF Queued, CertificateStates, IssuanceQueued, RevocationQueued
  <2>4. state' \in [Registries -> [Certs -> CertificateStates]]
    BY <2>1, <2>3 DEF TypeOK, ProcessNextOperation
  <2>5. tree' \in [Registries -> Trees]
    BY <2>1 DEF TypeOK, ProcessNextOperation, Trees
  <2> QED BY <2>1, <2>4, <2>5 DEF TypeOK, ProcessNextOperation
<1>3. CASE UNCHANGED chainVars
  BY <1>3 DEF TypeOK, chainVars
<1> QED BY <1>1, <1>2, <1>3, NextCases

(***************************************************************************)
(* Type correctness: states stay among the five, leaves hold certificates  *)
(* or nothing.                                                             *)
(***************************************************************************)
THEOREM TypeCorrect == Spec => []TypeOK
<1>1. Init => TypeOK
  BY DEF Init, TypeOK, CertificateStates, None, Trees
<1> QED BY <1>1, NextTypeOK, PTL DEF Spec

-----------------------------------------------------------------------------
(* The queue.  Neither property is inductive alone: that the entries from  *)
(* the pointer on are in turn needs that a certificate with an operation   *)
(* outstanding has just one entry there, which is the other one.           *)

QueueInv == TypeOK /\ PendingInTurn /\ QueuedIsPending

\* A certificate is queued only if none of its operations is outstanding,
\* so that the entries ahead of the pointer are not its.
LEMMA QueuesKeepsQueueInv ==
  ASSUME QueueInv, NEW r \in Registries, NEW h \in Certs, Queues(r, h)
  PROVE  PendingInTurn' /\ QueuedIsPending'
<1> DEFINE n == Len(queue[r])
<1>1. PICK from \in CertificateStates, to \in CertificateStates :
        from \notin Queued /\ to \in Queued /\ Enqueue(r, h, from, to)
  BY DEF Queues
<1>2. n \in Nat /\ pointer[r] \in Nat
  BY DEF QueueInv, TypeOK
<1>3. /\ Len(queue'[r]) = n + 1
      /\ queue'[r][n + 1] = h
      /\ \A k \in 1 .. n : queue'[r][k] = queue[r][k]
  BY <1>1 DEF QueueInv, TypeOK, Enqueue
<1>4. /\ state'[r][h] \in Queued /\ queueIndex'[r][h] = n
      /\ \A g \in Certs \ {h} : /\ state'[r][g] = state[r][g]
                                /\ queueIndex'[r][g] = queueIndex[r][g]
  BY <1>1 DEF QueueInv, TypeOK, Enqueue
<1>5. \A q \in Registries \ {r} :
        /\ queue'[q] = queue[q] /\ state'[q] = state[q]
        /\ queueIndex'[q] = queueIndex[q]
  BY <1>1 DEF QueueInv, TypeOK, Enqueue
<1>6. pointer' = pointer
  BY <1>1 DEF Enqueue
<1>7. state[r][h] \notin Queued
  BY <1>1 DEF Enqueue
<1>8. ASSUME NEW k \in Pending(r)
      PROVE  k \in 0 .. n - 1 /\ queue[r][k + 1] \in Certs \ {h}
  <2>1. k \in 0 .. n - 1
    BY <1>2 DEF Pending
  <2>2. queue[r][k + 1] \in Certs
    BY <2>1, <1>2 DEF QueueInv, TypeOK
  <2> QED BY <1>7, <2>1, <2>2 DEF QueueInv, PendingInTurn
<1>9. PendingInTurn'
  <2>0. \A q \in Registries : pointer'[q] <= Len(queue'[q])
    <3>1. ASSUME NEW q \in Registries, q # r PROVE pointer'[q] <= Len(queue'[q])
      BY <1>5, <1>6, <3>1 DEF QueueInv, PendingInTurn
    <3>2. pointer'[r] <= Len(queue'[r])
      BY <1>2, <1>3, <1>6 DEF QueueInv, PendingInTurn
    <3> QED BY <3>1, <3>2
  <2> SUFFICES ASSUME NEW q \in Registries, NEW k \in Pending(q)'
               PROVE  /\ queueIndex'[q][queue'[q][k + 1]] = k
                      /\ state'[q][queue'[q][k + 1]] \in Queued
    BY <2>0 DEF PendingInTurn
  <2>1. CASE q # r
    BY <1>5, <1>6, <2>1 DEF QueueInv, PendingInTurn, Pending
  <2>2. CASE q = r /\ k = n
    BY <1>3, <1>4, <2>2
  <2>3. CASE q = r /\ k # n
    <3>1. k \in Pending(r)
      BY <1>2, <1>3, <1>6, <2>3 DEF Pending
    <3>2. queue'[r][k + 1] = queue[r][k + 1]
      BY <3>1, <1>2, <1>3, <1>8
    <3> QED BY <1>4, <1>8, <2>3, <3>1, <3>2 DEF QueueInv, PendingInTurn
  <2> QED BY <2>1, <2>2, <2>3
<1>10. QueuedIsPending'
  <2> SUFFICES ASSUME NEW q \in Registries, NEW g \in Certs, state'[q][g] \in Queued
               PROVE  /\ queueIndex'[q][g] \in Pending(q)'
                      /\ queue'[q][queueIndex'[q][g] + 1] = g
    BY DEF QueuedIsPending
  <2>1. CASE q # r
    BY <1>5, <1>6, <2>1 DEF QueueInv, QueuedIsPending, Pending
  <2>2. CASE q = r /\ g = h
    <3>1. pointer[r] <= n
      BY DEF QueueInv, PendingInTurn
    <3> QED BY <1>2, <1>3, <1>4, <1>6, <2>2, <3>1 DEF Pending
  <2>3. CASE q = r /\ g # h
    <3>1. queueIndex[r][g] \in Pending(r) /\ queue[r][queueIndex[r][g] + 1] = g
      BY <1>4, <2>3 DEF QueueInv, QueuedIsPending
    <3>2. queueIndex[r][g] \in 0 .. n - 1
      BY <1>8, <3>1
    <3>3. queueIndex[r][g] \in Pending(r)'
      BY <1>2, <1>3, <1>6, <3>1 DEF Pending
    <3>4. queue'[r][queueIndex[r][g] + 1] = g
      BY <1>2, <1>3, <3>1, <3>2
    <3> QED BY <1>4, <2>3, <3>3, <3>4
  <2> QED BY <2>1, <2>2, <2>3
<1> QED BY <1>9, <1>10

\* A certificate in turn with an operation outstanding is the head, and no
\* other entry is its.
LEMMA ProcessesKeepsQueueInv ==
  ASSUME QueueInv, NEW r \in Registries, NEW h \in Certs, Processes(r, h)
  PROVE  PendingInTurn' /\ QueuedIsPending'
<1>1. PICK i \in Leaves : ProcessNextOperation(r, h, i, Siblings(tree[r], i))
  BY DEF Processes
<1>2. state[r][h] \in Queued /\ queueIndex[r][h] = pointer[r]
  BY <1>1 DEF ProcessNextOperation, Accepts, InTurn, Queued
<1>3. /\ pointer'[r] = pointer[r] + 1
      /\ \A q \in Registries \ {r} : pointer'[q] = pointer[q] /\ state'[q] = state[q]
      /\ queue' = queue /\ queueIndex' = queueIndex
  BY <1>1 DEF ProcessNextOperation, QueueInv, TypeOK
<1>4. /\ state'[r][h] = state[r][h] + 1
      /\ \A g \in Certs \ {h} : state'[r][g] = state[r][g]
  BY <1>1 DEF ProcessNextOperation, QueueInv, TypeOK
<1>5. state'[r][h] \notin Queued
  BY <1>2, <1>4 DEF Queued, IssuanceQueued, RevocationQueued
<1>6. pointer[r] \in Pending(r) /\ queue[r][pointer[r] + 1] = h
  BY <1>2 DEF QueueInv, QueuedIsPending
<1>7. pointer[r] \in Nat /\ Len(queue[r]) \in Nat
  BY DEF QueueInv, TypeOK
<1>8. PendingInTurn'
  <2>1. \A q \in Registries : pointer'[q] <= Len(queue'[q])
    <3>1. ASSUME NEW q \in Registries, q # r PROVE pointer'[q] <= Len(queue'[q])
      BY <1>3, <3>1 DEF QueueInv, PendingInTurn
    <3>2. pointer'[r] <= Len(queue'[r])
      BY <1>3, <1>6, <1>7 DEF Pending
    <3> QED BY <3>1, <3>2
  <2> SUFFICES ASSUME NEW q \in Registries, NEW k \in Pending(q)'
               PROVE  /\ queueIndex'[q][queue'[q][k + 1]] = k
                      /\ state'[q][queue'[q][k + 1]] \in Queued
    BY <2>1 DEF PendingInTurn
  <2>2. CASE q # r
    BY <1>3, <2>2 DEF QueueInv, PendingInTurn, Pending
  <2>3. CASE q = r
    <3>1. k \in Pending(r) /\ k # pointer[r]
      BY <1>3, <1>7, <2>3 DEF Pending
    <3>2. queueIndex[r][queue[r][k + 1]] = k /\ state[r][queue[r][k + 1]] \in Queued
      BY <3>1 DEF QueueInv, PendingInTurn
    <3>3. queue[r][k + 1] \in Certs
      BY <3>1, <1>7 DEF QueueInv, TypeOK, Pending
    <3>4. queue[r][k + 1] # h
      BY <1>2, <3>1, <3>2
    <3> QED BY <1>3, <1>4, <2>3, <3>2, <3>3, <3>4
  <2> QED BY <2>2, <2>3
<1>9. QueuedIsPending'
  <2> SUFFICES ASSUME NEW q \in Registries, NEW g \in Certs, state'[q][g] \in Queued
               PROVE  /\ queueIndex'[q][g] \in Pending(q)'
                      /\ queue'[q][queueIndex'[q][g] + 1] = g
    BY DEF QueuedIsPending
  <2>1. CASE q # r
    BY <1>3, <2>1 DEF QueueInv, QueuedIsPending, Pending
  <2>2. CASE q = r
    <3>1. g # h
      BY <1>5, <2>2
    <3>2. queueIndex[r][g] \in Pending(r) /\ queue[r][queueIndex[r][g] + 1] = g
      BY <1>4, <2>2, <3>1 DEF QueueInv, QueuedIsPending
    <3>3. queueIndex[r][g] # pointer[r]
      BY <1>6, <3>1, <3>2
    <3>4. queueIndex[r][g] \in Pending(r)'
      BY <1>3, <1>7, <3>2, <3>3 DEF Pending
    <3> QED BY <1>3, <2>2, <3>2, <3>4
  <2> QED BY <2>1, <2>2
<1> QED BY <1>8, <1>9

LEMMA NextKeepsQueueInv == QueueInv /\ [Next]_chainVars => QueueInv'
<1> SUFFICES ASSUME QueueInv, [Next]_chainVars PROVE QueueInv'
  OBVIOUS
<1>1. TypeOK'
  BY NextTypeOK DEF QueueInv
<1>2. CASE Next
  BY <1>1, <1>2, NextCases, QueuesKeepsQueueInv, ProcessesKeepsQueueInv
     DEF QueueInv
<1>3. CASE UNCHANGED chainVars
  BY <1>1, <1>3 DEF QueueInv, PendingInTurn, QueuedIsPending, Pending, chainVars
<1> QED BY <1>2, <1>3

LEMMA QueueInvariant == Spec => []QueueInv
<1>1. Init => QueueInv
  <2> SUFFICES ASSUME Init PROVE QueueInv
    OBVIOUS
  <2>1. TypeOK
    BY DEF Init, TypeOK, CertificateStates, None, Trees
  <2>2. PendingInTurn /\ QueuedIsPending
    BY DEF Init, PendingInTurn, QueuedIsPending, Pending, Queued, None,
           IssuanceQueued, RevocationQueued
  <2> QED BY <2>1, <2>2 DEF QueueInv
<1> QED BY <1>1, NextKeepsQueueInv, PTL DEF Spec

(***************************************************************************)
(* The head of a queue is always in turn and waiting: processQueueItems    *)
(* never meets a head that IsZkCertificateInTurn refuses, unless it was    *)
(* processed since the pointer was read.                                   *)
(***************************************************************************)
THEOREM PendingIsInTurn == Spec => []PendingInTurn
  BY QueueInvariant, PTL DEF QueueInv

(***************************************************************************)
(* A certificate with an operation outstanding is in the queue ahead of    *)
(* the pointer: no operation is ever skipped.                              *)
(***************************************************************************)
THEOREM NothingQueuedIsSkipped == Spec => []QueuedIsPending
  BY QueueInvariant, PTL DEF QueueInv

-----------------------------------------------------------------------------
(* The tree.                                                               *)

LEMMA NextKeepsTree ==
  TypeOK /\ TreeMatchesStates /\ [Next]_chainVars => TreeMatchesStates'
<1> SUFFICES ASSUME TypeOK, TreeMatchesStates, [Next]_chainVars
             PROVE  TreeMatchesStates'
  OBVIOUS
<1>1. ASSUME NEW r \in Registries, NEW h \in Certs, Queues(r, h)
      PROVE  TreeMatchesStates'
  <2>1. PICK from \in CertificateStates, to \in CertificateStates :
          (InTree(from) <=> InTree(to)) /\ Enqueue(r, h, from, to)
    BY <1>1 DEF Queues
  <2>2. \A q \in Registries, g \in Certs :
          InTree(state'[q][g]) <=> InTree(state[q][g])
    BY <2>1 DEF Enqueue, TypeOK
  <2> QED BY <2>1, <2>2 DEF TreeMatchesStates, Enqueue
<1>2. ASSUME NEW r \in Registries, NEW h \in Certs, Processes(r, h)
      PROVE  TreeMatchesStates'
  <2>1. PICK i \in Leaves : ProcessNextOperation(r, h, i, Siblings(tree[r], i))
    BY <1>2 DEF Processes
  <2>2. \A q \in Registries, g \in Certs :
          (q # r \/ g # h) => state'[q][g] = state[q][g]
    BY <2>1 DEF ProcessNextOperation, TypeOK
  <2>3. \A q \in Registries, j \in Leaves :
          (q # r \/ j # i) => tree'[q][j] = tree[q][j]
    BY <2>1 DEF ProcessNextOperation, TypeOK, Trees
  <2>4. CASE state[r][h] = IssuanceQueued
    <3>1. tree[r][i] = Zero /\ tree'[r][i] = h
      BY <2>1, <2>4 DEF ProcessNextOperation, Accepts, Verifies, TypeOK, Trees,
                        IssuanceQueued, RevocationQueued
    <3>2. ~InTree(state[r][h]) /\ InTree(state'[r][h])
      BY <2>1, <2>4 DEF ProcessNextOperation, TypeOK, InTree, IssuanceQueued,
                        IssuanceMerkleTreeAdded, RevocationQueued
    <3> QED BY <2>2, <2>3, <3>1, <3>2, RegistryAssumption DEF TreeMatchesStates
  <2>5. CASE state[r][h] = RevocationQueued
    <3>1. tree[r][i] = h /\ tree'[r][i] = Zero
      BY <2>1, <2>5 DEF ProcessNextOperation, Accepts, Verifies, TypeOK, Trees,
                        IssuanceQueued, RevocationQueued
    <3>2. InTree(state[r][h]) /\ ~InTree(state'[r][h])
      BY <2>1, <2>5 DEF ProcessNextOperation, TypeOK, InTree, IssuanceQueued,
                        IssuanceMerkleTreeAdded, RevocationQueued
    <3> QED BY <2>2, <2>3, <3>1, <3>2, RegistryAssumption DEF TreeMatchesStates
  <2> QED BY <2>1, <2>4, <2>5 DEF ProcessNextOperation, Accepts
<1>3. CASE UNCHANGED chainVars
  BY <1>3 DEF TreeMatchesStates, chainVars
<1> QED BY <1>1, <1>2, <1>3, NextCases

(***************************************************************************)
(* A certificate is in the tree exactly from its issuance to its           *)
(* revocation, at one leaf only.                                           *)
(***************************************************************************)
THEOREM TreeMatches == Spec => []TreeMatchesStates
<1>1. Init => TreeMatchesStates
  BY RegistryAssumption
     DEF Init, TreeMatchesStates, InTree, None, IssuanceMerkleTreeAdded,
         RevocationQueued
<1> QED BY <1>1, TypeCorrect, NextKeepsTree, PTL DEF Spec

=============================================================================
