------------------------ MODULE CertificateRegistry ------------------------
(***************************************************************************)
(* The ZkCertificateRegistry contracts the processor serves: one queue of  *)
(* certificate operations per registry, a pointer to the next operation    *)
(* to carry out, and a Merkle tree of the issued certificates.  The        *)
(* contract is not part of the repository's source; its behaviour is read  *)
(* off the calls the processor makes and the bytecode its Go binding       *)
(* carries (the offsets below are into the runtime code).                  *)
(*                                                                         *)
(* A root is written as the contents of the tree it commits to, and the    *)
(* path of a Merkle proof as the contents of every other leaf: with a      *)
(* collision-free hash, a proof verifies exactly when these agree with     *)
(* the tree.                                                               *)
(***************************************************************************)
EXTENDS Integers, Sequences

CONSTANTS
  Registries,   \* the deployed contracts
  Certs,        \* zkCertificate leaf hashes
  Leaves,       \* leaf indexes of a registry's tree
  Zero,         \* what an empty leaf holds
  MaxQueue      \* bound: operations ever queued with one registry

ASSUME RegistryAssumption ==
  /\ MaxQueue \in Nat
  /\ Zero \notin Certs

VARIABLES
  queue,        \* zkCertificateQueue, only ever appended to
  pointer,      \* currentQueuePointer, counting from 0
  state,        \* zkCertificateProcessingData[h].state
  queueIndex,   \* zkCertificateProcessingData[h].queueIndex
  tree          \* the leaves under the current Merkle root

chainVars == <<queue, pointer, state, queueIndex, tree>>

\* The certificate states of the contract, under the processor's names.
None                      == 0
IssuanceQueued            == 1
IssuanceMerkleTreeAdded   == 2
RevocationQueued          == 3
RevocationMerkleTreeAdded == 4

CertificateStates == 0 .. 4
Queued == {IssuanceQueued, RevocationQueued}

Trees == [Leaves -> Certs \cup {Zero}]

\* The path part of a proof for leaf i of tree t: t with that leaf masked.
Siblings(t, i) == [t EXCEPT ![i] = Zero]

-----------------------------------------------------------------------------
\* Faulty: an empty leaf holds 0 instead of the hash that marks it empty.
InitWithoutZero ==
  /\ queue      = [r \in Registries |-> <<>>]
  /\ pointer    = [r \in Registries |-> 0]
  /\ state      = [r \in Registries |-> [h \in Certs |-> None]]
  /\ queueIndex = [r \in Registries |-> [h \in Certs |-> 0]]
  /\ tree       = [r \in Registries |-> [i \in Leaves |-> 0]]

Init ==
  /\ queue      = [r \in Registries |-> <<>>]
  /\ pointer    = [r \in Registries |-> 0]
  /\ state      = [r \in Registries |-> [h \in Certs |-> None]]
  /\ queueIndex = [r \in Registries |-> [h \in Certs |-> 0]]
  /\ tree       = [r \in Registries |-> [i \in Leaves |-> Zero]]

\* addOperationToQueue (0x0e35): a guardian asks for h to be issued, or
\* for the h it has had issued to be revoked.
Enqueue(r, h, from, to) ==
  /\ state[r][h] = from
  /\ Len(queue[r]) < MaxQueue
  /\ state'      = [state EXCEPT ![r][h] = to]
  /\ queueIndex' = [queueIndex EXCEPT ![r][h] = Len(queue[r])]
  /\ queue'      = [queue EXCEPT ![r] = Append(@, h)]
  /\ UNCHANGED <<pointer, tree>>

\* Faulty: revocation of a certificate whose revocation is queued already.
AddOperationTwice(r, h) ==
  \/ Enqueue(r, h, None, IssuanceQueued)
  \/ Enqueue(r, h, IssuanceMerkleTreeAdded, RevocationQueued)
  \/ Enqueue(r, h, RevocationQueued, RevocationQueued)

AddOperation(r, h) ==
  \/ Enqueue(r, h, None, IssuanceQueued)
  \/ Enqueue(r, h, IssuanceMerkleTreeAdded, RevocationQueued)

\* isZkCertificateInTurn: it looks at the queue index only, which is 0 for
\* a certificate that was never queued.
InTurn(r, h) == queueIndex[r][h] = pointer[r]

\* The proof (i, path) shows that leaf i of the current tree holds v.
Verifies(r, v, i, path) ==
  /\ tree[r][i] = v
  /\ path = Siblings(tree[r], i)

\* Faulty: the proof is not checked on issuance.
AcceptsWithoutProof(r, h, i, path) ==
  /\ InTurn(r, h)
  /\ \/ state[r][h] = IssuanceQueued
     \/ state[r][h] = RevocationQueued /\ Verifies(r, h, i, path)

\* Faulty: a certificate need not be in turn.
AcceptsOutOfTurn(r, h, i, path) ==
  \/ state[r][h] = IssuanceQueued   /\ Verifies(r, Zero, i, path)
  \/ state[r][h] = RevocationQueued /\ Verifies(r, h, i, path)

\* processNextOperation (0x07c0) succeeds: a certificate in turn is added
\* at an empty leaf, or erased from the leaf that holds it.  Anyone may
\* call it; the path given is the only credential.
Accepts(r, h, i, path) ==
  /\ InTurn(r, h)
  /\ \/ state[r][h] = IssuanceQueued   /\ Verifies(r, Zero, i, path)
     \/ state[r][h] = RevocationQueued /\ Verifies(r, h, i, path)

ProcessNextOperation(r, h, i, path) ==
  /\ Accepts(r, h, i, path)
  /\ tree'    = [tree EXCEPT ![r][i] =
                   IF state[r][h] = IssuanceQueued THEN h ELSE Zero]
  /\ state'   = [state EXCEPT ![r][h] = @ + 1]
  /\ pointer' = [pointer EXCEPT ![r] = @ + 1]
  /\ UNCHANGED <<queue, queueIndex>>

Next ==
  \E r \in Registries, h \in Certs :
    \/ AddOperation(r, h)
    \/ \E i \in Leaves : ProcessNextOperation(r, h, i, Siblings(tree[r], i))

Spec == Init /\ [][Next]_chainVars

-----------------------------------------------------------------------------
TypeOK ==
  /\ queue      \in [Registries -> Seq(Certs)]
  /\ pointer    \in [Registries -> Nat]
  /\ state      \in [Registries -> [Certs -> CertificateStates]]
  /\ queueIndex \in [Registries -> [Certs -> Nat]]
  /\ tree       \in [Registries -> Trees]

\* The queue positions still to be processed.
Pending(r) == pointer[r] .. Len(queue[r]) - 1

(***************************************************************************)
(* What processQueueItems relies on when it reads the queue at the         *)
(* pointer and then asks IsZkCertificateInTurn about the hash it found:    *)
(* the pointer never passes the end of the queue, and every entry from the *)
(* pointer on is a certificate whose operation is still outstanding at     *)
(* that very position.  If a position were left whose certificate had      *)
(* meanwhile been queued again or processed, the processor would find its  *)
(* head "not yet in turn" at every tick.                                   *)
(***************************************************************************)
PendingInTurn ==
  \A r \in Registries :
    /\ pointer[r] <= Len(queue[r])
    /\ \A k \in Pending(r) :
         LET h == queue[r][k + 1] IN
           queueIndex[r][h] = k /\ state[r][h] \in Queued

(***************************************************************************)
(* Conversely, a certificate with an outstanding operation is found at     *)
(* its queue index, ahead of the pointer: nothing queued is ever lost.     *)
(***************************************************************************)
QueuedIsPending ==
  \A r \in Registries, h \in Certs :
    state[r][h] \in Queued =>
      /\ queueIndex[r][h] \in Pending(r)
      /\ queue[r][queueIndex[r][h] + 1] = h

InTree(s) == s \in {IssuanceMerkleTreeAdded, RevocationQueued}

(***************************************************************************)
(* What processRevocation relies on when it asks the proof service for     *)
(* the leaf with the certificate's hash: a certificate is in the tree      *)
(* exactly from its issuance to its revocation, at one leaf.               *)
(***************************************************************************)
TreeMatchesStates ==
  \A r \in Registries, h \in Certs :
    /\ InTree(state[r][h]) <=> \E i \in Leaves : tree[r][i] = h
    /\ \A i, j \in Leaves : tree[r][i] = h /\ tree[r][j] = h => i = j

-----------------------------------------------------------------------------
(* The contract implements an operation queue.                             *)

Waiting ==
  [r \in Registries |->
     [k \in 1 .. Len(queue[r]) - pointer[r] |-> queue[r][pointer[r] + k]]]

Valid ==
  [r \in Registries |-> {h \in Certs : \E i \in Leaves : tree[r][i] = h}]

Revoked ==
  [r \in Registries |->
     {h \in Certs : state[r][h] = RevocationMerkleTreeAdded}]

Promise == INSTANCE OperationQueue
  WITH waiting <- Waiting, valid <- Valid, revoked <- Revoked

(***************************************************************************)
(* processNextOperation carries out the operations in the order in which   *)
(* they were queued, each once, and what the tree holds is what has been   *)
(* issued and not revoked: the registry implements OperationQueue.         *)
(***************************************************************************)
KeepsPromise == Promise!Spec

=============================================================================
