--------------------------- MODULE QueueProcessor ---------------------------
(***************************************************************************)
(* queueprocessor.Service at work: the monitor goroutine of each registry  *)
(* reads the head of that registry's queue over several calls, asks the    *)
(* Merkle proof service for a proof and submits processNextOperation from  *)
(* the account all registries share.  The module composes the contracts    *)
(* (CertificateRegistry) and the transaction path (TxSubmission): while a  *)
(* monitor reads, earlier transactions are mined, guardians queue further  *)
(* operations and the proof service catches up.                            *)
(***************************************************************************)
EXTENDS Integers, Sequences

CONSTANTS
  Registries, Certs, Leaves, Zero, MaxQueue,   \* of CertificateRegistry
  MaxRetries, PoolLimit, Nil                   \* of TxSubmission

VARIABLES
  queue, pointer, state, queueIndex, tree,             \* the contracts
  currentNonce, pool, stage, attempt, nonce, call,     \* the transactions
  hasKey,       \* whether SetPrivateKey has set Service.privateKey
  step,         \* the next call of each registry's monitor goroutine
  seen,         \* what that goroutine has read since its last tick
  served        \* the tree the proof service answers from

Chain == INSTANCE CertificateRegistry

\* The arguments of a processNextOperation transaction.  The pointer (at)
\* and the certificate state (op) the processor had read are not sent; they
\* record what the transaction was built for.
Calls ==
  [reg: Registries, cert: Certs, index: Leaves, path: Chain!Trees,
   at: 0 .. MaxQueue, op: Chain!Queued]

Tx == INSTANCE TxSubmission WITH Workers <- Registries, Payloads <- Calls

\* What the two modules assume.
ASSUME ProcessorAssumption ==
  /\ MaxQueue \in Nat
  /\ Zero \notin Certs
  /\ MaxRetries \in Nat \ {0}
  /\ PoolLimit \in Nat
  /\ Nil \notin Int \cup Calls

chainVars == <<queue, pointer, state, queueIndex, tree>>
txVars == <<currentNonce, pool, stage, attempt, nonce, call>>
monitorVars == <<hasKey, step, seen, served>>
vars == <<chainVars, txVars, monitorVars>>

Steps == {"tick", "length", "item", "data", "turn", "proof"}

Unseen == [ptr |-> 0, cert |-> Nil, op |-> Chain!None]

-----------------------------------------------------------------------------
\* A key is configured or not before the service starts.
Init ==
  /\ Chain!Init
  /\ Tx!Init
  /\ hasKey \in BOOLEAN
  /\ step   = [r \in Registries |-> "tick"]
  /\ seen   = [r \in Registries |-> Unseen]
  /\ served = tree

\* The monitor goroutine remembers what it found and goes on to call next.
Goes(r, next, found) ==
  /\ step' = [step EXCEPT ![r] = next]
  /\ seen' = [seen EXCEPT ![r] = found]
  /\ UNCHANGED <<hasKey, served>>

\* ... or returns to the ticker.
Returns(r) == Goes(r, "tick", Unseen)

\* checkAndProcessRegistryQueue: CurrentQueuePointer.  The goroutine is not
\* inside submitWithRetry, which it calls synchronously.
ReadPointer(r) ==
  /\ step[r] = "tick" /\ stage[r] = "idle"
  /\ Goes(r, "length", [Unseen EXCEPT !.ptr = pointer[r]])
  /\ UNCHANGED <<chainVars, txVars>>

\* Faulty: the test is off by one.
ReadLengthOffByOne(r) ==
  /\ step[r] = "length"
  /\ IF seen[r].ptr + 1 >= Len(queue[r])
     THEN Returns(r) ELSE Goes(r, "item", seen[r])
  /\ UNCHANGED <<chainVars, txVars>>

\* GetZkCertificateQueueLength, and the test that opens processQueueItems.
ReadLength(r) ==
  /\ step[r] = "length"
  /\ IF seen[r].ptr >= Len(queue[r]) THEN Returns(r) ELSE Goes(r, "item", seen[r])
  /\ UNCHANGED <<chainVars, txVars>>

\* ZkCertificateQueue at the pointer that was read.
ReadItem(r) ==
  /\ step[r] = "item"
  /\ Goes(r, "data", [seen[r] EXCEPT !.cert = queue[r][seen[r].ptr + 1]])
  /\ UNCHANGED <<chainVars, txVars>>

\* Faulty: every operation is taken for an issuance.
ReadDataAsIssuance(r) ==
  /\ step[r] = "data"
  /\ Goes(r, "turn", [seen[r] EXCEPT !.op = Chain!IssuanceQueued])
  /\ UNCHANGED <<chainVars, txVars>>

\* ZkCertificateProcessingData.
ReadData(r) ==
  /\ step[r] = "data"
  /\ Goes(r, "turn", [seen[r] EXCEPT !.op = state[r][seen[r].cert]])
  /\ UNCHANGED <<chainVars, txVars>>

\* Faulty: what IsZkCertificateInTurn answers is ignored.
ReadTurnUnchecked(r) ==
  /\ step[r] = "turn"
  /\ IF seen[r].op \in Chain!Queued THEN Goes(r, "proof", seen[r]) ELSE Returns(r)
  /\ UNCHANGED <<chainVars, txVars>>

\* IsZkCertificateInTurn, and the switch on the state read before it.
ReadTurn(r) ==
  /\ step[r] = "turn"
  /\ IF Chain!InTurn(r, seen[r].cert) /\ seen[r].op \in Chain!Queued
     THEN Goes(r, "proof", seen[r])
     ELSE Returns(r)
  /\ UNCHANGED <<chainVars, txVars>>

\* A call of the node or of the proof service fails.
CallFails(r) ==
  /\ step[r] # "tick"
  /\ Returns(r)
  /\ UNCHANGED <<chainVars, txVars>>

\* The proof for leaf i has arrived: submit it, or skip without a key.
GotProof(r, i) ==
  /\ Returns(r)
  /\ IF hasKey
     THEN Tx!Submit(r, [reg |-> r, cert |-> seen[r].cert, index |-> i,
                        path |-> Chain!Siblings(served[r], i),
                        at |-> seen[r].ptr, op |-> seen[r].op])
     ELSE UNCHANGED txVars
  /\ UNCHANGED chainVars

\* What the proof has to show at the leaf: that it is empty, or that it
\* holds the certificate.
Proven(c) == IF c.op = Chain!IssuanceQueued THEN Zero ELSE c.cert

\* The leaves the proof service may answer with.
Candidates(r) == {i \in Leaves : served[r][i] = Proven(seen[r])}

\* processIssuance: GetEmptyLeafProof answers with some empty leaf.
ProcessIssuance(r) ==
  /\ step[r] = "proof"
  /\ seen[r].op = Chain!IssuanceQueued
  /\ \E i \in Candidates(r) : GotProof(r, i)

\* processRevocation: GetProof finds the leaf that holds the certificate.
ProcessRevocation(r) ==
  /\ step[r] = "proof"
  /\ seen[r].op = Chain!RevocationQueued
  /\ \E i \in Candidates(r) : GotProof(r, i)

\* The proof service knows no such leaf.
NoProof(r) ==
  /\ step[r] = "proof"
  /\ Candidates(r) = {}
  /\ Returns(r)
  /\ UNCHANGED <<chainVars, txVars>>

MonitorStep(r) ==
  \/ ReadPointer(r)
  \/ ReadLength(r)
  \/ ReadItem(r)
  \/ ReadData(r)
  \/ ReadTurn(r)
  \/ ProcessIssuance(r)
  \/ ProcessRevocation(r)
  \/ NoProof(r)

\* A step of submitWithRetry, and one in which the node fails it.
SubmitStep(r) ==
  /\ Tx!WorkerStep(r)
  /\ UNCHANGED <<chainVars, monitorVars>>

SubmitMishap(r) ==
  /\ Tx!WorkerMishap(r)
  /\ UNCHANGED <<chainVars, monitorVars>>

-----------------------------------------------------------------------------
(* The world around the service.                                           *)

CallAccepted(c) == Chain!Accepts(c.reg, c.cert, c.index, c.path)

\* The account's next transaction is mined and takes effect ...
MinedAndExecuted ==
  /\ Tx!Confirm
  /\ LET c == pool[0] IN
       Chain!ProcessNextOperation(c.reg, c.cert, c.index, c.path)
  /\ UNCHANGED monitorVars

\* ... or reverts: the gas limit is fixed, so nothing is simulated first.
MinedAndReverted ==
  /\ Tx!Confirm
  /\ ~CallAccepted(pool[0])
  /\ UNCHANGED <<chainVars, monitorVars>>

\* A guardian queues an operation.
GuardianAdds(r, h) ==
  /\ Chain!AddOperation(r, h)
  /\ UNCHANGED <<txVars, monitorVars>>

\* The proof service catches up with a registry's tree.
ServiceSyncs(r) ==
  /\ served[r] # tree[r]
  /\ served' = [served EXCEPT ![r] = tree[r]]
  /\ UNCHANGED <<chainVars, txVars, hasKey, step, seen>>

\* The node forgets a pending transaction (restart, eviction, low fee).
NodeDrops(n) ==
  /\ pool' = [m \in DOMAIN pool \ {n} |-> pool[m]]
  /\ UNCHANGED <<chainVars, currentNonce, stage, attempt, nonce, call, monitorVars>>

\* The process dies and is started anew with the same configuration.
Restart ==
  /\ Tx!Crash
  /\ step' = [r \in Registries |-> "tick"]
  /\ seen' = [r \in Registries |-> Unseen]
  /\ UNCHANGED <<chainVars, hasKey, served>>

\* What happens when nothing goes wrong.
Regular ==
  \/ \E r \in Registries : MonitorStep(r) \/ SubmitStep(r) \/ ServiceSyncs(r)
  \/ \E r \in Registries, h \in Certs : GuardianAdds(r, h)
  \/ MinedAndExecuted
  \/ MinedAndReverted

\* A call fails that could have been answered, or state is lost.
Mishap ==
  \/ \E r \in Registries : CallFails(r) \/ SubmitMishap(r)
  \/ \E n \in DOMAIN pool : NodeDrops(n)
  \/ Restart

Next == Regular \/ Mishap

Spec == Init /\ [][Next]_vars

-----------------------------------------------------------------------------
TypeOK ==
  /\ Chain!TypeOK
  /\ Tx!TypeOK
  /\ hasKey \in BOOLEAN
  /\ step   \in [Registries -> Steps]
  /\ seen   \in [Registries -> [ptr: 0 .. MaxQueue, cert: Certs \cup {Nil},
                                op: Chain!CertificateStates]]
  /\ served \in [Registries -> Chain!Trees]

\* The calls that may yet be executed: pending ones, and those still to be
\* sent or sent again.
Outstanding ==
  {pool[n] : n \in DOMAIN pool} \cup ({call[r] : r \in Registries} \ {Nil})

(***************************************************************************)
(* The pointer, the certificate, its state, its turn and the proof are     *)
(* read in separate calls while the contract moves on.  As long as the     *)
(* pointer has not left the position a call was built for and the proof    *)
(* still verifies, the contract must accept the call: what                 *)
(* processQueueItems put together from its reads belongs together.  Only   *)
(* a call overtaken by another one, or built on a lagging tree, is wasted. *)
(***************************************************************************)
BuiltForTheHead ==
  \A c \in Outstanding :
    (pointer[c.reg] = c.at /\ Chain!Verifies(c.reg, Proven(c), c.index, c.path))
      => CallAccepted(c)

(***************************************************************************)
(* No call runs ahead of the queue: while the operation a call was built   *)
(* for is outstanding, it is the one at the pointer.  A certificate issued *)
(* from the head and queued again behind others between two of             *)
(* processQueueItems' reads must not be submitted for revocation yet.      *)
(***************************************************************************)
OnlyTheHead ==
  \A c \in Outstanding :
    state[c.reg][c.cert] = c.op => Chain!InTurn(c.reg, c.cert)

-----------------------------------------------------------------------------
\* processQueueItems holds registry.Mu from its first test to its return,
\* through all of submitWithRetry's attempts.
HoldsMu(r) == step[r] \in {"item", "data", "turn", "proof"} \/ stage[r] # "idle"

(***************************************************************************)
(* However often calls fail, the monitor lets go of registry.Mu again, so  *)
(* that handleOperationQueued, and the event bus behind it, can proceed.   *)
(***************************************************************************)
MuIsReleased == \A r \in Registries : HoldsMu(r) ~> ~HoldsMu(r)

\* The calls and waits still ahead of r's goroutine while it holds the
\* mutex, if every attempt is needed: three for each, four before them.
StepsLeft(r) ==
  LET attempts == 3 * (MaxRetries - attempt[r]) IN
    CASE step[r] = "item"     -> attempts + 4
      [] step[r] = "data"     -> attempts + 3
      [] step[r] = "turn"     -> attempts + 2
      [] step[r] = "proof"    -> attempts + 1
      [] stage[r] = "prepare" -> attempts
      [] stage[r] = "submit"  -> attempts - 1
      [] stage[r] = "failed"  -> attempts - 2
      [] OTHER                -> 0

(***************************************************************************)
(* The mutex is held for 3 * MaxRetries + 4 steps at the most: whichever   *)
(* calls fail, each step of the goroutine that holds it leads towards the  *)
(* release, and nothing that the other registries, the chain or the        *)
(* operator do leads it back.                                              *)
(***************************************************************************)
HoldIsBounded ==
  [][\A r \in Registries :
       HoldsMu(r) =>
         \/ UNCHANGED <<step[r], stage[r], attempt[r]>>
         \/ StepsLeft(r)' \in 0 .. StepsLeft(r) - 1]_vars

-----------------------------------------------------------------------------
\* Nothing at all goes wrong.
QuietSpec == Init /\ [][Regular]_vars

(***************************************************************************)
(* A transaction that processIssuance submitted carries out an issuance,   *)
(* one of processRevocation a revocation.  It fails: a second issuance     *)
(* transaction, mined after the certificate was queued for revocation, has *)
(* just the index and the path that the revocation needs, and erases the   *)
(* leaf.                                                                   *)
(***************************************************************************)
ExecutedAsBuilt ==
  [][MinedAndExecuted => LET c == pool[0] IN state[c.reg][c.cert] = c.op]_vars

=============================================================================
