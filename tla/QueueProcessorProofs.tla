----------------------- MODULE QueueProcessorProofs -----------------------
(***************************************************************************)
(* Proofs about QueueProcessor, for any number of registries, certificates *)
(* and retries: the monitor goroutines never put together a call that does *)
(* not fit the head of the queue, whatever happens between their reads,    *)
(* and the contracts still keep what CertificateRegistry promises.         *)
(***************************************************************************)
EXTENDS QueueProcessor, TLAPS

ChainProofs == INSTANCE CertificateRegistryProofs
TxProofs    == INSTANCE TxSubmissionProofs
                 WITH Workers <- Registries, Payloads <- Calls

-----------------------------------------------------------------------------
(* The components' proofs, in the terms of QueueProcessor.                 *)

\* What is known of the contracts.
ChainInv ==
  /\ Chain!TypeOK
  /\ Chain!PendingInTurn
  /\ Chain!QueuedIsPending
  /\ \A r \in Registries : Len(queue[r]) <= MaxQueue

LEMMA SameChainStep == Chain!Next => ChainProofs!Next
  BY DEF Chain!Next, ChainProofs!Next,
         Chain!AddOperation, ChainProofs!AddOperation,
         Chain!Enqueue, ChainProofs!Enqueue,
         Chain!ProcessNextOperation, ChainProofs!ProcessNextOperation,
         Chain!Accepts, ChainProofs!Accepts, Chain!InTurn, ChainProofs!InTurn,
         Chain!Verifies, ChainProofs!Verifies,
         Chain!Siblings, ChainProofs!Siblings,
         Chain!None, ChainProofs!None,
         Chain!IssuanceQueued, ChainProofs!IssuanceQueued,
         Chain!IssuanceMerkleTreeAdded, ChainProofs!IssuanceMerkleTreeAdded,
         Chain!RevocationQueued, ChainProofs!RevocationQueued

\* The invariant of the contract's queue, under both names.
LEMMA SameQueueInv ==
  /\ ChainProofs!QueueInv <=>
       Chain!TypeOK /\ Chain!PendingInTurn /\ Chain!QueuedIsPending
  /\ ChainProofs!QueueInv' <=>
       (Chain!TypeOK /\ Chain!PendingInTurn /\ Chain!QueuedIsPending)'
  BY DEF ChainProofs!QueueInv,
         Chain!TypeOK, ChainProofs!TypeOK, Chain!Trees, ChainProofs!Trees,
         Chain!CertificateStates, ChainProofs!CertificateStates,
         Chain!PendingInTurn, ChainProofs!PendingInTurn,
         Chain!QueuedIsPending, ChainProofs!QueuedIsPending,
         Chain!Pending, ChainProofs!Pending,
         Chain!Queued, ChainProofs!Queued,
         Chain!IssuanceQueued, ChainProofs!IssuanceQueued,
         Chain!RevocationQueued, ChainProofs!RevocationQueued

\* The contract's two steps.
LEMMA ChainCases ==
  ASSUME Chain!Next
  PROVE  \E r \in Registries, h \in Certs :
           \/ \E from, to \in Chain!CertificateStates :
                /\ from \notin Chain!Queued /\ to = from + 1
                /\ Chain!Enqueue(r, h, from, to)
           \/ \E i \in Leaves :
                Chain!ProcessNextOperation(r, h, i, Chain!Siblings(tree[r], i))
  BY DEF Chain!Next, Chain!AddOperation, Chain!CertificateStates,
         Chain!Queued, Chain!None, Chain!IssuanceQueued,
         Chain!IssuanceMerkleTreeAdded, Chain!RevocationQueued

LEMMA ChainStepKeepsInv ==
  ASSUME ChainInv, Chain!Next
  PROVE  ChainInv'
<1>1. ChainProofs!QueueInv'
  <2>1. ChainProofs!QueueInv
    BY SameQueueInv DEF ChainInv
  <2> QED
    BY <2>1, SameChainStep, ProcessorAssumption, ChainProofs!NextKeepsQueueInv
<1>2. \A r \in Registries : Len(queue'[r]) <= MaxQueue
  <2>1. PICK r \in Registries, h \in Certs :
          \/ \E from, to \in Chain!CertificateStates :
               Chain!Enqueue(r, h, from, to)
          \/ \E i \in Leaves :
               Chain!ProcessNextOperation(r, h, i, Chain!Siblings(tree[r], i))
    BY ChainCases
  <2>2. CASE \E from, to \in Chain!CertificateStates :
               Chain!Enqueue(r, h, from, to)
    <3>1. /\ Len(queue[r]) < MaxQueue
          /\ queue' = [queue EXCEPT ![r] = Append(queue[r], h)]
      BY <2>2 DEF Chain!Enqueue
    <3>2. Len(Append(queue[r], h)) = Len(queue[r]) + 1 /\ Len(queue[r]) \in Nat
      BY DEF ChainInv, Chain!TypeOK
    <3> QED
      BY <3>1, <3>2, ProcessorAssumption DEF ChainInv, Chain!TypeOK
  <2>3. CASE \E i \in Leaves :
               Chain!ProcessNextOperation(r, h, i, Chain!Siblings(tree[r], i))
    BY <2>3 DEF Chain!ProcessNextOperation, ChainInv
  <2> QED BY <2>1, <2>2, <2>3
<1> QED
  BY <1>1, <1>2, SameQueueInv DEF ChainInv

LEMMA SameTxTypeOK ==
  /\ Tx!TypeOK <=> TxProofs!TypeOK
  /\ Tx!TypeOK' <=> TxProofs!TypeOK'
  BY DEF Tx!TypeOK, TxProofs!TypeOK, Tx!Stages, TxProofs!Stages

LEMMA SameTxStep ==
  ASSUME NEW r \in Registries, Tx!WorkerStep(r) \/ Tx!WorkerMishap(r)
  PROVE  TxProofs!WorkerStep(r) \/ TxProofs!WorkerMishap(r)
  BY DEF Tx!WorkerStep, TxProofs!WorkerStep,
         Tx!WorkerMishap, TxProofs!WorkerMishap,
         Tx!PrepareFromNode, TxProofs!PrepareFromNode,
         Tx!PrepareFromCache, TxProofs!PrepareFromCache,
         Tx!TakeNonce, TxProofs!TakeNonce, Tx!Clamped, TxProofs!Clamped,
         Tx!IsPendingNonce, TxProofs!IsPendingNonce,
         Tx!SendSucceeds, TxProofs!SendSucceeds,
         Tx!Admissible, TxProofs!Admissible,
         Tx!PoolWith, TxProofs!PoolWith, Tx!Return, TxProofs!Return,
         Tx!Refused, TxProofs!Refused, Tx!Fail, TxProofs!Fail,
         Tx!Retry, TxProofs!Retry, Tx!GiveUp, TxProofs!GiveUp,
         Tx!PrepareFails, TxProofs!PrepareFails,
         Tx!SendReplyLost, TxProofs!SendReplyLost,
         Tx!SendFails, TxProofs!SendFails

LEMMA SameConfirm == Tx!Confirm => TxProofs!Confirm
  BY DEF Tx!Confirm, TxProofs!Confirm, Tx!Lowered, TxProofs!Lowered,
         Tx!Clamped, TxProofs!Clamped

\* Every step of the transaction path keeps its types, NodeDrops as well.
LEMMA TxTypes ==
  ASSUME Tx!TypeOK
  PROVE  /\ \A r \in Registries :
              Tx!WorkerStep(r) \/ Tx!WorkerMishap(r) => Tx!TypeOK'
         /\ \A r \in Registries, c \in Calls : Tx!Submit(r, c) => Tx!TypeOK'
         /\ Tx!Confirm => Tx!TypeOK'
         /\ Tx!Crash => Tx!TypeOK'
         /\ \A n \in DOMAIN pool : NodeDrops(n) => Tx!TypeOK'
         /\ UNCHANGED txVars => Tx!TypeOK'
<1>1. \A r \in Registries :
        Tx!WorkerStep(r) \/ Tx!WorkerMishap(r) => Tx!TypeOK'
  BY SameTxStep, SameTxTypeOK, ProcessorAssumption, TxProofs!WorkerTypeOK
<1>2. \A r \in Registries, c \in Calls : Tx!Submit(r, c) => Tx!TypeOK'
  BY ProcessorAssumption DEF Tx!TypeOK, Tx!Stages, Tx!Submit
<1>3. Tx!Confirm => Tx!TypeOK'
  BY SameConfirm, SameTxTypeOK, ProcessorAssumption, TxProofs!ConfirmTypeOK
<1>4. Tx!Crash => Tx!TypeOK'
  BY ProcessorAssumption DEF Tx!TypeOK, Tx!Stages, Tx!Crash
<1>5. \A n \in DOMAIN pool : NodeDrops(n) => Tx!TypeOK'
  BY DEF Tx!TypeOK, NodeDrops
<1>6. UNCHANGED txVars => Tx!TypeOK'
  BY DEF Tx!TypeOK, txVars
<1> QED
  BY <1>1, <1>2, <1>3, <1>4, <1>5, <1>6

-----------------------------------------------------------------------------
(* What the goroutine read, as the contract moves on.                      *)

\* h was found at position at, which the pointer had reached.
ItemRead(r, at, h) ==
  /\ at \in 0 .. Len(queue[r]) - 1
  /\ at <= pointer[r]
  /\ queue[r][at + 1] = h

\* The state op that was read lies behind if h's operation was processed,
\* and it is the current one as long as the pointer stays.
StateRead(r, at, h, op) ==
  /\ op <= state[r][h]
  /\ pointer[r] = at => state[r][h] = op

\* h's operation was in turn and is until it is processed.
TurnRead(r, h, op) ==
  /\ op \in Chain!Queued
  /\ state[r][h] = op => Chain!InTurn(r, h)

Built(r, at, h, op) ==
  ItemRead(r, at, h) /\ StateRead(r, at, h, op) /\ TurnRead(r, h, op)

\* An entry the pointer has just reached is in turn, its operation waiting.
LEMMA HeadIsQueued ==
  ASSUME ChainInv, NEW r \in Registries, NEW at, NEW h, ItemRead(r, at, h)
  PROVE  /\ h \in Certs
         /\ pointer[r] = at =>
              Chain!InTurn(r, h) /\ state[r][h] \in Chain!Queued
<1>1. at + 1 \in 1 .. Len(queue[r]) /\ queue[r] \in Seq(Certs)
  BY DEF ItemRead, ChainInv, Chain!TypeOK
<1>2. h \in Certs
  BY <1>1 DEF ItemRead
<1>3. pointer[r] = at => at \in Chain!Pending(r)
  BY DEF ItemRead, Chain!Pending, ChainInv, Chain!TypeOK
<1> QED
  BY <1>2, <1>3 DEF ItemRead, ChainInv, Chain!PendingInTurn, Chain!InTurn

LEMMA ReadingSurvives ==
  ASSUME ChainInv, Chain!Next, NEW r \in Registries, NEW at, NEW h
  PROVE  /\ ItemRead(r, at, h) => ItemRead(r, at, h)'
         /\ pointer[r] <= pointer'[r]
         /\ Len(queue[r]) <= Len(queue'[r])
         /\ \A op \in Chain!CertificateStates :
              /\ ItemRead(r, at, h) /\ StateRead(r, at, h, op)
                   => StateRead(r, at, h, op)'
              /\ Built(r, at, h, op) => TurnRead(r, h, op)'
<1> USE DEF ChainInv, Chain!TypeOK
<1>0. PICK q \in Registries, g \in Certs :
        \/ \E from, to \in Chain!CertificateStates :
             /\ from \notin Chain!Queued /\ to = from + 1
             /\ Chain!Enqueue(q, g, from, to)
        \/ \E i \in Leaves :
             Chain!ProcessNextOperation(q, g, i, Chain!Siblings(tree[q], i))
  BY ChainCases
<1>1. ASSUME NEW from \in Chain!CertificateStates,
             NEW to \in Chain!CertificateStates,
             from \notin Chain!Queued, to = from + 1,
             Chain!Enqueue(q, g, from, to)
      PROVE  /\ ItemRead(r, at, h) => ItemRead(r, at, h)'
             /\ pointer[r] <= pointer'[r]
             /\ Len(queue[r]) <= Len(queue'[r])
             /\ \A op \in Chain!CertificateStates :
                  /\ ItemRead(r, at, h) /\ StateRead(r, at, h, op)
                       => StateRead(r, at, h, op)'
                  /\ Built(r, at, h, op) => TurnRead(r, h, op)'
  <2>1. /\ state[q][g] = from /\ pointer' = pointer
        /\ queue' = [queue EXCEPT ![q] = Append(queue[q], g)]
    BY <1>1 DEF Chain!Enqueue
  <2>2. /\ state'[q][g] = from + 1
        /\ \A c \in Certs : (r # q \/ c # g) =>
             /\ state'[r][c] = state[r][c]
             /\ queueIndex'[r][c] = queueIndex[r][c]
    BY <1>1 DEF Chain!Enqueue
  <2>3. /\ Len(queue[r]) \in Nat /\ Len(queue[r]) <= Len(queue'[r])
        /\ \A k \in 1 .. Len(queue[r]) : queue'[r][k] = queue[r][k]
    BY <2>1
  <2>4. ItemRead(r, at, h) => ItemRead(r, at, h)'
    BY <2>1, <2>3 DEF ItemRead
  <2>5. ASSUME ItemRead(r, at, h), NEW op \in Chain!CertificateStates,
               StateRead(r, at, h, op)
        PROVE  StateRead(r, at, h, op)'
    <3>1. h \in Certs /\ (pointer[r] = at => state[r][h] \in Chain!Queued)
      BY <2>5, HeadIsQueued
    <3>2. CASE r = q /\ h = g
      BY <1>1, <2>1, <2>2, <2>5, <3>1, <3>2
         DEF StateRead, Chain!CertificateStates
    <3>3. CASE r # q \/ h # g
      BY <2>1, <2>2, <2>5, <3>1, <3>3 DEF StateRead
    <3> QED BY <3>2, <3>3
  <2>6. ASSUME NEW op \in Chain!CertificateStates, Built(r, at, h, op)
        PROVE  TurnRead(r, h, op)'
    <3>1. h \in Certs
      BY <2>6, HeadIsQueued DEF Built
    <3>2. CASE r = q /\ h = g
      BY <1>1, <2>1, <2>2, <2>6, <3>2
         DEF Built, StateRead, TurnRead, Chain!CertificateStates
    <3>3. CASE r # q \/ h # g
      BY <2>1, <2>2, <2>6, <3>1, <3>3 DEF Built, TurnRead, Chain!InTurn
    <3> QED BY <3>2, <3>3
  <2> QED
    BY <2>1, <2>3, <2>4, <2>5, <2>6
<1>2. ASSUME NEW i \in Leaves,
             Chain!ProcessNextOperation(q, g, i, Chain!Siblings(tree[q], i))
      PROVE  /\ ItemRead(r, at, h) => ItemRead(r, at, h)'
             /\ pointer[r] <= pointer'[r]
             /\ Len(queue[r]) <= Len(queue'[r])
             /\ \A op \in Chain!CertificateStates :
                  /\ ItemRead(r, at, h) /\ StateRead(r, at, h, op)
                       => StateRead(r, at, h, op)'
                  /\ Built(r, at, h, op) => TurnRead(r, h, op)'
  <2>1. /\ queue' = queue /\ queueIndex' = queueIndex
        /\ pointer'[r] = IF r = q THEN pointer[r] + 1 ELSE pointer[r]
        /\ pointer[r] \in Nat
    BY <1>2 DEF Chain!ProcessNextOperation
  <2>2. /\ state'[q][g] = state[q][g] + 1
        /\ \A c \in Certs : (r # q \/ c # g) => state'[r][c] = state[r][c]
    BY <1>2 DEF Chain!ProcessNextOperation
  <2>3. state[q][g] \in Chain!Queued /\ queueIndex[q][g] = pointer[q]
    BY <1>2 DEF Chain!ProcessNextOperation, Chain!Accepts, Chain!InTurn,
                Chain!Queued
  <2>s. \A c \in Certs : state[r][c] \in 0 .. 4
    BY DEF Chain!CertificateStates
  <2>4. ItemRead(r, at, h) => ItemRead(r, at, h)'
    BY <2>1 DEF ItemRead
  <2>5. ASSUME ItemRead(r, at, h), NEW op \in Chain!CertificateStates,
               StateRead(r, at, h, op)
        PROVE  StateRead(r, at, h, op)'
    <3>1. h \in Certs /\ at <= pointer[r] /\ at \in Int
      BY <2>5, HeadIsQueued DEF ItemRead
    <3>2. CASE r = q /\ h = g
      <4>0. state'[r][h] = state[r][h] + 1 /\ state[r][h] \in 0 .. 4
        BY <2>2, <2>s, <3>1, <3>2
      <4>1. op <= state'[r][h]
        BY <2>5, <4>0 DEF StateRead, Chain!CertificateStates
      <4>2. pointer'[r] # at
        BY <2>1, <3>1, <3>2
      <4> QED BY <4>1, <4>2 DEF StateRead
    <3>3. CASE r # q \/ h # g
      BY <2>1, <2>2, <2>5, <3>1, <3>3 DEF StateRead
    <3> QED BY <3>2, <3>3
  <2>6. ASSUME NEW op \in Chain!CertificateStates, Built(r, at, h, op)
        PROVE  TurnRead(r, h, op)'
    <3>1. h \in Certs
      BY <2>6, HeadIsQueued DEF Built
    <3>2. CASE r = q /\ h = g
      <4>1. op <= state[r][h] /\ op \in Chain!Queued
        BY <2>6 DEF Built, StateRead, TurnRead
      <4>0. state'[r][h] = state[r][h] + 1 /\ state[r][h] \in 0 .. 4
        BY <2>2, <2>s, <3>1, <3>2
      <4>2. state'[r][h] # op
        BY <4>0, <4>1 DEF Chain!CertificateStates
      <4> QED BY <4>1, <4>2 DEF TurnRead
    <3>3. CASE r = q /\ h # g
      <4>1. state[r][h] # op
        <5> SUFFICES ASSUME state[r][h] = op PROVE FALSE
          OBVIOUS
        <5>1. queueIndex[r][h] = pointer[r] /\ state[r][h] \in Chain!Queued
          BY <2>6 DEF Built, TurnRead, Chain!InTurn
        <5> QED
          BY <2>3, <3>1, <3>3, <5>1 DEF Chain!QueuedIsPending
      <4> QED BY <2>2, <2>6, <3>1, <3>3, <4>1 DEF Built, TurnRead
    <3>4. CASE r # q
      BY <2>1, <2>2, <2>6, <3>1, <3>4 DEF Built, TurnRead, Chain!InTurn
    <3> QED BY <3>2, <3>3, <3>4
  <2> QED
    BY <2>1, <2>4, <2>5, <2>6
<1> QED
  BY <1>0, <1>1, <1>2

-----------------------------------------------------------------------------
(* The invariant: what each goroutine has read so far, and the calls it    *)
(* put together from that.                                                 *)

MonitorInv(r) ==
  LET s == seen[r] IN
    /\ step[r] # "tick" => s.ptr <= pointer[r]
    /\ step[r] \in {"item", "data", "turn", "proof"} => s.ptr < Len(queue[r])
    /\ step[r] \in {"data", "turn", "proof"} => ItemRead(r, s.ptr, s.cert)
    /\ step[r] \in {"turn", "proof"} => StateRead(r, s.ptr, s.cert, s.op)
    /\ step[r] = "proof" => TurnRead(r, s.cert, s.op)

CallsFit == \A c \in Outstanding : Built(c.reg, c.at, c.cert, c.op)

ProcessorInv ==
  TypeOK /\ ChainInv /\ (\A r \in Registries : MonitorInv(r)) /\ CallsFit

LEMMA OutstandingAreCalls == TypeOK => Outstanding \subseteq Calls
  BY DEF TypeOK, Tx!TypeOK, Outstanding

\* The submission path sends calls, repeats and forgets them, and adds none.
LEMMA NothingNewIsSubmitted ==
  ASSUME TypeOK,
         \/ \E r \in Registries : Tx!WorkerStep(r) \/ Tx!WorkerMishap(r)
         \/ Tx!Confirm
         \/ Tx!Crash
         \/ \E n \in DOMAIN pool : NodeDrops(n)
         \/ UNCHANGED txVars
  PROVE  Outstanding' \subseteq Outstanding
<1> USE DEF Outstanding
<1>1. CASE Tx!Confirm
  BY <1>1 DEF Tx!Confirm, TypeOK, Tx!TypeOK
<1>2. CASE Tx!Crash
  BY <1>2 DEF Tx!Crash
<1>3. CASE \E n \in DOMAIN pool : NodeDrops(n)
  BY <1>3 DEF NodeDrops
<1>4. CASE UNCHANGED txVars
  BY <1>4 DEF txVars
<1>5. ASSUME NEW r \in Registries, Tx!WorkerStep(r) \/ Tx!WorkerMishap(r)
      PROVE  Outstanding' \subseteq Outstanding
  <2>1. CASE Tx!SendSucceeds(r) \/ Tx!SendReplyLost(r)
    <3>1. /\ pool' = Tx!PoolWith(nonce[r], call[r])
          /\ \A q \in Registries : call'[q] \in {call[q], Nil}
          /\ stage[r] = "submit"
      BY <2>1 DEF Tx!SendSucceeds, Tx!SendReplyLost, Tx!Return, Tx!Fail,
                  Tx!Admissible, TypeOK, Tx!TypeOK
    <3>2. call[r] # Nil
      BY <3>1 DEF TypeOK, Tx!TypeOK
    <3>3. \A n \in DOMAIN pool' :
            pool'[n] = call[r] \/ (n \in DOMAIN pool /\ pool'[n] = pool[n])
      BY <3>1 DEF Tx!PoolWith
    <3> QED BY <3>1, <3>2, <3>3
  <2>2. CASE ~(Tx!SendSucceeds(r) \/ Tx!SendReplyLost(r))
    <3>1. pool' = pool /\ \A q \in Registries : call'[q] \in {call[q], Nil}
      BY <1>5, <2>2
         DEF Tx!WorkerStep, Tx!WorkerMishap, Tx!PrepareFromNode,
             Tx!PrepareFromCache, Tx!TakeNonce, Tx!Refused, Tx!Fail,
             Tx!Retry, Tx!GiveUp, Tx!Return, Tx!PrepareFails, Tx!SendFails,
             TypeOK, Tx!TypeOK
    <3> QED BY <3>1
  <2> QED BY <2>1, <2>2
<1> QED
  BY <1>1, <1>2, <1>3, <1>4, <1>5

\* Readings and calls survive a step of the contract.
LEMMA ContractStepKeepsInv ==
  ASSUME ProcessorInv, Chain!Next, Outstanding' \subseteq Outstanding,
         Tx!TypeOK', UNCHANGED monitorVars
  PROVE  ProcessorInv'
<1>1. ChainInv'
  BY ChainStepKeepsInv DEF ProcessorInv
<1>2. TypeOK'
  BY <1>1 DEF ProcessorInv, TypeOK, ChainInv, monitorVars
<1>3. ASSUME NEW r \in Registries PROVE MonitorInv(r)'
  <2>1. /\ MonitorInv(r) /\ seen[r].ptr \in Nat
        /\ seen[r].cert \in Certs \cup {Nil}
        /\ seen[r].op \in Chain!CertificateStates
    BY ProcessorAssumption DEF ProcessorInv, TypeOK
  <2>2. /\ step'[r] = step[r] /\ seen'[r] = seen[r]
    BY DEF monitorVars
  <2>3. pointer[r] \in Nat /\ pointer'[r] \in Nat
        /\ Len(queue[r]) \in Nat /\ Len(queue'[r]) \in Nat
    BY <1>1 DEF ProcessorInv, ChainInv, Chain!TypeOK
  <2>4. PICK p \in Nat, h \in Certs \cup {Nil}, o \in Chain!CertificateStates :
          p = seen[r].ptr /\ h = seen[r].cert /\ o = seen[r].op
    BY <2>1
  <2>5. p = seen'[r].ptr /\ h = seen'[r].cert /\ o = seen'[r].op
    BY <2>2, <2>4
  <2>6. /\ pointer[r] <= pointer'[r] /\ Len(queue[r]) <= Len(queue'[r])
        /\ ItemRead(r, p, h) => ItemRead(r, p, h)'
        /\ ItemRead(r, p, h) /\ StateRead(r, p, h, o) => StateRead(r, p, h, o)'
        /\ Built(r, p, h, o) => TurnRead(r, h, o)'
    BY ReadingSurvives DEF ProcessorInv
  <2> QED
    BY <2>1, <2>2, <2>3, <2>4, <2>5, <2>6
       DEF MonitorInv, Built, ItemRead, StateRead, TurnRead, Chain!InTurn
<1>4. CallsFit'
  <2> SUFFICES ASSUME NEW c \in Outstanding'
               PROVE  Built(c.reg, c.at, c.cert, c.op)'
    BY DEF CallsFit
  <2>1. c \in Outstanding /\ c \in Calls
    BY OutstandingAreCalls DEF ProcessorInv
  <2>2. c.reg \in Registries /\ c.op \in Chain!CertificateStates
        /\ Built(c.reg, c.at, c.cert, c.op)
    BY <2>1 DEF ProcessorInv, CallsFit, Calls, Chain!Queued,
                Chain!CertificateStates, Chain!IssuanceQueued,
                Chain!RevocationQueued
  <2> QED
    BY <2>2, ReadingSurvives DEF ProcessorInv, Built
<1> QED
  BY <1>1, <1>2, <1>3, <1>4 DEF ProcessorInv

\* A step that reads nothing and leaves the contracts alone.
LEMMA OtherStepKeepsInv ==
  ASSUME ProcessorInv, UNCHANGED chainVars, TypeOK',
         Outstanding' \subseteq Outstanding,
         \A r \in Registries :
           step'[r] = "tick" \/ (step'[r] = step[r] /\ seen'[r] = seen[r])
  PROVE  ProcessorInv'
<1>1. ChainInv'
  BY DEF ProcessorInv, ChainInv, chainVars, TypeOK, Chain!PendingInTurn,
         Chain!QueuedIsPending, Chain!Pending
<1>2. \A r \in Registries : MonitorInv(r)'
  BY DEF ProcessorInv, MonitorInv, chainVars, ItemRead, StateRead, TurnRead,
         Chain!InTurn
<1>3. CallsFit'
  BY DEF ProcessorInv, CallsFit, chainVars, Built, ItemRead, StateRead,
         TurnRead, Chain!InTurn
<1> QED
  BY <1>1, <1>2, <1>3 DEF ProcessorInv

\* A step of r's goroutine that reads, and its reading fits.
LEMMA ReadingKeepsInv ==
  ASSUME ProcessorInv, UNCHANGED <<chainVars, txVars>>,
         NEW r \in Registries, NEW next \in Steps,
         NEW found \in [ptr: 0 .. MaxQueue, cert: Certs \cup {Nil},
                        op: Chain!CertificateStates],
         Goes(r, next, found), MonitorInv(r)'
  PROVE  ProcessorInv'
<1>1. TypeOK'
  BY TxTypes DEF ProcessorInv, TypeOK, ChainInv, Chain!TypeOK, chainVars, Goes
<1>2. ChainInv'
  BY <1>1 DEF ProcessorInv, ChainInv, chainVars, TypeOK, Chain!PendingInTurn,
              Chain!QueuedIsPending, Chain!Pending
<1>3. \A q \in Registries : MonitorInv(q)'
  <2> SUFFICES ASSUME NEW q \in Registries, q # r PROVE MonitorInv(q)'
    OBVIOUS
  <2>1. step'[q] = step[q] /\ seen'[q] = seen[q]
    BY DEF Goes, ProcessorInv, TypeOK
  <2> QED
    BY <2>1 DEF ProcessorInv, MonitorInv, chainVars, ItemRead, StateRead,
                TurnRead, Chain!InTurn
<1>4. CallsFit'
  BY DEF ProcessorInv, CallsFit, Outstanding, chainVars, txVars, Built,
         ItemRead, StateRead, TurnRead, Chain!InTurn
<1> QED
  BY <1>1, <1>2, <1>3, <1>4 DEF ProcessorInv

-----------------------------------------------------------------------------
(* One lemma for each of the goroutine's reads.                            *)

LEMMA ReturningKeepsInv ==
  ASSUME ProcessorInv, UNCHANGED <<chainVars, txVars>>,
         NEW r \in Registries, Returns(r)
  PROVE  ProcessorInv'
<1>1. Unseen \in [ptr: 0 .. MaxQueue, cert: Certs \cup {Nil},
                  op: Chain!CertificateStates]
  BY ProcessorAssumption
     DEF Unseen, Chain!None, Chain!CertificateStates
<1>2. Goes(r, "tick", Unseen) /\ step'[r] = "tick"
  BY DEF Returns, Goes, ProcessorInv, TypeOK
<1> QED
  BY <1>1, <1>2, ReadingKeepsInv DEF MonitorInv, Steps

LEMMA ReadPointerKeepsInv ==
  ASSUME ProcessorInv, NEW r \in Registries, ReadPointer(r)
  PROVE  ProcessorInv'
<1> DEFINE found == [Unseen EXCEPT !.ptr = pointer[r]]
<1>1. pointer[r] \in 0 .. MaxQueue
  BY ProcessorAssumption
     DEF ProcessorInv, ChainInv, Chain!TypeOK, Chain!PendingInTurn
<1>2. found \in [ptr: 0 .. MaxQueue, cert: Certs \cup {Nil},
                 op: Chain!CertificateStates]
  BY <1>1 DEF Unseen, Chain!None, Chain!CertificateStates
<1>3. /\ Goes(r, "length", found) /\ UNCHANGED <<chainVars, txVars>>
      /\ step'[r] = "length" /\ seen'[r] = found /\ pointer' = pointer
  BY DEF ReadPointer, Goes, ProcessorInv, TypeOK, chainVars
<1>4. MonitorInv(r)'
  BY <1>1, <1>3 DEF MonitorInv, Unseen
<1> QED
  BY <1>2, <1>3, <1>4, ReadingKeepsInv DEF Steps

LEMMA ReadLengthKeepsInv ==
  ASSUME ProcessorInv, NEW r \in Registries, ReadLength(r)
  PROVE  ProcessorInv'
<1>1. CASE Returns(r)
  BY <1>1, ReturningKeepsInv DEF ReadLength
<1>2. CASE ~Returns(r)
  <2>1. /\ Goes(r, "item", seen[r]) /\ UNCHANGED <<chainVars, txVars>>
        /\ step[r] = "length" /\ step'[r] = "item" /\ seen'[r] = seen[r]
        /\ pointer' = pointer /\ queue' = queue
        /\ ~(seen[r].ptr >= Len(queue[r]))
    BY <1>2 DEF ReadLength, Goes, ProcessorInv, TypeOK, chainVars
  <2>2. seen[r].ptr < Len(queue[r])
    BY <2>1, ProcessorAssumption
       DEF ProcessorInv, TypeOK, ChainInv, Chain!TypeOK
  <2>3. MonitorInv(r)'
    BY <2>1, <2>2 DEF MonitorInv, ProcessorInv
  <2> QED
    BY <2>1, <2>3, ReadingKeepsInv DEF Steps, ProcessorInv, TypeOK
<1> QED
  BY <1>1, <1>2

LEMMA ReadItemKeepsInv ==
  ASSUME ProcessorInv, NEW r \in Registries, ReadItem(r)
  PROVE  ProcessorInv'
<1> DEFINE h     == queue[r][seen[r].ptr + 1]
           found == [seen[r] EXCEPT !.cert = h]
<1>1. /\ seen[r].ptr \in Nat /\ seen[r].ptr <= pointer[r]
      /\ seen[r].ptr < Len(queue[r])
  BY ProcessorAssumption DEF ReadItem, ProcessorInv, MonitorInv, TypeOK
<1>2. h \in Certs
  <2>1. queue[r] \in Seq(Certs)
    BY DEF ProcessorInv, ChainInv, Chain!TypeOK
  <2>2. seen[r].ptr + 1 \in 1 .. Len(queue[r])
    BY <1>1, <2>1
  <2> QED BY <2>1, <2>2
<1>3. /\ found \in [ptr: 0 .. MaxQueue, cert: Certs \cup {Nil},
                    op: Chain!CertificateStates]
      /\ found.ptr = seen[r].ptr /\ found.cert = h
  BY <1>2 DEF ProcessorInv, TypeOK
<1>4. /\ Goes(r, "data", found) /\ UNCHANGED <<chainVars, txVars>>
      /\ step'[r] = "data" /\ seen'[r] = found
      /\ pointer' = pointer /\ queue' = queue
  BY DEF ReadItem, Goes, ProcessorInv, TypeOK, chainVars
<1> HIDE DEF found
<1>5. MonitorInv(r)'
  <2>1. Len(queue[r]) \in Nat
    BY DEF ProcessorInv, ChainInv, Chain!TypeOK
  <2> QED BY <1>1, <1>3, <1>4, <2>1 DEF MonitorInv, ItemRead
<1> QED
  BY <1>3, <1>4, <1>5, ReadingKeepsInv DEF Steps

LEMMA ReadDataKeepsInv ==
  ASSUME ProcessorInv, NEW r \in Registries, ReadData(r)
  PROVE  ProcessorInv'
<1> DEFINE h     == seen[r].cert
           found == [seen[r] EXCEPT !.op = state[r][h]]
<1>1. /\ seen[r].ptr <= pointer[r] /\ seen[r].ptr < Len(queue[r])
      /\ ItemRead(r, seen[r].ptr, h)
  BY DEF ReadData, ProcessorInv, MonitorInv
<1>2. h \in Certs
  BY <1>1, HeadIsQueued DEF ProcessorInv
<1>3. state[r][h] \in Chain!CertificateStates
  BY <1>2 DEF ProcessorInv, ChainInv, Chain!TypeOK
<1>4. /\ found \in [ptr: 0 .. MaxQueue, cert: Certs \cup {Nil},
                    op: Chain!CertificateStates]
      /\ found.ptr = seen[r].ptr /\ found.cert = h /\ found.op = state[r][h]
  BY <1>3 DEF ProcessorInv, TypeOK
<1>5. /\ Goes(r, "turn", found) /\ UNCHANGED <<chainVars, txVars>>
      /\ step'[r] = "turn" /\ seen'[r] = found
      /\ pointer' = pointer /\ queue' = queue /\ state' = state
  BY DEF ReadData, Goes, ProcessorInv, TypeOK, chainVars
<1> HIDE DEF found
<1>6. MonitorInv(r)'
  BY <1>1, <1>3, <1>4, <1>5
     DEF MonitorInv, ItemRead, StateRead, Chain!CertificateStates
<1> QED
  BY <1>4, <1>5, <1>6, ReadingKeepsInv DEF Steps

LEMMA ReadTurnKeepsInv ==
  ASSUME ProcessorInv, NEW r \in Registries, ReadTurn(r)
  PROVE  ProcessorInv'
<1>1. CASE Returns(r)
  BY <1>1, ReturningKeepsInv DEF ReadTurn
<1>2. CASE ~Returns(r)
  <2>1. /\ Goes(r, "proof", seen[r]) /\ UNCHANGED <<chainVars, txVars>>
        /\ step[r] = "turn" /\ step'[r] = "proof" /\ seen'[r] = seen[r]
        /\ Chain!InTurn(r, seen[r].cert) /\ seen[r].op \in Chain!Queued
    BY <1>2 DEF ReadTurn, Goes, ProcessorInv, TypeOK
  <2>2. MonitorInv(r)'
    BY <2>1 DEF MonitorInv, ProcessorInv, chainVars, ItemRead, StateRead,
                TurnRead, Chain!InTurn
  <2> QED
    BY <2>1, <2>2, ReadingKeepsInv DEF Steps, ProcessorInv, TypeOK
<1> QED
  BY <1>1, <1>2

\* The call is put together from what was read.
LEMMA GotProofKeepsInv ==
  ASSUME ProcessorInv, NEW r \in Registries, step[r] = "proof",
         NEW i \in Leaves, GotProof(r, i)
  PROVE  ProcessorInv'
<1>1. CASE ~hasKey
  BY <1>1, ReturningKeepsInv DEF GotProof
<1>2. CASE hasKey
  <2> DEFINE c == [reg |-> r, cert |-> seen[r].cert, index |-> i,
                   path |-> Chain!Siblings(served[r], i),
                   at |-> seen[r].ptr, op |-> seen[r].op]
  <2>1. Built(r, seen[r].ptr, seen[r].cert, seen[r].op)
    BY DEF ProcessorInv, MonitorInv, Built
  <2>2. c \in Calls
    <3>1. seen[r].cert \in Certs
      BY <2>1, HeadIsQueued DEF ProcessorInv, Built
    <3>2. seen[r].op \in Chain!Queued /\ seen[r].ptr \in 0 .. MaxQueue
      BY <2>1 DEF Built, TurnRead, ProcessorInv, TypeOK
    <3>3. Chain!Siblings(served[r], i) \in Chain!Trees
      BY DEF ProcessorInv, TypeOK, Chain!Siblings, Chain!Trees
    <3> QED BY <3>1, <3>2, <3>3 DEF Calls
  <2>3. /\ c.reg = r /\ c.at = seen[r].ptr /\ c.cert = seen[r].cert
        /\ c.op = seen[r].op
    OBVIOUS
  <2>4. Tx!Submit(r, c) /\ Returns(r) /\ UNCHANGED chainVars
    BY <1>2 DEF GotProof
  <2> HIDE DEF c
  <2>5. Tx!TypeOK'
    BY <2>2, <2>4, TxTypes DEF ProcessorInv, TypeOK
  <2>6. /\ TypeOK'
        /\ step' = [step EXCEPT ![r] = "tick"]
        /\ \A q \in Registries \ {r} : step'[q] = step[q] /\ seen'[q] = seen[q]
        /\ step'[r] = "tick"
    BY <2>4, <2>5, ProcessorAssumption
       DEF ProcessorInv, TypeOK, ChainInv, Chain!TypeOK, chainVars, Returns,
           Goes, Steps, Unseen, Chain!None, Chain!CertificateStates
  <2>7. ChainInv'
    BY <2>4, <2>6 DEF ProcessorInv, ChainInv, chainVars, TypeOK,
       Chain!PendingInTurn, Chain!QueuedIsPending, Chain!Pending
  <2>8. ASSUME NEW q \in Registries PROVE MonitorInv(q)'
    BY <2>4, <2>6 DEF ProcessorInv, MonitorInv, chainVars, ItemRead, StateRead,
                      TurnRead, Chain!InTurn
  <2>9. Outstanding' \subseteq Outstanding \cup {c}
    BY <2>4 DEF Outstanding, Tx!Submit, ProcessorInv, TypeOK, Tx!TypeOK
  <2>10. CallsFit'
    <3>1. \A d \in Outstanding \cup {c} : Built(d.reg, d.at, d.cert, d.op)
      BY <2>1, <2>3 DEF ProcessorInv, CallsFit
    <3> QED
      BY <2>4, <2>9, <3>1
         DEF CallsFit, chainVars, Built, ItemRead, StateRead, TurnRead,
             Chain!InTurn
  <2> QED
    BY <2>6, <2>7, <2>8, <2>10 DEF ProcessorInv
<1> QED
  BY <1>1, <1>2

-----------------------------------------------------------------------------
(* All steps.                                                              *)

\* What moves the contracts is a step of theirs.
LEMMA ChainMoves ==
  ASSUME ProcessorInv
  PROVE  /\ \A r \in Registries, h \in Certs : GuardianAdds(r, h) => Chain!Next
         /\ MinedAndExecuted => Chain!Next
<1>1. \A r \in Registries, h \in Certs : GuardianAdds(r, h) => Chain!Next
  BY DEF GuardianAdds, Chain!Next
<1>2. ASSUME MinedAndExecuted PROVE Chain!Next
  <2> DEFINE c == pool[0]
  <2>1. /\ 0 \in DOMAIN pool
        /\ Chain!ProcessNextOperation(c.reg, c.cert, c.index, c.path)
    BY <1>2 DEF MinedAndExecuted, Tx!Confirm
  <2>2. c \in Calls
    BY <2>1 DEF ProcessorInv, TypeOK, Tx!TypeOK
  <2>3. c.reg \in Registries /\ c.cert \in Certs /\ c.index \in Leaves
    BY <2>2 DEF Calls
  <2>4. c.path = Chain!Siblings(tree[c.reg], c.index)
    BY <2>1 DEF Chain!ProcessNextOperation, Chain!Accepts, Chain!Verifies
  <2> QED BY <2>1, <2>3, <2>4 DEF Chain!Next
<1> QED
  BY <1>1, <1>2

LEMMA MonitorStepKeepsInv ==
  ASSUME ProcessorInv, NEW r \in Registries, MonitorStep(r)
  PROVE  ProcessorInv'
<1>1. CASE NoProof(r)
  BY <1>1, ReturningKeepsInv DEF NoProof
<1>2. CASE ProcessIssuance(r) \/ ProcessRevocation(r)
  BY <1>2, GotProofKeepsInv
     DEF ProcessIssuance, ProcessRevocation, Candidates
<1> QED
  BY <1>1, <1>2, ReadPointerKeepsInv, ReadLengthKeepsInv, ReadItemKeepsInv,
     ReadDataKeepsInv, ReadTurnKeepsInv DEF MonitorStep

LEMMA NextKeepsProcessorInv == ProcessorInv /\ [Next]_vars => ProcessorInv'
<1> SUFFICES ASSUME ProcessorInv, [Next]_vars PROVE ProcessorInv'
  OBVIOUS
<1>t. TypeOK /\ Tx!TypeOK
  BY DEF ProcessorInv, TypeOK
<1>1. ASSUME NEW r \in Registries, MonitorStep(r) PROVE ProcessorInv'
  BY <1>1, MonitorStepKeepsInv
<1>2. ASSUME NEW r \in Registries, SubmitStep(r) \/ SubmitMishap(r)
      PROVE  ProcessorInv'
  <2>1. /\ Tx!WorkerStep(r) \/ Tx!WorkerMishap(r)
        /\ UNCHANGED <<chainVars, monitorVars>>
    BY <1>2 DEF SubmitStep, SubmitMishap
  <2>2. Outstanding' \subseteq Outstanding
    BY <1>t, <2>1, NothingNewIsSubmitted
  <2>3. TypeOK'
    BY <1>t, <2>1, TxTypes
       DEF TypeOK, Chain!TypeOK, chainVars, monitorVars
  <2> QED
    BY <2>1, <2>2, <2>3, OtherStepKeepsInv DEF monitorVars
<1>3. ASSUME NEW r \in Registries, ServiceSyncs(r) PROVE ProcessorInv'
  <2>1. UNCHANGED <<chainVars, txVars, hasKey, step, seen>>
    BY <1>3 DEF ServiceSyncs
  <2>2. Outstanding' \subseteq Outstanding
    BY <1>t, <2>1, NothingNewIsSubmitted
  <2>3. TypeOK'
    BY <1>t, <1>3, <2>1, TxTypes
       DEF TypeOK, Chain!TypeOK, chainVars, ServiceSyncs
  <2> QED
    BY <2>1, <2>2, <2>3, OtherStepKeepsInv
<1>4. ASSUME NEW r \in Registries, NEW h \in Certs, GuardianAdds(r, h)
      PROVE  ProcessorInv'
  <2>1. Chain!Next /\ UNCHANGED txVars /\ UNCHANGED monitorVars
    BY <1>4, ChainMoves DEF GuardianAdds
  <2>2. Outstanding' \subseteq Outstanding /\ Tx!TypeOK'
    BY <1>t, <2>1, NothingNewIsSubmitted, TxTypes
  <2> QED BY <2>1, <2>2, ContractStepKeepsInv
<1>5. CASE MinedAndExecuted
  <2>1. Chain!Next /\ Tx!Confirm /\ UNCHANGED monitorVars
    BY <1>5, ChainMoves DEF MinedAndExecuted
  <2>2. Outstanding' \subseteq Outstanding /\ Tx!TypeOK'
    BY <1>t, <2>1, NothingNewIsSubmitted, TxTypes
  <2> QED BY <2>1, <2>2, ContractStepKeepsInv
<1>6. ASSUME \/ MinedAndReverted
             \/ \E n \in DOMAIN pool : NodeDrops(n)
             \/ UNCHANGED vars
      PROVE  ProcessorInv'
  <2>1. UNCHANGED <<chainVars, monitorVars>>
    BY <1>6 DEF MinedAndReverted, NodeDrops, vars
  <2>2. Outstanding' \subseteq Outstanding /\ Tx!TypeOK'
    BY <1>6, <1>t, NothingNewIsSubmitted, TxTypes DEF MinedAndReverted, vars
  <2>3. TypeOK'
    BY <1>t, <2>1, <2>2 DEF TypeOK, Chain!TypeOK, chainVars, monitorVars
  <2> QED
    BY <2>1, <2>2, <2>3, OtherStepKeepsInv DEF monitorVars
<1>7. CASE Restart
  <2>1. Outstanding' \subseteq Outstanding /\ Tx!TypeOK'
    BY <1>7, <1>t, NothingNewIsSubmitted, TxTypes DEF Restart
  <2>2. TypeOK'
    BY <1>7, <1>t, <2>1, ProcessorAssumption
       DEF Restart, TypeOK, Chain!TypeOK, chainVars, Steps, Unseen,
           Chain!None, Chain!CertificateStates
  <2> QED
    BY <1>7, <2>1, <2>2, OtherStepKeepsInv DEF Restart
<1>8. ASSUME NEW r \in Registries, CallFails(r) PROVE ProcessorInv'
  BY <1>8, ReturningKeepsInv DEF CallFails
<1> QED
  BY <1>1, <1>2, <1>3, <1>4, <1>5, <1>6, <1>7, <1>8 DEF Next, Regular, Mishap

LEMMA InitProcessorInv == Init => ProcessorInv
<1> SUFFICES ASSUME Init PROVE ProcessorInv
  OBVIOUS
<1>1. Chain!TypeOK
  BY DEF Init, Chain!Init, Chain!TypeOK, Chain!CertificateStates, Chain!None,
         Chain!Trees
<1>2. Tx!TypeOK
  BY ProcessorAssumption DEF Init, Tx!Init, Tx!TypeOK, Tx!Stages
<1>3. TypeOK
  BY <1>1, <1>2, ProcessorAssumption
     DEF Init, TypeOK, Chain!TypeOK, Steps, Unseen, Chain!None,
         Chain!CertificateStates
<1>4. ChainInv
  BY <1>1, ProcessorAssumption
     DEF Init, Chain!Init, ChainInv, Chain!PendingInTurn,
         Chain!QueuedIsPending, Chain!Pending, Chain!Queued, Chain!None,
         Chain!IssuanceQueued, Chain!RevocationQueued
<1>5. \A r \in Registries : MonitorInv(r)
  BY DEF Init, MonitorInv
<1>6. CallsFit
  BY DEF Init, Tx!Init, CallsFit, Outstanding
<1> QED
  BY <1>3, <1>4, <1>5, <1>6 DEF ProcessorInv

LEMMA ProcessorInvariant == Spec => []ProcessorInv
  BY InitProcessorInv, NextKeepsProcessorInv, PTL DEF Spec

(***************************************************************************)
(* Type correctness of the composition: what is read and submitted is      *)
(* always an operation of the registry it was read from.                   *)
(***************************************************************************)
THEOREM TypeCorrect == Spec => []TypeOK
  BY ProcessorInvariant, PTL DEF ProcessorInv

(***************************************************************************)
(* processQueueItems' separate reads make a call that belongs together: as *)
(* long as the pointer stands where it was read and the proof verifies,    *)
(* the contract accepts it.                                                *)
(***************************************************************************)
THEOREM CallsAreBuiltForTheHead == Spec => []BuiltForTheHead
<1>1. ProcessorInv => BuiltForTheHead
  <2> SUFFICES ASSUME ProcessorInv, NEW c \in Outstanding,
                      pointer[c.reg] = c.at,
                      Chain!Verifies(c.reg, Proven(c), c.index, c.path)
               PROVE  CallAccepted(c)
    BY DEF BuiltForTheHead
  <2>1. Built(c.reg, c.at, c.cert, c.op)
    BY DEF ProcessorInv, CallsFit
  <2>2. /\ state[c.reg][c.cert] = c.op /\ c.op \in Chain!Queued
        /\ Chain!InTurn(c.reg, c.cert)
    BY <2>1 DEF Built, StateRead, TurnRead
  <2> QED
    BY <2>2 DEF CallAccepted, Chain!Accepts, Chain!Queued, Proven,
                Chain!IssuanceQueued, Chain!RevocationQueued
<1> QED
  BY <1>1, ProcessorInvariant, PTL

(***************************************************************************)
(* No call runs ahead of the queue, however the contract moves between the *)
(* reads of the pointer, the entry, its state and its turn.                *)
(***************************************************************************)
THEOREM CallsAreForTheHeadOnly == Spec => []OnlyTheHead
<1>1. ProcessorInv => OnlyTheHead
  BY DEF ProcessorInv, CallsFit, Built, TurnRead, OnlyTheHead
<1> QED
  BY <1>1, ProcessorInvariant, PTL

(***************************************************************************)
(* The processor and its node use the contracts only as these allow: the   *)
(* composition implements CertificateRegistry, and with it the queue of    *)
(* operations that guardians are promised.                                 *)
(***************************************************************************)
THEOREM UsesTheContracts == Spec => Chain!Spec
<1>1. Init => Chain!Init
  BY DEF Init
<1>2. ProcessorInv /\ [Next]_vars => [Chain!Next]_Chain!chainVars
  <2> SUFFICES ASSUME ProcessorInv, Next
               PROVE  Chain!Next \/ UNCHANGED chainVars
    BY DEF vars, chainVars, Chain!chainVars
  <2>1. ASSUME NEW r \in Registries, MonitorStep(r) PROVE UNCHANGED chainVars
    BY <2>1 DEF MonitorStep, ReadPointer, ReadLength, ReadItem, ReadData,
                ReadTurn, ProcessIssuance, ProcessRevocation, GotProof, NoProof
  <2> QED
    BY <2>1, ChainMoves
       DEF Next, Regular, Mishap, SubmitStep, SubmitMishap, ServiceSyncs,
           MinedAndReverted, CallFails, NodeDrops, Restart
<1> QED
  BY <1>1, <1>2, ProcessorInvariant, PTL DEF Spec, Chain!Spec

-----------------------------------------------------------------------------
(* How long registry.Mu is held.                                           *)

\* submitWithRetry is called synchronously: no reads go on meanwhile.
Alternates == \A r \in Registries : stage[r] # "idle" => step[r] = "tick"

\* What each step does to where the goroutines are.
LEMMA MonitorMoves ==
  ASSUME TypeOK, NEW r \in Registries,
         MonitorStep(r) \/ CallFails(r)
  PROVE  /\ \A q \in Registries \ {r} :
              UNCHANGED <<step[q], stage[q], attempt[q]>>
         /\ UNCHANGED attempt
         /\ \/ /\ stage'[r] = stage[r]
               /\ \/ step'[r] = "tick"
                  \/ step[r] = "tick" /\ step'[r] = "length" /\ stage[r] = "idle"
                  \/ step[r] = "length" /\ step'[r] = "item"
                  \/ step[r] = "item" /\ step'[r] = "data"
                  \/ step[r] = "data" /\ step'[r] = "turn"
                  \/ step[r] = "turn" /\ step'[r] = "proof"
            \/ /\ step[r] = "proof" /\ step'[r] = "tick"
               /\ stage[r] = "idle" /\ stage'[r] = "prepare"
<1> USE DEF TypeOK, Tx!TypeOK, Goes, Returns
<1>1. CASE ReadPointer(r)
  BY <1>1 DEF ReadPointer, txVars
<1>2. CASE ReadLength(r)
  BY <1>2 DEF ReadLength, txVars
<1>3. CASE ReadItem(r)
  BY <1>3 DEF ReadItem, txVars
<1>4. CASE ReadData(r)
  BY <1>4 DEF ReadData, txVars
<1>5. CASE ReadTurn(r)
  BY <1>5 DEF ReadTurn, txVars
<1>6. CASE NoProof(r) \/ CallFails(r)
  BY <1>6 DEF NoProof, CallFails, txVars
<1>7. ASSUME NEW i \in Leaves, step[r] = "proof", GotProof(r, i)
      PROVE  /\ \A q \in Registries \ {r} :
                  UNCHANGED <<step[q], stage[q], attempt[q]>>
             /\ UNCHANGED attempt
             /\ step'[r] = "tick"
             /\ \/ stage'[r] = stage[r]
                \/ stage[r] = "idle" /\ stage'[r] = "prepare"
  BY <1>7 DEF GotProof, Tx!Submit, txVars
<1> QED
  BY <1>1, <1>2, <1>3, <1>4, <1>5, <1>6, <1>7
     DEF MonitorStep, ProcessIssuance, ProcessRevocation, Candidates

LEMMA SubmissionMoves ==
  ASSUME TypeOK, NEW r \in Registries, SubmitStep(r) \/ SubmitMishap(r)
  PROVE  /\ UNCHANGED step
         /\ \A q \in Registries \ {r} : UNCHANGED <<stage[q], attempt[q]>>
         /\ stage[r] # "idle"
         /\ \/ stage'[r] = "idle"
            \/ /\ stage[r] = "prepare" /\ stage'[r] \in {"submit", "failed"}
               /\ attempt'[r] = attempt[r]
            \/ /\ stage[r] = "submit" /\ stage'[r] = "failed"
               /\ attempt'[r] = attempt[r]
            \/ /\ stage[r] = "failed" /\ stage'[r] = "prepare"
               /\ attempt'[r] = attempt[r] + 1
               /\ attempt'[r] < MaxRetries
<1>1. UNCHANGED step
  BY DEF SubmitStep, SubmitMishap, monitorVars
<1> USE DEF TypeOK, Tx!TypeOK
<1>2. CASE Tx!PrepareFromNode(r) \/ Tx!PrepareFromCache(r)
  BY <1>1, <1>2 DEF Tx!PrepareFromNode, Tx!PrepareFromCache, Tx!TakeNonce
<1>3. CASE Tx!SendSucceeds(r)
  BY <1>1, <1>3 DEF Tx!SendSucceeds, Tx!Admissible, Tx!Return
<1>4. CASE Tx!PrepareFails(r)
  BY <1>1, <1>4 DEF Tx!PrepareFails, Tx!Fail
<1>5. CASE Tx!Refused(r) \/ Tx!SendReplyLost(r) \/ Tx!SendFails(r)
  BY <1>1, <1>5
     DEF Tx!Refused, Tx!SendReplyLost, Tx!SendFails, Tx!Admissible, Tx!Fail
<1>6. CASE Tx!Retry(r)
  BY <1>1, <1>6, ProcessorAssumption DEF Tx!Retry
<1>7. CASE Tx!GiveUp(r)
  BY <1>1, <1>7 DEF Tx!GiveUp, Tx!Return
<1> QED
  BY <1>2, <1>3, <1>4, <1>5, <1>6, <1>7
     DEF SubmitStep, SubmitMishap, Tx!WorkerStep, Tx!WorkerMishap

LEMMA WorldMoves ==
  ASSUME \/ \E r \in Registries : ServiceSyncs(r)
         \/ \E r \in Registries, h \in Certs : GuardianAdds(r, h)
         \/ MinedAndExecuted
         \/ MinedAndReverted
         \/ \E n \in DOMAIN pool : NodeDrops(n)
         \/ UNCHANGED vars
  PROVE  UNCHANGED <<step, stage, attempt>>
  BY DEF ServiceSyncs, GuardianAdds, MinedAndExecuted, MinedAndReverted,
         NodeDrops, Tx!Confirm, vars, txVars, monitorVars

LEMMA RestartMoves ==
  Restart => \A r \in Registries : step'[r] = "tick" /\ stage'[r] = "idle"
  BY DEF Restart, Tx!Crash

LEMMA NextAlternates == TypeOK /\ Alternates /\ [Next]_vars => Alternates'
<1> SUFFICES ASSUME TypeOK, Alternates, [Next]_vars, NEW q \in Registries
             PROVE  (stage[q] # "idle" => step[q] = "tick")'
  BY DEF Alternates
<1>1. ASSUME NEW r \in Registries, MonitorStep(r) \/ CallFails(r)
      PROVE  (stage[q] # "idle" => step[q] = "tick")'
  BY <1>1, MonitorMoves DEF Alternates
<1>2. ASSUME NEW r \in Registries, SubmitStep(r) \/ SubmitMishap(r)
      PROVE  (stage[q] # "idle" => step[q] = "tick")'
  BY <1>2, SubmissionMoves DEF Alternates
<1> QED
  BY <1>1, <1>2, WorldMoves, RestartMoves
     DEF Alternates, Next, Regular, Mishap

\* A goroutine that stays where it is, or comes closer to the release.
Approaches(r) ==
  \/ UNCHANGED <<step[r], stage[r], attempt[r]>>
  \/ StepsLeft(r)' \in 0 .. StepsLeft(r) - 1

LEMMA StepsLeftWhileHeld ==
  ASSUME TypeOK, NEW r \in Registries, HoldsMu(r)
  PROVE  /\ StepsLeft(r) \in Nat \ {0}
         /\ attempt[r] \in Nat /\ MaxRetries \in Nat
<1>1. /\ attempt[r] \in Nat /\ MaxRetries \in Nat
      /\ attempt[r] < MaxRetries
      /\ stage[r] \in {"idle", "prepare", "submit", "failed"}
  BY ProcessorAssumption DEF TypeOK, Tx!TypeOK, Tx!Stages
<1> QED
  BY <1>1 DEF StepsLeft, HoldsMu

LEMMA ReleaseApproaches ==
  ASSUME TypeOK, NEW r \in Registries, HoldsMu(r),
         step'[r] = "tick", stage'[r] = "idle"
  PROVE  Approaches(r)
<1>1. StepsLeft(r)' = 0
  BY DEF StepsLeft
<1> QED
  BY <1>1, StepsLeftWhileHeld DEF Approaches

LEMMA MonitorApproaches ==
  ASSUME TypeOK, Alternates, NEW r \in Registries, HoldsMu(r),
         MonitorStep(r) \/ CallFails(r)
  PROVE  Approaches(r)
<1>1. attempt'[r] = attempt[r] /\ attempt[r] \in Nat /\ MaxRetries \in Nat
      /\ attempt[r] < MaxRetries
  BY MonitorMoves, StepsLeftWhileHeld, ProcessorAssumption
     DEF TypeOK, Tx!TypeOK
<1>2. CASE step'[r] = "tick" /\ stage'[r] = "idle"
  BY <1>2, ReleaseApproaches
<1>3. CASE step'[r] = step[r] /\ stage'[r] = stage[r]
  BY <1>1, <1>3 DEF Approaches
<1>4. CASE /\ step[r] = "proof" /\ step'[r] = "tick"
           /\ stage[r] = "idle" /\ stage'[r] = "prepare"
  BY <1>1, <1>4 DEF Approaches, StepsLeft
<1>5. CASE /\ stage[r] = "idle" /\ stage'[r] = "idle"
           /\ \/ step[r] = "item" /\ step'[r] = "data"
              \/ step[r] = "data" /\ step'[r] = "turn"
              \/ step[r] = "turn" /\ step'[r] = "proof"
  BY <1>1, <1>5 DEF Approaches, StepsLeft
<1>6. /\ step[r] \in {"tick", "item", "data", "turn", "proof"}
      /\ step[r] # "tick" <=> stage[r] = "idle"
  BY DEF Alternates, HoldsMu
<1> QED
  BY <1>2, <1>3, <1>4, <1>5, <1>6, MonitorMoves

LEMMA SubmissionApproaches ==
  ASSUME TypeOK, Alternates, NEW r \in Registries, HoldsMu(r),
         SubmitStep(r) \/ SubmitMishap(r)
  PROVE  Approaches(r)
<1>1. step[r] = "tick" /\ step'[r] = "tick"
  BY SubmissionMoves DEF Alternates
<1>2. attempt[r] \in Nat /\ MaxRetries \in Nat /\ attempt[r] < MaxRetries
  BY ProcessorAssumption DEF TypeOK, Tx!TypeOK
<1>3. CASE stage'[r] = "idle"
  BY <1>1, <1>3, ReleaseApproaches
<1>4. CASE /\ stage[r] = "prepare" /\ stage'[r] \in {"submit", "failed"}
           /\ attempt'[r] = attempt[r]
  BY <1>1, <1>2, <1>4 DEF Approaches, StepsLeft
<1>5. CASE /\ stage[r] = "submit" /\ stage'[r] = "failed"
           /\ attempt'[r] = attempt[r]
  BY <1>1, <1>2, <1>5 DEF Approaches, StepsLeft
<1>6. CASE /\ stage[r] = "failed" /\ stage'[r] = "prepare"
           /\ attempt'[r] = attempt[r] + 1 /\ attempt'[r] < MaxRetries
  BY <1>1, <1>2, <1>6 DEF Approaches, StepsLeft
<1> QED
  BY <1>3, <1>4, <1>5, <1>6, SubmissionMoves

LEMMA NextApproaches ==
  ASSUME TypeOK, Alternates, [Next]_vars, NEW q \in Registries, HoldsMu(q)
  PROVE  Approaches(q)
<1>1. ASSUME NEW r \in Registries, MonitorStep(r) \/ CallFails(r)
      PROVE  Approaches(q)
  <2>1. CASE r = q
    BY <1>1, <2>1, MonitorApproaches
  <2>2. CASE r # q
    BY <1>1, <2>2, MonitorMoves DEF Approaches
  <2> QED
    BY <2>1, <2>2
<1>2. ASSUME NEW r \in Registries, SubmitStep(r) \/ SubmitMishap(r)
      PROVE  Approaches(q)
  <2>1. CASE r = q
    BY <1>2, <2>1, SubmissionApproaches
  <2>2. CASE r # q
    BY <1>2, <2>2, SubmissionMoves DEF Approaches
  <2> QED
    BY <2>1, <2>2
<1>3. CASE UNCHANGED <<step, stage, attempt>>
  BY <1>3 DEF Approaches
<1>4. CASE Restart
  BY <1>4, RestartMoves, ReleaseApproaches
<1> QED
  BY <1>1, <1>2, <1>3, <1>4, WorldMoves DEF Next, Regular, Mishap

(***************************************************************************)
(* registry.Mu is held for a bounded number of steps, for any number of    *)
(* registries and retries: each step of its holder leads towards the       *)
(* release and no other step leads it back.  With calls that return, which *)
(* is what fairness adds, the mutex is therefore released.                 *)
(***************************************************************************)
THEOREM HoldingIsBounded == Spec => HoldIsBounded
<1>1. Init => Alternates
  BY DEF Init, Alternates
<1>2. TypeOK /\ Alternates /\ [Next]_vars => Alternates'
  BY NextAlternates
<1>3. TypeOK /\ Alternates /\ [Next]_vars
        => [\A r \in Registries : HoldsMu(r) =>
              \/ UNCHANGED <<step[r], stage[r], attempt[r]>>
              \/ StepsLeft(r)' \in 0 .. StepsLeft(r) - 1]_vars
  BY NextApproaches DEF Approaches
<1> QED
  BY <1>1, <1>2, <1>3, TypeCorrect, PTL DEF Spec, HoldIsBounded

=============================================================================
