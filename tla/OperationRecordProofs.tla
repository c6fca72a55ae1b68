------------------------ MODULE OperationRecordProofs ------------------------
(***************************************************************************)
(* Proofs about OperationRecord, for any finite number of registries, any  *)
(* retry limit and any pool limit: it implements TxSubmission and so has   *)
(* its invariants, a registry alone on the account always sends under the  *)
(* next free nonce, and the records are true of what the node took.        *)
(***************************************************************************)
EXTENDS OperationRecord, TxSubmissionProofs, FiniteSetTheorems

-----------------------------------------------------------------------------
(* Every step is one of TxSubmission, or leaves its variables alone.       *)

LEMMA WorksIsTxStep ==
  ASSUME RecordTypeOK, NEW w \in Workers, Works(w)
  PROVE  [Next]_txVars
<1>1. CASE ProofFails(w) \/ Skips(w) \/ Succeeds(w) \/ GivesUp(w)
  BY <1>1 DEF ProofFails, Skips, Succeeds, GivesUp, Concludes
<1>2. CASE StartsTransaction(w)
  <2>1. builder[w] \in OperationEvents
    BY <1>2 DEF StartsTransaction, AwaitsProof, RecordTypeOK
  <2>2. builder[w].operation \in Payloads
    BY <2>1 DEF OperationEvents
  <2> QED BY <1>2, <2>2 DEF StartsTransaction, Next
<1>3. CASE TakesNonce(w) \/ FailsOrRetries(w)
  BY <1>3 DEF TakesNonce, FailsOrRetries, Next, WorkerStep, WorkerMishap
<1>4. CASE LosesReply(w) \/ ReturnsResult(w) \/ ReturnsError(w)
  BY <1>4
     DEF LosesReply, ReturnsResult, ReturnsError, Next, WorkerStep, WorkerMishap
<1> QED
  BY <1>1, <1>2, <1>3, <1>4 DEF Works

LEMMA RecordStepIsTxStep ==
  RecordTypeOK /\ [RecordNext]_recordVars => [Next]_txVars
<1> SUFFICES ASSUME RecordTypeOK, [RecordNext]_recordVars
             PROVE  [Next]_txVars
  OBVIOUS
<1>1. CASE \E w \in Workers, p \in Payloads : Begin(w, p)
  BY <1>1 DEF Begin
<1>2. CASE \E w \in Workers : Works(w)
  BY <1>2, WorksIsTxStep
<1>3. CASE Confirms \/ Dies
  BY <1>3 DEF Confirms, Dies, Next
<1>4. CASE UNCHANGED recordVars
  BY <1>4 DEF recordVars, txVars
<1> QED
  BY <1>1, <1>2, <1>3, <1>4 DEF RecordNext

-----------------------------------------------------------------------------
(* Type correctness.                                                       *)

\* What this module adds to TxSubmission's type invariant.
EventTypes ==
  /\ active \subseteq Workers
  /\ hasKey \in BOOLEAN
  /\ builder   \in [Workers -> OperationEvents \cup {Nil}]
  /\ lastNonce \in [Workers -> Offsets]
  /\ result    \in [Workers -> TransactionContexts \cup {Nil}]
  /\ taken     \in [Workers -> Nat]
  /\ executed  \in [Workers -> BOOLEAN]
  /\ line  \in [event: OperationEvents, outcome: Outcomes] \cup {Nil}
  /\ alert \in [event: OperationEvents, phase: ErrorPhases] \cup {Nil}

LEMMA NewEventType ==
  ASSUME NEW w \in Workers, NEW p \in Payloads
  PROVE  NewEvent(w, p) \in OperationEvents
  BY DEF NewEvent, OperationEvents

LEMMA WithMerkleProofType ==
  ASSUME NEW e \in OperationEvents
  PROVE  WithMerkleProof(e) \in OperationEvents
  BY DEF WithMerkleProof, OperationEvents

LEMMA WithTransactionType ==
  ASSUME NEW e \in OperationEvents, NEW t \in TransactionContexts
  PROVE  WithTransaction(e, t) \in OperationEvents
  BY DEF WithTransaction, OperationEvents

LEMMA WithErrorType ==
  ASSUME NEW e \in OperationEvents, NEW phase \in ErrorPhases
  PROVE  /\ WithError(e, phase) \in OperationEvents
         /\ WithError(e, phase).error = phase
  BY DEF WithError, OperationEvents

\* An event is emitted, with or without Sentry.
LEMMA EmitTypes ==
  ASSUME EventTypes, NEW w \in Workers, NEW e \in OperationEvents,
         \/ EmitSuccess(w, e)
         \/ EmitSkipped(w, e)
         \/ e.error \in ErrorPhases /\ EmitFailure(w, e),
         UNCHANGED <<configVars, lastNonce, historyVars>>,
         result' \in [Workers -> TransactionContexts \cup {Nil}]
  PROVE  EventTypes'
  BY DEF EventTypes, EmitSuccess, EmitSkipped, EmitFailure, Emit, Outcomes,
         SendToSentry, Tagged, configVars, historyVars

\* The events at hand when an operation ends.
LEMMA FinalEvents ==
  ASSUME RecordTypeOK, NEW w \in Workers, builder[w] # Nil
  PROVE  /\ builder[w] \in OperationEvents
         /\ \A phase \in ErrorPhases :
              /\ WithError(builder[w], phase) \in OperationEvents
              /\ WithError(builder[w], phase).error = phase
              /\ LET e == WithMerkleProof(builder[w]) IN
                   WithError(e, phase) \in OperationEvents
         /\ \A t \in TransactionContexts :
              LET e == WithTransaction(builder[w], t) IN
                /\ e \in OperationEvents
                /\ \A phase \in ErrorPhases :
                     /\ WithError(e, phase) \in OperationEvents
                     /\ WithError(e, phase).error = phase
<1>1. builder[w] \in OperationEvents
  BY DEF RecordTypeOK
<1>2. WithMerkleProof(builder[w]) \in OperationEvents
  BY <1>1, WithMerkleProofType
<1>3. \A t \in TransactionContexts :
        WithTransaction(builder[w], t) \in OperationEvents
  BY <1>1, WithTransactionType
<1> QED
  BY <1>1, <1>2, <1>3, WithErrorType

\* What submitWithRetry returns.
LEMMA ReturnedIsContext ==
  ASSUME RecordTypeOK, NEW w \in Workers
  PROVE  /\ [hash |-> call[w], nonce |-> nonce[w], attempts |-> attempt[w] + 1]
              \in TransactionContexts
         /\ [hash |-> Nil, nonce |-> lastNonce[w], attempts |-> MaxRetries]
              \in TransactionContexts
<1>1. /\ nonce[w] \in Offsets /\ lastNonce[w] \in Offsets
      /\ call[w] \in Payloads \cup {Nil}
      /\ attempt[w] + 1 \in Nat /\ MaxRetries \in Nat
  BY TxAssumption DEF RecordTypeOK, TypeOK, Offsets
<1> QED
  BY <1>1 DEF TransactionContexts

LEMMA InitRecordTypeOK == RecordInit => RecordTypeOK
<1>1. RecordInit => TypeOK
  BY InitTypeOK DEF RecordInit
<1> QED
  BY <1>1 DEF RecordInit, RecordTypeOK, Offsets

\* A worker has a builder while it is inside submitWithRetry and until what
\* that returned is recorded.
Building ==
  \A w \in Workers : stage[w] # "idle" \/ result[w] # Nil => builder[w] # Nil

LEMMA WorksEventTypes ==
  ASSUME RecordTypeOK, Building, NEW w \in Workers, Works(w)
  PROVE  EventTypes'
<1>0. EventTypes
  BY DEF EventTypes, RecordTypeOK
<1>1. CASE ProofFails(w)
  <2>1. WithError(builder[w], "merkle_proof") \in OperationEvents
        /\ WithError(builder[w], "merkle_proof").error \in ErrorPhases
    BY <1>1, FinalEvents DEF ProofFails, AwaitsProof, ErrorPhases
  <2>2. result' \in [Workers -> TransactionContexts \cup {Nil}]
    BY <1>1 DEF ProofFails, RecordTypeOK
  <2> QED BY <1>0, <1>1, <2>1, <2>2, EmitTypes DEF ProofFails
<1>2. CASE Skips(w)
  <2>1. WithError(WithMerkleProof(builder[w]), "config") \in OperationEvents
    BY <1>2, FinalEvents DEF Skips, AwaitsProof, ErrorPhases
  <2>2. result' \in [Workers -> TransactionContexts \cup {Nil}]
    BY <1>2 DEF Skips, RecordTypeOK
  <2> QED BY <1>0, <1>2, <2>1, <2>2, EmitTypes DEF Skips
<1>3. CASE StartsTransaction(w)
  <2>1. WithMerkleProof(builder[w]) \in OperationEvents
    BY <1>3, FinalEvents, WithMerkleProofType DEF StartsTransaction, AwaitsProof
  <2> QED
    BY <1>0, <1>3, <2>1
       DEF StartsTransaction, EventTypes, Silent, configVars, historyVars
<1>4. CASE TakesNonce(w)
  <2>1. TypeOK'
    BY <1>4, WorkerTypeOK DEF TakesNonce, WorkerStep, RecordTypeOK
  <2>2. nonce'[w] \in Offsets
    BY <2>1 DEF TypeOK, Offsets
  <2> QED
    BY <1>0, <1>4, <2>2
       DEF TakesNonce, EventTypes, Silent, configVars, historyVars
<1>5. CASE FailsOrRetries(w) \/ LosesReply(w)
  BY <1>0, <1>5
     DEF FailsOrRetries, LosesReply, EventTypes, Silent, configVars, historyVars
<1>6. CASE ReturnsResult(w) \/ ReturnsError(w)
  <2>1. result' \in [Workers -> TransactionContexts \cup {Nil}]
    BY <1>0, <1>6, ReturnedIsContext DEF ReturnsResult, ReturnsError, EventTypes
  <2> QED
    BY <1>0, <1>6, <2>1
       DEF ReturnsResult, ReturnsError, EventTypes, Silent, configVars,
           historyVars
<1>7. CASE Succeeds(w) \/ GivesUp(w)
  <2> DEFINE e == WithTransaction(builder[w], result[w])
  <2>1. builder[w] # Nil /\ result[w] \in TransactionContexts
    BY <1>7 DEF Succeeds, GivesUp, Concludes, Building, RecordTypeOK
  <2>2. /\ e \in OperationEvents
        /\ WithError(e, "transaction") \in OperationEvents
        /\ WithError(e, "transaction").error \in ErrorPhases
    BY <2>1, FinalEvents DEF ErrorPhases
  <2>3. result' \in [Workers -> TransactionContexts \cup {Nil}]
    BY <1>7 DEF Succeeds, GivesUp, Concludes, RecordTypeOK
  <2> QED
    BY <1>0, <1>7, <2>2, <2>3, EmitTypes DEF Succeeds, GivesUp, Concludes
<1> QED
  BY <1>1, <1>2, <1>3, <1>4, <1>5, <1>6, <1>7 DEF Works

LEMMA OneLowerType ==
  ASSUME NEW n \in Offsets
  PROVE  /\ OneLower(n) \in Offsets
         /\ OneLower(n) = Nil <=> n = Nil
  BY TxAssumption DEF OneLower, Clamped, Offsets

LEMMA NextRecordTypeOK ==
  RecordTypeOK /\ Building /\ [RecordNext]_recordVars => RecordTypeOK'
<1> SUFFICES ASSUME RecordTypeOK, Building, [RecordNext]_recordVars
             PROVE  RecordTypeOK'
  OBVIOUS
<1>1. TypeOK'
  BY RecordStepIsTxStep, NextTypeOK DEF RecordTypeOK
<1>2. EventTypes'
  <2>1. CASE \E w \in Workers, p \in Payloads : Begin(w, p)
    BY <2>1, NewEventType
       DEF Begin, RecordTypeOK, EventTypes, Silent, configVars, Offsets
  <2>2. CASE \E w \in Workers : Works(w)
    BY <2>2, WorksEventTypes
  <2>3. CASE Confirms
    <3>1. \A n \in Offsets : OneLower(n) \in Offsets
      BY OneLowerType
    <3>2. \A t \in TransactionContexts :
            [t EXCEPT !.nonce = OneLower(@)] \in TransactionContexts
      BY <3>1 DEF TransactionContexts
    <3>3. \A w \in Workers : (executed[w] \/ ReturnedIsNext(w)) \in BOOLEAN
      OBVIOUS
    <3>4. /\ lastNonce' \in [Workers -> Offsets]
          /\ result' \in [Workers -> TransactionContexts \cup {Nil}]
          /\ executed' \in [Workers -> BOOLEAN]
      BY <2>3, <3>1, <3>2, <3>3 DEF Confirms, RecordTypeOK
    <3> QED
      BY <2>3, <3>4 DEF Confirms, RecordTypeOK, EventTypes, Silent, configVars
  <2>4. CASE Dies
    BY <2>4 DEF Dies, RecordTypeOK, EventTypes, Silent, configVars, Offsets
  <2>5. CASE UNCHANGED recordVars
    BY <2>5 DEF recordVars, RecordTypeOK, EventTypes, configVars, historyVars
  <2> QED
    BY <2>1, <2>2, <2>3, <2>4, <2>5 DEF RecordNext
<1> QED
  BY <1>1, <1>2 DEF RecordTypeOK, EventTypes

-----------------------------------------------------------------------------
(* What the builder and submitWithRetry's locals have to do with what the  *)
(* node took: no more than was attempted, and nothing before a nonce was   *)
(* obtained.                                                               *)

AttemptsCover(w) ==
  /\ stage[w] # "idle" => /\ builder[w] # Nil
                          /\ builder[w].operation = call[w]
                          /\ result[w] = Nil
  /\ builder[w] # Nil => /\ w \in active
                         /\ builder[w].registry = w
                         /\ builder[w].transaction = Nil
                         /\ lastNonce[w] = Nil => taken[w] = 0
                         /\ AwaitsProof(w) => taken[w] = 0
  /\ stage[w] \in {"prepare", "submit"} => taken[w] <= attempt[w]
  /\ stage[w] = "failed" => taken[w] <= attempt[w] + 1
  /\ stage[w] = "submit" => lastNonce[w] # Nil
  /\ result[w] # Nil => /\ builder[w] # Nil
                        /\ taken[w] <= result[w].attempts
                        /\ result[w].nonce = Nil => taken[w] = 0
                        /\ result[w].hash # Nil =>
                             /\ taken[w] > 0
                             /\ result[w].hash = builder[w].operation

\* The transaction that was returned does not get lost before it is
\* recorded, whatever is sent and executed meanwhile.
ResultStands(w) ==
  result[w] # Nil /\ result[w].hash # Nil =>
    /\ result[w].nonce = -1 \/ result[w].nonce \in DOMAIN pool
    /\ Stands(w, result[w]) \/ active # {w}

RecordInv == \A w \in Workers : AttemptsCover(w)
ResultInv == \A w \in Workers : ResultStands(w)

LEMMA RecordInvBuilds == RecordInv => Building
  BY DEF RecordInv, AttemptsCover, Building

\* A step of worker w leaves the others' part of the state alone.
LEMMA OthersUntouched ==
  ASSUME RecordTypeOK, NEW w \in Workers, Works(w), NEW v \in Workers, v # w
  PROVE  /\ stage'[v] = stage[v] /\ builder'[v] = builder[v]
         /\ call'[v] = call[v] /\ lastNonce'[v] = lastNonce[v]
         /\ taken'[v] = taken[v] /\ attempt'[v] = attempt[v]
         /\ result'[v] = result[v] /\ executed'[v] = executed[v]
         /\ active' = active
<1> USE DEF RecordTypeOK, TypeOK, configVars, historyVars, txVars
<1>1. CASE ProofFails(w) \/ Skips(w)
  BY <1>1 DEF ProofFails, Skips, EmitFailure, EmitSkipped, Emit
<1>2. CASE StartsTransaction(w)
  BY <1>2 DEF StartsTransaction, Submit
<1>3. CASE TakesNonce(w)
  BY <1>3 DEF TakesNonce, PrepareFromNode, PrepareFromCache, TakeNonce
<1>4. CASE FailsOrRetries(w)
  BY <1>4 DEF FailsOrRetries, PrepareFails, Refused, SendFails, Fail, Retry
<1>5. CASE LosesReply(w)
  BY <1>5 DEF LosesReply, SendReplyLost, Fail
<1>6. CASE ReturnsResult(w) \/ ReturnsError(w)
  BY <1>6 DEF ReturnsResult, ReturnsError, SendSucceeds, GiveUp, Return
<1>7. CASE Succeeds(w) \/ GivesUp(w)
  BY <1>7 DEF Succeeds, GivesUp, Concludes, EmitSuccess, EmitFailure, Emit
<1> QED
  BY <1>1, <1>2, <1>3, <1>4, <1>5, <1>6, <1>7 DEF Works

LEMMA OthersCovered ==
  ASSUME RecordTypeOK, RecordInv, NEW w \in Workers, Works(w),
         NEW v \in Workers, v # w
  PROVE  AttemptsCover(v)'
  BY OthersUntouched DEF RecordInv, AttemptsCover, AwaitsProof

LEMMA WorkerCovered ==
  ASSUME RecordTypeOK, RecordInv, NEW w \in Workers, Works(w)
  PROVE  AttemptsCover(w)'
<1>0. AttemptsCover(w)
  BY DEF RecordInv
<1>1. CASE ProofFails(w) \/ Skips(w)
  BY <1>0, <1>1
     DEF AttemptsCover, ProofFails, Skips, AwaitsProof, EmitFailure,
         EmitSkipped, Emit, txVars, configVars, historyVars, RecordTypeOK
<1>2. CASE StartsTransaction(w)
  <2>1. builder[w] \in OperationEvents
    BY <1>2 DEF StartsTransaction, AwaitsProof, RecordTypeOK
  <2>2. /\ builder'[w].operation = builder[w].operation
        /\ builder'[w].registry = builder[w].registry
        /\ builder'[w].transaction = builder[w].transaction
        /\ builder'[w] # Nil
    <3>1. builder'[w] = WithMerkleProof(builder[w])
      BY <1>2 DEF StartsTransaction, RecordTypeOK
    <3>2. WithMerkleProof(builder[w]) # Nil
      BY <2>1, WithMerkleProofType, RecordAssumption
    <3> QED
      BY <2>1, <3>1, <3>2 DEF WithMerkleProof, OperationEvents
  <2>3. /\ stage[w] = "idle" /\ stage'[w] = "prepare"
        /\ call'[w] = builder[w].operation
        /\ attempt' = attempt /\ attempt[w] \in Nat
    BY <1>2 DEF StartsTransaction, Submit, RecordTypeOK, TypeOK
  <2> QED
    BY <1>0, <1>2, <2>2, <2>3
       DEF AttemptsCover, StartsTransaction, AwaitsProof, configVars,
           historyVars
<1>3. CASE TakesNonce(w)
  BY <1>0, <1>3, TxAssumption
     DEF AttemptsCover, AwaitsProof, TakesNonce, PrepareFromNode,
         PrepareFromCache, TakeNonce, Clamped, configVars, historyVars,
         RecordTypeOK, TypeOK
<1>4. CASE FailsOrRetries(w)
  BY <1>0, <1>4
     DEF AttemptsCover, AwaitsProof, FailsOrRetries, PrepareFails, Refused,
         SendFails, Fail, Retry, configVars, historyVars, RecordTypeOK, TypeOK
<1>5. CASE LosesReply(w)
  BY <1>0, <1>5
     DEF AttemptsCover, AwaitsProof, LosesReply, SendReplyLost, Admissible,
         Fail, configVars, RecordTypeOK, TypeOK
<1>6. CASE ReturnsResult(w)
  <2>1. /\ stage[w] = "submit" /\ stage'[w] = "idle"
        /\ nonce[w] \in 0 .. PoolLimit - 1
        /\ taken'[w] = taken[w] + 1 /\ taken[w] \in Nat
        /\ UNCHANGED <<builder, active, lastNonce>>
    BY <1>6 DEF ReturnsResult, SendSucceeds, Admissible, Return, configVars,
                RecordTypeOK, TypeOK
  <2>2. result'[w] = [hash |-> call[w], nonce |-> nonce[w],
                      attempts |-> attempt[w] + 1]
    BY <1>6 DEF ReturnsResult, RecordTypeOK
  <2>3. result'[w] # Nil
    BY <1>6, <2>2, RecordAssumption, ReturnedIsContext
  <2> QED
    BY <1>0, <2>1, <2>2, <2>3, TxAssumption
       DEF AttemptsCover, AwaitsProof, RecordTypeOK, TypeOK
<1>7. CASE ReturnsError(w)
  <2>1. /\ stage[w] = "failed" /\ stage'[w] = "idle"
        /\ attempt[w] + 1 = MaxRetries
        /\ UNCHANGED <<builder, active, lastNonce, taken>>
    BY <1>7 DEF ReturnsError, GiveUp, Return, configVars, historyVars,
                RecordTypeOK, TypeOK
  <2>2. result'[w] = [hash |-> Nil, nonce |-> lastNonce[w],
                      attempts |-> MaxRetries]
    BY <1>7 DEF ReturnsError, RecordTypeOK
  <2>3. result'[w] # Nil
    BY <1>7, <2>2, RecordAssumption, ReturnedIsContext
  <2> QED
    BY <1>0, <2>1, <2>2, <2>3 DEF AttemptsCover, AwaitsProof
<1>8. CASE Succeeds(w) \/ GivesUp(w)
  BY <1>0, <1>8
     DEF AttemptsCover, AwaitsProof, Succeeds, GivesUp, Concludes,
         EmitSuccess, EmitFailure, Emit, txVars, RecordTypeOK, TypeOK
<1> QED
  BY <1>1, <1>2, <1>3, <1>4, <1>5, <1>6, <1>7, <1>8 DEF Works

\* A transaction is executed: nonces are one lower, and no more.
LEMMA ConfirmsResult ==
  ASSUME RecordTypeOK, Confirms, NEW w \in Workers
  PROVE  /\ result'[w] = Nil <=> result[w] = Nil
         /\ result[w] # Nil =>
              /\ result'[w].hash = result[w].hash
              /\ result'[w].attempts = result[w].attempts
              /\ result'[w].nonce = OneLower(result[w].nonce)
              /\ result'[w].nonce = Nil <=> result[w].nonce = Nil
<1>1. CASE result[w] = Nil
  BY <1>1 DEF Confirms
<1>2. CASE result[w] # Nil
  <2>1. result[w] \in TransactionContexts /\ result[w].nonce \in Offsets
    BY <1>2 DEF RecordTypeOK, TransactionContexts
  <2>2. result'[w] = [result[w] EXCEPT !.nonce = OneLower(@)]
    BY <1>2 DEF Confirms
  <2>3. result'[w] \in TransactionContexts
    BY <2>1, <2>2, OneLowerType DEF TransactionContexts
  <2> QED
    BY <1>2, <2>1, <2>2, <2>3, OneLowerType, RecordAssumption
       DEF TransactionContexts
<1> QED
  BY <1>1, <1>2

LEMMA NextRecordInv ==
  RecordTypeOK /\ RecordInv /\ [RecordNext]_recordVars => RecordInv'
<1> SUFFICES ASSUME RecordTypeOK, RecordInv, [RecordNext]_recordVars
             PROVE  RecordInv'
  OBVIOUS
<1>1. ASSUME NEW w \in Workers, NEW p \in Payloads, Begin(w, p)
      PROVE  RecordInv'
  <2>1. NewEvent(w, p) # Nil
    BY <1>1, NewEventType, RecordAssumption
  <2> QED
    BY <1>1, <2>1
       DEF Begin, RecordInv, AttemptsCover, AwaitsProof, NewEvent,
           RecordTypeOK, txVars, configVars
<1>2. ASSUME NEW w \in Workers, Works(w) PROVE RecordInv'
  BY <1>2, WorkerCovered, OthersCovered DEF RecordInv
<1>3. CASE Confirms
  <2> SUFFICES ASSUME NEW w \in Workers PROVE AttemptsCover(w)'
    BY DEF RecordInv
  <2>1. /\ UNCHANGED <<stage, attempt, call, builder, active, taken>>
        /\ lastNonce'[w] = OneLower(lastNonce[w])
    BY <1>3 DEF Confirms, Confirm, configVars
  <2>2. lastNonce'[w] = Nil <=> lastNonce[w] = Nil
    BY <2>1, OneLowerType DEF RecordTypeOK
  <2> QED
    BY <1>3, <2>1, <2>2, ConfirmsResult
       DEF RecordInv, AttemptsCover, AwaitsProof
<1>4. CASE Dies
  BY <1>4 DEF Dies, Crash, RecordInv, AttemptsCover
<1>5. CASE UNCHANGED recordVars
  BY <1>5 DEF recordVars, txVars, configVars, historyVars, RecordInv,
              AttemptsCover, AwaitsProof
<1> QED
  BY <1>1, <1>2, <1>3, <1>4, <1>5 DEF RecordNext

\* Only active registries work.
LEMMA WorksIsActive ==
  ASSUME RecordInv, NEW w \in Workers, Works(w)
  PROVE  w \in active
<1>1. builder[w] # Nil \/ stage[w] # "idle" \/ result[w] # Nil
  BY DEF Works, ProofFails, Skips, StartsTransaction, AwaitsProof, TakesNonce,
         PrepareFromNode, PrepareFromCache, TakeNonce, FailsOrRetries,
         PrepareFails, Refused, SendFails, Retry, LosesReply, SendReplyLost,
         ReturnsResult, SendSucceeds, Admissible, ReturnsError, GiveUp,
         Succeeds, GivesUp, Concludes
<1> QED
  BY <1>1 DEF RecordInv, AttemptsCover

\* The node's pool when a worker has taken a step.
LEMMA WorksPool ==
  ASSUME NEW w \in Workers, Works(w)
  PROVE  pool' = pool \/ pool' = PoolWith(nonce[w], call[w])
<1>1. CASE ProofFails(w) \/ Skips(w) \/ StartsTransaction(w) \/ TakesNonce(w)
             \/ FailsOrRetries(w)
  BY <1>1 DEF ProofFails, Skips, StartsTransaction, Submit, TakesNonce,
              PrepareFromNode, PrepareFromCache, TakeNonce, FailsOrRetries,
              PrepareFails, Refused, SendFails, Retry, txVars
<1>2. CASE LosesReply(w) \/ ReturnsResult(w)
  BY <1>2 DEF LosesReply, SendReplyLost, ReturnsResult, SendSucceeds
<1>3. CASE ReturnsError(w) \/ Succeeds(w) \/ GivesUp(w)
  BY <1>3 DEF ReturnsError, GiveUp, Succeeds, GivesUp, Concludes, txVars
<1> QED
  BY <1>1, <1>2, <1>3 DEF Works

\* Others may replace what a worker has in the pool, but leave no hole there.
LEMMA OthersStand ==
  ASSUME RecordTypeOK, RecordInv, ResultInv, NEW w \in Workers, Works(w),
         NEW v \in Workers, v # w
  PROVE  ResultStands(v)'
<1>1. /\ result'[v] = result[v] /\ active' = active
      /\ active # {v}
  BY OthersUntouched, WorksIsActive
<1>2. DOMAIN pool \subseteq DOMAIN pool'
  BY WorksPool DEF PoolWith
<1> QED
  BY <1>1, <1>2 DEF ResultInv, ResultStands

LEMMA WorkerStands ==
  ASSUME RecordTypeOK, RecordInv, ResultInv, NEW w \in Workers, Works(w)
  PROVE  ResultStands(w)'
<1>0. AttemptsCover(w) /\ ResultStands(w)
  BY DEF RecordInv, ResultInv
<1>1. CASE ProofFails(w) \/ Skips(w) \/ StartsTransaction(w)
  <2>1. result'[w] = Nil
    BY <1>1 DEF ProofFails, Skips, StartsTransaction, AwaitsProof
  <2> QED BY <2>1 DEF ResultStands
<1>2. CASE TakesNonce(w) \/ FailsOrRetries(w) \/ LosesReply(w)
  <2>1. stage[w] # "idle" /\ result' = result
    BY <1>2 DEF TakesNonce, PrepareFromNode, PrepareFromCache, TakeNonce,
                FailsOrRetries, PrepareFails, Refused, SendFails, Retry,
                LosesReply, SendReplyLost, Admissible
  <2>2. result'[w] = Nil
    BY <1>0, <2>1 DEF AttemptsCover
  <2> QED BY <2>2 DEF ResultStands
<1>3. CASE ReturnsResult(w)
  <2>1. /\ result'[w].hash = call[w] /\ result'[w].nonce = nonce[w]
        /\ nonce[w] \in 0 .. PoolLimit - 1
        /\ pool' = PoolWith(nonce[w], call[w])
    BY <1>3 DEF ReturnsResult, SendSucceeds, Admissible, RecordTypeOK
  <2>2. nonce[w] \in DOMAIN pool' /\ pool'[nonce[w]] = call[w]
    BY <2>1 DEF PoolWith
  <2> QED BY <2>1, <2>2 DEF ResultStands, Stands
<1>4. CASE ReturnsError(w)
  <2>1. result'[w].hash = Nil
    BY <1>4 DEF ReturnsError, RecordTypeOK
  <2> QED BY <2>1 DEF ResultStands
<1>5. CASE Succeeds(w) \/ GivesUp(w)
  <2>1. result'[w] = Nil
    BY <1>5 DEF Succeeds, GivesUp, Concludes, RecordTypeOK
  <2> QED BY <2>1 DEF ResultStands
<1> QED
  BY <1>1, <1>2, <1>3, <1>4, <1>5 DEF Works

LEMMA ConfirmsStands ==
  ASSUME RecordTypeOK, ResultInv, Confirms, NEW w \in Workers
  PROVE  ResultStands(w)'
<1> SUFFICES ASSUME result[w] # Nil, result[w].hash # Nil
             PROVE  /\ result'[w].nonce = -1 \/ result'[w].nonce \in DOMAIN pool'
                    /\ Stands(w, result[w])' \/ active' # {w}
  BY ConfirmsResult DEF ResultStands
<1> DEFINE n == result[w].nonce
<1>1. /\ result'[w].hash = result[w].hash
      /\ result'[w].nonce = OneLower(n)
  BY ConfirmsResult
<1>2. /\ n = -1 \/ n \in DOMAIN pool
      /\ Stands(w, result[w]) \/ active # {w}
  BY DEF ResultInv, ResultStands
<1>3. DOMAIN pool \subseteq Nat
  BY DEF RecordTypeOK, TypeOK
<1>4. pool' = [k \in {m - 1 : m \in DOMAIN pool \ {0}} |-> pool[k + 1]]
      /\ active' = active
      /\ executed'[w] = (executed[w] \/ ReturnedIsNext(w))
  BY DEF Confirms, Confirm, configVars
<1>5. CASE n = -1
  <2>1. OneLower(n) = -1
    BY <1>5, TxAssumption DEF OneLower, Clamped
  <2> QED BY <1>1, <1>2, <1>4, <1>5, <2>1 DEF Stands
<1>6. CASE n = 0
  <2>1. OneLower(n) = -1
    BY <1>6, TxAssumption DEF OneLower, Clamped
  <2>2. Stands(w, result[w]) => ReturnedIsNext(w)
    BY <1>6 DEF Stands, ReturnedIsNext
  <2> QED BY <1>1, <1>2, <1>4, <2>1, <2>2 DEF Stands
<1>7. CASE n \in DOMAIN pool /\ n # 0
  <2>1. n \in Nat /\ OneLower(n) = n - 1 /\ n - 1 >= 0
    BY <1>3, <1>7, TxAssumption DEF OneLower, Clamped
  <2>2. n - 1 \in DOMAIN pool' /\ pool'[n - 1] = pool[n]
    BY <1>4, <1>7, <2>1
  <2> QED BY <1>1, <1>2, <1>4, <1>7, <2>1, <2>2 DEF Stands
<1> QED
  BY <1>2, <1>5, <1>6, <1>7

LEMMA NextResultInv ==
  RecordTypeOK /\ RecordInv /\ ResultInv /\ [RecordNext]_recordVars
    => ResultInv'
<1> SUFFICES ASSUME RecordTypeOK, RecordInv, ResultInv,
                    [RecordNext]_recordVars
             PROVE  ResultInv'
  OBVIOUS
<1>1. ASSUME NEW w \in Workers, NEW p \in Payloads, Begin(w, p)
      PROVE  ResultInv'
  <2> SUFFICES ASSUME NEW v \in Workers PROVE ResultStands(v)'
    BY DEF ResultInv
  <2>1. CASE v = w
    <3>1. result'[v] = Nil
      BY <1>1, <2>1 DEF Begin, RecordInv, AttemptsCover
    <3> QED BY <3>1 DEF ResultStands
  <2>2. CASE v # w
    BY <1>1, <2>2
       DEF Begin, ResultInv, ResultStands, Stands, RecordTypeOK, txVars,
           configVars
  <2> QED BY <2>1, <2>2
<1>2. ASSUME NEW w \in Workers, Works(w) PROVE ResultInv'
  BY <1>2, WorkerStands, OthersStand DEF ResultInv
<1>3. CASE Confirms
  BY <1>3, ConfirmsStands DEF ResultInv
<1>4. CASE Dies
  BY <1>4 DEF Dies, ResultInv, ResultStands
<1>5. CASE UNCHANGED recordVars
  BY <1>5 DEF recordVars, txVars, configVars, historyVars, ResultInv,
              ResultStands, Stands
<1> QED
  BY <1>1, <1>2, <1>3, <1>4, <1>5 DEF RecordNext

LEMMA InitRecordInv == RecordInit => RecordInv /\ ResultInv
  BY DEF RecordInit, Init, RecordInv, AttemptsCover, ResultInv, ResultStands

\* RecordTypeOK and RecordInv are inductive together, and ResultInv with them.
LEMMA RecordInvariant == RecordSpec => [](RecordTypeOK /\ RecordInv /\ ResultInv)
<1>1. RecordInit => RecordTypeOK /\ RecordInv /\ ResultInv
  BY InitRecordTypeOK, InitRecordInv
<1>2. RecordTypeOK /\ RecordInv /\ ResultInv /\ [RecordNext]_recordVars
        => (RecordTypeOK /\ RecordInv /\ ResultInv)'
  BY RecordInvBuilds, NextRecordTypeOK, NextRecordInv, NextResultInv
<1> QED
  BY <1>1, <1>2, PTL DEF RecordSpec

(***************************************************************************)
(* Type correctness of the builders, the log lines and the reports, with   *)
(* that of TxSubmission.                                                   *)
(***************************************************************************)
THEOREM RecordTypeCorrect == RecordSpec => []RecordTypeOK
  BY RecordInvariant, PTL

(***************************************************************************)
(* processIssuance and processRevocation, with all they do around it, use  *)
(* the transaction path as TxSubmission has it.                            *)
(***************************************************************************)
THEOREM ImplementsTxSubmission == RecordSpec => Spec
<1>1. RecordInit => Init
  BY DEF RecordInit
<1> QED
  BY <1>1, RecordTypeCorrect, RecordStepIsTxStep, PTL DEF RecordSpec, Spec

(***************************************************************************)
(* So their transactions leave no hole under the nonce counter.            *)
(***************************************************************************)
THEOREM RecordNoGapIsOrphaned == RecordSpec => []NoOrphanedGap
  BY ImplementsTxSubmission, NoGapIsOrphaned, PTL

-----------------------------------------------------------------------------
(* The records.                                                            *)

\* Without a log line there is nothing to show.
LEMMA SilenceTellsNothing ==
  ASSUME line' = Nil
  PROVE  RecordTellsTransactions'
  BY DEF RecordTellsTransactions

\* The record of an operation without a transaction.
LEMMA NoTransactionTells ==
  ASSUME NEW w \in Workers, NEW e, e.registry = w, e.transaction = Nil,
         NEW outcome, line' = [event |-> e, outcome |-> outcome],
         taken'[w] = 0
  PROVE  RecordTellsTransactions'
  BY DEF RecordTellsTransactions

\* The record of what submitWithRetry returned.
LEMMA ConclusionTells ==
  ASSUME RecordTypeOK, RecordInv, ResultInv, NEW w \in Workers, Concludes(w),
         NEW e, e.registry = w, e.operation = builder[w].operation,
         e.transaction = result[w],
         NEW outcome, line' = [event |-> e, outcome |-> outcome],
         outcome = "success" => result[w].hash # Nil
  PROVE  RecordTellsTransactions'
<1>1. AttemptsCover(w) /\ ResultStands(w) /\ result[w] # Nil
  BY DEF RecordInv, ResultInv, Concludes
<1>2. UNCHANGED <<taken, executed, pool, active>>
  BY DEF Concludes, historyVars, txVars, configVars
<1> QED
  BY <1>1, <1>2 DEF AttemptsCover, ResultStands, RecordTellsTransactions, Stands

LEMMA SuccessTells ==
  ASSUME RecordTypeOK, RecordInv, ResultInv, NEW w \in Workers, Succeeds(w)
  PROVE  RecordTellsTransactions'
<1>1. builder[w] \in OperationEvents /\ builder[w].registry = w
  BY DEF Succeeds, Concludes, RecordTypeOK, RecordInv, AttemptsCover
<1> DEFINE e == WithTransaction(builder[w], result[w])
<1>2. /\ e.registry = w /\ e.operation = builder[w].operation
      /\ e.transaction = result[w]
  BY <1>1 DEF WithTransaction, OperationEvents
<1>3. line' = [event |-> e, outcome |-> "success"]
  BY DEF Succeeds, EmitSuccess, Emit
<1> HIDE DEF e
<1> QED
  BY <1>2, <1>3, ConclusionTells DEF Succeeds

LEMMA GiveUpTells ==
  ASSUME RecordTypeOK, RecordInv, ResultInv, NEW w \in Workers, GivesUp(w)
  PROVE  RecordTellsTransactions'
<1>1. builder[w] \in OperationEvents /\ builder[w].registry = w
  BY DEF GivesUp, Concludes, RecordTypeOK, RecordInv, AttemptsCover
<1> DEFINE e == WithError(WithTransaction(builder[w], result[w]), "transaction")
<1>2. /\ e.registry = w /\ e.operation = builder[w].operation
      /\ e.transaction = result[w]
  BY <1>1 DEF WithTransaction, WithError, OperationEvents
<1>3. line' = [event |-> e, outcome |-> "failure"]
  BY DEF GivesUp, EmitFailure, Emit
<1> HIDE DEF e
<1> QED
  BY <1>2, <1>3, ConclusionTells DEF GivesUp

LEMMA NextTells ==
  ASSUME RecordTypeOK, RecordInv, ResultInv, RecordTellsTransactions,
         [RecordNext]_recordVars
  PROVE  RecordTellsTransactions'
<1>1. CASE \E w \in Workers, p \in Payloads : Begin(w, p)
  BY <1>1, SilenceTellsNothing DEF Begin, Silent
<1>2. ASSUME NEW w \in Workers, Works(w)
      PROVE  RecordTellsTransactions'
  <2>0. AttemptsCover(w)
    BY DEF RecordInv
  <2>1. CASE StartsTransaction(w) \/ TakesNonce(w) \/ FailsOrRetries(w)
             \/ LosesReply(w) \/ ReturnsResult(w) \/ ReturnsError(w)
    BY <2>1, SilenceTellsNothing
       DEF StartsTransaction, TakesNonce, FailsOrRetries, LosesReply,
           ReturnsResult, ReturnsError, Silent
  <2>2. CASE ProofFails(w)
    <3>1. builder[w] \in OperationEvents
      BY <2>2 DEF ProofFails, AwaitsProof, RecordTypeOK
    <3> DEFINE e == WithError(builder[w], "merkle_proof")
    <3>2. e.registry = w /\ e.transaction = Nil /\ taken'[w] = 0
      BY <2>0, <2>2, <3>1
         DEF ProofFails, AwaitsProof, AttemptsCover, WithError,
             OperationEvents, historyVars
    <3>3. line' = [event |-> e, outcome |-> "failure"]
      BY <2>2 DEF ProofFails, EmitFailure, Emit
    <3> QED BY <3>2, <3>3, NoTransactionTells
  <2>3. CASE Skips(w)
    <3>1. builder[w] \in OperationEvents
      BY <2>3 DEF Skips, AwaitsProof, RecordTypeOK
    <3> DEFINE e == WithError(WithMerkleProof(builder[w]), "config")
    <3>2. e.registry = w /\ e.transaction = Nil /\ taken'[w] = 0
      BY <2>0, <2>3, <3>1
         DEF Skips, AwaitsProof, AttemptsCover, WithError, WithMerkleProof,
             OperationEvents, historyVars
    <3>3. line' = [event |-> e, outcome |-> "skipped"]
      BY <2>3 DEF Skips, EmitSkipped, Emit
    <3> QED BY <3>2, <3>3, NoTransactionTells
  <2> QED
    BY <1>2, <2>1, <2>2, <2>3, SuccessTells, GiveUpTells DEF Works
<1>3. CASE Confirms \/ Dies
  BY <1>3, SilenceTellsNothing DEF Confirms, Dies, Silent
<1>4. CASE UNCHANGED recordVars
  BY <1>4 DEF recordVars, txVars, configVars, historyVars,
              RecordTellsTransactions, Stands
<1> QED
  BY <1>1, <1>2, <1>3, <1>4 DEF RecordNext

(***************************************************************************)
(* What an operation's record says of its transactions is true of the      *)
(* node and the chain when it is written, for any number of registries and *)
(* retries.                                                                *)
(***************************************************************************)
THEOREM RecordsAreTrue == RecordSpec => []RecordTellsTransactions
<1>1. RecordInit => RecordTellsTransactions
  BY DEF RecordInit, RecordTellsTransactions
<1> QED
  BY <1>1, NextTells, RecordInvariant, PTL DEF RecordSpec

-----------------------------------------------------------------------------
(* A registry alone on its account.  Nothing else takes nonces, so that    *)
(* the pool has no hole and the counter is the node's pending nonce, plus  *)
(* one while the worker holds it, until an attempt fails.                  *)

NoHole == \A n \in DOMAIN pool : \A m \in 0 .. n - 1 : m \in DOMAIN pool

InStep(w) ==
  /\ NoHole
  /\ stage[w] = "submit" =>
       IsPendingNonce(nonce[w]) /\ currentNonce = nonce[w] + 1
  /\ stage[w] \in {"idle", "prepare"} /\ currentNonce # Nil =>
       IsPendingNonce(currentNonce)

AloneInv == \A w \in Workers : active = {w} => InStep(w)

\* A nonce is handed out.
LEMMA TakeNonceInStep ==
  ASSUME RecordTypeOK, NEW w \in Workers, InStep(w),
         PrepareFromNode(w) \/ PrepareFromCache(w)
  PROVE  InStep(w)'
<1>1. PICK n \in Nat : IsPendingNonce(n) /\ TakeNonce(w, n)
  BY TxAssumption DEF PrepareFromNode, PrepareFromCache, TakeNonce, InStep,
                      IsPendingNonce
<1>2. nonce'[w] = n /\ stage'[w] = "submit" /\ currentNonce' = n + 1
      /\ pool' = pool
  BY <1>1 DEF TakeNonce, Clamped, RecordTypeOK, TypeOK
<1> QED
  BY <1>1, <1>2 DEF InStep, NoHole, IsPendingNonce

\* The node takes the pending nonce.
LEMMA SendInStep ==
  ASSUME RecordTypeOK, NEW w \in Workers, InStep(w), Admissible(w),
         pool' = PoolWith(nonce[w], call[w])
  PROVE  /\ NoHole'
         /\ nonce[w] + 1 \in 0 .. PoolLimit
         /\ nonce[w] + 1 \notin DOMAIN pool'
         /\ \A m \in 0 .. nonce[w] : m \in DOMAIN pool'
<1>1. DOMAIN pool' = DOMAIN pool \cup {nonce[w]}
  BY DEF PoolWith
<1>2. IsPendingNonce(nonce[w]) /\ nonce[w] \in 0 .. PoolLimit - 1
  BY DEF InStep, Admissible
<1>3. DOMAIN pool \subseteq Nat
  BY DEF RecordTypeOK, TypeOK
<1>4. nonce[w] + 1 \notin DOMAIN pool
  BY <1>2, <1>3 DEF InStep, NoHole, IsPendingNonce
<1> QED
  BY <1>1, <1>2, <1>3, <1>4, TxAssumption DEF InStep, NoHole, IsPendingNonce

\* A transaction is executed: everything is one lower.
LEMMA ConfirmInStep ==
  ASSUME RecordTypeOK, NEW w \in Workers, InStep(w), Confirm
  PROVE  InStep(w)'
<1>0. DOMAIN pool \subseteq Nat /\ 0 \in DOMAIN pool
  BY DEF RecordTypeOK, TypeOK, Confirm
<1>1. DOMAIN pool' = {m - 1 : m \in DOMAIN pool \ {0}}
  BY DEF Confirm
<1>2. \A n \in Nat : n \in DOMAIN pool' <=> n + 1 \in DOMAIN pool
  BY <1>0, <1>1
<1>3. NoHole'
  BY <1>0, <1>1, <1>2 DEF InStep, NoHole
<1>4. \A n \in Int : IsPendingNonce(n) => n > 0 /\ IsPendingNonce(n - 1)'
  BY <1>0, <1>2, TxAssumption DEF IsPendingNonce
<1>5. CASE stage[w] = "submit"
  <2>1. nonce[w] \in Nat /\ IsPendingNonce(nonce[w])
        /\ currentNonce = nonce[w] + 1
    BY <1>5, TxAssumption DEF InStep, IsPendingNonce
  <2>2. nonce'[w] = nonce[w] - 1
    BY <1>4, <2>1, TxAssumption DEF Confirm, Clamped
  <2>3. currentNonce' = nonce[w] /\ stage' = stage
    BY <2>1, TxAssumption DEF Confirm, Lowered
  <2> QED BY <1>3, <1>4, <1>5, <2>1, <2>2, <2>3 DEF InStep
<1>6. CASE stage[w] # "submit"
  <2>1. CASE currentNonce = Nil
    BY <1>3, <1>6, <2>1 DEF InStep, Confirm, Lowered
  <2>2. CASE currentNonce # Nil
    <3>1. currentNonce \in Int /\ currentNonce' = currentNonce - 1
      BY <2>2 DEF Confirm, Lowered, RecordTypeOK, TypeOK
    <3> QED BY <1>3, <1>4, <1>6, <2>2, <3>1 DEF InStep, Confirm
  <2> QED BY <2>1, <2>2
<1> QED
  BY <1>5, <1>6

LEMMA WorksInStep ==
  ASSUME RecordTypeOK, NEW w \in Workers, InStep(w), Works(w)
  PROVE  InStep(w)'
<1>1. CASE ProofFails(w) \/ Skips(w) \/ Succeeds(w) \/ GivesUp(w)
  BY <1>1 DEF ProofFails, Skips, Succeeds, GivesUp, Concludes, txVars, InStep,
              NoHole, IsPendingNonce
<1>2. CASE StartsTransaction(w)
  BY <1>2 DEF StartsTransaction, Submit, InStep, NoHole, IsPendingNonce,
              RecordTypeOK, TypeOK
<1>3. CASE TakesNonce(w)
  BY <1>3, TakeNonceInStep DEF TakesNonce
<1>4. CASE FailsOrRetries(w)
  BY <1>4 DEF FailsOrRetries, PrepareFails, Refused, SendFails, Fail, Retry,
              InStep, NoHole, IsPendingNonce, RecordTypeOK, TypeOK
<1>5. CASE LosesReply(w)
  <2>1. NoHole' /\ stage'[w] = "failed"
    BY <1>5, SendInStep
       DEF LosesReply, SendReplyLost, Fail, RecordTypeOK, TypeOK
  <2> QED BY <2>1 DEF InStep
<1>6. CASE ReturnsResult(w)
  <2>1. /\ NoHole'
        /\ nonce[w] + 1 \in 0 .. PoolLimit
        /\ nonce[w] + 1 \notin DOMAIN pool'
        /\ \A m \in 0 .. nonce[w] : m \in DOMAIN pool'
    BY <1>6, SendInStep DEF ReturnsResult, SendSucceeds
  <2>2. stage'[w] = "idle" /\ currentNonce' = nonce[w] + 1
        /\ nonce[w] \in Nat
    BY <1>6 DEF ReturnsResult, SendSucceeds, Admissible, Return, InStep,
                RecordTypeOK, TypeOK
  <2> QED BY <2>1, <2>2 DEF InStep, IsPendingNonce
<1>7. CASE ReturnsError(w)
  BY <1>7 DEF ReturnsError, GiveUp, Return, InStep, NoHole, RecordTypeOK, TypeOK
<1> QED
  BY <1>1, <1>2, <1>3, <1>4, <1>5, <1>6, <1>7 DEF Works

LEMMA ActiveStays == [RecordNext]_recordVars => active' = active
  BY DEF RecordNext, Begin, Works, ProofFails, Skips, StartsTransaction,
         TakesNonce, FailsOrRetries, LosesReply, ReturnsResult, ReturnsError,
         Succeeds, GivesUp, Concludes, Confirms, Dies, recordVars, configVars

LEMMA NextAloneInv ==
  ASSUME RecordTypeOK, RecordInv, AloneInv, [RecordNext]_recordVars
  PROVE  AloneInv'
<1> SUFFICES ASSUME NEW w \in Workers, active = {w}
             PROVE  InStep(w)'
  BY ActiveStays DEF AloneInv
<1>0. InStep(w)
  BY DEF AloneInv
<1>1. CASE \E v \in Workers, p \in Payloads : Begin(v, p)
  BY <1>0, <1>1 DEF Begin, txVars, InStep, NoHole, IsPendingNonce
<1>2. ASSUME NEW v \in Workers, Works(v) PROVE InStep(w)'
  <2>1. v = w
    BY <1>2, WorksIsActive
  <2> QED BY <1>0, <1>2, <2>1, WorksInStep
<1>3. CASE Confirms
  BY <1>0, <1>3, ConfirmInStep DEF Confirms
<1>4. CASE Dies
  BY <1>0, <1>4 DEF Dies, Crash, InStep, NoHole
<1>5. CASE UNCHANGED recordVars
  BY <1>0, <1>5 DEF recordVars, txVars, InStep, NoHole, IsPendingNonce
<1> QED
  BY <1>1, <1>2, <1>3, <1>4, <1>5 DEF RecordNext

(***************************************************************************)
(* A registry alone on the account always sends under the account's next   *)
(* free nonce, for any number of retries and any limit of the node.        *)
(***************************************************************************)
THEOREM AloneHoldsNextNonce == RecordSpec => []NextNonceWhenAlone
<1>1. RecordInit => AloneInv
  BY DEF RecordInit, Init, AloneInv, InStep, NoHole
<1>2. RecordTypeOK /\ RecordInv /\ AloneInv => NextNonceWhenAlone
  <2> SUFFICES ASSUME RecordTypeOK, RecordInv, AloneInv,
                      Cardinality(active) = 1,
                      NEW v \in Workers, stage[v] = "submit"
               PROVE  IsPendingNonce(nonce[v])
    BY DEF NextNonceWhenAlone, HoldsNextNonce
  <2>1. IsFiniteSet(active)
    BY RecordAssumption, FS_Subset DEF RecordTypeOK
  <2>2. PICK w : active = {w}
    BY <2>1, FS_Singleton
  <2>3. v \in active
    BY DEF RecordInv, AttemptsCover
  <2> QED BY <2>2, <2>3 DEF AloneInv, InStep
<1> QED
  BY <1>1, <1>2, NextAloneInv, RecordInvariant, PTL DEF RecordSpec

-----------------------------------------------------------------------------
(* Each operation ends in one record.                                      *)

\* The body of OneRecordEach.
EndsInRecord ==
  /\ \A w \in Workers :
       (line' # Nil /\ line'.event.registry = w)
         <=> (builder[w] # Nil /\ builder'[w] = Nil /\ ~Dies)
  /\ line' # Nil =>
       LET b == builder[line'.event.registry] IN
         b.operation = line'.event.operation
  /\ alert' = IF line' # Nil /\ line'.outcome = "failure"
              THEN [event |-> line'.event,
                    phase |-> IF line'.event.proof THEN "transaction"
                              ELSE "merkle_proof"]
              ELSE Nil

\* The builder knows of the proof from the start of the transaction on.
ProofNoted ==
  \A w \in Workers :
    builder[w] # Nil => builder[w].proof = ~AwaitsProof(w)

LEMMA NextProofNoted ==
  RecordTypeOK /\ RecordInv /\ ProofNoted /\ [RecordNext]_recordVars
    => ProofNoted'
<1> SUFFICES ASSUME RecordTypeOK, RecordInv, ProofNoted,
                    [RecordNext]_recordVars
             PROVE  ProofNoted'
  OBVIOUS
<1> USE DEF ProofNoted, AwaitsProof
<1>1. ASSUME NEW w \in Workers, NEW p \in Payloads, Begin(w, p)
      PROVE  ProofNoted'
  <2>1. stage[w] = "idle" /\ result[w] = Nil
    BY <1>1 DEF Begin, RecordInv, AttemptsCover
  <2> QED
    BY <1>1, <2>1 DEF Begin, NewEvent, RecordTypeOK, txVars
<1>2. ASSUME NEW w \in Workers, Works(w) PROVE ProofNoted'
  <2> SUFFICES ASSUME NEW v \in Workers, builder'[v] # Nil
               PROVE  builder'[v].proof = ~AwaitsProof(v)'
    OBVIOUS
  <2>0. CASE v # w
    BY <1>2, <2>0, OthersUntouched
  <2> USE DEF RecordTypeOK, TypeOK
  <2>1. CASE v = w /\ (ProofFails(w) \/ Skips(w) \/ Succeeds(w) \/ GivesUp(w))
    BY <2>1 DEF ProofFails, Skips, Succeeds, GivesUp, EmitFailure,
                EmitSkipped, EmitSuccess, Emit
  <2>2. CASE v = w /\ StartsTransaction(w)
    <3>1. builder[w] \in OperationEvents
      BY <2>2 DEF StartsTransaction
    <3>2. builder'[w].proof = TRUE
      BY <2>2, <3>1 DEF StartsTransaction, WithMerkleProof, OperationEvents
    <3>3. stage'[w] # "idle"
      BY <2>2 DEF StartsTransaction, Submit
    <3> QED
      BY <2>2, <3>2, <3>3
  <2>3. CASE v = w /\ (TakesNonce(w) \/ FailsOrRetries(w) \/ LosesReply(w))
    <3>1. stage[w] # "idle" /\ stage'[w] # "idle" /\ builder' = builder
      BY <2>3 DEF TakesNonce, PrepareFromNode, PrepareFromCache, TakeNonce,
                  FailsOrRetries, PrepareFails, Refused, SendFails, Fail,
                  Retry, LosesReply, SendReplyLost, Admissible
    <3> QED BY <2>3, <3>1
  <2>4. CASE v = w /\ (ReturnsResult(w) \/ ReturnsError(w))
    <3>1. stage[w] # "idle" /\ builder' = builder
      BY <2>4 DEF ReturnsResult, SendSucceeds, Admissible, ReturnsError, GiveUp
    <3>2. result'[w] \in TransactionContexts
      BY <2>4, ReturnedIsContext DEF ReturnsResult, ReturnsError
    <3>3. result'[w] # Nil
      BY <3>2, RecordAssumption
    <3> QED BY <2>4, <3>1, <3>3
  <2> QED
    BY <1>2, <2>0, <2>1, <2>2, <2>3, <2>4 DEF Works
<1>3. CASE Confirms
  BY <1>3, ConfirmsResult DEF Confirms, Confirm
<1>4. CASE Dies
  BY <1>4 DEF Dies, Crash
<1>5. CASE UNCHANGED recordVars
  BY <1>5 DEF recordVars, txVars
<1> QED
  BY <1>1, <1>2, <1>3, <1>4, <1>5 DEF RecordNext

\* A step that emits nothing ends no operation.
LEMMA SilentStepEndsNothing ==
  ASSUME Silent, \A w \in Workers : builder[w] # Nil => builder'[w] # Nil \/ Dies
  PROVE  EndsInRecord
  BY DEF Silent, EndsInRecord

\* A step that emits w's event ends w's operation and no other.
LEMMA EmitEndsInRecord ==
  ASSUME RecordTypeOK, NEW w \in Workers, builder[w] # Nil,
         NEW e \in OperationEvents, NEW outcome \in Outcomes,
         Emit(w, e, outcome),
         e.registry = w, e.operation = builder[w].operation,
         alert' = IF outcome = "failure"
                  THEN [event |-> e,
                        phase |-> IF e.proof THEN "transaction"
                                  ELSE "merkle_proof"]
                  ELSE Nil
  PROVE  EndsInRecord
<1>1. line' # Nil /\ line'.event = e /\ line'.outcome = outcome
  BY RecordAssumption DEF Emit
<1>2. ~Dies
  BY <1>1 DEF Dies, Silent
<1>3. \A v \in Workers : builder[v] # Nil /\ builder'[v] = Nil <=> v = w
  BY DEF Emit, RecordTypeOK
<1> QED
  BY <1>1, <1>2, <1>3 DEF EndsInRecord

LEMMA WorksEndsInRecord ==
  ASSUME RecordTypeOK, RecordInv, ProofNoted, NEW w \in Workers, Works(w)
  PROVE  EndsInRecord
<1> USE DEF Outcomes, ErrorPhases
<1>0. builder[w] # Nil => /\ builder[w] \in OperationEvents
                          /\ builder[w].registry = w
                          /\ builder[w].proof = ~AwaitsProof(w)
  BY DEF RecordTypeOK, RecordInv, AttemptsCover, ProofNoted
<1>1. CASE ProofFails(w)
  <2> DEFINE e == WithError(builder[w], "merkle_proof")
  <2>1. builder[w] # Nil /\ AwaitsProof(w)
    BY <1>1 DEF ProofFails, AwaitsProof
  <2>2. /\ e \in OperationEvents /\ e.error = "merkle_proof"
        /\ e.registry = w /\ e.operation = builder[w].operation
        /\ e.proof = FALSE
    BY <1>0, <2>1, WithErrorType DEF WithError, OperationEvents
  <2>3. Emit(w, e, "failure")
        /\ alert' = [event |-> e, phase |-> "merkle_proof"]
    BY <1>1, <2>2 DEF ProofFails, EmitFailure, SendToSentry, Tagged
  <2> QED
    BY <2>1, <2>2, <2>3, EmitEndsInRecord
<1>2. CASE Skips(w)
  <2> DEFINE p == WithMerkleProof(builder[w])
             e == WithError(p, "config")
  <2>1. builder[w] # Nil
    BY <1>2 DEF Skips, AwaitsProof
  <2>2. /\ p \in OperationEvents
        /\ p.registry = w /\ p.operation = builder[w].operation
    BY <1>0, <2>1, WithMerkleProofType DEF WithMerkleProof, OperationEvents
  <2>3. /\ e \in OperationEvents
        /\ e.registry = w /\ e.operation = builder[w].operation
    BY <2>2, WithErrorType DEF WithError, OperationEvents
  <2>4. Emit(w, e, "skipped") /\ alert' = Nil
    BY <1>2 DEF Skips, EmitSkipped
  <2> QED
    BY <2>1, <2>3, <2>4, EmitEndsInRecord
<1>3. CASE StartsTransaction(w)
  <2>1. WithMerkleProof(builder[w]) # Nil
    BY <1>0, <1>3, WithMerkleProofType, RecordAssumption
       DEF StartsTransaction, AwaitsProof
  <2> QED
    BY <1>3, <2>1, SilentStepEndsNothing DEF StartsTransaction, RecordTypeOK
<1>4. CASE TakesNonce(w) \/ FailsOrRetries(w) \/ LosesReply(w)
             \/ ReturnsResult(w) \/ ReturnsError(w)
  BY <1>4, SilentStepEndsNothing
     DEF TakesNonce, FailsOrRetries, LosesReply, ReturnsResult, ReturnsError
<1>5. ASSUME Concludes(w)
      PROVE  LET e == WithTransaction(builder[w], result[w]) IN
               /\ builder[w] # Nil
               /\ e \in OperationEvents
               /\ e.registry = w /\ e.operation = builder[w].operation
               /\ e.proof = TRUE
  <2>1. builder[w] # Nil /\ ~AwaitsProof(w)
        /\ result[w] \in TransactionContexts
    BY <1>5 DEF Concludes, RecordInv, AttemptsCover, AwaitsProof, RecordTypeOK
  <2> QED
    BY <1>0, <2>1, WithTransactionType DEF WithTransaction, OperationEvents
<1>6. CASE Succeeds(w)
  <2> DEFINE e == WithTransaction(builder[w], result[w])
  <2>1. Emit(w, e, "success") /\ alert' = Nil /\ Concludes(w)
    BY <1>6 DEF Succeeds, EmitSuccess
  <2> QED
    BY <1>5, <2>1, EmitEndsInRecord
<1>7. CASE GivesUp(w)
  <2> DEFINE t == WithTransaction(builder[w], result[w])
             e == WithError(t, "transaction")
  <2>1. /\ builder[w] # Nil /\ t \in OperationEvents
        /\ t.registry = w /\ t.operation = builder[w].operation
        /\ t.proof = TRUE
    BY <1>5, <1>7 DEF GivesUp
  <2>2. /\ e \in OperationEvents /\ e.error = "transaction"
        /\ e.registry = w /\ e.operation = builder[w].operation
        /\ e.proof = TRUE
    BY <2>1, WithErrorType DEF WithError, OperationEvents
  <2>3. Emit(w, e, "failure")
        /\ alert' = [event |-> e, phase |-> "transaction"]
    BY <1>7, <2>2 DEF GivesUp, EmitFailure, SendToSentry, Tagged
  <2> QED
    BY <2>1, <2>2, <2>3, EmitEndsInRecord
<1> QED
  BY <1>1, <1>2, <1>3, <1>4, <1>6, <1>7 DEF Works

(***************************************************************************)
(* Whatever fails and whoever else works, each operation that is begun     *)
(* ends in exactly one record, which is its own, unless the process dies;  *)
(* Sentry hears of the failures and of nothing else, with their phase.     *)
(***************************************************************************)
THEOREM EachOperationIsRecorded == RecordSpec => OneRecordEach
<1>1. RecordInit => ProofNoted
  BY DEF RecordInit, ProofNoted
<1>2. RecordTypeOK /\ RecordInv /\ ProofNoted /\ [RecordNext]_recordVars
        => [EndsInRecord]_recordVars
  <2> SUFFICES ASSUME RecordTypeOK, RecordInv, ProofNoted, RecordNext
               PROVE  EndsInRecord
    OBVIOUS
  <2>1. ASSUME NEW w \in Workers, NEW p \in Payloads, Begin(w, p)
        PROVE  EndsInRecord
    BY <2>1, SilentStepEndsNothing DEF Begin, RecordTypeOK
  <2>2. ASSUME NEW w \in Workers, Works(w) PROVE EndsInRecord
    BY <2>2, WorksEndsInRecord
  <2>3. CASE Confirms \/ Dies
    BY <2>3, SilentStepEndsNothing DEF Confirms, Dies
  <2> QED
    BY <2>1, <2>2, <2>3 DEF RecordNext
<1> QED
  BY <1>1, <1>2, NextProofNoted, RecordInvariant, PTL
     DEF RecordSpec, OneRecordEach, EndsInRecord

=============================================================================
