--------------------------- MODULE OperationRecord ---------------------------
(***************************************************************************)
(* The wide event of each operation.  processIssuance and                  *)
(* processRevocation gather what happens to an operation in a              *)
(* logging.OperationBuilder: the proof, the transaction (TxSubmission) and *)
(* the error.  At the end they emit it as one log line with an outcome,    *)
(* and a failure goes to Sentry as well.  Both functions do the same with  *)
(* the builder; a payload stands for the operation with its type and       *)
(* certificate.  Between submitWithRetry's return and the record nothing   *)
(* is locked: other registries send, and the chain executes transactions.  *)
(* Timings are left out.                                                   *)
(***************************************************************************)
EXTENDS TxSubmission, FiniteSets

Outcomes    == {"success", "failure", "skipped"}
ErrorPhases == {"merkle_proof", "config", "transaction"}
Offsets     == Nat \cup {-1, Nil}

TransactionContexts ==
  [hash: Payloads \cup {Nil}, nonce: Offsets, attempts: Nat]

OperationEvents ==
  [operation:   Payloads,
   registry:    Workers,
   proof:       BOOLEAN,
   transaction: TransactionContexts \cup {Nil},
   error:       ErrorPhases \cup {Nil}]

ASSUME RecordAssumption ==
  /\ IsFiniteSet(Workers)
  /\ Nil \notin TransactionContexts
  /\ Nil \notin OperationEvents
  /\ Nil \notin [event: OperationEvents, outcome: Outcomes]

VARIABLES
  active,     \* the registries of the configuration
  hasKey,     \* whether Service.privateKey is set
  builder,    \* the OperationEvent a worker is building, else Nil
  lastNonce,  \* submitWithRetry's lastNonce, Nil for its zero value
  result,     \* what submitWithRetry returned, until it is recorded, else Nil
  taken,      \* history: how many transactions the node took for the latest
              \* operation
  executed,   \* history: whether the chain executed the one returned for it
  line,       \* output: the log line the last step wrote, or Nil
  alert       \* output: what the last step captured with Sentry, or Nil

configVars == <<active, hasKey>>
historyVars == <<taken, executed>>
recordVars == <<txVars, configVars, builder, lastNonce, result, historyVars,
                line, alert>>

RecordInit ==
  /\ Init
  /\ active \in (SUBSET Workers) \ {{}}
  /\ hasKey \in BOOLEAN
  /\ builder   = [w \in Workers |-> Nil]
  /\ lastNonce = [w \in Workers |-> Nil]
  /\ result    = [w \in Workers |-> Nil]
  /\ taken     = [w \in Workers |-> 0]
  /\ executed  = [w \in Workers |-> FALSE]
  /\ line      = Nil
  /\ alert     = Nil

-----------------------------------------------------------------------------
(* The builder.                                                            *)

\* NewOperationBuilder, WithRegistry and WithCertificate.
NewEvent(w, p) ==
  [operation |-> p, registry |-> w, proof |-> FALSE, transaction |-> Nil,
   error |-> Nil]

WithMerkleProof(event) == [event EXCEPT !.proof = TRUE]

WithTransaction(event, transaction) ==
  [event EXCEPT !.transaction = transaction]

WithError(event, during) == [event EXCEPT !.error = during]

\* emit logs the parts that the event has.
Emit(w, event, outcome) ==
  /\ line'    = [event |-> event, outcome |-> outcome]
  /\ builder' = [builder EXCEPT ![w] = Nil]

EmitSuccess(w, event) == Emit(w, event, "success") /\ alert' = Nil
EmitSkipped(w, event) == Emit(w, event, "skipped") /\ alert' = Nil

\* CaptureWideEvent tags the event with the phase the operation failed in.
Tagged(event) == [event |-> event, phase |-> event.error]

\* sendToSentry hands the whole event over.
SendToSentry(event) == alert' = Tagged(event)

EmitFailure(w, event) == Emit(w, event, "failure") /\ SendToSentry(event)

Silent == line' = Nil /\ alert' = Nil

-----------------------------------------------------------------------------
(* processIssuance and processRevocation.                                  *)

AwaitsProof(w) == builder[w] # Nil /\ stage[w] = "idle" /\ result[w] = Nil

Begin(w, p) ==
  /\ w \in active
  /\ builder[w] = Nil
  /\ builder'   = [builder EXCEPT ![w] = NewEvent(w, p)]
  /\ lastNonce' = [lastNonce EXCEPT ![w] = Nil]
  /\ taken'     = [taken EXCEPT ![w] = 0]
  /\ executed'  = [executed EXCEPT ![w] = FALSE]
  /\ Silent
  /\ UNCHANGED <<txVars, configVars, result>>

ProofFails(w) ==
  /\ AwaitsProof(w)
  /\ EmitFailure(w, WithError(builder[w], "merkle_proof"))
  /\ UNCHANGED <<txVars, configVars, lastNonce, result, historyVars>>

\* Faulty: the record is not emitted when there is no key.
SkipsUnrecorded(w) ==
  /\ AwaitsProof(w)
  /\ ~hasKey
  /\ builder' = [builder EXCEPT ![w] = Nil]
  /\ Silent
  /\ UNCHANGED <<txVars, configVars, lastNonce, result, historyVars>>

\* The proof is there, but no key to sign with.
Skips(w) ==
  /\ AwaitsProof(w)
  /\ ~hasKey
  /\ EmitSkipped(w, WithError(WithMerkleProof(builder[w]), "config"))
  /\ UNCHANGED <<txVars, configVars, lastNonce, result, historyVars>>

StartsTransaction(w) ==
  /\ AwaitsProof(w)
  /\ hasKey
  /\ builder' = [builder EXCEPT ![w] = WithMerkleProof(@)]
  /\ Submit(w, builder[w].operation)
  /\ Silent
  /\ UNCHANGED <<configVars, lastNonce, result, historyVars>>

\* submitWithRetry gets a nonce, ...
TakesNonce(w) ==
  /\ PrepareFromNode(w) \/ PrepareFromCache(w)
  /\ lastNonce' = [lastNonce EXCEPT ![w] = nonce'[w]]
  /\ Silent
  /\ UNCHANGED <<configVars, builder, result, historyVars>>

\* ... or an attempt fails without the node taking anything, or is retried.
FailsOrRetries(w) ==
  /\ PrepareFails(w) \/ Refused(w) \/ SendFails(w) \/ Retry(w)
  /\ Silent
  /\ UNCHANGED <<configVars, builder, lastNonce, result, historyVars>>

LosesReply(w) ==
  /\ SendReplyLost(w)
  /\ taken' = [taken EXCEPT ![w] = @ + 1]
  /\ Silent
  /\ UNCHANGED <<configVars, builder, lastNonce, result, executed>>

\* Faulty: the nonce is read off the shared counter again.
ReturnsCounter(w) ==
  /\ SendSucceeds(w)
  /\ result' = [result EXCEPT ![w] =
       [hash |-> call[w], nonce |-> currentNonce, attempts |-> attempt[w] + 1]]
  /\ taken' = [taken EXCEPT ![w] = @ + 1]
  /\ Silent
  /\ UNCHANGED <<configVars, builder, lastNonce, executed>>

\* submitWithRetry returns the transaction that the node took, ...
ReturnsResult(w) ==
  /\ SendSucceeds(w)
  /\ result' = [result EXCEPT ![w] =
       [hash |-> call[w], nonce |-> nonce[w], attempts |-> attempt[w] + 1]]
  /\ taken' = [taken EXCEPT ![w] = @ + 1]
  /\ Silent
  /\ UNCHANGED <<configVars, builder, lastNonce, executed>>

\* ... or its last error.
ReturnsError(w) ==
  /\ GiveUp(w)
  /\ result' = [result EXCEPT ![w] =
       [hash |-> Nil, nonce |-> lastNonce[w], attempts |-> MaxRetries]]
  /\ Silent
  /\ UNCHANGED <<configVars, builder, lastNonce, historyVars>>

\* The record of what submitWithRetry returned.
Concludes(w) ==
  /\ result[w] # Nil
  /\ result' = [result EXCEPT ![w] = Nil]
  /\ UNCHANGED <<txVars, configVars, lastNonce, historyVars>>

Succeeds(w) ==
  /\ Concludes(w)
  /\ result[w].hash # Nil
  /\ EmitSuccess(w, WithTransaction(builder[w], result[w]))

GivesUp(w) ==
  /\ Concludes(w)
  /\ result[w].hash = Nil
  /\ EmitFailure(w,
       WithError(WithTransaction(builder[w], result[w]), "transaction"))

\* The chain executes a transaction: offsets are one lower.
OneLower(n) == IF n = Nil THEN Nil ELSE Clamped(n - 1)

\* The transaction that submitWithRetry returned to w is the next to execute.
ReturnedIsNext(w) ==
  result[w] # Nil /\ result[w].nonce = 0 /\ result[w].hash = pool[0]

Confirms ==
  /\ Confirm
  /\ lastNonce' = [w \in Workers |-> OneLower(lastNonce[w])]
  /\ result' = [w \in Workers |->
       IF result[w] = Nil THEN Nil
       ELSE [result[w] EXCEPT !.nonce = OneLower(@)]]
  /\ executed' = [w \in Workers |-> executed[w] \/ ReturnedIsNext(w)]
  /\ Silent
  /\ UNCHANGED <<configVars, builder, taken>>

\* The process dies with the records it was building.
Dies ==
  /\ Crash
  /\ builder'   = [w \in Workers |-> Nil]
  /\ lastNonce' = [w \in Workers |-> Nil]
  /\ result'    = [w \in Workers |-> Nil]
  /\ taken'     = [w \in Workers |-> 0]
  /\ executed'  = [w \in Workers |-> FALSE]
  /\ Silent
  /\ UNCHANGED configVars

Works(w) ==
  \/ ProofFails(w)
  \/ Skips(w)
  \/ StartsTransaction(w)
  \/ TakesNonce(w)
  \/ FailsOrRetries(w)
  \/ LosesReply(w)
  \/ ReturnsResult(w)
  \/ ReturnsError(w)
  \/ Succeeds(w)
  \/ GivesUp(w)

RecordNext ==
  \/ \E w \in Workers, p \in Payloads : Begin(w, p)
  \/ \E w \in Workers : Works(w)
  \/ Confirms
  \/ Dies

RecordSpec == RecordInit /\ [][RecordNext]_recordVars

-----------------------------------------------------------------------------
RecordTypeOK ==
  /\ TypeOK
  /\ active \subseteq Workers
  /\ hasKey \in BOOLEAN
  /\ builder   \in [Workers -> OperationEvents \cup {Nil}]
  /\ lastNonce \in [Workers -> Offsets]
  /\ result    \in [Workers -> TransactionContexts \cup {Nil}]
  /\ taken     \in [Workers -> Nat]
  /\ executed  \in [Workers -> BOOLEAN]
  /\ line  \in [event: OperationEvents, outcome: Outcomes] \cup {Nil}
  /\ alert \in [event: OperationEvents, phase: ErrorPhases] \cup {Nil}

(***************************************************************************)
(* prepareTransactor "creates a transactor with the next nonce".  With one *)
(* registry on the account, the nonce a worker is about to send under is   *)
(* the account's first free one, whatever failed before.                   *)
(***************************************************************************)
NextNonceWhenAlone == Cardinality(active) = 1 => HoldsNextNonce

\* The node has transaction t of registry w, or the chain has executed it.
Stands(w, t) ==
  IF t.nonce = -1 THEN executed[w]
  ELSE t.nonce \in DOMAIN pool /\ pool[t.nonce] = t.hash

(***************************************************************************)
(* What a record says of the transaction, against what the node has.  The  *)
(* node took at most as many transactions for the operation as the record  *)
(* has attempts, none if it has no transaction or no nonce.  A success     *)
(* names a transaction for the recorded operation; its nonce is pending or *)
(* used up by the time the record is written, and the transaction itself   *)
(* is pending or executed, unless another registry works on the account,   *)
(* which may have replaced it.  Replies get lost meanwhile, blocks are     *)
(* mined, and registries use up and reset the nonce counter.               *)
(***************************************************************************)
RecordTellsTransactions ==
  line # Nil =>
    LET e == line.event
        w == e.registry
        t == e.transaction
    IN IF t = Nil THEN taken[w] = 0
       ELSE /\ taken[w] <= t.attempts
            /\ t.nonce = Nil => taken[w] = 0
            /\ line.outcome = "success" =>
                 /\ taken[w] > 0 /\ t.hash = e.operation
                 /\ t.nonce = -1 \/ t.nonce \in DOMAIN pool
                 /\ Stands(w, t) \/ active # {w}

(***************************************************************************)
(* Every operation that is begun ends in exactly one record of its own,    *)
(* unless the process dies, and the failures are just what Sentry hears    *)
(* of, with the phase in which they failed.                                *)
(***************************************************************************)
OneRecordEach ==
  [][/\ \A w \in Workers :
          (line' # Nil /\ line'.event.registry = w)
            <=> (builder[w] # Nil /\ builder'[w] = Nil /\ ~Dies)
     /\ line' # Nil =>
          LET b == builder[line'.event.registry] IN
            b.operation = line'.event.operation
     /\ alert' = IF line' # Nil /\ line'.outcome = "failure"
                 THEN [event |-> line'.event,
                       phase |-> IF line'.event.proof THEN "transaction"
                                 ELSE "merkle_proof"]
                 ELSE Nil]_recordVars

=============================================================================
