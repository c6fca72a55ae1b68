------------------------- MODULE TxSubmissionProofs -------------------------
(***************************************************************************)
(* Proofs about TxSubmission, for any number of workers, any retry limit   *)
(* and any pool limit: type correctness, and that no failed or refused     *)
(* send leaves a hole under the cached nonce counter.                      *)
(***************************************************************************)
EXTENDS TxSubmission, TLAPS

-----------------------------------------------------------------------------
(* Type correctness, one lemma per kind of step.                           *)

LEMMA InitTypeOK == Init => TypeOK
  BY TxAssumption DEF Init, TypeOK, Stages

\* prepareTransactor returns a nonce.
LEMMA TakeNonceTypeOK ==
  ASSUME TypeOK, NEW w \in Workers, NEW n \in Int, TakeNonce(w, n)
  PROVE  TypeOK'
  BY TxAssumption DEF TypeOK, Stages, TakeNonce, Clamped

\* An attempt of a call that is under way ends in an error.
LEMMA FailTypeOK ==
  ASSUME TypeOK, NEW w \in Workers, stage[w] # "idle", Fail(w),
         UNCHANGED <<currentNonce, pool>>
  PROVE  TypeOK'
  BY TxAssumption DEF TypeOK, Stages, Fail

\* The node takes the transaction of worker w.
LEMMA PoolWithTypeOK ==
  ASSUME TypeOK, NEW w \in Workers, Admissible(w)
  PROVE  LET P == PoolWith(nonce[w], call[w])
         IN  /\ DOMAIN P \subseteq 0 .. PoolLimit - 1
             /\ \A n \in DOMAIN P : P[n] \in Payloads
  BY TxAssumption DEF TypeOK, Admissible, PoolWith

\* submitWithRetry returns.
LEMMA ReturnTypeOK ==
  ASSUME TypeOK, NEW w \in Workers, Return(w),
         currentNonce' \in Int \cup {Nil},
         DOMAIN pool' \subseteq 0 .. PoolLimit - 1,
         \A n \in DOMAIN pool' : pool'[n] \in Payloads
  PROVE  TypeOK'
  BY TxAssumption DEF TypeOK, Stages, Return

LEMMA WorkerTypeOK ==
  ASSUME TypeOK, NEW w \in Workers, WorkerStep(w) \/ WorkerMishap(w)
  PROVE  TypeOK'
<1>1. CASE PrepareFromNode(w)
  BY <1>1, TakeNonceTypeOK, TxAssumption DEF PrepareFromNode
<1>2. CASE PrepareFromCache(w)
  <2>1. currentNonce \in Int
    BY <1>2, TxAssumption DEF PrepareFromCache, TypeOK
  <2> QED BY <1>2, <2>1, TakeNonceTypeOK DEF PrepareFromCache
<1>3. CASE SendSucceeds(w)
  BY <1>3, PoolWithTypeOK, ReturnTypeOK DEF SendSucceeds, TypeOK
<1>4. CASE Refused(w) \/ PrepareFails(w) \/ SendFails(w)
  BY <1>4, FailTypeOK DEF Refused, PrepareFails, SendFails
<1>5. CASE Retry(w)
  BY <1>5, TxAssumption DEF TypeOK, Stages, Retry
<1>6. CASE GiveUp(w)
  BY <1>6, ReturnTypeOK DEF GiveUp, TypeOK
<1>7. CASE SendReplyLost(w)
  BY <1>7, PoolWithTypeOK, TxAssumption
     DEF SendReplyLost, Admissible, Fail, TypeOK, Stages
<1> QED
  BY <1>1, <1>2, <1>3, <1>4, <1>5, <1>6, <1>7 DEF WorkerStep, WorkerMishap

\* The next transaction is executed and every offset moves down.
LEMMA ConfirmTypeOK == TypeOK /\ Confirm => TypeOK'
  BY TxAssumption DEF TypeOK, Stages, Confirm, Lowered, Clamped

LEMMA NextTypeOK == TypeOK /\ [Next]_txVars => TypeOK'
<1> SUFFICES ASSUME TypeOK, [Next]_txVars PROVE TypeOK'
  OBVIOUS
<1>1. CASE \E w \in Workers, p \in Payloads : Submit(w, p)
  BY <1>1, TxAssumption DEF TypeOK, Stages, Submit
<1>2. CASE \E w \in Workers : WorkerStep(w) \/ WorkerMishap(w)
  BY <1>2, WorkerTypeOK
<1>3. CASE Confirm
  BY <1>3, ConfirmTypeOK
<1>4. CASE Crash
  BY <1>4, TxAssumption DEF TypeOK, Stages, Crash
<1>5. CASE UNCHANGED txVars
  BY <1>5 DEF TypeOK, txVars
<1> QED
  BY <1>1, <1>2, <1>3, <1>4, <1>5 DEF Next

(***************************************************************************)
(* Type correctness: in particular the pool never holds an offset beyond   *)
(* the node's limit, and a worker inside submitWithRetry has a call.       *)
(***************************************************************************)
THEOREM TypeCorrect == Spec => []TypeOK
  BY InitTypeOK, NextTypeOK, PTL DEF Spec

-----------------------------------------------------------------------------
(* No hole under the counter.  The invariant is inductive together with    *)
(* type correctness: a hole opens only when a worker holding a nonce       *)
(* fails, and from then until the counter is forgotten ResetIsDue holds.   *)

\* A step that leaves the counter and the workers waiting to reset it, and
\* takes no offset away from the pool or from a worker's hands, except by
\* moving it from hand to pool.
LEMMA KeepsNoOrphanedGap ==
  ASSUME NoOrphanedGap, currentNonce' = currentNonce,
         ResetIsDue => ResetIsDue',
         \A n : n \in DOMAIN pool => n \in DOMAIN pool',
         \A n : Held(n) => n \in DOMAIN pool' \/ Held(n)'
  PROVE  NoOrphanedGap'
  BY DEF NoOrphanedGap

\* Forgetting the counter closes every hole.
LEMMA ForgettingClosesGaps ==
  ASSUME currentNonce' = Nil
  PROVE  NoOrphanedGap'
  BY DEF NoOrphanedGap

\* A failed attempt announces its reset.
LEMMA FailKeepsNoOrphanedGap ==
  ASSUME TypeOK, NEW w \in Workers, Fail(w)
  PROVE  NoOrphanedGap'
<1>1. ResetIsDue'
  BY DEF ResetIsDue, Fail, TypeOK
<1> QED
  BY <1>1 DEF NoOrphanedGap

\* The new offset is in the hands of w; those below it were accounted for.
LEMMA TakeNonceKeepsNoOrphanedGap ==
  ASSUME TypeOK, NEW w \in Workers, NEW n \in Int, TakeNonce(w, n),
         \A m \in 0 .. n - 1 : m \in DOMAIN pool \/ Held(m) \/ ResetIsDue
  PROVE  NoOrphanedGap'
<1>1. n \in Nat => Held(n)'
  BY DEF Held, TakeNonce, TypeOK, Clamped
<1>2. ASSUME NEW m, Held(m) PROVE Held(m)'
  BY <1>2 DEF Held, TakeNonce, TypeOK
<1>3. ResetIsDue => ResetIsDue'
  BY DEF ResetIsDue, TakeNonce, TypeOK
<1>4. ASSUME NEW m \in 0 .. n
      PROVE  m \in DOMAIN pool' \/ Held(m)' \/ ResetIsDue'
  <2>1. CASE m = n
    BY <1>1, <2>1
  <2>2. CASE m \in 0 .. n - 1
    BY <1>2, <1>3, <1>4, <2>2 DEF TakeNonce
  <2> QED BY <2>1, <2>2
<1>5. currentNonce' = n + 1
  BY DEF TakeNonce
<1> QED
  BY <1>4, <1>5 DEF NoOrphanedGap

LEMMA WorkerKeepsNoOrphanedGap ==
  ASSUME TypeOK, NoOrphanedGap, NEW w \in Workers,
         WorkerStep(w) \/ WorkerMishap(w)
  PROVE  NoOrphanedGap'
<1>1. CASE PrepareFromNode(w)
  <2>1. PICK n \in 0 .. PoolLimit : IsPendingNonce(n) /\ TakeNonce(w, n)
    BY <1>1 DEF PrepareFromNode
  <2> QED
    BY <2>1, TakeNonceKeepsNoOrphanedGap, TxAssumption DEF IsPendingNonce
<1>2. CASE PrepareFromCache(w)
  <2>1. currentNonce \in Int
    BY <1>2 DEF PrepareFromCache, TypeOK
  <2> QED
    BY <1>2, <2>1, TakeNonceKeepsNoOrphanedGap
       DEF PrepareFromCache, NoOrphanedGap
<1>3. CASE SendSucceeds(w)
  <2>1. \A n : n \in DOMAIN pool => n \in DOMAIN pool'
    BY <1>3 DEF SendSucceeds, PoolWith
  <2>2. nonce[w] \in DOMAIN pool'
    BY <1>3 DEF SendSucceeds, PoolWith
  <2>3. \A n : Held(n) => n \in DOMAIN pool' \/ Held(n)'
    BY <1>3, <2>2 DEF Held, SendSucceeds, Return, TypeOK
  <2>4. ResetIsDue => ResetIsDue'
    BY <1>3 DEF ResetIsDue, SendSucceeds, Admissible, Return, TypeOK
  <2> QED
    BY <1>3, <2>1, <2>3, <2>4, KeepsNoOrphanedGap DEF SendSucceeds
<1>4. CASE Refused(w) \/ PrepareFails(w) \/ SendFails(w) \/ SendReplyLost(w)
  BY <1>4, FailKeepsNoOrphanedGap
     DEF Refused, PrepareFails, SendFails, SendReplyLost
<1>5. CASE Retry(w) \/ GiveUp(w)
  BY <1>5, ForgettingClosesGaps DEF Retry, GiveUp
<1> QED
  BY <1>1, <1>2, <1>3, <1>4, <1>5 DEF WorkerStep, WorkerMishap

\* Executing offset 0 moves pool, hands and counter down together.
LEMMA ConfirmKeepsNoOrphanedGap ==
  ASSUME TypeOK, NoOrphanedGap, Confirm
  PROVE  NoOrphanedGap'
<1> SUFFICES ASSUME currentNonce' # Nil,
                    NEW n \in 0 .. currentNonce' - 1
             PROVE  n \in DOMAIN pool' \/ Held(n)' \/ ResetIsDue'
  BY DEF NoOrphanedGap
<1>1. currentNonce \in Int /\ currentNonce' = currentNonce - 1
  BY TxAssumption DEF Confirm, Lowered, TypeOK
<1>2. n + 1 \in 0 .. currentNonce - 1
  BY <1>1
<1>3. n + 1 \in DOMAIN pool \/ Held(n + 1) \/ ResetIsDue
  BY <1>1, <1>2, TxAssumption DEF NoOrphanedGap
<1>4. CASE n + 1 \in DOMAIN pool
  BY <1>2, <1>4 DEF Confirm, TypeOK
<1>5. CASE Held(n + 1)
  <2>1. PICK w \in Workers : stage[w] = "submit" /\ nonce[w] = n + 1
    BY <1>5 DEF Held
  <2>2. nonce'[w] = n
    BY <1>2, <2>1, TxAssumption DEF Confirm, Clamped
  <2> QED
    BY <2>1, <2>2 DEF Held, Confirm
<1>6. CASE ResetIsDue
  BY <1>6 DEF ResetIsDue, Confirm
<1> QED
  BY <1>3, <1>4, <1>5, <1>6

LEMMA NextKeepsNoOrphanedGap ==
  TypeOK /\ NoOrphanedGap /\ [Next]_txVars => NoOrphanedGap'
<1> SUFFICES ASSUME TypeOK, NoOrphanedGap, [Next]_txVars
             PROVE  NoOrphanedGap'
  OBVIOUS
<1>1. ASSUME NEW w \in Workers, NEW p \in Payloads, Submit(w, p)
      PROVE  NoOrphanedGap'
  <2>1. \A n : Held(n) => Held(n)'
    BY <1>1 DEF Held, Submit, TypeOK
  <2>2. ResetIsDue => ResetIsDue'
    BY <1>1 DEF ResetIsDue, Submit, TypeOK
  <2> QED
    BY <1>1, <2>1, <2>2, KeepsNoOrphanedGap DEF Submit
<1>2. CASE \E w \in Workers : WorkerStep(w) \/ WorkerMishap(w)
  BY <1>2, WorkerKeepsNoOrphanedGap
<1>3. CASE Confirm
  BY <1>3, ConfirmKeepsNoOrphanedGap
<1>4. CASE Crash
  BY <1>4, ForgettingClosesGaps DEF Crash
<1>5. CASE UNCHANGED txVars
  BY <1>5 DEF NoOrphanedGap, Held, ResetIsDue, txVars
<1> QED
  BY <1>1, <1>2, <1>3, <1>4, <1>5 DEF Next

(***************************************************************************)
(* However the registries' goroutines interleave, fail and retry, every    *)
(* offset the cached nonce counter has passed is pending, in the hands of  *)
(* a worker, or about to be forgotten together with the counter.           *)
(***************************************************************************)
THEOREM NoGapIsOrphaned == Spec => []NoOrphanedGap
<1>1. Init => NoOrphanedGap
  BY DEF Init, NoOrphanedGap
<1> QED
  BY <1>1, TypeCorrect, NextKeepsNoOrphanedGap, PTL DEF Spec

=============================================================================
