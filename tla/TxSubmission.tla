---------------------------- MODULE TxSubmission ----------------------------
(***************************************************************************)
(* The transaction path of queueprocessor.Service: every registry's        *)
(* monitor goroutine (a worker) sends its transactions from one account    *)
(* and shares one cached nonce counter.  prepareTransactor hands a nonce   *)
(* out, submitWithRetry sends, and resets the counter when a send fails.   *)
(*                                                                         *)
(* A nonce is written as its offset from the account's confirmed nonce:    *)
(* offset 0 is the next nonce the chain will execute, a negative offset    *)
(* has been executed already ("nonce too low").  Executing a transaction   *)
(* therefore moves every offset down by one.  The code only compares and   *)
(* increments nonces, so the offsets determine everything it does.         *)
(*                                                                         *)
(* The node keeps here what it has taken; QueueProcessor adds a node that  *)
(* forgets pending transactions.                                           *)
(***************************************************************************)
EXTENDS Integers

CONSTANTS
  Workers,      \* the goroutines that submit, one per registry
  Payloads,     \* the calls a worker may want to have executed
  MaxRetries,   \* submitWithRetry's maxRetries (both callers pass 3)
  PoolLimit,    \* the node refuses offsets from PoolLimit on
  Nil           \* Go's nil, and "no call in progress"

ASSUME TxAssumption ==
  /\ MaxRetries \in Nat \ {0}
  /\ PoolLimit \in Nat
  /\ Nil \notin Int
  /\ Nil \notin Payloads

VARIABLES
  currentNonce, \* Service.currentNonce: Nil or the next offset to hand out
  pool,         \* the account's pending transactions: offset -> payload
  stage,        \* where each worker is in submitWithRetry
  attempt,      \* submitWithRetry's loop counter
  nonce,        \* thisNonce of a worker about to send, else Nil
  call          \* the payload the worker is submitting, else Nil

txVars == <<currentNonce, pool, stage, attempt, nonce, call>>

Stages == {"idle", "prepare", "submit", "failed"}

-----------------------------------------------------------------------------
(* The node's view of the account.                                         *)

\* eth_getTransactionCount(account, "pending"): the first offset that no
\* pending transaction occupies.
IsPendingNonce(n) ==
  /\ n \in 0 .. PoolLimit
  /\ n \notin DOMAIN pool
  /\ \A m \in 0 .. n - 1 : m \in DOMAIN pool

\* The pool after it took payload p under offset n; an entry that was there
\* is replaced (a higher fee), which the node may also refuse to do.
PoolWith(n, p) ==
  [m \in DOMAIN pool \cup {n} |-> IF m = n THEN p ELSE pool[m]]

\* Offsets seen one confirmed transaction later.  A worker's own copy is
\* only ever compared with the pool, so "too low" needs no depth.
Lowered(n) == IF n = Nil THEN Nil ELSE n - 1
Clamped(n) == IF n < 0 THEN -1 ELSE n

-----------------------------------------------------------------------------
Init ==
  /\ currentNonce = Nil
  /\ pool    = <<>>
  /\ stage   = [w \in Workers |-> "idle"]
  /\ attempt = [w \in Workers |-> 0]
  /\ nonce   = [w \in Workers |-> Nil]
  /\ call    = [w \in Workers |-> Nil]

\* processIssuance or processRevocation enters submitWithRetry.
Submit(w, p) ==
  /\ stage[w] = "idle"
  /\ stage' = [stage EXCEPT ![w] = "prepare"]
  /\ call'  = [call EXCEPT ![w] = p]
  /\ UNCHANGED <<currentNonce, pool, attempt, nonce>>

\* submitWithRetry returns, with or without an error.
Return(w) ==
  /\ stage'   = [stage EXCEPT ![w] = "idle"]
  /\ attempt' = [attempt EXCEPT ![w] = 0]
  /\ nonce'   = [nonce EXCEPT ![w] = Nil]
  /\ call'    = [call EXCEPT ![w] = Nil]

\* An attempt ended in an error; the loop has not come round yet.
Fail(w) ==
  /\ stage' = [stage EXCEPT ![w] = "failed"]
  /\ nonce' = [nonce EXCEPT ![w] = Nil]
  /\ UNCHANGED <<attempt, call>>

\* prepareTransactor hands out offset n.  nonceMu is held across the query
\* to the node, so nothing else touches the counter meanwhile.
TakeNonce(w, n) ==
  /\ stage[w] = "prepare"
  /\ stage' = [stage EXCEPT ![w] = "submit"]
  /\ nonce' = [nonce EXCEPT ![w] = Clamped(n)]
  /\ currentNonce' = n + 1
  /\ UNCHANGED <<pool, attempt, call>>

\* ... from the node, when there is no cached counter,
PrepareFromNode(w) ==
  /\ currentNonce = Nil
  /\ \E n \in 0 .. PoolLimit : IsPendingNonce(n) /\ TakeNonce(w, n)

\* ... or from the cache.
PrepareFromCache(w) ==
  /\ currentNonce # Nil
  /\ TakeNonce(w, currentNonce)

\* PendingNonceAt fails: the counter stays nil.
PrepareFails(w) ==
  /\ stage[w] = "prepare"
  /\ currentNonce = Nil
  /\ Fail(w)
  /\ UNCHANGED <<currentNonce, pool>>

\* The node can take the transaction: its nonce is neither used up nor too
\* far ahead.
Admissible(w) ==
  /\ stage[w] = "submit"
  /\ nonce[w] \in 0 .. PoolLimit - 1

\* ProcessNextOperation is sent and acknowledged.
SendSucceeds(w) ==
  /\ Admissible(w)
  /\ pool' = PoolWith(nonce[w], call[w])
  /\ Return(w)
  /\ UNCHANGED currentNonce

\* The node takes the transaction but the acknowledgement is lost.
SendReplyLost(w) ==
  /\ Admissible(w)
  /\ pool' = PoolWith(nonce[w], call[w])
  /\ Fail(w)
  /\ UNCHANGED currentNonce

\* The node refuses it: its nonce is out of range, or already pending and
\* the fee is no higher.
Refused(w) ==
  /\ stage[w] = "submit"
  /\ nonce[w] \notin 0 .. PoolLimit - 1 \/ nonce[w] \in DOMAIN pool
  /\ Fail(w)
  /\ UNCHANGED <<currentNonce, pool>>

\* The request does not get through.
SendFails(w) ==
  /\ stage[w] = "submit"
  /\ Fail(w)
  /\ UNCHANGED <<currentNonce, pool>>

\* Faulty: the loop runs once too often.
RetryOnceMore(w) ==
  /\ stage[w] = "failed"
  /\ attempt[w] + 1 <= MaxRetries
  /\ currentNonce' = Nil
  /\ attempt' = [attempt EXCEPT ![w] = @ + 1]
  /\ stage'   = [stage EXCEPT ![w] = "prepare"]
  /\ UNCHANGED <<pool, nonce, call>>

\* Faulty: the counter survives the failure.
RetryOnCachedNonce(w) ==
  /\ stage[w] = "failed"
  /\ attempt[w] + 1 < MaxRetries
  /\ attempt' = [attempt EXCEPT ![w] = @ + 1]
  /\ stage'   = [stage EXCEPT ![w] = "prepare"]
  /\ UNCHANGED <<currentNonce, pool, nonce, call>>

\* Faulty: the attempt is not counted.
RetryForever(w) ==
  /\ stage[w] = "failed"
  /\ currentNonce' = Nil
  /\ stage' = [stage EXCEPT ![w] = "prepare"]
  /\ UNCHANGED <<pool, attempt, nonce, call>>

\* The loop comes round: forget the counter, back off, prepare again.
Retry(w) ==
  /\ stage[w] = "failed"
  /\ attempt[w] + 1 < MaxRetries
  /\ currentNonce' = Nil
  /\ attempt' = [attempt EXCEPT ![w] = @ + 1]
  /\ stage'   = [stage EXCEPT ![w] = "prepare"]
  /\ UNCHANGED <<pool, nonce, call>>

\* Faulty: the counter survives the last failure.
GiveUpOnCachedNonce(w) ==
  /\ stage[w] = "failed"
  /\ attempt[w] + 1 = MaxRetries
  /\ Return(w)
  /\ UNCHANGED <<currentNonce, pool>>

\* The last attempt failed: forget the counter and return the error.
GiveUp(w) ==
  /\ stage[w] = "failed"
  /\ attempt[w] + 1 = MaxRetries
  /\ currentNonce' = Nil
  /\ Return(w)
  /\ UNCHANGED pool

\* The chain executes the account's next transaction.
Confirm ==
  /\ 0 \in DOMAIN pool
  /\ pool' = [n \in {m - 1 : m \in DOMAIN pool \ {0}} |-> pool[n + 1]]
  /\ currentNonce' = Lowered(currentNonce)
  /\ nonce' = [w \in Workers |->
                 IF nonce[w] = Nil THEN Nil ELSE Clamped(nonce[w] - 1)]
  /\ UNCHANGED <<stage, attempt, call>>

\* The process dies (RecoverAndCapture panics again) and is started anew;
\* what it sent stays with the node.
Crash ==
  /\ currentNonce' = Nil
  /\ stage'   = [w \in Workers |-> "idle"]
  /\ attempt' = [w \in Workers |-> 0]
  /\ nonce'   = [w \in Workers |-> Nil]
  /\ call'    = [w \in Workers |-> Nil]
  /\ UNCHANGED pool

WorkerStep(w) ==
  \/ PrepareFromNode(w)
  \/ PrepareFromCache(w)
  \/ SendSucceeds(w)
  \/ Refused(w)
  \/ Retry(w)
  \/ GiveUp(w)

\* A call of the node fails for no fault of the worker's.
WorkerMishap(w) ==
  \/ PrepareFails(w)
  \/ SendReplyLost(w)
  \/ SendFails(w)

Next ==
  \/ \E w \in Workers, p \in Payloads : Submit(w, p)
  \/ \E w \in Workers : WorkerStep(w) \/ WorkerMishap(w)
  \/ Confirm
  \/ Crash

Spec == Init /\ [][Next]_txVars

-----------------------------------------------------------------------------
TypeOK ==
  /\ currentNonce \in Int \cup {Nil}
  /\ DOMAIN pool \subseteq 0 .. PoolLimit - 1
  /\ \A n \in DOMAIN pool : pool[n] \in Payloads
  /\ stage   \in [Workers -> Stages]
  /\ attempt \in [Workers -> 0 .. MaxRetries - 1]
  /\ nonce   \in [Workers -> Nat \cup {-1, Nil}]
  /\ call    \in [Workers -> Payloads \cup {Nil}]
  /\ \A w \in Workers : stage[w] # "idle" => call[w] # Nil

\* Some worker has offset n in hand and is about to send under it.
Held(n) == \E w \in Workers : stage[w] = "submit" /\ nonce[w] = n

\* Some worker saw an attempt fail and is about to reset the counter.
ResetIsDue == \E w \in Workers : stage[w] = "failed"

(***************************************************************************)
(* The cached counter never runs ahead of the node for good: as long as    *)
(* the node does not forget transactions, each offset the counter has      *)
(* passed is pending, or in the hands of a worker that is still sending,   *)
(* or a failed worker is about to discard the counter.  Without this a     *)
(* failed send under one registry would leave a hole below the             *)
(* transactions of all the others, which the chain could never execute.    *)
(* It is about submitWithRetry's two resets and prepareTransactor's        *)
(* increment, under every interleaving of the registries' goroutines.      *)
(***************************************************************************)
NoOrphanedGap ==
  currentNonce # Nil =>
    \A n \in 0 .. currentNonce - 1 :
      n \in DOMAIN pool \/ Held(n) \/ ResetIsDue

(***************************************************************************)
(* prepareTransactor "creates a transactor with the next nonce".  With one *)
(* registry on the account, the nonce a worker is about to send under is   *)
(* the account's first free one, whatever failed before.                   *)
(***************************************************************************)
HoldsNextNonce ==
  \A w \in Workers : stage[w] = "submit" => IsPendingNonce(nonce[w])

(***************************************************************************)
(* With several registries on the account, the least this means is that    *)
(* no two workers are handed the same nonce.  It fails: when one worker's  *)
(* attempt fails, its reset makes the next prepareTransactor ask the node, *)
(* which does not know of the nonces other workers are about to use.       *)
(***************************************************************************)
NoncesAreDistinct ==
  \A w, v \in Workers :
    (w # v /\ stage[w] = "submit" /\ stage[v] = "submit")
      => nonce[w] # nonce[v]

=============================================================================
