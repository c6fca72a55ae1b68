--------------------------- MODULE QueueProgress ---------------------------
(***************************************************************************)
(* What queueprocessor.Service achieves once the node and the proof        *)
(* service answer.  From some time on, marked by the flag settled, nothing *)
(* goes wrong any more; what went wrong before has left its traces in the  *)
(* nonce counter, the node's pool and the goroutines.                      *)
(***************************************************************************)
EXTENDS QueueProcessor

VARIABLE settled

allVars == <<vars, settled>>

SettledInit == Init /\ settled = FALSE

Settle ==
  /\ ~settled
  /\ settled' = TRUE
  /\ UNCHANGED vars

SettledNext ==
  \/ Regular /\ UNCHANGED settled
  \/ Mishap  /\ ~settled /\ UNCHANGED settled
  \/ Settle

(***************************************************************************)
(* Fairness.  The goroutines keep running: the ticker fires again and      *)
(* every call returns, with an answer or, until things settle, an error.   *)
(* The chain keeps mining the account's next transaction, and the proof    *)
(* service keeps following the tree.                                       *)
(***************************************************************************)
Runs(r) ==
  \/ MonitorStep(r) \/ SubmitStep(r)
  \/ ~settled /\ (CallFails(r) \/ SubmitMishap(r))

SettledFairness ==
  /\ \A r \in Registries :
       /\ WF_allVars(Runs(r) /\ UNCHANGED settled)
       /\ WF_allVars(ServiceSyncs(r) /\ UNCHANGED settled)
  /\ WF_allVars((MinedAndExecuted \/ MinedAndReverted) /\ UNCHANGED settled)

SettledSpec == SettledInit /\ [][SettledNext]_allVars /\ SettledFairness

(***************************************************************************)
(* The purpose of the service: with a key, every queued operation is       *)
(* processed, whatever went wrong before things settled.  It depends on    *)
(* the ticks trying again, on stale calls reverting harmlessly, and on the *)
(* nonce counter recovering from every failed send and lost transaction.   *)
(***************************************************************************)
EveryOperationProcessed ==
  \A r \in Registries, k \in 1 .. MaxQueue :
    (settled /\ hasKey /\ Len(queue[r]) >= k) ~> (pointer[r] >= k)

=============================================================================
