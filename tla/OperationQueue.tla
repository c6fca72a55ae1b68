--------------------------- MODULE OperationQueue ---------------------------
(***************************************************************************)
(* What a registry with its queue processor promises to guardians, without *)
(* pointers, states, indexes or proofs: operations are carried out one at  *)
(* a time in the order in which they were requested, and a certificate is  *)
(* valid from the operation that issues it to the one that revokes it,     *)
(* once and for all.                                                       *)
(***************************************************************************)
EXTENDS Integers, Sequences

CONSTANTS Registries, Certs

VARIABLES
  waiting,   \* the certificates whose operations are outstanding, in order
  valid,     \* the issued certificates that have not been revoked
  revoked    \* the revoked ones

queueVars == <<waiting, valid, revoked>>

Init ==
  /\ waiting = [r \in Registries |-> <<>>]
  /\ valid   = [r \in Registries |-> {}]
  /\ revoked = [r \in Registries |-> {}]

\* A guardian asks for a certificate to be issued or revoked.
Request(r, h) ==
  /\ \A k \in 1 .. Len(waiting[r]) : waiting[r][k] # h
  /\ h \notin revoked[r]
  /\ waiting' = [waiting EXCEPT ![r] = Append(@, h)]
  /\ UNCHANGED <<valid, revoked>>

\* The oldest outstanding operation is carried out.
Perform(r) ==
  /\ waiting[r] # <<>>
  /\ waiting' = [waiting EXCEPT ![r] = Tail(@)]
  /\ LET h == Head(waiting[r]) IN
       IF h \in valid[r]
       THEN /\ valid'   = [valid EXCEPT ![r] = @ \ {h}]
            /\ revoked' = [revoked EXCEPT ![r] = @ \cup {h}]
       ELSE /\ valid'   = [valid EXCEPT ![r] = @ \cup {h}]
            /\ UNCHANGED revoked

Next == \E r \in Registries : Perform(r) \/ \E h \in Certs : Request(r, h)

Spec == Init /\ [][Next]_queueVars
=============================================================================
