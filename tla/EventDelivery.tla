---------------------------- MODULE EventDelivery ----------------------------
(***************************************************************************)
(* What the event listener promises to the subscribers of the bus, without *)
(* cycles, copies, chunks or progress: the events of a contract that is    *)
(* followed from a block are delivered one at a time, each the earliest    *)
(* one after that block that has not been delivered yet.  So none is       *)
(* passed over, repeated or early, and none is ever taken back.            *)
(***************************************************************************)
EXTENDS Integers, Sequences

CONSTANTS Contracts, Nil

VARIABLES
  emitted,   \* the contracts that emit an event worth delivering, by block
  from,      \* the block from which a contract is followed, or Nil
  received   \* the events delivered of it since, by their blocks

deliveryVars == <<emitted, from, received>>

Init ==
  /\ emitted  = <<>>
  /\ from     = [a \in Contracts |-> Nil]
  /\ received = [a \in Contracts |-> <<>>]

\* The chain gains a block in which some contracts emit events.
Emit(emitters) ==
  /\ emitted' = Append(emitted, emitters)
  /\ UNCHANGED <<from, received>>

\* a is followed, afresh, from some block on.
Follow(a) ==
  /\ from'[a] \in Nat
  /\ from'     = [from EXCEPT ![a] = from'[a]]
  /\ received' = [received EXCEPT ![a] = <<>>]
  /\ UNCHANGED emitted

\* Some contracts are no longer followed.
Unfollow(dropped) ==
  /\ from'     = [a \in Contracts |-> IF a \in dropped THEN Nil ELSE from[a]]
  /\ received' = [a \in Contracts |->
                    IF a \in dropped THEN <<>> ELSE received[a]]
  /\ UNCHANGED emitted

\* The events of a that have not been delivered.
Due(a) ==
  {b \in 1 .. Len(emitted) :
     /\ from[a] < b
     /\ a \in emitted[b]
     /\ \A i \in DOMAIN received[a] : received[a][i] # b}

Deliver(a, b) ==
  /\ from[a] # Nil
  /\ b \in Due(a)
  /\ \A c \in Due(a) : b <= c
  /\ received' = [received EXCEPT ![a] = Append(@, b)]
  /\ UNCHANGED <<emitted, from>>

Next ==
  \/ \E emitters \in SUBSET Contracts : Emit(emitters)
  \/ \E a \in Contracts : Follow(a)
  \/ \E dropped \in SUBSET Contracts : Unfollow(dropped)
  \/ \E a \in Contracts, b \in 1 .. Len(emitted) : Deliver(a, b)

Spec == Init /\ [][Next]_deliveryVars
=============================================================================
