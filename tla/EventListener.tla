--------------------------- MODULE EventListener ---------------------------
(***************************************************************************)
(* evm.Service: one goroutine scans the blocks of every registered         *)
(* contract for events and publishes them on the event bus.  A cycle works *)
(* on copies of the contracts' records, contract by contract, in chunks of *)
(* at most MaxBlockRange blocks, and writes its progress back after each   *)
(* chunk; meanwhile the chain grows and contracts are (un)registered.      *)
(*                                                                         *)
(* A contract emits at most one event per block, told apart by its topic;  *)
(* an event is named by its block.                                         *)
(***************************************************************************)
EXTENDS Integers, Sequences, FiniteSets

CONSTANTS
  Contracts,      \* the addresses that may be monitored
  Topics,         \* event signatures
  Filters,        \* eventFilters: the topics to publish, all of them if empty
  Confirmations,  \* confirmations an event must have
  MaxBlockRange,  \* blocks per FilterLogs call
  StartBlocks,    \* the start blocks passed to RegisterContract
  Overlaps,       \* whether a contract is registered amid an earlier scan of it
  MaxBlock,       \* bound: the length of the chain
  Nil

ASSUME ListenerAssumption ==
  /\ IsFiniteSet(Contracts)
  /\ Filters \subseteq Topics
  /\ Confirmations \in Nat
  /\ MaxBlockRange \in Nat \ {0, 1}  \* WithMaxBlockRange ignores the others
  /\ StartBlocks \subseteq Nat
  /\ Overlaps \in BOOLEAN
  /\ MaxBlock \in Nat
  /\ Nil \notin Topics /\ Nil \notin Nat
  /\ Nil \notin [start: Nat, current: Nat]
  /\ Nil \notin [contract: Contracts, to: Nat, last: Nat, end: Nat, at: Nat]

VARIABLES
  chain,      \* the blocks: the topic of each contract's event, or Nil
  contracts,  \* Service.contracts: Nil or [start, current]
  phase,      \* where the listener goroutine is
  copies,     \* the copied CurrentBlock of the contracts left in this cycle
  work,       \* processContractEvents' locals, else Nil
  stopping,   \* Shutdown has cancelled the listener's context
  published   \* the events on the bus per contract since it was registered

listenerVars == <<phase, copies, work>>
vars == <<chain, contracts, phase, copies, work, stopping, published>>

head == Len(chain)

Init ==
  /\ chain     = <<>>
  /\ contracts = [a \in Contracts |-> Nil]
  /\ phase     = "off"
  /\ copies    = <<>>
  /\ work      = Nil
  /\ stopping  = FALSE
  /\ published = [a \in Contracts |-> <<>>]

\* The chain gains a block.
Mine(events) ==
  /\ head < MaxBlock
  /\ chain' = Append(chain, events)
  /\ UNCHANGED <<contracts, phase, copies, work, stopping, published>>

-----------------------------------------------------------------------------
(* Registration, under the write lock.                                     *)

\* The listener works, or is about to work, on a copy of a's record.
InCycle(a) == a \in DOMAIN copies \/ (work # Nil /\ work.contract = a)

Register(a, b) ==
  /\ Overlaps \/ ~InCycle(a)
  /\ contracts' = [contracts EXCEPT ![a] = [start |-> b, current |-> b]]
  /\ published' = [published EXCEPT ![a] = <<>>]
  /\ UNCHANGED <<chain, phase, copies, work, stopping>>

\* Faulty: the start block is taken to be one that is still to be scanned.
RegisterContractBefore(a, b) == Register(a, b - 1)

RegisterContract(a, b) == Register(a, b)

\* Block 0 when the query fails or there is no client yet: Start dials it.
RegisterContractFromCurrent(a) ==
  \/ phase # "off" /\ Register(a, head)
  \/ Register(a, 0)

UnregisterContract(a) ==
  /\ contracts' = [contracts EXCEPT ![a] = Nil]
  /\ UNCHANGED <<chain, phase, copies, work, stopping, published>>

-----------------------------------------------------------------------------
(* The listener.                                                           *)

\* The node is reached, ...
Start ==
  /\ phase = "off"
  /\ phase' = "cycle"
  /\ UNCHANGED <<chain, contracts, copies, work, stopping, published>>

\* ... or it is not, and the service stays off for good.
StartFails ==
  /\ phase = "off"
  /\ phase' = "failed"
  /\ UNCHANGED <<chain, contracts, copies, work, stopping, published>>

\* Faulty: the start of a cycle does not look at the context.
CopyRegardless ==
  /\ phase = "cycle"
  /\ copies' = [a \in {c \in Contracts : contracts[c] # Nil}
                  |-> contracts[a].current]
  /\ phase' = "next"
  /\ UNCHANGED <<chain, contracts, work, stopping, published>>

\* Copy every record, under the read lock.
Copy ==
  /\ phase = "cycle" /\ ~stopping
  /\ copies' = [a \in {c \in Contracts : contracts[c] # Nil}
                  |-> contracts[a].current]
  /\ phase' = "next"
  /\ UNCHANGED <<chain, contracts, work, stopping, published>>

\* All copies are dealt with: wait for the next cycle.
EndCycle ==
  /\ phase = "next"
  /\ DOMAIN copies = {}
  /\ phase' = "cycle"
  /\ UNCHANGED <<chain, contracts, copies, work, stopping, published>>

Taken(a) == copies' = [c \in DOMAIN copies \ {a} |-> copies[c]]

\* processContractEvents for one copy: HeaderByNumber answers, and there
\* are blocks to scan, ...
Open(a) ==
  /\ phase = "next" /\ ~stopping
  /\ copies[a] < head
  /\ Taken(a)
  /\ phase' = "query"
  /\ work' = [contract |-> a, to |-> head, last |-> copies[a],
              end |-> copies[a], at |-> copies[a] + 1]
  /\ UNCHANGED <<chain, contracts, stopping, published>>

\* ... or there are none, or the call fails.
PassOver(a) ==
  /\ phase = "next"
  /\ Taken(a)
  /\ UNCHANGED <<chain, contracts, phase, work, stopping, published>>

\* FilterLogs answers for the next chunk.
QueryChunk ==
  /\ phase = "query" /\ ~stopping
  /\ phase' = "publish"
  /\ work' = [work EXCEPT !.end = IF work.last + MaxBlockRange > work.to
                                  THEN work.to
                                  ELSE work.last + MaxBlockRange]
  /\ UNCHANGED <<chain, contracts, copies, stopping, published>>

UpdateContractBlock(a, b) ==
  contracts' = IF contracts[a] = Nil THEN contracts
               ELSE [contracts EXCEPT ![a].current = b]

\* Faulty: a failed query counts as a scan.
QueryFailsAsScanned ==
  /\ phase = "query"
  /\ UpdateContractBlock(work.contract, work.to)
  /\ phase' = "next"
  /\ work'  = Nil
  /\ UNCHANGED <<chain, copies, stopping, published>>

\* FilterLogs fails: keep what was done.
QueryFails ==
  /\ phase = "query"
  /\ UpdateContractBlock(work.contract, work.last)
  /\ phase' = "next"
  /\ work'  = Nil
  /\ UNCHANGED <<chain, copies, stopping, published>>

Selected(topic) == topic # Nil /\ (Filters = {} \/ topic \in Filters)

\* Enough blocks had been mined on top of b when this scan read the header.
Confirmed(b) == Confirmations > 0 => work.to - b >= Confirmations

\* Look at the next block's event; Publish runs the subscribers before it
\* returns.
PublishNext ==
  /\ phase = "publish"
  /\ work.at <= work.end
  /\ LET a == work.contract IN
       published' =
         IF Selected(chain[work.at][a]) /\ Confirmed(work.at)
         THEN [published EXCEPT ![a] = Append(@, work.at)]
         ELSE published
  /\ work' = [work EXCEPT !.at = @ + 1]
  /\ UNCHANGED <<chain, contracts, phase, copies, stopping>>

\* Faulty: the first chunk is taken for the whole scan.
EndChunkAsScan ==
  /\ phase = "publish"
  /\ work.at > work.end
  /\ UpdateContractBlock(work.contract, work.to)
  /\ phase' = "next"
  /\ work'  = Nil
  /\ UNCHANGED <<chain, copies, stopping, published>>

\* Faulty: the progress stays in the copy.
EndChunkUnrecorded ==
  /\ phase = "publish"
  /\ work.at > work.end
  /\ IF work.end < work.to
     THEN phase' = "query" /\ work' = [work EXCEPT !.last = work.end]
     ELSE phase' = "next"  /\ work' = Nil
  /\ UNCHANGED <<chain, contracts, copies, stopping, published>>

\* The chunk is done: write the progress back, go on or return.
EndChunk ==
  /\ phase = "publish"
  /\ work.at > work.end
  /\ UpdateContractBlock(work.contract, work.end)
  /\ IF work.end < work.to
     THEN phase' = "query" /\ work' = [work EXCEPT !.last = work.end]
     ELSE phase' = "next"  /\ work' = Nil
  /\ UNCHANGED <<chain, copies, stopping, published>>

-----------------------------------------------------------------------------
\* Shutdown cancels the context; calls under it fail from then on.
Shutdown ==
  /\ ~stopping
  /\ phase \notin {"off", "failed"}
  /\ stopping' = TRUE
  /\ UNCHANGED <<chain, contracts, phase, copies, work, published>>

\* Between two contracts, or between cycles, the listener sees it and ends.
Exit ==
  /\ stopping
  /\ phase \in {"cycle", "next"}
  /\ phase'  = "stopped"
  /\ copies' = <<>>
  /\ UNCHANGED <<chain, contracts, work, stopping, published>>

\* The process ends, however far the listener is, and is started anew.
Restart ==
  /\ contracts' = [a \in Contracts |-> Nil]
  /\ phase'     = "off"
  /\ copies'    = <<>>
  /\ work'      = Nil
  /\ stopping'  = FALSE
  /\ published' = [a \in Contracts |-> <<>>]
  /\ UNCHANGED chain

ListenerStep ==
  \/ Copy
  \/ EndCycle
  \/ \E a \in DOMAIN copies : Open(a) \/ PassOver(a)
  \/ QueryChunk
  \/ QueryFails
  \/ PublishNext
  \/ EndChunk
  \/ Exit

Next ==
  \/ \E events \in [Contracts -> Topics \cup {Nil}] : Mine(events)
  \/ \E a \in Contracts :
       \/ \E b \in StartBlocks : RegisterContract(a, b)
       \/ RegisterContractFromCurrent(a)
       \/ UnregisterContract(a)
  \/ Start
  \/ StartFails
  \/ ListenerStep
  \/ Shutdown
  \/ Restart

Spec == Init /\ [][Next]_vars

-----------------------------------------------------------------------------
Phases == {"off", "failed", "cycle", "next", "query", "publish", "stopped"}

TypeOK ==
  /\ chain     \in Seq([Contracts -> Topics \cup {Nil}])
  /\ contracts \in [Contracts -> [start: Nat, current: Nat] \cup {Nil}]
  /\ phase     \in Phases
  /\ DOMAIN copies \subseteq Contracts
  /\ \A a \in DOMAIN copies : copies[a] \in Nat
  /\ work \in [contract: Contracts, to: Nat, last: Nat, end: Nat, at: Nat]
               \cup {Nil}
  /\ stopping  \in BOOLEAN
  /\ published \in [Contracts -> Seq(Nat)]

\* The last block whose events the listener has looked at for a.
Scanned(a) ==
  IF work # Nil /\ work.contract = a THEN work.at - 1 ELSE contracts[a].current

IsOn(a, b) == b <= head /\ Selected(chain[b][a])

Blocks(s) == {s[i] : i \in DOMAIN s}

IsPublished(a, b) == b \in Blocks(published[a])

\* The events of s are in the order of the chain, none of them twice.
Ascends(s) == \A i, j \in DOMAIN s : i < j => s[i] < s[j]

(***************************************************************************)
(* The bus has received each selected event after the start block exactly  *)
(* once and in the order of the chain, up to where the listener is, across *)
(* chunks, failed queries and cycles over outdated copies.  Contracts come  *)
(* and go meanwhile, but none is registered amid an earlier scan of it,    *)
(* and no confirmations are required; main.go, which registers before      *)
(* Start, keeps to both.                                                   *)
(***************************************************************************)
ExactlyOnceInOrder ==
  \A a \in Contracts :
    contracts[a] # Nil =>
      /\ Ascends(published[a])
      /\ Blocks(published[a]) =
           {b \in contracts[a].start + 1 .. Scanned(a) : IsOn(a, b)}

(***************************************************************************)
(* No selected event behind a contract's progress is missing from the bus: *)
(* progress is only recorded past events that were published.  A contract  *)
(* registered anew while the listener works on a copy of its old record    *)
(* ("a copy to avoid race conditions") does not have this: the old scan    *)
(* writes its progress into the new record.                                *)
(***************************************************************************)
ProgressIsPublished ==
  \A a \in Contracts :
    contracts[a] # Nil =>
      \A b \in contracts[a].start + 1 .. contracts[a].current :
        IsOn(a, b) => IsPublished(a, b)

-----------------------------------------------------------------------------
(* What the subscribers see.                                               *)

Emitted  == [b \in 1 .. head |-> {a \in Contracts : Selected(chain[b][a])}]
From     == [a \in Contracts |->
               IF contracts[a] = Nil THEN Nil ELSE contracts[a].start]
Received == [a \in Contracts |->
               IF contracts[a] = Nil THEN <<>> ELSE published[a]]

Delivery == INSTANCE EventDelivery
  WITH emitted <- Emitted, from <- From, received <- Received

(***************************************************************************)
(* Step by step, the bus gets the next event that is due and nothing else, *)
(* although the listener reads heads and copies that are out of date,      *)
(* gives up scans halfway and does the contracts in any order: it          *)
(* implements EventDelivery, where ExactlyOnceInOrder can be expected.     *)
(***************************************************************************)
DeliversEvents == Delivery!Spec

-----------------------------------------------------------------------------
\* The steps still ahead of the listener after Shutdown: the rest of the
\* chunk it is in and one for each copy that is left.
StepsToEnd ==
  LET rest == Cardinality(DOMAIN copies) + 2 IN
    CASE phase = "publish" -> rest + 2 + (work.end + 1 - work.at)
      [] phase = "query"   -> rest + 1
      [] phase = "next"    -> rest
      [] phase = "cycle"   -> 1
      [] OTHER             -> 0

(***************************************************************************)
(* After Shutdown the listener finishes the chunk it is in and nothing     *)
(* else: no step asks the node again or starts a cycle, and each one leads *)
(* towards the end, whatever is registered and mined meanwhile.            *)
(***************************************************************************)
ShutdownIsBounded ==
  [][stopping /\ stopping' =>
       \/ UNCHANGED listenerVars
       \/ StepsToEnd' \in 0 .. StepsToEnd - 1]_vars

-----------------------------------------------------------------------------
\* The goroutine keeps running and every call returns.
FairSpec == Spec /\ WF_vars(ListenerStep)

\* A call fails that could have been answered, or the process ends.
Glitch ==
  \/ \E a \in DOMAIN copies : PassOver(a) /\ copies[a] < head
  \/ QueryFails
  \/ Restart

\* The service gets started and is not shut down; from some time on nothing
\* fails.
Settles ==
  WF_vars(Start) /\ <>[](~stopping /\ phase # "failed") /\ <>[][~Glitch]_vars

(***************************************************************************)
(* Once confirmed, a selected event after the start block of a registered  *)
(* contract reaches the bus, if things settle.  With Confirmations > 0 it  *)
(* need not: an event skipped "for now" lies behind the recorded progress  *)
(* and is not looked at again.                                             *)
(***************************************************************************)
EventsArePublished ==
  Settles =>
    \A a \in Contracts, b \in 1 .. MaxBlock :
      (/\ contracts[a] # Nil
       /\ contracts[a].start < b
       /\ IsOn(a, b)
       /\ head - b >= Confirmations)
      ~> (contracts[a] = Nil \/ contracts[a].start >= b \/ IsPublished(a, b))

(***************************************************************************)
(* After Shutdown the listener ends, so that the wait in Shutdown does,    *)
(* from any point of a scan and whether or not calls still succeed.        *)
(***************************************************************************)
ShutdownEndsListener == stopping ~> (phase \in {"stopped", "off"})

=============================================================================
