------------------------ MODULE EventPipelineProofs ------------------------
(***************************************************************************)
(* Proofs about EventPipeline, for any contracts, start blocks and length  *)
(* of the chain: its steps are steps of the listener, which registers no   *)
(* contract amid a scan of it; the processor's lists are the latest part   *)
(* of the contracts' queues; and nothing lies before a scan that starts at *)
(* the initialisation of the contracts.                                    *)
(***************************************************************************)
EXTENDS EventPipeline, EventListenerProofs

-----------------------------------------------------------------------------
(* What main and the processor do to the listener.                         *)

LEMMA RegisterAtStartIsSafe ==
  ASSUME TypeOK, ScanInv, NEW a \in Contracts, RegisterAtStart(a)
  PROVE  /\ \E b \in Nat : Register(a, b)
         /\ ~InCycle(a)
         /\ SafeRegisters
<1>1. \E b \in Nat : Register(a, b)
  BY ListenerAssumption, PipelineAssumption
     DEF RegisterAtStart, RegisterContract, RegisterContractFromCurrent
<1>2. ~InCycle(a)
  BY DEF RegisterAtStart, ScanInv, InCycle
<1> QED
  BY <1>1, <1>2 DEF SafeRegisters

LEMMA PipelineStepKinds ==
  ASSUME TypeOK, ScanInv, [PipelineNext]_pipelineVars
  PROVE  /\ (\E a \in Contracts : RegisterAtStart(a)) \/ OtherStep
         /\ SafeRegisters \/ OtherStep
<1> USE DEF OtherStep
<1>1. CASE \E events \in [Contracts -> Topics \cup {Nil}] :
             MineAfterInit(events)
  BY <1>1 DEF MineAfterInit
<1>2. ASSUME NEW a \in Contracts, RegisterAtStart(a) PROVE SafeRegisters
  BY RegisterAtStartIsSafe, <1>2
<1>3. CASE \/ \E a \in Contracts : MonitorLocks(a) \/ MonitorUnlocks(a)
           \/ StartProcessor
           \/ UNCHANGED pipelineVars
  BY <1>3 DEF MonitorLocks, MonitorUnlocks, StartProcessor, pipelineVars
<1>4. CASE StartListener
  BY <1>4 DEF StartListener
<1>5. CASE PublishToProcessor
  BY <1>5 DEF PublishToProcessor, ListenerStep
<1>6. CASE ScanStep
  BY <1>6 DEF ScanStep, ListenerStep
<1>7. CASE ShutdownListener \/ ProcessRestart
  BY <1>7 DEF ShutdownListener, ProcessRestart
<1> QED
  BY <1>1, <1>2, <1>3, <1>4, <1>5, <1>6, <1>7 DEF PipelineNext

LEMMA SafeStepKeepsTypes ==
  ASSUME TypeOK, ScanInv, SafeRegisters \/ OtherStep
  PROVE  TypeOK' /\ ScanInv'
  BY RegistersKeepsTypes, OtherStepKeepsTypes DEF Registers, SafeRegisters

LEMMA ListenerInvariant ==
  PipelineSpec => [](TypeOK /\ ScanInv /\ ProgressInv)
<1>1. PipelineInit => TypeOK /\ ScanInv /\ ProgressInv
  BY InitTypes DEF PipelineInit, Init, ProgressInv
<1>2. TypeOK /\ ScanInv /\ ProgressInv /\ [PipelineNext]_pipelineVars
        => (TypeOK /\ ScanInv /\ ProgressInv)'
  BY PipelineStepKinds, SafeStepKeepsTypes, OtherStepKeepsProgress,
     SafeRegistersKeepsProgress
<1> QED
  BY <1>1, <1>2, PTL DEF PipelineSpec

(***************************************************************************)
(* Driven by main.go, the listener delivers every selected event once and  *)
(* in order, whatever the processor's handlers wait for: registration is   *)
(* over before the first scan, so that nothing has to be assumed of it.    *)
(***************************************************************************)
THEOREM PipelineDeliversExactlyOnce ==
  ASSUME Confirmations = 0
  PROVE  PipelineSpec => []ExactlyOnceInOrder
<1>1. PipelineInit => ExactlyOnceInOrder
  BY InitDelivers DEF PipelineInit
<1>2. TypeOK /\ ScanInv /\ ProgressInv /\ ExactlyOnceInOrder
        /\ [PipelineNext]_pipelineVars => ExactlyOnceInOrder'
  BY PipelineStepKinds, OtherStepDelivers, SafeRegistersDelivers
<1> QED
  BY <1>1, <1>2, ListenerInvariant, PTL DEF PipelineSpec

(***************************************************************************)
(* Step by step, the synchronous bus gets the next event that is due.      *)
(***************************************************************************)
THEOREM PipelineImplementsEventDelivery ==
  ASSUME Confirmations = 0
  PROVE  PipelineSpec => DeliversEvents
<1>1. PipelineInit => Delivery!Init
  BY InitImplements DEF PipelineInit
<1>2. TypeOK /\ ScanInv /\ ProgressInv /\ ExactlyOnceInOrder
        /\ [PipelineNext]_pipelineVars
        => [Delivery!Next]_(Delivery!deliveryVars)
  BY PipelineStepKinds, OtherStepImplements, SafeRegistersImplements
<1> QED
  BY <1>1, <1>2, ListenerInvariant, PipelineDeliversExactlyOnce, PTL
     DEF PipelineSpec, DeliversEvents, Delivery!Spec

(***************************************************************************)
(* However long the handlers wait for the monitors, after Shutdown the     *)
(* listener only finishes the chunk it is in.                              *)
(***************************************************************************)
THEOREM PipelineShuttingDownIsBounded == PipelineSpec => ShutdownIsBounded
<1>1. PipelineInit => StopsRunning
  BY InitStopsRunning DEF PipelineInit
<1>2. SafeRegisters => Registers
  BY DEF SafeRegisters, Registers
<1>3. TypeOK /\ ScanInv /\ StopsRunning /\ [PipelineNext]_pipelineVars
        => StopsRunning'
  BY <1>2, PipelineStepKinds, RegistersWindsDown, NextStopsRunning
<1>4. TypeOK /\ ScanInv /\ StopsRunning /\ [PipelineNext]_pipelineVars
        => [stopping /\ stopping' =>
              \/ UNCHANGED listenerVars
              \/ StepsToEnd' \in 0 .. StepsToEnd - 1]_vars
  BY <1>2, PipelineStepKinds, RegistersWindsDown, OtherStepWindsDown
     DEF WindsDown
<1> QED
  BY <1>1, <1>3, <1>4, ListenerInvariant, PTL
     DEF PipelineSpec, ShutdownIsBounded

-----------------------------------------------------------------------------
(* Type correctness.                                                       *)

ProcessorTypes ==
  /\ subscribed \in BOOLEAN
  /\ list \in [Contracts -> Seq(Nat)]
  /\ locked \subseteq Contracts

LEMMA HandlingEffect ==
  ASSUME TypeOK, ScanInv, ProcessorTypes, PublishToProcessor
  PROVE  /\ list' \in [Contracts -> Seq(Nat)]
         /\ \A a \in Contracts :
              list'[a] = IF a = work.contract /\ IsHandled
                         THEN Append(list[a], work.at) ELSE list[a]
<1>1. work.contract \in Contracts /\ work.at \in Nat
  BY PublishEffect DEF PublishToProcessor
<1>2. CASE IsHandled
  <2>1. list' = [list EXCEPT ![work.contract] =
                   Append(list[work.contract], work.at)]
    BY <1>2 DEF PublishToProcessor
  <2>2. Append(list[work.contract], work.at) \in Seq(Nat)
    BY <1>1 DEF ProcessorTypes
  <2> QED
    BY <1>1, <1>2, <2>1, <2>2 DEF ProcessorTypes
<1>3. CASE ~IsHandled
  BY <1>3 DEF PublishToProcessor, ProcessorTypes
<1> QED
  BY <1>2, <1>3

LEMMA NextProcessorTypes ==
  ASSUME TypeOK, ScanInv, ProcessorTypes, [PipelineNext]_pipelineVars
  PROVE  ProcessorTypes'
<1> USE DEF ProcessorTypes
<1>1. CASE PublishToProcessor
  BY <1>1, HandlingEffect DEF PublishToProcessor
<1>2. CASE ProcessRestart
  BY <1>2, EmptySequence DEF ProcessRestart
<1>3. CASE \E a \in Contracts : MonitorLocks(a) \/ MonitorUnlocks(a)
  BY <1>3 DEF MonitorLocks, MonitorUnlocks
<1>4. CASE StartProcessor
  BY <1>4 DEF StartProcessor
<1>5. CASE UNCHANGED processorVars
  BY <1>5 DEF processorVars
<1> QED
  BY <1>1, <1>2, <1>3, <1>4, <1>5
     DEF PipelineNext, MineAfterInit, RegisterAtStart, StartListener, ScanStep,
         ShutdownListener, pipelineVars

LEMMA InitProcessorTypes == PipelineInit => ProcessorTypes
  BY EmptySequence DEF PipelineInit, ProcessorTypes

LEMMA PipelineInvariant ==
  PipelineSpec => [](TypeOK /\ ScanInv /\ ProgressInv /\ ProcessorTypes)
<1>1. TypeOK /\ ScanInv /\ ProcessorTypes /\ [PipelineNext]_pipelineVars
        => ProcessorTypes'
  BY NextProcessorTypes
<1> QED
  BY <1>1, InitProcessorTypes, ListenerInvariant, PTL DEF PipelineSpec

(***************************************************************************)
(* Type correctness of the listener and of the processor's side.           *)
(***************************************************************************)
THEOREM PipelineTypeCorrect == PipelineSpec => []PipelineTypeOK
<1>1. TypeOK /\ ProcessorTypes => PipelineTypeOK
  BY DEF ProcessorTypes, PipelineTypeOK
<1> QED
  BY <1>1, PipelineInvariant, PTL

-----------------------------------------------------------------------------
(* The processor's list.                                                   *)

\* Nothing is listed before the processor has subscribed, which it does
\* after the listener was started.
NotYet ==
  /\ phase = "off" => ~subscribed
  /\ ~subscribed => \A a \in Contracts : list[a] = <<>>

\* The operations of a behind block k and up to where the listener is.
OperationsAfter(a, k) == {b \in k + 1 .. Scanned(a) : IsOperation(a, b)}

\* The part of a's queue that is missing from its list ends where the scan
\* began or later, so that blocks yet to be mined are no part of it.
LatestPart(a) ==
  /\ Ascends(list[a])
  /\ \E k \in contracts[a].start .. Scanned(a) :
       Blocks(list[a]) = OperationsAfter(a, k)

ListInv == \A a \in Contracts : contracts[a] # Nil => LatestPart(a)

LEMMA NextNotYet ==
  ASSUME TypeOK, ScanInv, ProcessorTypes, NotYet,
         [PipelineNext]_pipelineVars
  PROVE  NotYet'
<1> USE DEF NotYet
<1>1. CASE \/ \E events \in [Contracts -> Topics \cup {Nil}] :
                MineAfterInit(events)
           \/ \E a \in Contracts :
                RegisterAtStart(a) \/ MonitorLocks(a) \/ MonitorUnlocks(a)
           \/ UNCHANGED pipelineVars
  <2>1. UNCHANGED <<phase, subscribed, list>>
    BY <1>1
       DEF MineAfterInit, Mine, RegisterAtStart, RegisterContract,
           RegisterContractFromCurrent, Register, MonitorLocks,
           MonitorUnlocks, pipelineVars, vars, processorVars
  <2> QED
    BY <2>1
<1>2. CASE StartListener
  BY <1>2 DEF StartListener, Start, StartFails, processorVars
<1>3. CASE StartProcessor
  BY <1>3 DEF StartProcessor, vars
<1>4. CASE PublishToProcessor
  BY <1>4 DEF PublishToProcessor, PublishNext, IsHandled
<1>5. CASE ScanStep
  BY <1>5
     DEF ScanStep, Copy, EndCycle, Open, PassOver, QueryChunk, QueryFails,
         EndChunk, Exit, processorVars
<1>6. CASE ShutdownListener
  BY <1>6 DEF ShutdownListener, Shutdown, processorVars
<1>7. CASE ProcessRestart
  BY <1>7 DEF ProcessRestart
<1> QED
  BY <1>1, <1>2, <1>3, <1>4, <1>5, <1>6, <1>7 DEF PipelineNext

\* Operations up to the head stay what they are.
LEMMA IsOperationStays ==
  ASSUME TypeOK, OtherStep, NEW a \in Contracts, NEW b \in 1 .. head
  PROVE  IsOperation(a, b)' = IsOperation(a, b)
<1>1. CASE \E events \in [Contracts -> Topics \cup {Nil}] : Mine(events)
  <2>1. /\ chain'[b] = chain[b] /\ Len(chain') = Len(chain) + 1
        /\ Len(chain) \in Nat
    BY <1>1 DEF Mine, TypeOK, head
  <2> QED
    BY <2>1 DEF IsOperation, head
<1>2. CASE UNCHANGED chain
  BY <1>2 DEF IsOperation, head
<1> QED
  BY <1>1, <1>2
     DEF OtherStep, UnregisterContract, Start, StartFails, ListenerStep, Copy,
         EndCycle, Open, PassOver, QueryChunk, QueryFails, PublishNext,
         EndChunk, Exit, Shutdown, Restart, vars

\* An operation the listener comes past is appended, or nothing was
\* listed before it.
LEMMA HandlingKeepsLatestPart ==
  ASSUME Confirmations = 0, Filters = {} \/ OperationQueued \in Filters,
         TypeOK, ScanInv, ProgressInv, ProcessorTypes, NotYet,
         PublishToProcessor,
         NEW a \in Contracts, contracts[a] # Nil, a = work.contract,
         LatestPart(a)
  PROVE  LatestPart(a)'
<1> DEFINE at == work.at
<1>1. /\ at \in Nat /\ at <= head
      /\ contracts[a].start \in Nat /\ contracts[a].start <= at - 1
      /\ Scanned(a) = at - 1
  <2>1. PublishNext /\ work # Nil
    BY DEF PublishToProcessor, PublishNext, ScanInv
  <2> QED
    BY <2>1, PublishEffect, ScannedBounds, HeadIsNat DEF Scanned
<1>2. Scanned(a)' = at
  BY PublishEffect DEF PublishToProcessor, Scanned
<1>3. /\ contracts' = contracts
      /\ \A b \in Nat : IsOperation(a, b)' = IsOperation(a, b)
  BY DEF PublishToProcessor, PublishNext, IsOperation, head
<1>4. PICK k \in contracts[a].start .. at - 1 :
        Blocks(list[a]) = OperationsAfter(a, k)
  BY <1>1 DEF LatestPart
<1>5. k \in Nat /\ k < at /\ k \in contracts[a].start .. at
  BY <1>1, <1>4
<1>6. list[a] \in Seq(Nat)
  BY DEF ProcessorTypes
<1>7. ASSUME NEW m \in contracts[a].start .. at, Ascends(list'[a]),
             Blocks(list'[a]) = {b \in m + 1 .. at : IsOperation(a, b)}
      PROVE  LatestPart(a)'
  <2>1. OperationsAfter(a, m)' = {b \in m + 1 .. at : IsOperation(a, b)}
    BY <1>1, <1>2, <1>3 DEF OperationsAfter
  <2> QED
    BY <1>2, <1>3, <1>7, <2>1 DEF LatestPart
<1>8. CASE ~IsOperation(a, at)
  <2>1. list'[a] = list[a]
    BY <1>1, <1>8, HandlingEffect DEF IsHandled, IsOperation
  <2>2. Blocks(list[a]) = {b \in k + 1 .. at : IsOperation(a, b)}
    BY <1>1, <1>4, <1>5, <1>8 DEF OperationsAfter
  <2> QED
    BY <1>5, <1>7, <2>1, <2>2 DEF LatestPart
<1>9. CASE IsOperation(a, at) /\ ~subscribed
  <2>1. list'[a] = <<>>
    BY <1>9, HandlingEffect DEF IsHandled, NotYet
  <2>2. {b \in at + 1 .. at : IsOperation(a, b)} = {}
    BY <1>1
  <2>3. at \in contracts[a].start .. at
    BY <1>1
  <2> QED
    BY <1>7, <2>1, <2>2, <2>3, NoBlocks
<1>10. CASE IsOperation(a, at) /\ subscribed
  <2>1. IsHandled
    BY <1>10, ListenerAssumption, PipelineAssumption
       DEF IsHandled, IsOperation, Selected, Confirmed
  <2>2. list'[a] = Append(list[a], at)
    BY <2>1, HandlingEffect
  <2>3. \A b \in Blocks(list[a]) : b < at
    BY <1>1, <1>4, <1>5 DEF OperationsAfter
  <2>4. Ascends(list'[a])
    BY <1>1, <1>6, <2>2, <2>3, AscendsOnAppend DEF LatestPart
  <2>5. Blocks(list'[a]) = Blocks(list[a]) \cup {at}
    BY <1>1, <1>6, <2>2, BlocksOfAppend
  <2>6. Blocks(list'[a]) = {b \in k + 1 .. at : IsOperation(a, b)}
    BY <1>1, <1>4, <1>5, <1>10, <2>5 DEF OperationsAfter
  <2> QED
    BY <1>5, <1>7, <2>4, <2>6
<1> QED
  BY <1>8, <1>9, <1>10

\* The list only changes when the listener comes past an operation.
LEMMA ListStays ==
  ASSUME TypeOK, ScanInv, ProcessorTypes, [PipelineNext]_pipelineVars,
         NEW a \in Contracts, contracts'[a] # Nil,
         ~(PublishToProcessor /\ a = work.contract)
  PROVE  list'[a] = list[a]
<1>1. CASE PublishToProcessor
  BY <1>1, HandlingEffect
<1>2. ~ProcessRestart
  BY DEF ProcessRestart, Restart
<1> QED
  BY <1>1, <1>2
     DEF PipelineNext, MineAfterInit, RegisterAtStart, MonitorLocks,
         MonitorUnlocks, StartListener, StartProcessor, ScanStep,
         ShutdownListener, pipelineVars, processorVars

\* A PublishNext of the pipeline is one that the processor sees.
LEMMA PublishIsHandled ==
  ASSUME TypeOK, ScanInv, [PipelineNext]_pipelineVars, PublishNext
  PROVE  PublishToProcessor
<1>1. phase = "publish" /\ phase' = "publish" /\ work' # work
      /\ UNCHANGED <<chain, contracts, copies, stopping>>
  <2>1. work'.at = work.at + 1 /\ work.at \in Nat
    BY PublishEffect
  <2>2. work' # work
    BY <2>1
  <2>3. /\ phase = "publish" /\ phase' = phase
        /\ UNCHANGED <<chain, contracts, copies, stopping>>
    BY DEF PublishNext
  <2> QED
    BY <2>2, <2>3
<1> QED
  BY <1>1
     DEF PipelineNext, MineAfterInit, Mine, RegisterAtStart, RegisterContract,
         RegisterContractFromCurrent, Register, MonitorLocks, MonitorUnlocks,
         StartListener, Start, StartFails, StartProcessor, ScanStep, Copy,
         EndCycle, Open, PassOver, QueryChunk, QueryFails, EndChunk, Exit,
         ShutdownListener, Shutdown, ProcessRestart, Restart, pipelineVars,
         vars

LEMMA NextListInv ==
  ASSUME Confirmations = 0, Filters = {} \/ OperationQueued \in Filters,
         TypeOK, ScanInv, ProgressInv, ProcessorTypes, NotYet, ListInv,
         [PipelineNext]_pipelineVars
  PROVE  ListInv'
<1> SUFFICES ASSUME NEW a \in Contracts, contracts'[a] # Nil
             PROVE  LatestPart(a)'
  BY DEF ListInv
<1>1. ASSUME NEW c \in Contracts, RegisterAtStart(c)
      PROVE  LatestPart(a)'
  <2>1. UNCHANGED <<chain, work, list>>
    BY <1>1 DEF RegisterAtStart, RegisterContract,
                RegisterContractFromCurrent, Register, processorVars
  <2>2. PICK b \in Nat : Register(c, b)
    BY <1>1, RegisterAtStartIsSafe
  <2>3. CASE a = c
    <3>1. list'[a] = <<>>
      BY <1>1, <2>1 DEF RegisterAtStart, NotYet
    <3>2. contracts'[a].start = b /\ Scanned(a)' = b
      BY <1>1, <2>1, <2>2, <2>3, RegisterEffect, RegisterAtStartIsSafe
         DEF Scanned, InCycle
    <3>3. OperationsAfter(a, b)' = {}
      BY <3>2 DEF OperationsAfter
    <3>4. /\ b \in contracts'[a].start .. Scanned(a)'
          /\ Blocks(list'[a]) = OperationsAfter(a, b)'
      BY <3>1, <3>2, <3>3, NoBlocks
    <3> QED
      BY <3>1, <3>4, NoBlocks DEF LatestPart
  <2>4. CASE a # c
    <3>1. contracts'[a] = contracts[a]
      BY <2>2, <2>4, RegisterEffect
    <3>2. Scanned(a)' = Scanned(a)
      BY <2>1, <3>1 DEF Scanned
    <3>3. \A k : OperationsAfter(a, k)' = OperationsAfter(a, k)
      BY <2>1, <3>2 DEF OperationsAfter, IsOperation, head
    <3>4. LatestPart(a)
      BY <3>1 DEF ListInv
    <3> QED
      BY <2>1, <3>1, <3>2, <3>3, <3>4 DEF LatestPart
  <2> QED
    BY <2>3, <2>4
<1>2. ASSUME OtherStep PROVE LatestPart(a)'
  <2>1. /\ contracts[a] # Nil
        /\ contracts'[a].start = contracts[a].start
        /\ ~(PublishNext /\ a = work.contract) => Scanned(a)' = Scanned(a)
    BY <1>2, ScannedMoves
  <2>2. LatestPart(a)
    BY <2>1 DEF ListInv
  <2>3. CASE PublishNext /\ a = work.contract
    BY <2>1, <2>2, <2>3, PublishIsHandled, HandlingKeepsLatestPart
  <2>4. CASE ~(PublishNext /\ a = work.contract)
    <3>1. list'[a] = list[a]
      BY <2>4, ListStays DEF PublishToProcessor
    <3>2. ASSUME NEW k \in contracts[a].start .. Scanned(a)
          PROVE  OperationsAfter(a, k)' = OperationsAfter(a, k)
      <4>1. \A b \in k + 1 .. Scanned(a) :
              IsOperation(a, b)' = IsOperation(a, b)
        BY <1>2, <2>1, ScannedBounds, HeadIsNat, IsOperationStays
      <4> QED
        BY <2>1, <2>4, <4>1 DEF OperationsAfter
    <3> QED
      BY <2>1, <2>2, <2>4, <3>1, <3>2 DEF LatestPart
  <2> QED
    BY <2>3, <2>4
<1>3. \/ \E c \in Contracts : RegisterAtStart(c)
      \/ OtherStep
  BY PipelineStepKinds
<1> QED
  BY <1>1, <1>2, <1>3

(***************************************************************************)
(* Registry.Queue is the latest part of the contract's queue, without a    *)
(* gap, a repetition or a change of order, however long the handlers wait  *)
(* for the monitors, whenever the processor subscribes and wherever the    *)
(* scan starts.  main.go sets no filter and requires no confirmations.     *)
(***************************************************************************)
THEOREM ListsLatestPart ==
  ASSUME Confirmations = 0, Filters = {} \/ OperationQueued \in Filters
  PROVE  PipelineSpec => []ListIsLatestPart
<1>1. PipelineInit => NotYet /\ ListInv
  BY DEF PipelineInit, Init, NotYet, ListInv
<1>2. TypeOK /\ ScanInv /\ ProgressInv /\ ProcessorTypes /\ NotYet /\ ListInv
        /\ [PipelineNext]_pipelineVars => (NotYet /\ ListInv)'
  BY NextNotYet, NextListInv
<1>3. TypeOK /\ ScanInv /\ ProgressInv /\ ListInv => ListIsLatestPart
  <2> SUFFICES ASSUME TypeOK, ScanInv, ProgressInv, ListInv,
                      NEW a \in Contracts, contracts[a] # Nil
               PROVE  /\ Ascends(list[a])
                      /\ \E k \in 0 .. Scanned(a) :
                           Blocks(list[a]) = OperationsAfter(a, k)
    BY DEF ListIsLatestPart, OperationsAfter
  <2>1. contracts[a].start \in Nat /\ Scanned(a) \in Nat
    BY ScannedBounds
  <2> QED
    BY <2>1 DEF ListInv, LatestPart
<1> QED
  BY <1>1, <1>2, <1>3, PipelineInvariant, PTL DEF PipelineSpec

-----------------------------------------------------------------------------
(* The history.                                                            *)

\* Nothing is emitted before the initialisation, and every scan starts
\* before it.
HistoryInv ==
  /\ \A b \in 1 .. head, a \in Contracts :
       chain[b][a] # Nil => b >= InitBlock
  /\ \A a \in Contracts :
       contracts[a] # Nil => contracts[a].start < InitBlock

LEMMA NextHistoryInv ==
  ASSUME \A s \in StartBlocks : s < InitBlock,
         TypeOK, ScanInv, ProgressInv, HistoryInv,
         [PipelineNext]_pipelineVars
  PROVE  HistoryInv'
<1>1. \A b \in 1 .. head', a \in Contracts :
        chain'[b][a] # Nil => b >= InitBlock
  <2>1. ASSUME NEW events \in [Contracts -> Topics \cup {Nil}],
               MineAfterInit(events)
        PROVE  \A b \in 1 .. head', a \in Contracts :
                 chain'[b][a] # Nil => b >= InitBlock
    <3>1. /\ Len(chain') = Len(chain) + 1 /\ Len(chain) \in Nat
          /\ chain'[Len(chain) + 1] = events
          /\ \A b \in 1 .. Len(chain) : chain'[b] = chain[b]
      BY <2>1 DEF MineAfterInit, Mine, TypeOK
    <3> QED
      BY <2>1, <3>1 DEF MineAfterInit, HistoryInv, head
  <2>2. CASE UNCHANGED chain
    BY <2>2 DEF HistoryInv, head
  <2> QED
    BY <2>1, <2>2
       DEF PipelineNext, RegisterAtStart, RegisterContract,
           RegisterContractFromCurrent, Register, MonitorLocks,
           MonitorUnlocks, StartListener, Start, StartFails, StartProcessor,
           PublishToProcessor, PublishNext, ScanStep, Copy, EndCycle, Open,
           PassOver, QueryChunk, QueryFails, EndChunk, Exit,
           ShutdownListener, Shutdown, ProcessRestart, Restart, pipelineVars,
           vars
<1>2. ASSUME NEW a \in Contracts, contracts'[a] # Nil
      PROVE  contracts'[a].start < InitBlock
  <2>1. ASSUME NEW c \in Contracts, RegisterAtStart(c)
        PROVE  contracts'[a].start < InitBlock
    <3>1. PICK b \in Nat : Register(c, b) /\ b < InitBlock
      BY <2>1, ListenerAssumption, PipelineAssumption
         DEF RegisterAtStart, RegisterContract, RegisterContractFromCurrent
    <3> QED
      BY <1>2, <3>1, RegisterEffect DEF HistoryInv
  <2>2. CASE OtherStep
    BY <1>2, <2>2, ScannedMoves DEF HistoryInv
  <2> QED
    BY <2>1, <2>2, PipelineStepKinds
<1> QED
  BY <1>1, <1>2 DEF HistoryInv

(***************************************************************************)
(* However main registers the contracts, no operation lies before a scan,  *)
(* and the bus has had every one up to where the listener is.              *)
(***************************************************************************)
THEOREM PublishesHistory ==
  ASSUME Confirmations = 0, Filters = {} \/ OperationQueued \in Filters
  PROVE  PipelineSpec => []HistoryIsPublished
<1>1. CASE \A s \in StartBlocks : s < InitBlock
  <2>1. PipelineInit => HistoryInv
    BY DEF PipelineInit, Init, HistoryInv, head
  <2>2. TypeOK /\ ScanInv /\ ProgressInv /\ HistoryInv
          /\ [PipelineNext]_pipelineVars => HistoryInv'
    BY <1>1, NextHistoryInv
  <2>3. TypeOK /\ ScanInv /\ ProgressInv /\ HistoryInv /\ ExactlyOnceInOrder
          => HistoryIsPublished
    <3> SUFFICES ASSUME TypeOK, ScanInv, ProgressInv, HistoryInv,
                        ExactlyOnceInOrder,
                        NEW a \in Contracts, NEW b \in 1 .. MaxBlock,
                        contracts[a] # Nil, IsOperation(a, b),
                        b <= Scanned(a)
                 PROVE  IsPublished(a, b)
      BY DEF HistoryIsPublished
    <3>1. /\ head \in Nat /\ contracts[a].start \in Nat
          /\ Scanned(a) \in Nat
      BY HeadIsNat, ScannedBounds
    <3>2. b \in Nat /\ b \in 1 .. head /\ chain[b][a] = OperationQueued
      BY <3>1, ListenerAssumption DEF IsOperation
    <3>3. OperationQueued # Nil
      BY ListenerAssumption, PipelineAssumption
    <3>4. IsOn(a, b)
      BY <3>1, <3>2, <3>3 DEF IsOn, Selected
    <3>5. contracts[a].start < b
      BY <3>1, <3>2, <3>3, PipelineAssumption DEF HistoryInv
    <3> QED
      BY <3>1, <3>2, <3>4, <3>5 DEF ExactlyOnceInOrder, IsPublished
  <2> QED
    BY <2>1, <2>2, <2>3, PipelineInvariant, PipelineDeliversExactlyOnce, PTL
       DEF PipelineSpec
<1>2. CASE ~(\A s \in StartBlocks : s < InitBlock)
  <2>1. HistoryIsPublished
    BY <1>2 DEF HistoryIsPublished
  <2> QED
    BY <2>1, PTL
<1> QED
  BY <1>1, <1>2

=============================================================================
