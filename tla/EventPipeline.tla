---------------------------- MODULE EventPipeline ----------------------------
(***************************************************************************)
(* From the chain to the processor's lists.  main registers the contracts  *)
(* with the listener (EventListener) before it starts the services in the  *)
(* order listener, processor.  The bus is synchronous: the listener's      *)
(* goroutine runs main's subscriber, which parses the event, and then the  *)
(* processor's handleOperationQueued, which appends the operation to       *)
(* Registry.Queue under registry.Mu.  Until the processor has subscribed   *)
(* nobody receives the parsed events.  The goroutine waits in Publish      *)
(* while the registry's monitor holds the mutex, through all its calls,    *)
(* retries and backoffs (QueueProcessor!HoldsMu).                          *)
(***************************************************************************)
EXTENDS EventListener

CONSTANTS
  OperationQueued,  \* the topic that ParseOperationQueued accepts
  InitBlock         \* the contracts' initBlockHeight

ASSUME PipelineAssumption ==
  /\ OperationQueued \in Topics
  /\ InitBlock \in Nat \ {0}

VARIABLES
  subscribed,  \* the processor's handler is on the bus
  list,        \* Registry.Queue: the operations handled, named by their block
  locked       \* the registries whose monitor goroutine holds registry.Mu

processorVars == <<subscribed, list, locked>>
pipelineVars == <<vars, processorVars>>

PipelineInit ==
  /\ Init
  /\ subscribed = FALSE
  /\ list   = [a \in Contracts |-> <<>>]
  /\ locked = {}

-----------------------------------------------------------------------------
\* A contract emits nothing before it is initialised.  Bound: one contract
\* per block emits an event; the contracts are scanned one by one anyway.
MineAfterInit(events) ==
  /\ \A a \in Contracts : events[a] # Nil => head + 1 >= InitBlock
  /\ \A a, c \in Contracts : events[a] # Nil /\ events[c] # Nil => a = c
  /\ Mine(events)
  /\ UNCHANGED processorVars

\* Faulty: the block of the initialisation counts as scanned.
RegisterFromInitBlock(a) ==
  /\ phase = "off" /\ contracts[a] = Nil
  /\ \/ \E b \in StartBlocks : RegisterContract(a, b)
     \/ RegisterContract(a, InitBlock)
     \/ RegisterContractFromCurrent(a)
  /\ UNCHANGED processorVars

\* main registers a contract from its configured start block, from the one
\* before its initBlockHeight, or, when that cannot be read, from the
\* current block.
RegisterAtStart(a) ==
  /\ phase = "off" /\ contracts[a] = Nil
  /\ \/ \E b \in StartBlocks : RegisterContract(a, b)
     \/ RegisterContract(a, InitBlock - 1)
     \/ RegisterContractFromCurrent(a)
  /\ UNCHANGED processorVars

\* StartAll starts the listener ...
StartListener ==
  /\ \A a \in Contracts : contracts[a] # Nil
  /\ Start \/ StartFails
  /\ UNCHANGED processorVars

\* ... and then the processor, which subscribes and starts its monitors.
StartProcessor ==
  /\ phase # "off" /\ ~subscribed
  /\ subscribed' = TRUE
  /\ UNCHANGED <<vars, list, locked>>

MonitorLocks(a) ==
  /\ subscribed
  /\ a \notin locked
  /\ locked' = locked \cup {a}
  /\ UNCHANGED <<vars, subscribed, list>>

MonitorUnlocks(a) ==
  /\ a \in locked
  /\ locked' = locked \ {a}
  /\ UNCHANGED <<vars, subscribed, list>>

-----------------------------------------------------------------------------
\* The next event is an operation that the processor's handler will see:
\* it is published, parsed, and somebody listens.
IsHandled ==
  /\ Selected(chain[work.at][work.contract]) /\ Confirmed(work.at)
  /\ chain[work.at][work.contract] = OperationQueued
  /\ subscribed

\* Faulty: the handler does not wait for the mutex.
PublishWithoutWaiting ==
  /\ PublishNext
  /\ list' = IF IsHandled /\ work.contract \notin locked
             THEN [list EXCEPT ![work.contract] = Append(@, work.at)]
             ELSE list
  /\ UNCHANGED <<subscribed, locked>>

\* Publish runs main's subscriber and handleOperationQueued.
PublishToProcessor ==
  /\ PublishNext
  /\ IF IsHandled
     THEN /\ work.contract \notin locked
          /\ list' = [list EXCEPT ![work.contract] = Append(@, work.at)]
     ELSE UNCHANGED list
  /\ UNCHANGED <<subscribed, locked>>

\* The listener's other steps.
ScanStep ==
  /\ \/ Copy
     \/ EndCycle
     \/ \E a \in DOMAIN copies : Open(a) \/ PassOver(a)
     \/ QueryChunk
     \/ QueryFails
     \/ EndChunk
     \/ Exit
  /\ UNCHANGED processorVars

\* The manager shuts down what it has started.
ShutdownListener == subscribed /\ Shutdown /\ UNCHANGED processorVars

ProcessRestart ==
  /\ Restart
  /\ subscribed' = FALSE
  /\ list'   = [a \in Contracts |-> <<>>]
  /\ locked' = {}

PipelineNext ==
  \/ \E events \in [Contracts -> Topics \cup {Nil}] : MineAfterInit(events)
  \/ \E a \in Contracts :
       RegisterAtStart(a) \/ MonitorLocks(a) \/ MonitorUnlocks(a)
  \/ StartListener
  \/ StartProcessor
  \/ PublishToProcessor
  \/ ScanStep
  \/ ShutdownListener
  \/ ProcessRestart

\* The listener's goroutine keeps running and calls return.  A monitor lets
\* go of its mutex (QueueProcessor!MuIsReleased), and sync.Mutex starves
\* nobody who waits for it.
PipelineFairness ==
  /\ WF_pipelineVars(StartProcessor)
  /\ WF_pipelineVars(ScanStep)
  /\ SF_pipelineVars(PublishToProcessor)
  /\ \A a \in Contracts : WF_pipelineVars(MonitorUnlocks(a))

PipelineSpec == PipelineInit /\ [][PipelineNext]_pipelineVars /\ PipelineFairness

-----------------------------------------------------------------------------
PipelineTypeOK ==
  /\ TypeOK
  /\ subscribed \in BOOLEAN
  /\ list \in [Contracts -> Seq(Nat)]
  /\ locked \subseteq Contracts

IsOperation(a, b) == b <= head /\ chain[b][a] = OperationQueued

(***************************************************************************)
(* What Registry.Queue holds is the latest part of the contract's queue,   *)
(* without a gap, a repetition or a change of order: an operation is only  *)
(* missing if the ones before it are missing too, because the scan started *)
(* after them or the processor had not subscribed yet.  Failing queries,   *)
(* chunks, other events and a busy monitor change nothing.                 *)
(***************************************************************************)
ListIsLatestPart ==
  \A a \in Contracts :
    contracts[a] # Nil =>
      /\ Ascends(list[a])
      /\ \E k \in 0 .. Scanned(a) :
           Blocks(list[a]) = {b \in k + 1 .. Scanned(a) : IsOperation(a, b)}

(***************************************************************************)
(* However main registers a contract, no operation lies before the scan,   *)
(* unless the configuration gives a start block behind the initialisation: *)
(* the bus has had every operation the contract ever queued, up to where   *)
(* the listener is.  It needs the - 1, because a start block counts as     *)
(* scanned already, and it needs RegisterContractFromCurrent to have no    *)
(* client yet, because the current block may be behind queued operations.  *)
(***************************************************************************)
HistoryIsPublished ==
  (\A s \in StartBlocks : s < InitBlock) =>
  \A a \in Contracts, b \in 1 .. MaxBlock :
    (contracts[a] # Nil /\ IsOperation(a, b) /\ b <= Scanned(a))
      => IsPublished(a, b)

IsListed(a, b) == b \in Blocks(list[a])

(***************************************************************************)
(* Once the processor has subscribed, every operation the listener has not *)
(* come past yet reaches Registry.Queue, if things settle, although the    *)
(* listener has to wait for the registry's monitor again and again.        *)
(***************************************************************************)
OperationsAreListed ==
  Settles =>
    \A a \in Contracts, b \in InitBlock .. MaxBlock :
      (/\ subscribed
       /\ contracts[a] # Nil
       /\ Scanned(a) < b
       /\ IsOperation(a, b))
      ~> (contracts[a] = Nil \/ ~subscribed \/ IsListed(a, b))

=============================================================================
