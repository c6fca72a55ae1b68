# zkCertificates queue processor: TLA+ models and proofs

The service watches the queues of several `ZkCertificateRegistry` contracts and
carries out the queued operations: it asks a Merkle proof service for a proof and
sends `processNextOperation` for the operation at the head of each queue. This
directory holds its TLA+ models, the TLC configurations that check them on small
instances, and proofs that hold for every value of the constants.

    tlc -config MCOneRegistry.cfg QueueProgress.tla     # any row of the table of runs
    tlapm QueueProcessorProofs.tla

## The system

| Part | Code | State | Operations | Talks to |
|---|---|---|---|---|
| Monitor goroutines | `queueprocessor/processor.go` 154-344, 454-546 | per registry: nothing between ticks; `registry.Mu` while it works | tick: read pointer, length, item, data, turn; fetch a proof; submit | contract (calls), proof service (gRPC), submission path |
| Submission path | `processor.go` 362-452 | `currentNonce` under `nonceMu`, shared by all registries | `prepareTransactor`, `submitWithRetry` | node |
| Wide events | `logging/builder.go`, `wide_event.go` | the builder of each operation | `With...`, `Emit...` | log, Sentry |
| Registry contracts | external (binding in `zkregistry/`) | queue, pointer, certificate states, tree | guardians add, anyone processes the head | - |
| Event listener | `evm/evm.go`, `options.go` | contract records under `mu`, client, cancel | (un)register, scan, `Start`, `Shutdown` | node, event bus |
| Event pipeline | `main.go` 108-185, `processor.go` 219-240 | `registry.Queue` | parse an event, publish it again, append | bus, synchronously in the listener's goroutine |
| Service manager | `service/manager.go` | list of services | `Register`, `StartAll`, `WaitForShutdown`, `ShutdownAll` | the services |
| `main` and Sentry | `main.go`, `sentry/` | reports not sent yet | set up, capture, flush, exit | everything |
| HTTP server | `server/` | - | `Start`, `Shutdown` | - |

How they interact: `main` registers the contracts with the listener *before* it
starts the services in the order server, listener, processor. The listener publishes
contract events on the bus; `main`'s subscriber parses them and publishes
`OperationQueuedEvent`s, which the processor appends to a list under `registry.Mu`.
No decision depends on that list: the processor works from the chain alone, polling
every ten seconds. All registries send from one account, so their goroutines meet in
`currentNonce` and in the node's pool. Each operation leaves one log record, and the
failures go to Sentry. A signal shuts the services down under a common deadline of 30
seconds; a panic in a goroutine, or a server that cannot serve, ends the process.

What is hard here:

- reads of a moving contract in separate calls, then a proof of a possibly older tree;
- one nonce counter for several goroutines that fail and reset it independently;
- nothing waits for a transaction to be mined, so every tick may send the same
  operation again, and a duplicate can be mined at any later time;
- replies get lost, the node forgets transactions, the process dies and starts anew;
- the listener scans copies of its records while the originals change, and waits in
  `Publish` for a mutex that is held over network calls and backoffs;
- a shutdown races with work, failures and panics in several goroutines.

`PROJECT.json` lists each of these hazards at its line, with the properties that
would catch it.

What makes each part correct:

- *Submission*: no failure leaves a nonce that nobody will fill below the counter, and
  a registry alone on its account always holds the next free nonce.
- *Records*: each operation ends in exactly one, and what it says of the transaction is
  true of what the node took.
- *Monitor*: whatever happens between its reads, it never submits for an operation that
  is not at the head; it lets go of the mutex; in the end every operation is processed.
- *Contract*: queue, states and tree agree; it is a FIFO of operations.
- *Listener*: each selected event is published exactly once, in order, and eventually;
  it ends after `Shutdown`.
- *Pipeline*: the processor's list is a gapless latest part of the contract's queue, and
  everything published after it subscribed gets there.
- *Life of the process*: a shutdown ends; exit status 0 means that every failure an
  operation ended in was reported, and that no operation was cut off, unless by a panic of
  its own goroutine; whoever ends the process otherwise has reported why.

## Modules

| Module | Models |
|---|---|
| `TxSubmission` | `prepareTransactor` and `submitWithRetry`, the shared counter, the node's pool |
| `OperationRecord` | `processIssuance`/`processRevocation` around it, with the record each operation leaves |
| `OperationQueue` | abstract: what a registry promises guardians |
| `CertificateRegistry` | the contracts; refines `OperationQueue` |
| `QueueProcessor` | the monitor goroutines, composed with contracts and `TxSubmission` |
| `QueueProgress` | `QueueProcessor` with a point from which nothing fails any more; liveness |
| `EventDelivery` | abstract: what the listener promises the subscribers of the bus |
| `EventListener` | `evm.Service`; refines `EventDelivery` |
| `EventPipeline` | `EventListener` with `main`'s registration and subscriber and the processor's handler |
| `ServiceLifecycle` | `main`, the service manager, what ends the process, Sentry's transport |
| `MCTxSubmission`, `MCOperationRecord`, `MCEventListener` | symmetry sets for TLC |
| `*Proofs`, `CertificateRegistryRefinement` | theorems |

Operators whose comment begins with "Faulty:" are deliberately wrong variants of the
definition that follows them, used to confirm that the properties can fail. No
specification uses them.

### TxSubmission

A nonce is written as its offset from the account's confirmed nonce, so that executing
a transaction (`Confirm`) lowers every offset by one and the state space is finite. The
code only compares and increments nonces. `stage` says where a goroutine is in
`submitWithRetry`: `prepare` (line 431), `submit` (438), `failed` (the end of a loop
body whose attempt failed). `TakeNonce` is one step because `nonceMu` is held across
`PendingNonceAt`. `Retry` is the head of the loop with its reset; the backoff that
follows is time spent in `prepare`, during which other goroutines move, as they do
while this one sleeps. `GiveUp` is the reset after the loop (446-451). The node may fail
(`PrepareFails`, `SendFails`), refuse (`Refused`: nonce too low, too far ahead, or
occupied), or take a transaction whose reply is lost (`SendReplyLost`). A second
transaction under a pending nonce may replace the first or be refused, as fees have it.

### OperationRecord

`builder[w]` is the `OperationBuilder` a goroutine holds, `line` and `alert` what a step
wrote to the log and to Sentry. `Begin` is `NewOperationBuilder` with its context;
`ProofFails`, `Skips`, `Succeeds` and `GivesUp` are the ends of an operation, each with
its `Emit...`; the other steps are `TxSubmission`'s. `submitWithRetry` returns in
`ReturnsResult` or `ReturnsError`, and `result[w]` is what it returned until `Succeeds`
or `GivesUp` records it (488-496, 537-545). No lock is held in between: blocks are mined
(`Confirms` lowers the offset in `result` with the others), and other registries send.
`lastNonce` is `submitWithRetry`'s local of that name, 0 in the code and `Nil` here when
no nonce was obtained. `active` lets one instance cover one registry and several.

Two history variables, which no guard reads, serve `RecordTellsTransactions`: `taken`
counts what the node took for the operation, and `executed` says whether the chain
executed the transaction that was returned for it. What a success record claims is that
the node took a transaction for the operation, under a nonce that is pending or used up by
the time of the record. That it is *this* transaction which is pending or executed
(`Stands`) holds for a registry alone on its account; another registry may have replaced
it under the same nonce, which `MCTxNonce` shows, and the record still reads success.

### CertificateRegistry and OperationQueue

The contract is not in this repository. Its behaviour is read off the calls the
processor makes and the bytecode the Go binding embeds; the comments give the bytecode
offsets. Two facts from there matter: `isZkCertificateInTurn` compares the queue index
with the pointer and nothing else, and `processNextOperation` chooses between issuance
and revocation by the certificate's *current* state, not by what the caller meant.
A Merkle root is represented by the leaves it commits to and a path by all other leaves,
so that a proof verifies exactly when it fits the tree (a collision-free hash).

`OperationQueue` has only a sequence of waiting certificates and the sets of valid and
revoked ones. `Waiting`, `Valid` and `Revoked` are the refinement mapping.

### QueueProcessor and QueueProgress

`step[r]` is the next call of registry `r`'s goroutine, `seen[r]` what it has read since
the tick: `ReadPointer`, `ReadLength` (with the test that opens `processQueueItems`),
`ReadItem`, `ReadData`, `ReadTurn` (with the switch), `ProcessIssuance` /
`ProcessRevocation` (proof, key check, entry into `submitWithRetry`). `CallFails` is the
error return after any of them. The world moves in between: `GuardianAdds`,
`MinedAndExecuted`, `MinedAndReverted`, `ServiceSyncs` (the proof service answers from
`served`, which may lag behind the tree), `NodeDrops`, `Restart`. A pending call records
the pointer and the state it was built for; these are not sent and serve the properties.

### EventListener

A cycle copies every record (`Copy`), then takes the copies in any order (a Go map):
`Open` reads the head, `QueryChunk` asks for a chunk, `PublishNext` handles one block of
it, `EndChunk` writes the progress back. `QueryFails` writes back what was done.
`StartFails` is a node that cannot be dialled: the service stays off for good.
`Shutdown` cancels the context, after which calls fail and `Exit` is taken at the places
where the code looks at `ctx.Done()`. A contract has at most one event in a block.
Contracts are registered and unregistered at any time, more freely than `main.go` does;
the constant `Overlaps` adds registering one of which the listener still holds an earlier
copy. The options of `options.go` are the constants, with the same limits.

`EventDelivery` knows neither cycles nor progress: a contract is followed from some
block, and its events are delivered one at a time, each the earliest that is due.
`Emitted` (the selected events), `From` (the start blocks) and `Received` (the events
published of a registered contract) are the refinement mapping.

### EventPipeline

All of `EventListener`'s steps, driven as `main.go` does: `RegisterAtStart` has the three
ways to choose a start block, `StartListener` comes before `StartProcessor`, and
`PublishToProcessor` runs the subscriber and `handleOperationQueued` inside `PublishNext`,
waiting for `registry.Mu`. Of the monitors only that mutex is left (`MonitorLocks`,
`MonitorUnlocks`): `QueueProcessor!MuIsReleased` justifies that it is released.

### ServiceLifecycle

`main` is the place in `main.go`; `work[g]` says whether a goroutine is between two looks
at its context or in a stretch of work; `stopped[s]` how far a service's `Shutdown` is;
`ending[x]` how far someone is on the way capture, flush, exit that all fatal paths share.
A monitor whose context is cancelled may still pick its ticker (Go's `select` chooses at
random) and start another operation; the listener may not. `"ended"` is a goroutine after
its `wg.Done`, which is what `Shutdown` waits for. A panic leaves the wait group (`defer
wg.Done()` of the inner function) before `RecoverAndCapture` sees it: a goroutine that
`Panics` has `"ended"` and is in `panicking`, with capture, flush and exit (status 2) still
ahead of it. `MainPanics` is the same for `main` (`main.go:38`), during set-up and start;
afterwards `main` only waits. `buffer` is what Sentry's transport still has to send;
`exit` ends everything.

## What the runs check

| Run | Checks | Instance |
|---|---|---|
| `MCRecords` | `NoOrphanedGap`, `NextNonceWhenAlone`, `RecordTellsTransactions`, `OneRecordEach`, types | 1 and 2 registries, 2 operations, 3 attempts, pool of 3 |
| `MCTxNonce` | `NoncesAreDistinct` **fails** | 2 registries |
| `MCRegistry` | `PendingInTurn`, `QueuedIsPending`, `TreeMatchesStates`, `KeepsPromise`, types | 3 certificates, each issued and revoked |
| `MCOneRegistry` | `BuiltForTheHead`, `OnlyTheHead`, `MuIsReleased`, `HoldIsBounded`, `EveryOperationProcessed`, types | 2 certificates, 3 operations, every mishap until things settle |
| `MCProcessedShared` | `EveryOperationProcessed` | 2 registries on one account, 1 operation each |
| `MCExecuted` | `ExecutedAsBuilt` **fails** | 1 certificate, nothing goes wrong |
| `MCListener` | `ExactlyOnceInOrder`, types | 2 contracts that come and go, 2 topics with a filter, 3 blocks, chunks of 2 |
| `MCListenerConfirmations` | `EventsArePublished` **fails** | 1 confirmation required |
| `MCListenerOverlap` | `ProgressIsPublished` **fails** | `Overlaps`: a contract registered amid an earlier scan of it |
| `MCPipeline` | `ListIsLatestPart`, `HistoryIsPublished`, `EventsArePublished`, `OperationsAreListed`, `ShutdownEndsListener`, `DeliversEvents`, `ShutdownIsBounded`, types | 2 contracts, 3 blocks, initialised in block 2, chunks of 2 |
| `MCLifecycle` | `GracefulStopIsComplete`, `CauseIsReported`, `ShutdownEnds`, types | 2 registries |
| `MCGraceful` | `NothingLeftBehind` **fails** | 1 registry |

### The disagreements

- `MCTxNonce`: `prepareTransactor` "creates a transactor with the next nonce"
  (`processor.go:383`). A failed attempt of one registry clears the counter while another
  holds a nonce it has not sent yet; the node, asked again, gives the same nonce out.
  One of the two sends is then refused, or replaces the other. `MCProcessedShared` shows
  that the next ticks repair this.
- `MCExecuted`: "processIssuance handles certificate issuance" (`processor.go:454`).
  With nothing failing, two ticks submit the same issuance; the first is mined, a
  guardian queues the revocation, and the second then carries out that revocation: same
  leaf, same path, and the contract goes by the current state. The operation was due, so
  no harm is done to the queue, but it happens under the name of an issuance and was
  logged as a successful one. More often a duplicate just reverts, after `EmitSuccess`.
- `MCListenerConfirmations`: "skip this event for now" (`evm.go:280`). The progress is
  advanced past the skipped event at the end of the chunk, so it is never published.
  `main.go` requires no confirmations.
- `MCListenerOverlap`: "Create a copy to avoid race conditions" (`evm.go:166`).
  The copy avoids the data race, but `updateContractBlock` writes the progress of a scan
  of the old record into a record registered meanwhile. `main.go` registers before
  `Start`.
- `MCGraceful`: "gracefully stops all services" (`manager.go:81`). The listener's
  `Shutdown` returns nil on a timeout, and a monitor that panics has left the wait group
  before the panic is reported; in both cases "all services stopped gracefully" is logged
  and the process may exit with 0 while the goroutine is still at work, or has cut off its
  operation and not yet reported the panic. This is why `GracefulStopIsComplete` leaves
  out the goroutines in `panicking`.

Some more, not worth a run:

- `RegisterContract` counts its start block as scanned. `main.go` allows for that when it
  reads `initBlockHeight` (166) but not with a configured start block (155), whose events
  are missed; the readme says that scanning "starts from there".
- `RegisterContractFromCurrent`, called by `main.go` before `Start`, has no client yet and
  starts from block 0. `HistoryIsPublished` holds because of it.
- `GetQueueLength` speaks of the "total queue length", but nothing is ever taken off the
  lists.
- `submitWithRetry` returns "the final nonce used", which is 0 when none was obtained;
  the record then shows nonce 0.
- The readme has `GET /health` and `PORT`; no route is registered, and the port is the
  constant "8080".

### Bounds, and why they are enough

- *Two workers* hold the interaction the submission path is about: one fails and resets
  the counter at any point of the other's attempt. What the runs check of it is also
  proved for any number.
- *`MaxRetries`* is 3 as in the code, except in the larger compositions, where 2 still
  has a first attempt, a retry and a last failure.
- *`PoolLimit`* bounds how far ahead of the confirmed nonce a transaction may be, as
  nodes do; exceeding it is an error the code handles like any other. After the node has
  forgotten transactions (`NodeDrops`) and nothing fails any more, it is this error that
  resets the counter: `EveryOperationProcessed` relies on it. `OperationRecord`
  has no `NodeDrops`: the "whatever failed" of `NextNonceWhenAlone` is about calls.
- *`MaxQueue`*: three operations on two certificates hold the interesting case, a
  certificate queued again behind another one between two reads. Six operations on three
  certificates are each certificate's whole life.
- *`MaxBlock` = 3, `MaxBlockRange` = 2*: a full chunk followed by a partial one. In the
  pipeline the contracts are initialised in block 2, so that starting before, at and
  after that block differ, and one contract emits in each block: a scan looks at one
  contract at a time, so which of them share a block makes no difference to it. There
  all events are operations; `MCListener` has a topic that is filtered out.
- *Two registries* in `MCLifecycle` let one goroutine fail or panic while another works.

`MCRegistry` does not check for deadlock: when every certificate is revoked, or the
bound on operations is reached, the contract has nothing left to do. Nor do `MCLifecycle`
and `MCGraceful`, where the process ends.

### Fairness

- `QueueProgress!SettledFairness`: each registry's goroutine keeps running (a ticker, and
  calls that return with an answer *or an error*; the disjunction is fair, not the
  success), the proof service keeps following the chain, the account's next transaction
  is mined. `MuIsReleased` needs no more; that every call returns is an assumption about
  the node and the proof service, as the code sets no timeout on contract calls. From some unknown point, `settled`, no mishap
  happens. What went wrong before is still there: holes in the pool, a counter that is
  ahead, a goroutine in its last attempt. Without such a point nothing could be promised,
  as calls may fail for ever. `EveryOperationProcessed` needs a key (`hasKey`).
- `EventListener!FairSpec`: the goroutine keeps running. `EventsArePublished` assumes
  `Settles` in its statement: the service gets started, is not shut down, and from some
  point calls succeed. `ShutdownEndsListener` assumes none of this.
- `EventPipeline!PipelineFairness`: besides, the monitors let go of their mutexes, and
  publishing is *strongly* fair: a monitor may take the mutex again and again, but Go's
  `sync.Mutex` hands it to a goroutine that has waited for a millisecond.
- `ServiceLifecycle!FairSpec`: only the manager's goroutines, the deadline and main's own
  way out are fair. The services' goroutines may hang in a call or sleep in a backoff.
  `ShutdownEnds` would hold just as well if the listener's `Shutdown` waited for a goroutine
  that was never started (after `StartListenerFails`): the deadline ends that wait, too.

## What is proved

All by TLAPS, for every value of the constants, from the named assumptions on constants
in the modules only (`TxAssumption`, `RegistryAssumption`, `RecordAssumption`,
`ProcessorAssumption`, `LifecycleAssumption`, `ListenerAssumption`,
`PipelineAssumption`). What a theorem about the listener assumes besides stands in its
statement: `Confirmations = 0`, because `main.go` passes no `WithConfirmations` and
`MCListenerConfirmations` shows what happens otherwise; `~Overlaps` where contracts may
be registered at any time, which `MCListenerOverlap` shows to be needed and `main.go`,
which registers before `Start`, keeps to; and, about the processor's list, that no filter
drops `OperationQueued`, as `main.go` passes none.

- `TxSubmissionProofs`: `TypeCorrect` and `NoGapIsOrphaned`. `NoOrphanedGap` is inductive
  together with `TypeOK`. The argument: an offset below the counter was taken by a worker;
  it stays in that worker's hands until it is in the pool, or the worker fails, and then
  the counter's reset is due until it happens, which empties the claim. `Confirm` moves
  counter, hands and pool down together.
- `OperationRecordProofs`: `ImplementsTxSubmission` maps every step to one of
  `TxSubmission` or a stutter, so that its theorems carry over. `RecordsAreTrue` rests on
  `RecordInv`: while an operation is under way its builder is there and has no
  transaction yet, the node took no more for it than was attempted, and nothing before a
  nonce was obtained; and on `ResultInv`, which follows a returned transaction through the
  steps between the return and the record. Its nonce stays pending until a block uses it
  up, because a pool only gains nonces otherwise; another transaction can get under it only
  by a send of another registry, so that with one active registry the returned transaction
  is pending until the block that executes it (`ReturnedIsNext`). `AloneHoldsNextNonce` rests on `InStep`: with one active registry
  the pool has no hole, and the counter, unless a reset is due, is the node's pending
  nonce, plus one while the worker holds that nonce.
  `EachOperationIsRecorded` is an action property: a step writes a record exactly when it
  ends an operation. Besides `RecordInv` it needs `ProofNoted`: a builder that got as far as a
  transaction has its proof, so that the phase of a failure is the one it failed in.
- `CertificateRegistryProofs`: `TypeCorrect`, `PendingIsInTurn`, `NothingQueuedIsSkipped`
  and `TreeMatches`. The first two invariants are inductive only together: that positions
  behind the pointer hold *different* certificates is what lets the pointer move without
  disturbing the others, and follows from each position being its certificate's queue index.
- `CertificateRegistryRefinement`: `ImplementsOperationQueue`, that is `Spec =>
  KeepsPromise`. Each step maps to `Request`, `Perform` or a stutter; the lemmas on `Rest`
  say what appending to the queue and moving the pointer do to the waiting operations.
- `QueueProcessorProofs`: `TypeCorrect`, `CallsAreBuiltForTheHead` and
  `CallsAreForTheHeadOnly`. `ProcessorInv` says of each goroutine what its reads up to now
  are worth: the entry was at a position the pointer had reached (`ItemRead`); the state
  that was read is the current one as long as the pointer stays, and behind it otherwise
  (`StateRead`, because a state only advances); the operation was in turn and is until it
  is processed (`TurnRead`). Calls keep all three. That the contract's steps preserve them
  (`ReadingSurvives`) uses its invariants above, through instances of the two components'
  proof modules. `UsesTheContracts` shows that the composition implements
  `CertificateRegistry`, which implements `OperationQueue`. `HoldingIsBounded` is the part
  of `MuIsReleased` that needs no fairness: `StepsLeft`, at most `3 * MaxRetries + 4`, falls
  with each step of the goroutine that holds the mutex and is left alone by all others. It
  rests on `Alternates`: nothing is read while `submitWithRetry` is under way.
- `ServiceLifecycleProofs`: `TypeCorrect`; `CauseReported`, by following an ender from
  capture to exit while others flush; `GracefulStopComplete`, because `main` returns only
  after the processor's `Shutdown` did so without an error, all its goroutines had left the
  wait group by then (`ProcessorWaits`), their operations ended and captured or, those in
  `panicking`, cut off, and the flush comes after (`MainFlushes`).
- `EventListenerProofs`: `TypeCorrect`, `DeliversExactlyOnce`, `ProgressLosesNothing`,
  `ImplementsEventDelivery` and `ShuttingDownIsBounded`. `ExactlyOnceInOrder` is inductive
  with `ScanInv` (the order of the scan's block numbers at each place of the goroutine, and
  that no copy is left of the contract it is at) and `ProgressInv` (the copy the listener
  works on agrees with the record, which is what an overlapping registration breaks, and
  the progress lies between the start and the head). `Scanned`, what the listener has
  looked at, then moves only while events are published, block by block (`ScannedMoves`):
  opening a scan, ending a chunk and giving up leave it where it is. Hence what is due
  begins at the block the listener looks at (`DueIsAhead`), and each step maps to `Emit`,
  `Follow`, `Unfollow`, `Deliver` or a stutter. `StepsToEnd` falls with each step after
  `Shutdown`, because no step that would raise it is taken under a cancelled context.
- `EventPipelineProofs`: `PipelineTypeCorrect`, `PipelineDeliversExactlyOnce`,
  `PipelineImplementsEventDelivery`, `PipelineShuttingDownIsBounded`, `ListsLatestPart`
  and `PublishesHistory`. Each step of
  the pipeline is one of the listener's or leaves it alone, and registration comes before
  the first scan, so that the listener's lemmas apply without `~Overlaps`. The list is the
  part of the contract's operations after some block not before its start (`ListInv`);
  that block moves along with the listener until the first operation is handled, and
  before the processor subscribes the list is empty (`NotYet`). `HistoryInv` says that
  nothing is emitted before the initialisation and every scan starts before it.

Only model-checked: all liveness (`EveryOperationProcessed`, `MuIsReleased`,
`EventsArePublished`, `OperationsAreListed`, `ShutdownEndsListener`, `ShutdownEnds`), which
is out of the prover's reach. Of `MuIsReleased` and `ShutdownEndsListener` the bound on the
steps is proved, so that only the fairness of those steps is left to TLC.

## Not modelled

- Reading and parsing the configuration and the environment, the logger's level and
  format, the router: straight-line code that fixes constants and initial states.
  `SetPrivateKey` decides `hasKey`; `SetCheckInterval` is not used after `Start`, and
  `GetQueueLength` by nobody.
- `Start` after `Shutdown`: `main` never starts a service twice.
- The preview loop of `checkAndProcessRegistryQueue` (279-291), which only logs, and
  `QueuedOperation.State` (236), which receives the event's operation code and is never read.
- A panic in the server's goroutine. `RecoverAndCapture` (`server.go:34`) takes it the way
  capture, flush, exit that `ServeFails` starts, with status 2 in place of 1; `net/http`
  recovers its handlers' panics itself. It has no step of its own, which would double the
  states of the server to show the same.
- A `Flush` that does not succeed in its two seconds, and a Sentry `Init` that fails.
- `registry.Queue` grows without a bound: a leak, with nothing in the code to state of it.
- Timings and identifiers of the records and the layout of log lines.
- Chain reorganisations, gas and fees, access control of the contract, and
  who else might call it. The Go binding is generated; what the project takes from it is
  the contract's behaviour.

## Order of work

`TxSubmission`, `CertificateRegistry` with `OperationQueue`, `QueueProcessor`,
`QueueProgress` and `EventListener` came first, then `OperationRecord`, `EventPipeline`
and `ServiceLifecycle`, then `EventDelivery`, each with its proofs. What would be worth
adding: a bound like `StepsLeft` for `ServiceLifecycle!ShutdownEnds`; the composition of
`ServiceLifecycle` with `QueueProcessor`, to see which transactions a shutdown leaves
pending.
