-------------------------- MODULE ServiceLifecycle --------------------------
(***************************************************************************)
(* The life of the process: main.go sets up and starts the services, waits *)
(* for a signal, has service.Manager shut them all down under one          *)
(* deadline, and exits.  Meanwhile the goroutines of the event listener    *)
(* and of the queue processor work, fail and may panic, and the HTTP       *)
(* server may fail to serve; main may panic, too.  What fails is           *)
(* captured with Sentry, whose transport sends in the background: a report *)
(* counts only if it is sent before the process ends.                      *)
(*                                                                         *)
(* What a goroutine does between two looks at its context is one stretch   *)
(* of work here; EventListener and QueueProcessor model it.  A Flush is    *)
(* taken to succeed within its two seconds.                                *)
(***************************************************************************)
EXTENDS Naturals

CONSTANTS
  Registries,   \* the processor runs a monitor goroutine for each
  Nil

Monitors   == Registries
Listener   == "listener"
Goroutines == Monitors \cup {Listener}

\* The services in the order in which main registers them.
Server    == "server"
Processor == "processor"
Services  == {Server, Listener, Processor}

\* Who may end the process: main, the server's goroutine, and a panic.
Main   == "main"
Enders == Goroutines \cup {Main, Server}

ASSUME LifecycleAssumption ==
  /\ Registries \cap {Main, Server, Listener, Processor} = {}
  /\ Nil \notin Enders

\* What Sentry is told: an operation failed, the listener could not start,
\* or why the process is about to end.
Operation(r) == [kind |-> "operation", of |-> r]
NotStarted   == [kind |-> "start", of |-> Listener]
Cause(x)     == [kind |-> "end", of |-> x]

Reports == {Operation(r) : r \in Monitors} \cup {NotStarted}
             \cup {Cause(x) : x \in Enders}

VARIABLES
  main,       \* where main is: which service StartAll starts next, ...
  work,       \* what each goroutine is doing, "ended" after its wg.Done
  cancelled,  \* the services whose context has been cancelled
  stopped,    \* what each service's Shutdown has returned
  expired,    \* the 30 seconds for the shutdown are over
  ending,     \* how far each of Enders is on its way to end the process
  panicking,  \* those of Enders whom a panic has put on this way
  buffer,     \* captured reports that Sentry's transport has not sent
  exit        \* Nil, or how the process ended

goVars == <<work, cancelled>>
stopVars == <<stopped, expired>>
endVars == <<ending, panicking>>
vars == <<main, goVars, stopVars, endVars, buffer, exit>>

Phases == {"setup", "server", "listener", "processor", "waiting", "stopping",
           "over"}
Returned == {"ok", "error"}

Init ==
  /\ main      = "setup"
  /\ work      = [g \in Goroutines |-> "off"]
  /\ cancelled = {}
  /\ stopped   = [s \in Services |-> "no"]
  /\ expired   = FALSE
  /\ ending    = [x \in Enders |-> "no"]
  /\ panicking = {}
  /\ buffer    = {}
  /\ exit      = Nil

-----------------------------------------------------------------------------
(* Ending the process: CaptureError, Flush, os.Exit, by whoever met the    *)
(* error; RecoverAndCapture does the same and panics again.                *)

GivesNotice(x) == ending' = [ending EXCEPT ![x] = "capture"]

Fatal(x) == GivesNotice(x) /\ UNCHANGED panicking
Panic(x) == GivesNotice(x) /\ panicking' = panicking \cup {x}

Capture(x) ==
  /\ ending[x] = "capture"
  /\ ending' = [ending EXCEPT ![x] = "flush"]
  /\ buffer' = buffer \cup {Cause(x)}
  /\ UNCHANGED <<main, goVars, stopVars, panicking, exit>>

\* Faulty: the process does not wait for the transport.
FlushNothing(x) ==
  /\ ending[x] = "flush"
  /\ ending' = [ending EXCEPT ![x] = "exit"]
  /\ UNCHANGED <<main, goVars, stopVars, panicking, buffer, exit>>

Flush(x) ==
  /\ ending[x] = "flush"
  /\ ending' = [ending EXCEPT ![x] = "exit"]
  /\ buffer' = {}
  /\ UNCHANGED <<main, goVars, stopVars, panicking, exit>>

\* The exit status: 2 after a panic, 0 when main returns.
Status(x) ==
  IF x \in panicking THEN 2
  ELSE IF x = Main /\ main = "over" THEN 0
  ELSE 1

Exit(x) ==
  /\ ending[x] = "exit"
  /\ exit' = [by |-> x, status |-> Status(x)]
  /\ UNCHANGED <<main, goVars, stopVars, endVars, buffer>>

\* Sentry's transport sends a report in the background.
Transport(report) ==
  /\ report \in buffer
  /\ buffer' = buffer \ {report}
  /\ UNCHANGED <<main, goVars, stopVars, endVars, exit>>

-----------------------------------------------------------------------------
(* main, up to WaitForShutdown.                                            *)

Idle(x) == ending[x] = "no"

\* The configuration is read, the client, the contracts and the services
\* are created and registered with the manager.
Setup ==
  /\ main = "setup" /\ Idle(Main)
  /\ main' = "server"
  /\ UNCHANGED <<goVars, stopVars, endVars, buffer, exit>>

SetupFails ==
  /\ main = "setup" /\ Idle(Main)
  /\ Fatal(Main)
  /\ UNCHANGED <<main, goVars, stopVars, buffer, exit>>

\* StartAll: Server.Start leaves ListenAndServe to a goroutine.
StartServer ==
  /\ main = "server" /\ Idle(Main)
  /\ main' = "listener"
  /\ UNCHANGED <<goVars, stopVars, endVars, buffer, exit>>

\* evm.Service.Start: the node is reached ...
StartListener ==
  /\ main = "listener" /\ Idle(Main)
  /\ main' = "processor"
  /\ work' = [work EXCEPT ![Listener] = "idle"]
  /\ UNCHANGED <<cancelled, stopVars, endVars, buffer, exit>>

\* ... or not, and the process goes on without a listener.
StartListenerFails ==
  /\ main = "listener" /\ Idle(Main)
  /\ main' = "processor"
  /\ buffer' = buffer \cup {NotStarted}
  /\ UNCHANGED <<goVars, stopVars, endVars, exit>>

\* queueprocessor.Service.Start
StartProcessor ==
  /\ main = "processor" /\ Idle(Main)
  /\ main' = "waiting"
  /\ work' = [g \in Goroutines |-> IF g \in Monitors THEN "idle" ELSE work[g]]
  /\ UNCHANGED <<cancelled, stopVars, endVars, buffer, exit>>

-----------------------------------------------------------------------------
(* The goroutines.                                                         *)

ServiceOf(g) == IF g = Listener THEN Listener ELSE Processor

\* A tick, or a scan.  A monitor's select may choose the tick although the
\* context is cancelled as well; the listener looks at the context first.
Works(g) ==
  /\ work[g] = "idle"
  /\ g = Listener => Listener \notin cancelled
  /\ work' = [work EXCEPT ![g] = "busy"]
  /\ UNCHANGED <<main, cancelled, stopVars, endVars, buffer, exit>>

Finishes(g) ==
  /\ work[g] = "busy"
  /\ work' = [work EXCEPT ![g] = "idle"]
  /\ UNCHANGED <<main, cancelled, stopVars, endVars, buffer, exit>>

\* An operation ends in EmitFailure, which sends the record to Sentry.
OperationFails(r) ==
  /\ work[r] = "busy"
  /\ work'   = [work EXCEPT ![r] = "idle"]
  /\ buffer' = buffer \cup {Operation(r)}
  /\ UNCHANGED <<main, cancelled, stopVars, endVars, exit>>

\* The goroutine sees that its context is cancelled and returns.
Ends(g) ==
  /\ work[g] = "idle"
  /\ ServiceOf(g) \in cancelled
  /\ work' = [work EXCEPT ![g] = "ended"]
  /\ UNCHANGED <<main, cancelled, stopVars, endVars, buffer, exit>>

\* A panic: the inner function's deferred wg.Done runs first, and only then
\* RecoverAndCapture.  What the goroutine was at is cut off.
Panics(g) ==
  /\ work[g] = "busy"
  /\ work' = [work EXCEPT ![g] = "ended"]
  /\ Panic(g)
  /\ UNCHANGED <<main, cancelled, stopVars, buffer, exit>>

\* ListenAndServe returns an error other than ErrServerClosed.
ServeFails ==
  /\ main \notin {"setup", "server"}
  /\ Server \notin cancelled
  /\ Idle(Server)
  /\ Fatal(Server)
  /\ UNCHANGED <<main, goVars, stopVars, buffer, exit>>

\* main panics while it sets up or starts the services, before it only waits;
\* its deferred RecoverAndCapture takes it from there.
MainPanics ==
  /\ main \in {"setup", "server", "listener", "processor"} /\ Idle(Main)
  /\ Panic(Main)
  /\ UNCHANGED <<main, goVars, stopVars, buffer, exit>>

-----------------------------------------------------------------------------
(* WaitForShutdown and ShutdownAll.                                        *)

\* The signal main waits for: every service's Shutdown gets a goroutine.
Signal ==
  /\ main = "waiting"
  /\ main' = "stopping"
  /\ stopped' = [s \in Services |-> "called"]
  /\ UNCHANGED <<goVars, expired, endVars, buffer, exit>>

\* A signal before Notify or after signal.Stop has its default effect.
Killed ==
  /\ main # "waiting"
  /\ exit' = [by |-> "signal", status |-> 143]
  /\ UNCHANGED <<main, goVars, stopVars, endVars, buffer>>

\* Faulty: every goroutine is told, and no service is.
CancelByGoroutine(s) ==
  /\ stopped[s] = "called"
  /\ stopped'   = [stopped EXCEPT ![s] = "waiting"]
  /\ cancelled' = cancelled \cup {g \in Goroutines : ServiceOf(g) = s}
  /\ UNCHANGED <<main, work, expired, endVars, buffer, exit>>

\* Shutdown of s begins: it cancels the context, or closes the server.
Cancel(s) ==
  /\ stopped[s] = "called"
  /\ stopped'   = [stopped EXCEPT ![s] = "waiting"]
  /\ cancelled' = cancelled \cup {s}
  /\ UNCHANGED <<main, work, expired, endVars, buffer, exit>>

Expire ==
  /\ main = "stopping" /\ ~expired
  /\ expired' = TRUE
  /\ UNCHANGED <<main, goVars, stopped, endVars, buffer, exit>>

\* wg.Wait returns.  The server has no goroutine in a wait group: it waits
\* for its connections, for as long as these may take.
WaitIsOver(s) ==
  \A g \in Goroutines : ServiceOf(g) = s => work[g] \in {"off", "ended"}

Stops(s) ==
  /\ stopped[s] = "waiting"
  /\ WaitIsOver(s)
  /\ stopped' = [stopped EXCEPT ![s] = "ok"]
  /\ UNCHANGED <<main, goVars, expired, endVars, buffer, exit>>

\* Faulty: no service returns the context's error.
TimesOutQuietly(s) ==
  /\ stopped[s] = "waiting"
  /\ expired
  /\ stopped' = [stopped EXCEPT ![s] = "ok"]
  /\ UNCHANGED <<main, goVars, expired, endVars, buffer, exit>>

\* Faulty: the listener's Shutdown waits for its goroutine only.
TimesOutUnlessListener(s) ==
  /\ stopped[s] = "waiting"
  /\ expired
  /\ s # Listener
  /\ stopped' = [stopped EXCEPT ![s] = "error"]
  /\ UNCHANGED <<main, goVars, expired, endVars, buffer, exit>>

\* The deadline passes first.  The listener's Shutdown returns nil even so.
TimesOut(s) ==
  /\ stopped[s] = "waiting"
  /\ expired
  /\ stopped' = [stopped EXCEPT ![s] = IF s = Listener THEN "ok" ELSE "error"]
  /\ UNCHANGED <<main, goVars, expired, endVars, buffer, exit>>

AllReturned == \A s \in Services : stopped[s] \in Returned

\* ShutdownAll returns an error.
ShutdownFails ==
  /\ main = "stopping" /\ Idle(Main)
  /\ AllReturned
  /\ \E s \in Services : stopped[s] = "error"
  /\ Fatal(Main)
  /\ UNCHANGED <<main, goVars, stopVars, buffer, exit>>

\* "all services stopped gracefully": main returns, through its deferred
\* Flush.
StoppedGracefully ==
  /\ main = "stopping"
  /\ \A s \in Services : stopped[s] = "ok"
  /\ main'   = "over"
  /\ ending' = [ending EXCEPT ![Main] = "flush"]
  /\ UNCHANGED <<goVars, stopVars, panicking, buffer, exit>>

-----------------------------------------------------------------------------
Running(g) ==
  Works(g) \/ Finishes(g) \/ Ends(g) \/ Panics(g)

Ending(x) == Capture(x) \/ Flush(x) \/ Exit(x)

Next ==
  /\ exit = Nil
  /\ \/ Setup \/ SetupFails
     \/ StartServer \/ StartListener \/ StartListenerFails \/ StartProcessor
     \/ \E g \in Goroutines : Running(g)
     \/ \E r \in Monitors : OperationFails(r)
     \/ ServeFails \/ MainPanics
     \/ Signal \/ Killed \/ Expire
     \/ \E s \in Services : Cancel(s) \/ Stops(s) \/ TimesOut(s)
     \/ ShutdownFails \/ StoppedGracefully
     \/ \E x \in Enders : Ending(x)
     \/ \E report \in Reports : Transport(report)

Spec == Init /\ [][Next]_vars

-----------------------------------------------------------------------------
TypeOK ==
  /\ main      \in Phases
  /\ work      \in [Goroutines -> {"off", "idle", "busy", "ended"}]
  /\ cancelled \subseteq Services
  /\ stopped   \in [Services -> {"no", "called", "waiting"} \cup Returned]
  /\ expired   \in BOOLEAN
  /\ ending    \in [Enders -> {"no", "capture", "flush", "exit"}]
  /\ panicking \subseteq Enders
  /\ buffer    \subseteq Reports
  /\ exit      \in [by: Enders \cup {"signal"}, status: {0, 1, 2, 143}] \cup {Nil}

EndedWith(status) == exit # Nil /\ exit.status = status

(***************************************************************************)
(* When main returns with status 0, every failure that an operation has    *)
(* ended in is reported, and no operation is cut off except by a panic of  *)
(* its own goroutine: the processor's Shutdown waits for its goroutines,   *)
(* whose failures are captured before wg.Done, and main's deferred Flush   *)
(* comes after that.  The exception is real (see NothingLeftBehind): such  *)
(* a goroutine may be overtaken by main before it has reported its panic.  *)
(***************************************************************************)
GracefulStopIsComplete ==
  EndedWith(0) =>
    /\ \A r \in Monitors : Operation(r) \notin buffer
    /\ \A r \in Monitors \ panicking : work[r] = "ended"

(***************************************************************************)
(* A process that gives up has said why: whoever ends it with an error or  *)
(* a panic has sent the report first, although other goroutines may be     *)
(* ending it for other reasons at the same time.                           *)
(***************************************************************************)
CauseIsReported ==
  EndedWith(1) \/ EndedWith(2) =>
    ending[exit.by] = "exit" /\ Cause(exit.by) \notin buffer

(***************************************************************************)
(* WaitForShutdown "gracefully stops all services": no goroutine is left   *)
(* when it says so.  It fails: the listener's Shutdown returns nil on a    *)
(* timeout, and a goroutine that panics has left its wait group before     *)
(* RecoverAndCapture sees the panic.                                       *)
(***************************************************************************)
NothingLeftBehind ==
  main = "over" => \A g \in Goroutines : work[g] \in {"off", "ended"} /\ Idle(g)

\* The manager's goroutines run, and time passes.  Nothing is assumed of the
\* services' goroutines, which may hang in a call or sleep in a backoff.
FairSpec ==
  /\ Spec
  /\ WF_vars(exit = Nil /\ Expire)
  /\ \A s \in Services :
       WF_vars(exit = Nil /\ (Cancel(s) \/ Stops(s) \/ TimesOut(s)))
  /\ WF_vars(exit = Nil /\ (ShutdownFails \/ StoppedGracefully \/ Ending(Main)))

(***************************************************************************)
(* Once the signal has come the process ends, whatever its goroutines are  *)
(* doing: every service's Shutdown gives up at the deadline.               *)
(***************************************************************************)
ShutdownEnds == main = "stopping" ~> exit # Nil

=============================================================================
