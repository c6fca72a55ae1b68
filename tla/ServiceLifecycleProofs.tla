----------------------- MODULE ServiceLifecycleProofs -----------------------
(***************************************************************************)
(* Proofs about ServiceLifecycle, for any set of registries: what an exit  *)
(* status of 0 says about the processor's goroutines and their reports,    *)
(* and that every other exit of the program's own has sent its cause.      *)
(***************************************************************************)
EXTENDS ServiceLifecycle, TLAPS

-----------------------------------------------------------------------------
(* Type correctness.                                                       *)

LEMMA ReportTypes ==
  /\ \A r \in Monitors : Operation(r) \in Reports
  /\ NotStarted \in Reports
  /\ \A x \in Enders : Cause(x) \in Reports
  BY DEF Reports

LEMMA GoroutineTypes ==
  /\ Listener \in Goroutines
  /\ Monitors \subseteq Goroutines
  /\ Goroutines \subseteq Enders
  /\ Main \in Enders /\ Server \in Enders
  BY DEF Goroutines, Enders

LEMMA InitTypeOK == Init => TypeOK
  BY DEF Init, TypeOK, Phases

LEMMA NextTypeOK == TypeOK /\ [Next]_vars => TypeOK'
<1> SUFFICES ASSUME TypeOK, [Next]_vars PROVE TypeOK'
  OBVIOUS
<1> USE GoroutineTypes DEF TypeOK, goVars, stopVars, endVars
<1>1. CASE Setup \/ SetupFails \/ StartServer \/ StartListener
           \/ StartListenerFails \/ StartProcessor \/ MainPanics
  BY <1>1, ReportTypes
     DEF Setup, SetupFails, StartServer, StartListener, StartListenerFails,
         StartProcessor, MainPanics, Fatal, Panic, GivesNotice, Phases
<1>2. ASSUME NEW g \in Goroutines, Running(g) PROVE TypeOK'
  BY <1>2 DEF Running, Works, Finishes, Ends, Panics, Panic, GivesNotice
<1>3. ASSUME NEW r \in Monitors, OperationFails(r) PROVE TypeOK'
  BY <1>3, ReportTypes DEF OperationFails
<1>4. CASE ServeFails
  BY <1>4 DEF ServeFails, Fatal, GivesNotice
<1>5. CASE Signal \/ Killed \/ Expire
  <2>1. CASE Signal
    BY <2>1 DEF Signal, Phases
  <2>2. CASE Killed
    BY <2>2 DEF Killed
  <2>3. CASE Expire
    BY <2>3 DEF Expire
  <2> QED BY <1>5, <2>1, <2>2, <2>3
<1>6. ASSUME NEW s \in Services, Cancel(s) \/ Stops(s) \/ TimesOut(s)
      PROVE  TypeOK'
  BY <1>6 DEF Cancel, Stops, TimesOut, Returned
<1>7. CASE ShutdownFails \/ StoppedGracefully
  BY <1>7 DEF ShutdownFails, StoppedGracefully, Fatal, GivesNotice, Phases
<1>8. ASSUME NEW x \in Enders, Ending(x) PROVE TypeOK'
  <2>1. CASE Capture(x)
    BY <2>1, ReportTypes DEF Capture
  <2>2. CASE Flush(x)
    BY <2>2 DEF Flush
  <2>3. CASE Exit(x)
    BY <2>3 DEF Exit, Status
  <2> QED BY <1>8, <2>1, <2>2, <2>3 DEF Ending
<1>9. ASSUME NEW report \in Reports, Transport(report) PROVE TypeOK'
  BY <1>9 DEF Transport
<1>10. CASE UNCHANGED vars
  BY <1>10 DEF vars
<1> QED
  BY <1>1, <1>2, <1>3, <1>4, <1>5, <1>6, <1>7, <1>8, <1>9, <1>10 DEF Next

(***************************************************************************)
(* Type correctness of main, the goroutines, the services and the reports, *)
(* for any set of registries.                                              *)
(***************************************************************************)
THEOREM TypeCorrect == Spec => []TypeOK
  BY InitTypeOK, NextTypeOK, PTL DEF Spec

-----------------------------------------------------------------------------
(* The cause of an exit.  Whoever has flushed has nothing of its own left  *)
(* in the buffer, since only Capture puts it there; and only one who has   *)
(* flushed exits.                                                          *)

CauseSent == \A x \in Enders : ending[x] = "exit" => Cause(x) \notin buffer

CauseInv ==
  /\ CauseSent
  /\ CauseIsReported

LEMMA ReportsDiffer ==
  /\ \A r, x : Operation(r) # Cause(x)
  /\ \A x : NotStarted # Cause(x)
  /\ \A x, y : Cause(x) = Cause(y) => x = y
  /\ \A x, y : Operation(x) = Operation(y) => x = y
  /\ \A r : NotStarted # Operation(r)
  BY DEF Operation, NotStarted, Cause

\* A step that does not end the process, captures no cause and lets nobody
\* exit before it has flushed.
LEMMA KeepsCauseInv ==
  ASSUME CauseInv, exit = Nil, exit' = Nil,
         \A x \in Enders : ending'[x] = "exit" => ending[x] = "exit",
         \A x \in Enders : Cause(x) \in buffer' => Cause(x) \in buffer
  PROVE  CauseInv'
  BY DEF CauseInv, CauseSent, CauseIsReported, EndedWith

LEMMA NextCauseInv == TypeOK /\ CauseInv /\ [Next]_vars => CauseInv'
<1> SUFFICES ASSUME TypeOK, CauseInv, [Next]_vars PROVE CauseInv'
  OBVIOUS
<1>0. CASE UNCHANGED vars
  BY <1>0
     DEF vars, stopVars, endVars, CauseInv, CauseSent, CauseIsReported,
         EndedWith
<1> SUFFICES ASSUME Next PROVE CauseInv'
  BY <1>0
<1>e. exit = Nil
  BY DEF Next
<1>1. ASSUME exit' = exit,
             \/ UNCHANGED ending
             \/ \E x \in Enders : GivesNotice(x)
             \/ ending' = [ending EXCEPT ![Main] = "flush"],
             \A x \in Enders : Cause(x) \in buffer' => Cause(x) \in buffer
      PROVE  CauseInv'
  <2>1. \A x \in Enders : ending'[x] = "exit" => ending[x] = "exit"
    BY <1>1, GoroutineTypes DEF GivesNotice, TypeOK
  <2> QED BY <1>1, <1>e, <2>1, KeepsCauseInv
<1>2. CASE Setup \/ SetupFails \/ StartServer \/ StartListener
           \/ StartListenerFails \/ StartProcessor \/ MainPanics
  BY <1>2, <1>1, ReportsDiffer, GoroutineTypes
     DEF Setup, SetupFails, StartServer, StartListener, StartListenerFails,
         StartProcessor, MainPanics, Fatal, Panic, endVars
<1>3. ASSUME NEW g \in Goroutines, Running(g) PROVE CauseInv'
  BY <1>3, <1>1, GoroutineTypes
     DEF Running, Works, Finishes, Ends, Panics, Panic, endVars
<1>4. ASSUME NEW r \in Monitors, OperationFails(r) PROVE CauseInv'
  BY <1>4, <1>1, ReportsDiffer DEF OperationFails, endVars
<1>5. CASE ServeFails
  BY <1>5, <1>1, GoroutineTypes DEF ServeFails, Fatal
<1>6. CASE Signal \/ Expire
  BY <1>6, <1>1 DEF Signal, Expire, endVars
<1>7. CASE Killed
  BY <1>7 DEF Killed, CauseInv, CauseSent, CauseIsReported, EndedWith, endVars
<1>8. ASSUME NEW s \in Services, Cancel(s) \/ Stops(s) \/ TimesOut(s)
      PROVE  CauseInv'
  BY <1>8, <1>1 DEF Cancel, Stops, TimesOut, endVars
<1>9. CASE ShutdownFails \/ StoppedGracefully
  BY <1>9, <1>1, GoroutineTypes DEF ShutdownFails, StoppedGracefully, Fatal
<1>10. ASSUME NEW x \in Enders, Ending(x) PROVE CauseInv'
  <2>1. CASE Capture(x)
    BY <2>1, <1>e, ReportsDiffer
       DEF Capture, CauseInv, CauseSent, CauseIsReported, EndedWith, TypeOK
  <2>2. CASE Flush(x)
    BY <2>2, <1>e
       DEF Flush, CauseInv, CauseSent, CauseIsReported, EndedWith, TypeOK
  <2>3. CASE Exit(x)
    BY <2>3 DEF Exit, CauseInv, CauseSent, CauseIsReported, EndedWith, endVars
  <2> QED BY <1>10, <2>1, <2>2, <2>3 DEF Ending
<1>11. ASSUME NEW report \in Reports, Transport(report) PROVE CauseInv'
  BY <1>11, <1>1 DEF Transport, endVars
<1> QED
  BY <1>2, <1>3, <1>4, <1>5, <1>6, <1>7, <1>8, <1>9, <1>10, <1>11 DEF Next

(***************************************************************************)
(* Whoever ends the process with an error or a panic has sent the report   *)
(* that says why, whatever other goroutines are ending it for at the time. *)
(***************************************************************************)
THEOREM CauseReported == Spec => []CauseIsReported
<1>1. Init => CauseInv
  BY DEF Init, CauseInv, CauseSent, CauseIsReported, EndedWith
<1>2. CauseInv => CauseIsReported
  BY DEF CauseInv
<1> QED
  BY <1>1, <1>2, TypeCorrect, NextCauseInv, PTL DEF Spec

-----------------------------------------------------------------------------
(* The graceful stop.                                                      *)

\* The monitors have been started when main waits for the signal; services
\* are shut down only after it; and the processor's Shutdown returns nil
\* only when its goroutines have ended, which is for good.
ProcessorWaits ==
  /\ main \in {"waiting", "stopping", "over"} =>
       \A r \in Monitors : work[r] # "off"
  /\ \A s \in Services : stopped[s] # "no" => main \in {"stopping", "over"}
  /\ stopped[Processor] = "ok" => \A r \in Monitors : work[r] = "ended"

\* Then main returns through Flush, after which nobody captures an
\* operation, and only this way the exit status is 0.
MainFlushes ==
  /\ main = "over" => stopped[Processor] = "ok"
  /\ main = "over" /\ ending[Main] = "exit" =>
       \A r \in Monitors : Operation(r) \notin buffer
  /\ EndedWith(0) => main = "over" /\ ending[Main] = "exit"

GracefulInv == ProcessorWaits /\ MainFlushes

LEMMA ProcessorGoroutines ==
  /\ Processor \in Services
  /\ \A r \in Monitors : r \in Goroutines /\ ServiceOf(r) = Processor
  /\ Processor # Listener
  /\ Main \notin Goroutines
  BY LifecycleAssumption
     DEF Monitors, Goroutines, Services, ServiceOf, Processor, Listener, Main

LEMMA NextProcessorWaits ==
  TypeOK /\ ProcessorWaits /\ [Next]_vars => ProcessorWaits'
<1> SUFFICES ASSUME TypeOK, ProcessorWaits, [Next]_vars PROVE ProcessorWaits'
  OBVIOUS
<1> USE ProcessorGoroutines DEF ProcessorWaits, goVars, stopVars
<1>1. CASE Setup \/ SetupFails \/ StartServer \/ StartListenerFails \/ MainPanics
  BY <1>1 DEF Setup, SetupFails, StartServer, StartListenerFails, MainPanics
<1>2. CASE StartListener \/ StartProcessor
  BY <1>2, GoroutineTypes DEF StartListener, StartProcessor, TypeOK
<1>3. ASSUME NEW g \in Goroutines, Running(g) PROVE ProcessorWaits'
  BY <1>3 DEF Running, Works, Finishes, Ends, Panics, TypeOK
<1>4. ASSUME NEW r \in Monitors, OperationFails(r) PROVE ProcessorWaits'
  BY <1>4 DEF OperationFails, TypeOK
<1>5. CASE ServeFails \/ Killed \/ Expire \/ ShutdownFails
  BY <1>5 DEF ServeFails, Killed, Expire, ShutdownFails
<1>6. CASE Signal \/ StoppedGracefully
  BY <1>6 DEF Signal, StoppedGracefully
<1>7. ASSUME NEW s \in Services, Cancel(s) PROVE ProcessorWaits'
  BY <1>7 DEF Cancel, TypeOK
<1>8. ASSUME NEW s \in Services, TimesOut(s) PROVE ProcessorWaits'
  BY <1>8 DEF TimesOut, TypeOK
<1>9. ASSUME NEW s \in Services, Stops(s) PROVE ProcessorWaits'
  <2>1. main \in {"stopping", "over"}
    BY <1>9 DEF Stops
  <2>2. s = Processor => \A r \in Monitors : work[r] = "ended"
    BY <1>9, <2>1 DEF Stops, WaitIsOver
  <2> QED BY <1>9, <2>1, <2>2 DEF Stops, TypeOK
<1>10. ASSUME NEW x \in Enders, Ending(x) PROVE ProcessorWaits'
  BY <1>10 DEF Ending, Capture, Flush, Exit
<1>11. ASSUME NEW report \in Reports, Transport(report)
       PROVE  ProcessorWaits'
  BY <1>11 DEF Transport
<1>12. CASE UNCHANGED vars
  BY <1>12 DEF vars
<1> QED
  BY <1>1, <1>2, <1>3, <1>4, <1>5, <1>6, <1>7, <1>8, <1>9, <1>10, <1>11, <1>12
     DEF Next

\* A step that leaves main, what the processor's Shutdown returned and the
\* exit alone, and captures no operation once the process is over.
LEMMA KeepsMainFlushes ==
  ASSUME MainFlushes, UNCHANGED <<main, exit>>,
         stopped[Processor] = "ok" => stopped'[Processor] = "ok",
         main = "over" => \A r \in Monitors :
                            Operation(r) \in buffer' => Operation(r) \in buffer,
         ending'[Main] = "exit" <=> ending[Main] = "exit"
  PROVE  MainFlushes'
  BY DEF MainFlushes, EndedWith

LEMMA NextMainFlushes ==
  TypeOK /\ ProcessorWaits /\ MainFlushes /\ [Next]_vars => MainFlushes'
<1> SUFFICES ASSUME TypeOK, ProcessorWaits, MainFlushes, [Next]_vars
             PROVE  MainFlushes'
  OBVIOUS
<1>0. CASE UNCHANGED vars
  BY <1>0 DEF vars, stopVars, endVars, MainFlushes, EndedWith
<1> SUFFICES ASSUME Next PROVE MainFlushes'
  BY <1>0
<1>e. exit = Nil
  BY DEF Next
<1>1. CASE Setup \/ StartServer \/ StartListener \/ StartListenerFails
           \/ StartProcessor \/ Signal \/ Killed
  BY <1>1, <1>e, GoroutineTypes
     DEF Setup, StartServer, StartListener, StartListenerFails,
         StartProcessor, Signal, Killed, MainFlushes, EndedWith, stopVars,
         endVars
<1>2. CASE SetupFails \/ ShutdownFails \/ MainPanics
  BY <1>2, <1>e
     DEF SetupFails, ShutdownFails, MainPanics, Fatal, Panic, GivesNotice,
         MainFlushes, EndedWith, stopVars
<1>3. ASSUME NEW g \in Goroutines, Running(g) PROVE MainFlushes'
  <2>1. ending'[Main] = "exit" <=> ending[Main] = "exit"
    BY <1>3, ProcessorGoroutines
       DEF Running, Works, Finishes, Ends, Panics, Panic, GivesNotice, TypeOK,
           Enders, endVars
  <2> QED
    BY <1>3, <2>1, KeepsMainFlushes
       DEF Running, Works, Finishes, Ends, Panics, stopVars
<1>4. ASSUME NEW r \in Monitors, OperationFails(r) PROVE MainFlushes'
  <2>1. main # "over"
    BY <1>4 DEF OperationFails, ProcessorWaits, MainFlushes
  <2> QED
    BY <1>4, <2>1, KeepsMainFlushes DEF OperationFails, stopVars, endVars
<1>5. CASE ServeFails
  <2>1. ending'[Main] = "exit" <=> ending[Main] = "exit"
    BY <1>5 DEF ServeFails, Fatal, GivesNotice, TypeOK, Main, Server
  <2> QED BY <1>5, <2>1, KeepsMainFlushes DEF ServeFails, stopVars
<1>6. CASE Expire
  BY <1>6, KeepsMainFlushes DEF Expire, endVars
<1>7. ASSUME NEW s \in Services, Cancel(s) \/ Stops(s) \/ TimesOut(s)
      PROVE  MainFlushes'
  <2>1. stopped[Processor] = "ok" => stopped'[Processor] = "ok"
    BY <1>7, ProcessorGoroutines DEF Cancel, Stops, TimesOut, TypeOK
  <2>2. UNCHANGED <<main, exit, ending, buffer>>
    BY <1>7 DEF Cancel, Stops, TimesOut, endVars
  <2> QED BY <2>1, <2>2, KeepsMainFlushes
<1>8. CASE StoppedGracefully
  BY <1>8, <1>e, ProcessorGoroutines, GoroutineTypes
     DEF StoppedGracefully, MainFlushes, EndedWith, stopVars, TypeOK
<1>9. ASSUME NEW x \in Enders, Ending(x) PROVE MainFlushes'
  <2>1. CASE Capture(x)
    <3>1. \A r \in Monitors :
            Operation(r) \in buffer' => Operation(r) \in buffer
      BY <2>1, ReportsDiffer DEF Capture
    <3> QED
      BY <2>1, <1>e, <3>1 DEF Capture, MainFlushes, EndedWith, stopVars, TypeOK
  <2>2. CASE Flush(x)
    BY <2>2, <1>e DEF Flush, MainFlushes, EndedWith, stopVars
  <2>3. CASE Exit(x)
    BY <2>3 DEF Exit, Status, MainFlushes, EndedWith, stopVars, endVars
  <2> QED BY <1>9, <2>1, <2>2, <2>3 DEF Ending
<1>10. ASSUME NEW report \in Reports, Transport(report) PROVE MainFlushes'
  BY <1>10, KeepsMainFlushes DEF Transport, stopVars, endVars
<1> QED
  BY <1>1, <1>2, <1>3, <1>4, <1>5, <1>6, <1>7, <1>8, <1>9, <1>10 DEF Next

(***************************************************************************)
(* When the process returns with status 0, the failures that operations    *)
(* ended in are all reported, and only the monitors that panicked, if any, *)
(* were cut off, for any set of registries and whatever happens before and *)
(* during the shutdown.                                                    *)
(***************************************************************************)
THEOREM GracefulStopComplete == Spec => []GracefulStopIsComplete
<1>1. Init => GracefulInv
  BY ProcessorGoroutines
     DEF Init, GracefulInv, ProcessorWaits, MainFlushes, EndedWith
<1>2. TypeOK /\ GracefulInv /\ [Next]_vars => GracefulInv'
  BY NextProcessorWaits, NextMainFlushes DEF GracefulInv
<1>3. GracefulInv => GracefulStopIsComplete
  BY DEF GracefulInv, ProcessorWaits, MainFlushes, GracefulStopIsComplete
<1> QED
  BY <1>1, <1>2, <1>3, TypeCorrect, PTL DEF Spec

=============================================================================
