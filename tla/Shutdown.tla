------------------------------ MODULE Shutdown ------------------------------
(***************************************************************************)
(* The life of one process, scheduler or executor, after its start has     *)
(* succeeded (Startup): the goroutine of main, the goroutine that waits    *)
(* for a signal, the loop of the engine or worker, and the HTTP server's   *)
(* requests.  A signal may come at any moment, between any two steps.      *)
(*                                                                         *)
(* Left out: the 15 seconds http.Server.Shutdown waits for requests.  Main *)
(* leaves half a second after the listener is closed, long before they     *)
(* have passed.                                                            *)
(***************************************************************************)
EXTENDS Integers

CONSTANTS
  Requests,   \* HTTP requests
  MaxSignals  \* SIGINT and SIGTERM sent

ASSUME ShutdownAssumption == MaxSignals \in Nat

VARIABLES
  kind,      \* the command
  main,      \* the goroutine of main
  handler,   \* the goroutine of the signal
  inbox,     \* the signal channel, of capacity one
  running,   \* Engine.running, Worker.running
  cancelled, \* contexts cancelled: the loop's own, the root's
  loop,      \* the goroutine of Engine.loop, Worker.loop
  closing,   \* http.Server has been told to shut down
  request,   \* HTTP requests
  exit,      \* how the process ended
  met,       \* history: Stop found the loop launched
  signals    \* signals still to come

vars == <<kind, main, handler, inbox, running, cancelled, loop, closing, request, exit, met, signals>>

Scheduler == kind = "scheduler"

\* Before main has assigned httpServer; before it has launched the loop.
Unprepared == {"boot", "wired"}
Unlaunched == Unprepared \union {"prepared", "swapped", "contexted"}

ShutdownInit ==
  /\ kind \in {"scheduler", "executor"}
  /\ main = "boot"
  /\ handler = "none"
  /\ inbox = 0
  /\ running = FALSE
  /\ cancelled = {}
  /\ loop = "none"
  /\ closing = FALSE
  /\ request = [r \in Requests |-> "none"]
  /\ exit = "no"
  /\ met = FALSE
  /\ signals = MaxSignals

\* Whatever is going on when the process goes is cut off.
Gone(how) ==
  /\ main' = "gone"
  /\ exit' = how
  /\ loop' = IF loop = "busy" THEN "cut" ELSE loop
  /\ request' = [r \in Requests |-> IF request[r] = "open" THEN "cut" ELSE request[r]]

Alive == main # "gone"

-----------------------------------------------------------------------------
(* The goroutine of main.                                                  *)

MainStep(from, to) == main = from /\ main' = to

\* signal.Notify, and the goroutine that waits.
Notify ==
  /\ MainStep("boot", "wired")
  /\ handler' = "listening"
  /\ UNCHANGED <<kind, inbox, running, cancelled, loop, closing, request, exit, met, signals>>

\* Server.Start builds its http.Server.  An executor has none.
Prepare ==
  /\ Scheduler
  /\ MainStep("wired", "prepared")
  /\ UNCHANGED <<kind, handler, inbox, running, cancelled, loop, closing, request, exit, met, signals>>

\* The three steps of Start: the swap, the context, the launch.  Nobody calls
\* Start twice.
StartSwap ==
  /\ MainStep(IF Scheduler THEN "prepared" ELSE "wired", "swapped")
  /\ running' = TRUE
  /\ UNCHANGED <<kind, handler, inbox, cancelled, loop, closing, request, exit, met, signals>>

StartContext ==
  /\ MainStep("swapped", "contexted")
  /\ UNCHANGED <<kind, handler, inbox, running, cancelled, loop, closing, request, exit, met, signals>>

StartLaunch ==
  /\ MainStep("contexted", "launched")
  /\ loop' = "idle"
  /\ UNCHANGED <<kind, handler, inbox, running, cancelled, closing, request, exit, met, signals>>

\* ListenAndServe, which returns at once after Shutdown.
Listen ==
  /\ Scheduler
  /\ MainStep("launched", IF closing THEN "leaving" ELSE "serving")
  /\ UNCHANGED <<kind, handler, inbox, running, cancelled, loop, closing, request, exit, met, signals>>

\* The port is taken: os.Exit(1).
ListenFails ==
  /\ Scheduler
  /\ main = "launched"
  /\ ~closing
  /\ Gone("failed")
  /\ UNCHANGED <<kind, handler, inbox, running, cancelled, closing, met, signals>>

\* ListenAndServe returns when the listener is closed.
ServeReturns ==
  /\ MainStep("serving", "leaving")
  /\ closing
  /\ UNCHANGED <<kind, handler, inbox, running, cancelled, loop, closing, request, exit, met, signals>>

\* The executor waits for the root context.
ContextDone ==
  /\ ~Scheduler
  /\ MainStep("launched", "leaving")
  /\ "root" \in cancelled
  /\ UNCHANGED <<kind, handler, inbox, running, cancelled, loop, closing, request, exit, met, signals>>

\* Half a second has passed.
Leave ==
  /\ main = "leaving"
  /\ Gone("returned")
  /\ UNCHANGED <<kind, handler, inbox, running, cancelled, closing, met, signals>>

-----------------------------------------------------------------------------
(* The goroutine of the signal.                                            *)

HandlerStep(from, to) == Alive /\ handler = from /\ handler' = to

Receive ==
  /\ HandlerStep("listening", "stopping")
  /\ inbox > 0
  /\ inbox' = inbox - 1
  /\ UNCHANGED <<kind, main, running, cancelled, loop, closing, request, exit, met, signals>>

\* Stop looks at running and cancel.  It reads cancel while Start may be
\* writing it.
StopLook ==
  /\ HandlerStep("stopping", IF running THEN "waiting" ELSE "stopped")
  /\ cancelled' \in {cancelled \union c : c \in
       IF ~running THEN {{}}
       ELSE IF main = "swapped" THEN {{}, {"loop"}}
       ELSE {{"loop"}}}
  /\ met' = (loop # "none")
  /\ UNCHANGED <<kind, main, inbox, running, loop, closing, request, exit, signals>>

\* Mutated Stop: it does not wait.
NotWaited == TRUE

\* wg.Wait: no loop has been launched, or it has returned.
LoopDone == loop \in {"none", "ended"}

StopWait ==
  /\ HandlerStep("waiting", "stopped")
  /\ LoopDone
  /\ running' = FALSE
  /\ UNCHANGED <<kind, main, inbox, cancelled, loop, closing, request, exit, met, signals>>

\* Server.Shutdown after the engine: without an httpServer there is nothing to
\* shut down.
CloseServer ==
  /\ HandlerStep("stopped", IF Scheduler /\ main \notin Unprepared THEN "draining" ELSE "cancelling")
  /\ closing' = (handler' = "draining")
  /\ UNCHANGED <<kind, main, inbox, running, cancelled, loop, request, exit, met, signals>>

\* http.Server.Shutdown returns when no request is open.
Drained ==
  /\ HandlerStep("draining", "cancelling")
  /\ \A r \in Requests : request[r] # "open"
  /\ UNCHANGED <<kind, main, inbox, running, cancelled, loop, closing, request, exit, met, signals>>

\* Mutated handler: the root context is never cancelled.
NotCancelled == cancelled

RootCancelled == cancelled \union {"root"}

Cancel ==
  /\ HandlerStep("cancelling", "done")
  /\ cancelled' = RootCancelled
  /\ UNCHANGED <<kind, main, inbox, running, loop, closing, request, exit, met, signals>>

-----------------------------------------------------------------------------
(* The loop, the requests, and the signals.                                *)

\* select picks among what is ready: a tick may come once more.
Tick ==
  /\ Alive
  /\ loop = "idle"
  /\ loop' = "busy"
  /\ UNCHANGED <<kind, main, handler, inbox, running, cancelled, closing, request, exit, met, signals>>

\* The store's statements ignore the context: a tick runs to its end, and a
\* poll to the end of the task it is at.
TickEnds ==
  /\ Alive
  /\ loop = "busy"
  /\ loop' = "idle"
  /\ UNCHANGED <<kind, main, handler, inbox, running, cancelled, closing, request, exit, met, signals>>

\* The loop's context is a child of the root's.
LoopEnds ==
  /\ Alive
  /\ loop = "idle"
  /\ cancelled # {}
  /\ loop' = "ended"
  /\ UNCHANGED <<kind, main, handler, inbox, running, cancelled, closing, request, exit, met, signals>>

Arrive(r) ==
  /\ main = "serving"
  /\ ~closing
  /\ request[r] = "none"
  /\ request' = [request EXCEPT ![r] = "open"]
  /\ UNCHANGED <<kind, main, handler, inbox, running, cancelled, loop, closing, exit, met, signals>>

Answer(r) ==
  /\ Alive
  /\ request[r] = "open"
  /\ request' = [request EXCEPT ![r] = "answered"]
  /\ UNCHANGED <<kind, main, handler, inbox, running, cancelled, loop, closing, exit, met, signals>>

\* Mutated channel: it never is full.
Queued == inbox + 1

Delivered == 1

\* Before Notify a signal kills; afterwards it is put into the channel, or
\* dropped when one is there.
Signal ==
  /\ Alive
  /\ signals > 0
  /\ signals' = signals - 1
  /\ IF main = "boot"
     THEN Gone("killed") /\ UNCHANGED inbox
     ELSE inbox' = Delivered /\ UNCHANGED <<main, exit, loop, request>>
  /\ UNCHANGED <<kind, handler, running, cancelled, closing, met>>

-----------------------------------------------------------------------------

MainNext ==
  \/ Notify \/ Prepare \/ StartSwap \/ StartContext \/ StartLaunch
  \/ Listen \/ ListenFails \/ ServeReturns \/ ContextDone \/ Leave

HandlerNext == Receive \/ StopLook \/ StopWait \/ CloseServer \/ Drained \/ Cancel

ShutdownNext ==
  \/ MainNext
  \/ HandlerNext
  \/ Tick \/ TickEnds \/ LoopEnds
  \/ \E r \in Requests : Arrive(r) \/ Answer(r)
  \/ Signal

ShutdownSpec == ShutdownInit /\ [][ShutdownNext]_vars

\* Goroutines are scheduled and statements end.  A select that finds the
\* context done again and again picks it in the end.
FairShutdownSpec ==
  /\ ShutdownSpec
  /\ WF_vars(MainNext)
  /\ WF_vars(HandlerNext)
  /\ WF_vars(TickEnds)
  /\ SF_vars(LoopEnds)

-----------------------------------------------------------------------------
(* Properties.                                                             *)

ShutdownTypeOK ==
  /\ kind \in {"scheduler", "executor"}
  /\ main \in Unlaunched \union {"launched", "serving", "leaving", "gone"}
  /\ handler \in {"none", "listening", "stopping", "waiting", "stopped",
                  "draining", "cancelling", "done"}
  /\ inbox \in 0 .. 1
  /\ running \in BOOLEAN
  /\ cancelled \subseteq {"loop", "root"}
  /\ loop \in {"none", "idle", "busy", "ended", "cut"}
  /\ closing \in BOOLEAN
  /\ request \in [Requests -> {"none", "open", "answered", "cut"}]
  /\ exit \in {"no", "killed", "failed", "returned"}
  /\ met \in BOOLEAN
  /\ signals \in 0 .. MaxSignals
  /\ main = "gone" <=> exit # "no"
  /\ loop = "cut" \/ (\E r \in Requests : request[r] = "cut") => ~Alive

\* If the signal found the engine or worker at work, main does not return
\* before its last tick or poll is over, although main waits for something
\* else: Stop comes before the listener is closed and the root cancelled.
WorkNotCut == exit = "returned" /\ met => loop = "ended"

\* A signal that comes once the loop has been launched ends the process: Stop
\* ends the loop however many ticks are due, and the server is closed even if
\* it does not listen yet.  (A signal that falls into Start may be lost.)
SignalEndsProcess ==
  (inbox > 0 /\ handler = "listening" /\ main \notin Unlaunched) ~> ~Alive

\* server.go: "Shutdown gracefully stops the HTTP server".  A request that is
\* being served when a signal comes is answered before the process ends.
RequestsDrained == exit = "returned" /\ met => \A r \in Requests : request[r] # "cut"
=============================================================================
