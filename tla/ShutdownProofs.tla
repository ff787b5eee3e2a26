--------------------------- MODULE ShutdownProofs ---------------------------
(***************************************************************************)
(* The control of a process stays within its labels, and a process that    *)
(* ends by itself cuts no tick or poll the signal met, for any number of   *)
(* requests and signals.                                                   *)
(***************************************************************************)
EXTENDS Shutdown, TLAPS

\* Stop has not looked at running yet.
Early == {"none", "listening", "stopping"}

\* Stop is over.
Late == {"draining", "cancelling", "done"}

\* Start has won the swap.
Started == {"swapped", "contexted", "launched", "serving", "leaving"}

\* Why main cannot pass the loop: it leaves when the server is closing or the
\* root cancelled, both come after Stop, and Stop waits if it met the loop,
\* because running was set before the loop was launched.
Passing ==
  /\ main = "boot" => handler = "none"
  /\ loop # "none" => main \notin Unlaunched
  /\ handler \in Early => ~met /\ (main \in Started => running)
  /\ met => loop # "none" /\ (handler # "waiting" => loop = "ended")
  /\ closing => handler \in Late
  /\ "root" \in cancelled => handler \in Late
  /\ main = "leaving" \/ exit = "returned" => handler \in Late

ShutdownInv == ShutdownTypeOK /\ Passing

LEMMA InvInit == ShutdownInit => ShutdownInv
<1> SUFFICES ASSUME ShutdownInit PROVE ShutdownInv
  OBVIOUS
<1> USE ShutdownAssumption DEF ShutdownInit, Alive
<1>0. /\ request \in [Requests -> {"none", "open", "answered", "cut"}]
      /\ \A r \in Requests : request[r] # "cut"
  OBVIOUS
<1>1. ShutdownTypeOK
  <2>1. signals \in 0 .. MaxSignals
    OBVIOUS
  <2>2. main = "gone" <=> exit # "no"
    OBVIOUS
  <2>3. inbox \in 0 .. 1
    OBVIOUS
  <2> QED
    BY <1>0, <2>1, <2>2, <2>3 DEF ShutdownTypeOK, Unlaunched, Unprepared
<1>2. Passing
  BY DEF Passing, Unlaunched, Unprepared, Early, Late, Started
<1> QED
  BY <1>1, <1>2 DEF ShutdownInv

\* The process goes: what was going on is cut, and nothing else moves.
LEMMA GoneKeeps ==
  ASSUME ShutdownInv, Alive, NEW how \in {"killed", "failed", "returned"}, Gone(how),
         how = "returned" => handler \in Late,
         inbox' \in 0 .. 1, signals' \in 0 .. MaxSignals,
         UNCHANGED <<kind, handler, running, cancelled, closing, met>>
  PROVE  ShutdownInv'
<1> USE DEF Gone, Alive
<1>1. request' \in [Requests -> {"none", "open", "answered", "cut"}]
  BY DEF ShutdownInv, ShutdownTypeOK
<1>2. ShutdownTypeOK'
  BY <1>1 DEF ShutdownInv, ShutdownTypeOK, Unlaunched, Unprepared
<1>3. Passing'
  BY DEF ShutdownInv, ShutdownTypeOK, Passing, Unlaunched, Unprepared, Started, Late
<1> QED
  BY <1>2, <1>3 DEF ShutdownInv

LEMMA MainKeeps ==
  ASSUME ShutdownInv, MainNext
  PROVE  ShutdownInv'
<1> USE DEF ShutdownInv, ShutdownTypeOK, Passing, MainStep, Alive, Unlaunched, Unprepared,
            Started, Early, Late
<1>1. CASE Notify
  BY <1>1 DEF Notify
<1>2. CASE Prepare
  BY <1>2 DEF Prepare
<1>3. CASE StartSwap
  BY <1>3 DEF StartSwap
<1>4. CASE StartContext
  BY <1>4 DEF StartContext
<1>5. CASE StartLaunch
  BY <1>5 DEF StartLaunch
<1>6. CASE Listen
  BY <1>6 DEF Listen
<1>7. CASE ListenFails
  BY <1>7, GoneKeeps DEF ListenFails
<1>8. CASE ServeReturns
  BY <1>8 DEF ServeReturns
<1>9. CASE ContextDone
  BY <1>9 DEF ContextDone
<1>10. CASE Leave
  BY <1>10, GoneKeeps DEF Leave
<1> QED
  BY <1>1, <1>2, <1>3, <1>4, <1>5, <1>6, <1>7, <1>8, <1>9, <1>10 DEF MainNext

LEMMA HandlerKeeps ==
  ASSUME ShutdownInv, HandlerNext
  PROVE  ShutdownInv'
<1> USE DEF ShutdownInv, ShutdownTypeOK, Passing, HandlerStep, Alive, Early, Late
<1>1. CASE Receive
  BY <1>1 DEF Receive
<1>2. CASE StopLook
  <2>1. cancelled' \subseteq {"loop", "root"} /\ ("root" \in cancelled' => "root" \in cancelled)
    <3>1. PICK c \in {{}, {"loop"}} : cancelled' = cancelled \union c
      BY <1>2 DEF StopLook
    <3> QED
      BY <3>1
  <2>2. loop # "none" => running
    BY <1>2 DEF StopLook, Unlaunched, Unprepared, Started
  <2> QED
    BY <1>2, <2>1, <2>2 DEF StopLook
<1>3. CASE StopWait
  BY <1>3 DEF StopWait, LoopDone
<1>4. CASE CloseServer
  BY <1>4 DEF CloseServer
<1>5. CASE Drained
  BY <1>5 DEF Drained
<1>6. CASE Cancel
  BY <1>6 DEF Cancel, RootCancelled
<1> QED
  BY <1>1, <1>2, <1>3, <1>4, <1>5, <1>6 DEF HandlerNext

LEMMA OthersKeep ==
  ASSUME ShutdownInv,
         Tick \/ TickEnds \/ LoopEnds \/ Signal \/ \E r \in Requests : Arrive(r) \/ Answer(r)
  PROVE  ShutdownInv'
<1> USE DEF ShutdownInv, ShutdownTypeOK, Passing, Alive
<1>1. CASE Tick
  BY <1>1 DEF Tick
<1>2. CASE TickEnds
  BY <1>2 DEF TickEnds
<1>3. CASE LoopEnds
  BY <1>3 DEF LoopEnds
<1>4. CASE Signal
  <2>1. signals' \in 0 .. MaxSignals
    BY <1>4, ShutdownAssumption DEF Signal
  <2>2. CASE main = "boot"
    BY <1>4, <2>1, <2>2, GoneKeeps DEF Signal
  <2>3. CASE main # "boot"
    BY <1>4, <2>1, <2>3 DEF Signal, Delivered
  <2> QED
    BY <2>2, <2>3
<1>5. CASE \E r \in Requests : Arrive(r) \/ Answer(r)
  <2> PICK r \in Requests : Arrive(r) \/ Answer(r)
    BY <1>5
  <2>0. request \in [Requests -> {"none", "open", "answered", "cut"}]
    OBVIOUS
  <2>1. /\ request' \in [Requests -> {"none", "open", "answered", "cut"}]
        /\ \A q \in Requests : request'[q] = "cut" => request[q] = "cut"
    BY <2>0 DEF Arrive, Answer
  <2>2. Alive /\ loop # "cut" /\ \A q \in Requests : request[q] # "cut"
    BY DEF Arrive, Answer
  <2>3. UNCHANGED <<kind, main, handler, inbox, running, cancelled, loop, closing, exit, met, signals>>
    BY DEF Arrive, Answer
  <2>4. ShutdownTypeOK'
    BY <2>1, <2>2, <2>3
  <2>5. Passing'
    BY <2>3
  <2> QED
    BY <2>4, <2>5
<1> QED
  BY <1>1, <1>2, <1>3, <1>4, <1>5

LEMMA InvStep == ShutdownInv /\ [ShutdownNext]_vars => ShutdownInv'
<1>1. ASSUME ShutdownInv, ShutdownNext PROVE ShutdownInv'
  BY <1>1, MainKeeps, HandlerKeeps, OthersKeep DEF ShutdownNext
<1>2. ASSUME ShutdownInv, UNCHANGED vars PROVE ShutdownInv'
  BY <1>2 DEF vars, ShutdownInv, ShutdownTypeOK, Passing, Alive
<1> QED
  BY <1>1, <1>2

\* What every reachable state satisfies: main leaves only after Stop.
THEOREM ShutdownInvariant == ShutdownSpec => []ShutdownInv
BY InvInit, InvStep, PTL DEF ShutdownSpec

\* The goroutines of main, signal, loop and requests stay within their labels,
\* and only a process that is gone has cut anything.
THEOREM ShutdownTypeCorrect == ShutdownSpec => []ShutdownTypeOK
<1>1. ShutdownInv => ShutdownTypeOK
  BY DEF ShutdownInv
<1> QED
  BY <1>1, ShutdownInvariant, PTL

\* A process that ends by itself has let its last tick or poll finish, if the
\* signal met the loop (Engine.Stop, Worker.Stop before Shutdown and cancel).
THEOREM NothingCut == ShutdownSpec => []WorkNotCut
<1>1. ShutdownInv => WorkNotCut
  BY DEF ShutdownInv, Passing, WorkNotCut, Late
<1> QED
  BY <1>1, ShutdownInvariant, PTL
=============================================================================
