------------------------------ MODULE TaskPool ------------------------------
(***************************************************************************)
(* What the assignment service promises, without rows, versions, leases,   *)
(* clocks or processes: a pool of tasks, each held by at most one executor *)
(* at a time, finished only by the executor that holds it, and whose       *)
(* outcome is written at most once, under that executor's name.            *)
(***************************************************************************)
EXTENDS Sequences

CONSTANTS Tasks, Executors, NoExecutor

VARIABLES
  state,    \* state[t]: where task t is in its life
  holder,   \* holder[t]: who holds t, or held it when it was finished
  outcome   \* outcome[t]: the executors an outcome was written for

poolVars == <<state, holder, outcome>>

PoolInit ==
  /\ state = [t \in Tasks |-> "absent"]
  /\ holder = [t \in Tasks |-> NoExecutor]
  /\ outcome = [t \in Tasks |-> << >>]

Add(t) ==
  /\ state[t] = "absent"
  /\ state' = [state EXCEPT ![t] = "waiting"]
  /\ UNCHANGED <<holder, outcome>>

Offer(t) ==
  /\ state[t] = "waiting"
  /\ state' = [state EXCEPT ![t] = "offered"]
  /\ UNCHANGED <<holder, outcome>>

Take(t, e) ==
  /\ state[t] = "offered"
  /\ state' = [state EXCEPT ![t] = "held"]
  /\ holder' = [holder EXCEPT ![t] = e]
  /\ UNCHANGED outcome

\* The holder loses the task: it goes back to waiting, held by nobody.
Lapse(t) ==
  /\ state[t] = "held"
  /\ state' = [state EXCEPT ![t] = "waiting"]
  /\ holder' = [holder EXCEPT ![t] = NoExecutor]
  /\ UNCHANGED outcome

Finish(t) ==
  /\ state[t] = "held"
  /\ state' = [state EXCEPT ![t] = "done"]
  /\ UNCHANGED <<holder, outcome>>

WriteOutcome(t) ==
  /\ state[t] = "done"
  /\ outcome[t] = << >>
  /\ outcome' = [outcome EXCEPT ![t] = <<holder[t]>>]
  /\ UNCHANGED <<state, holder>>

PoolNext ==
  \E t \in Tasks :
    \/ Add(t)
    \/ Offer(t)
    \/ \E e \in Executors : Take(t, e)
    \/ Lapse(t)
    \/ Finish(t)
    \/ WriteOutcome(t)

PoolSpec == PoolInit /\ [][PoolNext]_poolVars
=============================================================================
