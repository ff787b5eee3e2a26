----------------------------- MODULE Allowance -----------------------------
(***************************************************************************)
(* What the charging quota promises: of each daily allowance some units    *)
(* are reserved and some used; units are reserved only while the limit     *)
(* leaves them, become used only from the reserved ones, and only reserved *)
(* ones are given back.  No rows, versions, retries or callers.            *)
(*                                                                         *)
(* Nothing stops a caller from spending or giving back a negative amount.  *)
(* That is a recall (used units are reserved again) or an overdraft (units *)
(* are reserved that nobody granted), and the allowance counts both.       *)
(***************************************************************************)
EXTENDS Integers

CONSTANTS
  Quotas,
  Limit,
  Amounts  \* amounts callers spend and give back

VARIABLES
  reserved,  \* reserved[q]: units set aside
  used,      \* used[q]: units consumed
  recalled,  \* recalled[q]: units spent in the negative
  overdrawn  \* overdrawn[q]: units given back in the negative

allowanceVars == <<reserved, used, recalled, overdrawn>>

AllowanceInit ==
  /\ reserved = [q \in Quotas |-> 0]
  /\ used = [q \in Quotas |-> 0]
  /\ recalled = [q \in Quotas |-> 0]
  /\ overdrawn = [q \in Quotas |-> 0]

Grant(q, n) ==
  /\ reserved' = [reserved EXCEPT ![q] = @ + n]
  /\ UNCHANGED <<used, recalled, overdrawn>>

Spend(q, n) ==
  /\ reserved' = [reserved EXCEPT ![q] = @ - n]
  /\ used' = [used EXCEPT ![q] = @ + n]
  /\ UNCHANGED <<recalled, overdrawn>>

GiveBack(q, n) ==
  /\ reserved' = [reserved EXCEPT ![q] = @ - n]
  /\ UNCHANGED <<used, recalled, overdrawn>>

\* n < 0
Recall(q, n) ==
  /\ reserved' = [reserved EXCEPT ![q] = @ - n]
  /\ used' = [used EXCEPT ![q] = @ + n]
  /\ recalled' = [recalled EXCEPT ![q] = @ - n]
  /\ UNCHANGED overdrawn

\* n < 0
Overdraw(q, n) ==
  /\ reserved' = [reserved EXCEPT ![q] = @ - n]
  /\ overdrawn' = [overdrawn EXCEPT ![q] = @ - n]
  /\ UNCHANGED <<used, recalled>>

AllowanceNext ==
  \E q \in Quotas :
    \/ \E n \in 1 .. Limit[q] - used[q] - reserved[q] : Grant(q, n)
    \/ \E n \in 1 .. reserved[q] : Spend(q, n) \/ GiveBack(q, n)
    \/ \E n \in {m \in Amounts : m < 0} : Recall(q, n) \/ Overdraw(q, n)

AllowanceSpec == AllowanceInit /\ [][AllowanceNext]_allowanceVars
=============================================================================
