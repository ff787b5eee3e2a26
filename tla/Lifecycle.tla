----------------------------- MODULE Lifecycle -----------------------------
(***************************************************************************)
(* What the services promise of the records they keep: a record is born in *)
(* one status and from then on moves along the edges of its state machine, *)
(* one edge at a time.  No copies, versions, requests or failures.         *)
(***************************************************************************)
CONSTANTS
  Items,  \* ids of the records
  Born,   \* the status a record is created with
  Edges   \* the transitions of the state machine, as pairs of statuses

VARIABLE status  \* status[i], or "absent"

LifecycleInit == status = [i \in Items |-> "absent"]

Bear(i) ==
  /\ status[i] = "absent"
  /\ status' = [status EXCEPT ![i] = Born]

Move(i) ==
  \E e \in Edges :
    /\ status[i] = e[1]
    /\ status' = [status EXCEPT ![i] = e[2]]

LifecycleNext == \E i \in Items : Bear(i) \/ Move(i)

LifecycleSpec == LifecycleInit /\ [][LifecycleNext]_status
=============================================================================
