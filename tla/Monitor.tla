------------------------------ MODULE Monitor ------------------------------
(***************************************************************************)
(* What a mutex and a condition variable promise together: the Mesa-style  *)
(* monitor that the class comment of core/sync/condition.d describes.  A   *)
(* wait gives up the mutex and joins the waiters in one step; a            *)
(* notification releases waiters at once, and control is not transferred:  *)
(* a released thread has yet to take the mutex again.                      *)
(***************************************************************************)
CONSTANTS Threads, NoThread

VARIABLES owner,   \* the thread that holds the mutex
          place    \* where each thread is

Init ==
  /\ owner = NoThread
  /\ place = [t \in Threads |-> "out"]

Waiting == {t \in Threads : place[t] = "waiting"}

Enter(t) ==
  /\ owner = NoThread /\ place[t] = "out"
  /\ owner' = t
  /\ UNCHANGED place

Exit(t) ==
  /\ owner = t
  /\ owner' = NoThread
  /\ UNCHANGED place

Wait(t) ==
  /\ owner = t
  /\ owner' = NoThread
  /\ place' = [place EXCEPT ![t] = "waiting"]

Release(W) ==
  place' = [t \in Threads |-> IF t \in W THEN "released" ELSE place[t]]

Notify(t) ==
  /\ place[t] = "out"
  /\ \/ Waiting = {} /\ UNCHANGED place
     \/ \E w \in Waiting : Release({w})
  /\ UNCHANGED owner

NotifyAll(t) ==
  /\ place[t] = "out"
  /\ Release(Waiting)
  /\ UNCHANGED owner

TimeOut(t) ==
  /\ place[t] = "waiting"
  /\ Release({t})
  /\ UNCHANGED owner

Reenter(t) ==
  /\ place[t] = "released" /\ owner = NoThread
  /\ owner' = t
  /\ place' = [place EXCEPT ![t] = "out"]

Next == \E t \in Threads :
          \/ Enter(t) \/ Exit(t)
          \/ Wait(t) \/ TimeOut(t) \/ Reenter(t)
          \/ Notify(t) \/ NotifyAll(t)

Spec == Init /\ [][Next]_<<owner, place>>
=============================================================================
