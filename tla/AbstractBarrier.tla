-------------------------- MODULE AbstractBarrier --------------------------
(***************************************************************************)
(* What core/sync/barrier.d promises: "a barrier across which threads may  *)
(* only travel in groups of a specific size".  Arrivals gather until there *)
(* are limit of them; then they may all leave, each in its own time, while *)
(* the next group gathers.                                                 *)
(***************************************************************************)
EXTENDS Naturals, FiniteSets

CONSTANTS Threads, Limit

VARIABLES gathering,  \* arrived, and the group is not full
          leaving     \* in a full group, not gone yet

Init == gathering = {} /\ leaving = {}

Arrive(t) ==
  /\ t \notin gathering \cup leaving
  /\ IF Cardinality(gathering) + 1 = Limit
     THEN /\ gathering' = {}
          /\ leaving' = leaving \cup gathering \cup {t}
     ELSE /\ gathering' = gathering \cup {t}
          /\ UNCHANGED leaving

Leave(t) ==
  /\ t \in leaving
  /\ leaving' = leaving \ {t}
  /\ UNCHANGED gathering

Next == \E t \in Threads : Arrive(t) \/ Leave(t)

Spec == Init /\ [][Next]_<<gathering, leaving>>

FairSpec == Spec /\ \A t \in Threads : WF_<<gathering, leaving>>(Leave(t))
=============================================================================
