----------------------------- MODULE Exclusive ------------------------------
(***************************************************************************)
(* The loops of __ldrex and __strex by which the word of a condition       *)
(* variable is changed (_beginWait and _endWait in condition.d, the latter *)
(* also behind CondVar_Signal and CondVar_Broadcast): the word is loaded,  *)
(* and stored only if nobody has stored since, or else all is done again.  *)
(* A processor also forgets the load when the kernel gives it to another   *)
(* thread.                                                                 *)
(***************************************************************************)
EXTENDS CondVar, FiniteSets

CONSTANTS Threads,
          MaxWaits   \* bound: waits announced at a time

ASSUME MaxWaitsAssumption == MaxWaits \in Nat

VARIABLES word,   \* the CondVar
          told,   \* what _endWait last told each thread
          at,     \* where each thread is in its loop
          doing,  \* what it is to do to the word
          val,    \* the value it has loaded
          linked  \* the threads that can still store over it

wordVars == <<word, told, at, doing, val, linked>>

Works == {"announce", "signal", "broadcast"}

WordInit ==
  /\ word = 0 /\ told = [t \in Threads |-> FALSE]
  /\ at = [t \in Threads |-> "out"]
  /\ doing = [t \in Threads |-> "none"]
  /\ val = [t \in Threads |-> 0]
  /\ linked = {}

\* The body of the loop: what is stored for the value loaded.
NumThreads(work) == IF work = "signal" THEN 1 ELSE All

Changed(work, v) ==
  IF work = "announce" THEN Announced(v) ELSE Accounted(v, NumThreads(work))

Begin(t, work) ==
  /\ at[t] = "out"
  /\ work = "announce" =>
       Cardinality({o \in Threads : doing[o] = "announce"}) - word < MaxWaits
  /\ at' = [at EXCEPT ![t] = "load"]
  /\ doing' = [doing EXCEPT ![t] = work]
  /\ UNCHANGED <<word, told, val, linked>>

Ldrex(t) ==
  /\ at[t] = "load"
  /\ at' = [at EXCEPT ![t] = "store"]
  /\ val' = [val EXCEPT ![t] = word]
  /\ linked' = linked \cup {t}
  /\ UNCHANGED <<word, told, doing>>

\* A faulty variant: the word is stored whether or not it has changed.
StrexAlways(t) ==
  /\ at[t] = "store"
  /\ word' = Changed(doing[t], val[t])
  /\ told' = [told EXCEPT ![t] = IF doing[t] = "announce" THEN @ ELSE HasWaiters(val[t])]
  /\ at' = [at EXCEPT ![t] = "out"]
  /\ linked' = {}
  /\ doing' = [doing EXCEPT ![t] = "none"] /\ val' = [val EXCEPT ![t] = 0]

\* __strex stores and ends the loop, and with that the loads of all others...
Strex(t) ==
  /\ at[t] = "store" /\ t \in linked
  /\ word' = Changed(doing[t], val[t])
  /\ told' = [told EXCEPT ![t] = IF doing[t] = "announce" THEN @ ELSE HasWaiters(val[t])]
  /\ at' = [at EXCEPT ![t] = "out"]
  /\ linked' = {}
  /\ doing' = [doing EXCEPT ![t] = "none"] /\ val' = [val EXCEPT ![t] = 0]

\* A faulty variant: the loop goes round the store only.
StrexFailsForGood(t) ==
  /\ at[t] = "store" /\ t \notin linked
  /\ UNCHANGED wordVars

\* ... or it does not, and the loop goes round.
StrexFails(t) ==
  /\ at[t] = "store" /\ t \notin linked
  /\ at' = [at EXCEPT ![t] = "load"]
  /\ UNCHANGED <<word, told, doing, val, linked>>

Switch(t) ==
  /\ t \in linked
  /\ linked' = linked \ {t}
  /\ UNCHANGED <<word, told, at, doing, val>>

Step(t) == Ldrex(t) \/ Strex(t) \/ StrexFails(t)

WordNext ==
  \E t \in Threads :
    Step(t) \/ Switch(t) \/ \E work \in Works : Begin(t, work)

WordSpec == WordInit /\ [][WordNext]_wordVars

\* The loops run, and the kernel leaves a thread alone for once.
WordFairness ==
  /\ \A t \in Threads : WF_wordVars(Step(t))
  /\ <>[][~\E t \in Threads : Switch(t)]_wordVars
-----------------------------------------------------------------------------
\* The loops amount to one step on the word each.
AW == INSTANCE AtomicWord
ImplementsAtomicWord == AW!Spec

\* However the threads get in each other's way, one of them gets through.
SomeoneFinishes ==
  (\A t \in Threads : at[t] # "out") ~> (\E t \in Threads : at[t] = "out")
=============================================================================
