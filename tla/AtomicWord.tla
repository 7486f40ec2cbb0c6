----------------------------- MODULE AtomicWord -----------------------------
(***************************************************************************)
(* What the other modules take for granted of the word of a condition      *)
(* variable: it is read and changed in one step, and who accounts for      *)
(* waiters is told whether there were any at that moment.                  *)
(***************************************************************************)
EXTENDS CondVar

CONSTANT Threads

VARIABLES word,   \* the CondVar
          told    \* what _endWait last told each thread

Init == word = 0 /\ told = [t \in Threads |-> FALSE]

Announce ==
  /\ word' = Announced(word)
  /\ UNCHANGED told

Account(t, n) ==
  /\ word' = Accounted(word, n)
  /\ told' = [told EXCEPT ![t] = HasWaiters(word)]

Next == Announce \/ \E t \in Threads : Account(t, 1) \/ Account(t, All)

Spec == Init /\ [][Next]_<<word, told>>
=============================================================================
