------------------------------ MODULE CondVar ------------------------------
(***************************************************************************)
(* The word of a condition variable on Horizon (core/sync/condition.d): an *)
(* int, minus the number of threads that have announced a wait and have    *)
(* not been accounted for by a wake-up or by their own timeout.            *)
(***************************************************************************)
EXTENDS Integers

\* ARBITRATION_SIGNAL_ALL: num_threads of a broadcast.
All == -1

\* _beginWait announces one more waiter.
Announced(val) == val - 1

\* _endWait: whether it found waiters, and the value the loop stores for the
\* value val it has loaded and num_threads n.
HasWaiters(val) == val < 0

\* A faulty variant: num_threads = -1 of a broadcast taken for a number.
AccountedAllAsNumber(val, n) ==
  IF HasWaiters(val) /\ val <= -n THEN val + n
  ELSE IF HasWaiters(val) THEN 0 ELSE val

Accounted(val, n) ==
  IF HasWaiters(val) /\ n > 0 /\ val <= -n THEN val + n
  ELSE IF HasWaiters(val) THEN 0 ELSE val

=============================================================================
