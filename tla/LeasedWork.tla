----------------------------- MODULE LeasedWork -----------------------------
(***************************************************************************)
(* What the job queue promises its handlers, without rows, sessions or     *)
(* clocks: an item of work is held by at most one worker at a time, it is  *)
(* only ever taken when nobody holds it, and it is taken at most as many   *)
(* times as have been granted.  A hold may end at any moment, without the  *)
(* holder noticing: it finished, its lease ran out, or the row was written *)
(* by somebody else.                                                       *)
(***************************************************************************)
EXTENDS Integers

CONSTANTS Jobs, Workers, NoWorker, Budgets

VARIABLES
    holder,     \* who holds each job
    left        \* how many more times each job may be taken

vars == <<holder, left>>

Init ==
    /\ holder = [j \in Jobs |-> NoWorker]
    /\ left = [j \in Jobs |-> 0]

Acquire(w, j) ==
    /\ holder[j] = NoWorker
    /\ left[j] > 0
    /\ holder' = [holder EXCEPT ![j] = w]
    /\ left' = [left EXCEPT ![j] = @ - 1]

Free(S) ==
    /\ holder' = [j \in Jobs |-> IF j \in S THEN NoWorker ELSE holder[j]]
    /\ UNCHANGED left

(* A new job, or a manual retry, which takes the job away from its holder. *)
Grant(j, n) ==
    /\ holder' = [holder EXCEPT ![j] = NoWorker]
    /\ left' = [left EXCEPT ![j] = n]

Next ==
    \/ \E w \in Workers, j \in Jobs : Acquire(w, j)
    \/ \E S \in SUBSET Jobs : Free(S)
    \/ \E j \in Jobs, n \in Budgets : Grant(j, n)

Spec == Init /\ [][Next]_vars

=============================================================================
