------------------------------ MODULE LeasedWork ------------------------------
(***************************************************************************)
(* What the external-worker API promises the workers, with no rows, clocks *)
(* or transactions in it: a piece of work is offered, taken, given back or *)
(* taken over, and ended while a worker holds it.  An end is final.        *)
(***************************************************************************)

CONSTANTS
    Work,               \* pieces of work
    Workers,            \* worker ids
    Nobody              \* the holder of work that is not taken

VARIABLES
    status,             \* what became of every piece of work
    holder              \* who holds it

workVars == <<status, holder>>

Statuses == {"none", "open", "held", "done", "dead", "withdrawn"}

WorkTypeOK ==
    /\ status \in [Work -> Statuses]
    /\ holder \in [Work -> Workers \cup {Nobody}]

WorkInit ==
    /\ status = [j \in Work |-> "none"]
    /\ holder = [j \in Work |-> Nobody]

Same(j) == status'[j] = status[j] /\ holder'[j] = holder[j]

Becomes(j, s, w) == status'[j] = s /\ holder'[j] = w

Only(j) == \A k \in Work \ {j} : Same(k)

Offer(j) == Only(j) /\ status[j] = "none" /\ Becomes(j, "open", Nobody)

\* A worker takes several pieces at once, each of them open or held under a lock
\* that lapsed.
Take(w) ==
    \A j \in Work :
      \/ Same(j)
      \/ status[j] \in {"open", "held"} /\ Becomes(j, "held", w)

\* Locks that lapsed are cleared together, or a worker gives one back.
Release ==
    \A j \in Work :
      \/ Same(j)
      \/ status[j] = "held" /\ Becomes(j, "open", Nobody)

\* Work ends while somebody holds it: not before it is taken, and not after the
\* lock was given back or cleared.
End(w, j) ==
    /\ Only(j)
    /\ status[j] = "held" /\ holder[j] = w
    /\ Becomes(j, "done", Nobody) \/ Becomes(j, "dead", Nobody)

\* The process instance goes away.
Withdraw(j) ==
    /\ Only(j)
    /\ status[j] \in {"open", "held", "dead"}
    /\ Becomes(j, "withdrawn", Nobody)

WorkNext ==
    /\ WorkTypeOK'
    /\ \/ \E j \in Work : Offer(j) \/ Withdraw(j)
       \/ \E w \in Workers : Take(w)
       \/ Release
       \/ \E w \in Workers, j \in Work : End(w, j)

WorkSpec == WorkInit /\ [][WorkNext]_workVars
=============================================================================
