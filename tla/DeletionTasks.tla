--------------------------- MODULE DeletionTasks ---------------------------
(***************************************************************************)
(* What the deletion queue promises, without leases, attempts, clocks or   *)
(* the reports of failed statements: an enqueued task stays open until a   *)
(* worker that took it while it was open, and has removed its object since *)
(* then, closes it.  A worker that has not removed the object can only     *)
(* open the task again.  Several workers may hold one task.                *)
(***************************************************************************)

CONSTANTS Task, Worker, None

VARIABLES
    open,      \* tasks still to be done
    held,      \* held[w]: the task worker w took, or None
    removed    \* workers that removed the object of the task they hold

taskVars == <<open, held, removed>>

TasksInit ==
    /\ open = {}
    /\ held = [w \in Worker |-> None]
    /\ removed = {}

Add(ids) == open' = open \cup ids

Take(w, id) ==
    /\ held[w] = None
    /\ id \in open
    /\ held' = [held EXCEPT ![w] = id]
    /\ UNCHANGED <<open, removed>>

Remove(w) ==
    /\ held[w] # None
    /\ removed' = removed \cup {w}
    /\ UNCHANGED <<open, held>>

Release(w) ==
    /\ held[w] # None
    /\ \/ UNCHANGED open
       \/ w \in removed /\ open' = open \ {held[w]}
       \/ w \notin removed /\ open' = open \cup {held[w]}
    /\ held' = [held EXCEPT ![w] = None]
    /\ removed' = removed \ {w}

WorkStep ==
    \E w \in Worker :
        \/ \E id \in Task : Take(w, id)
        \/ Remove(w)
        \/ Release(w)

TasksNext ==
    \/ \E ids \in SUBSET Task : Add(ids) /\ UNCHANGED <<held, removed>>
    \/ WorkStep

TasksSpec == TasksInit /\ [][TasksNext]_taskVars

=============================================================================
