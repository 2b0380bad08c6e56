---------------------------- MODULE MediaCatalog ----------------------------
(***************************************************************************)
(* What the service promises of its media, without objects, requests or    *)
(* failures: a catalogue of rows that appear once, never change, and go    *)
(* only at their owner's wish, together with an open task for each.        *)
(***************************************************************************)
EXTENDS DeletionTasks

CONSTANTS User, Content

VARIABLE catalog \* catalog[id]: the row of id, or None

catalogVars == <<catalog, taskVars>>

CatalogInit ==
    /\ catalog = [id \in Task |-> None]
    /\ TasksInit

Publish(id, u, c) ==
    /\ catalog[id] = None
    /\ catalog' = [catalog EXCEPT ![id] = [user |-> u, content |-> c]]
    /\ UNCHANGED taskVars

Withdraw(u, ids) ==
    /\ \A id \in ids : catalog[id] # None /\ catalog[id].user = u
    /\ catalog' = [id \in Task |-> IF id \in ids THEN None ELSE catalog[id]]
    /\ Add(ids)
    /\ UNCHANGED <<held, removed>>

CatalogNext ==
    \/ \E id \in Task, u \in User, c \in Content : Publish(id, u, c)
    \/ \E u \in User, ids \in SUBSET Task : Withdraw(u, ids)
    \/ WorkStep /\ UNCHANGED catalog

CatalogSpec == CatalogInit /\ [][CatalogNext]_catalogVars

=============================================================================
