---- MODULE DurableStore ----
(***************************************************************************)
(* What crawler/catalog.py promises its caller: a private view of the      *)
(* catalog that is edited in memory, a durable catalog that is replaced by *)
(* the view in one step, and durable trails that only ever grow by one     *)
(* record at their end.  Losing the process reverts the view to what is    *)
(* durable and does nothing else.                                          *)
(***************************************************************************)
EXTENDS Naturals, Sequences

CONSTANTS SpecIds, Entry, Record, None

VARIABLES view, catalog, trail

absVars == <<view, catalog, trail>>

AbsInit ==
  /\ view = [id \in SpecIds |-> None]
  /\ catalog = [id \in SpecIds |-> None]
  /\ trail = [id \in SpecIds |-> <<>>]

Put(id, e) ==
  /\ view' = [view EXCEPT ![id] = e]
  /\ UNCHANGED <<catalog, trail>>

Commit ==
  /\ catalog' = view
  /\ UNCHANGED <<view, trail>>

Extend(id, r) ==
  /\ trail' = [trail EXCEPT ![id] = Append(@, r)]
  /\ UNCHANGED <<view, catalog>>

Revert ==
  /\ view' = catalog
  /\ UNCHANGED <<catalog, trail>>

AbsNext ==
  \/ \E id \in SpecIds, e \in Entry : Put(id, e)
  \/ Commit
  \/ \E id \in SpecIds, r \in Record : Extend(id, r)
  \/ Revert

AbsSpec == AbsInit /\ [][AbsNext]_absVars
====
