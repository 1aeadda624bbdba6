---- MODULE MCCatalogManager ----
(***************************************************************************)
(* A small instance of the store on its own: two specs, two values of an   *)
(* entry and two of a record, under any order of calls.                    *)
(***************************************************************************)
EXTENDS CatalogManager, TLC

CONSTANTS s1, s2, e1, e2, r1, r2

Symmetry == Permutations({s1, s2}) \cup Permutations({e1, e2})
              \cup Permutations({r1, r2})
====
