---- MODULE AuditedCatalog ----
(***************************************************************************)
(* What the crawler as a whole promises about its two kinds of file: the   *)
(* history is the log, the catalog a digest of it.  A content is recorded  *)
(* before it is published, only the newest record of a spec can become its *)
(* published content, one spec is published at a time, and a catalog that  *)
(* is lost is lost as a whole: nothing is ever published that was not      *)
(* recorded, and nothing recorded is ever forgotten.                       *)
(***************************************************************************)
EXTENDS Sequences

CONSTANTS SpecIds, Hashes, None

VARIABLES
  trail,      \* per spec, the contents recorded, oldest first
  published   \* per spec, the content the catalog calls the latest, or None

auditVars == <<trail, published>>

AuditInit ==
  /\ trail = [id \in SpecIds |-> <<>>]
  /\ published = [id \in SpecIds |-> None]

RecordContent(id, hash) ==
  /\ trail' = [trail EXCEPT ![id] = Append(@, hash)]
  /\ UNCHANGED published

Publish(id) ==
  /\ trail[id] # <<>>
  /\ published' = [published EXCEPT ![id] = trail[id][Len(trail[id])]]
  /\ UNCHANGED trail

LoseCatalog ==
  /\ published' = [id \in SpecIds |-> None]
  /\ UNCHANGED trail

AuditNext ==
  \/ \E id \in SpecIds, hash \in Hashes : RecordContent(id, hash)
  \/ \E id \in SpecIds : Publish(id)
  \/ LoseCatalog

AuditSpec == AuditInit /\ [][AuditNext]_auditVars
====
