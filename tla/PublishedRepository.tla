---- MODULE PublishedRepository ----
(***************************************************************************)
(* What the daily job promises to those who read the git repository: every *)
(* commit is the outcome of one whole crawl.  In it, a spec either is as   *)
(* before, or its trail has grown by exactly the content that its catalog  *)
(* entry now calls the latest, a content other than the one before.        *)
(***************************************************************************)
EXTENDS Sequences

CONSTANTS Specs, Hashes, None

VARIABLES trail,      \* the digests in each history file, oldest first
          published   \* the digest in each catalog entry, or None

RepositoryInit ==
  /\ trail = [s \in Specs |-> <<>>]
  /\ published = [s \in Specs |-> None]

Extends(s, hash) ==
  /\ hash # published[s]
  /\ trail'[s] = Append(trail[s], hash)
  /\ published'[s] = hash

IsKept(s) == trail'[s] = trail[s] /\ published'[s] = published[s]

PublishRun ==
  /\ DOMAIN trail' = Specs /\ DOMAIN published' = Specs
  /\ \A s \in Specs : IsKept(s) \/ \E hash \in Hashes : Extends(s, hash)

RepositorySpec == RepositoryInit /\ [][PublishRun]_<<trail, published>>
====
