---- MODULE RunCrawler ----
(***************************************************************************)
(* The crawl (scripts/run_crawler.py, main): load the catalog, run the     *)
(* pipeline on every discovered URL, save the catalog after each of them.  *)
(* Runs follow one another on the same data directory; a run may be killed *)
(* or may end with an exception at any point, and the next one starts from *)
(* what is on disk.                                                        *)
(***************************************************************************)
EXTENDS SpecUpdater

CONSTANT MaxRuns   \* bound on the number of runs

ASSUME MaxRunsIsNat == MaxRuns \in Nat

VARIABLE seen      \* the URLs that discover() has yielded in this run

vars == <<entries, loaded, catalogFile, historyFiles, temp,
          pc, current, pending, stats, clock, seen>>

Labels == {"exited", "dead", "discover", "fetch", "append", "appending",
           "save", "saving"}

Running == pc \notin {"exited", "dead"}

Init ==
  /\ Store!StoreInit
  /\ pc = "exited"
  /\ current = None
  /\ pending = None
  /\ stats = [f \in CrawlStats |-> 0]
  /\ clock = 0
  /\ seen = {}

(* Suffixed with a double underscore: mutants, see Versioning.             *)
Start__KeepsStats ==
  /\ ~Running
  /\ clock < MaxRuns
  /\ clock' = clock + 1
  /\ Store!load
  /\ seen' = {}
  /\ pending' = None
  /\ Goto("discover")
  /\ UNCHANGED <<current, stats>>

(* main up to the discovery loop.                                          *)
Start ==
  /\ ~Running
  /\ clock < MaxRuns
  /\ clock' = clock + 1
  /\ Store!load
  /\ stats' = [f \in CrawlStats |-> 0]
  /\ seen' = {}
  /\ pending' = None
  /\ Goto("discover")
  /\ UNCHANGED current

(* The loop takes the next search result.                                  *)
Discover(url) ==
  /\ pc = "discover"
  /\ seen' = seen \cup {url}
  /\ current' = url
  /\ Count({"total_discovered"})
  /\ Goto("fetch")
  /\ UNCHANGED <<storeVars, pending, clock>>

Process == process /\ UNCHANGED seen

Save__AtTheEndOnly ==
  /\ pc = "save"
  /\ current' = None
  /\ Goto("discover")
  /\ UNCHANGED <<storeVars, pending, stats, clock, seen>>

(* catalog.save() after every spec.                                        *)
Save ==
  /\ pc = "save"
  /\ Store!BeginSave
  /\ Goto("saving")
  /\ UNCHANGED <<current, pending, stats, clock, seen>>

Saved ==
  /\ pc = "saving"
  /\ Store!ReplaceCatalog
  /\ current' = None
  /\ Goto("discover")
  /\ UNCHANGED <<pending, stats, clock, seen>>

(* No more results: crawl_finished, return 0.                              *)
Finish ==
  /\ pc = "discover"
  /\ Store!ProcessEnds
  /\ Goto("exited")
  /\ UNCHANGED <<current, pending, stats, clock, seen>>

(* An OSError leaves append_history or save, and then main.                *)
DiskError ==
  /\ "write" \in Faults
  /\ pc \in {"append", "appending", "save", "saving"}
  /\ Store!ProcessEnds
  /\ current' = None
  /\ pending' = None
  /\ Goto("dead")
  /\ UNCHANGED <<stats, clock, seen>>

Kill ==
  /\ Running
  /\ Store!Kill
  /\ current' = None
  /\ pending' = None
  /\ Goto("dead")
  /\ UNCHANGED <<stats, clock, seen>>

(* Between two runs, what others do to the data directory.                 *)
Damage ==
  /\ ~Running
  /\ Store!DamageCatalog \/ \E id \in SpecIds : Store!DamageHistory(id)
  /\ UNCHANGED <<pc, current, pending, stats, clock, seen>>

(* main relies on discover() to yield no URL twice; that the code search    *)
(* keeps to it is shown in DiscoveredCrawl.                                *)
Step ==
  \/ \E url \in Urls \ seen : Discover(url)
  \/ Process \/ Save \/ Saved \/ Finish

Next == Start \/ Step \/ DiskError \/ Kill \/ Damage

Spec == Init /\ [][Next]_vars

(* A started process keeps running until it ends or is killed: its calls   *)
(* return, a fetch because its attempts are bounded and no connect or read *)
(* of a request may hang, which ends every answer of finite length.        *)
FairSpec == Spec /\ WF_vars(Step)

TypeOK ==
  /\ Store!StoreTypeOK
  /\ pc \in Labels
  /\ current \in Urls \cup {None}
  /\ pending \in HistoryEntry \cup {None}
  /\ stats \in [CrawlStats -> Nat]
  /\ clock \in Nat
  /\ seen \subseteq Urls

-----------------------------------------------------------------------------
(*                          Safety properties                              *)

(* "Persist after every spec so a mid-run crash loses at most one spec's   *)
(* worth of work" (run_crawler.py:123-124): what a crash would lose, the   *)
(* difference between memory and catalog.json, is in the entry of the spec *)
(* being processed and nowhere else.                                       *)
LosesAtMostOneSpec ==
  Running => \A id \in SpecIds :
               entries[id] # catalogFile[id] => current # None /\ id = spec_id

(* The catalog never gets ahead of the audit trail: the content that a     *)
(* saved entry calls its latest is recorded in the spec's history file     *)
(* (updater.py:149 comes before run_crawler.py:125).                       *)
Recorded(id, hash) ==
  \E i \in DOMAIN historyFiles[id] : historyFiles[id][i].content_hash = hash

PublishedIsRecorded ==
  \A id \in SpecIds :
    catalogFile[id] # None /\ catalogFile[id].latest_hash \in Hashes
      => Recorded(id, catalogFile[id].latest_hash)

(* The fields of an entry tell one story, whatever sequence of successes,  *)
(* failures and crashes led to it: an entry that never had valid content   *)
(* is an error without an update time; one that has was seen, updated and  *)
(* fetched in this order; a status of new or updated belongs to the last   *)
(* fetch (versioning.py:157-173, updater.py:177-198).                      *)
Coherent(e) ==
  /\ e.latest_hash = None <=> e.last_updated_at = 0
  /\ e.latest_hash = None => e.status = "error"
  /\ e.first_seen_at <= e.fetched_at
  /\ e.last_updated_at # 0 => e.last_updated_at \in e.first_seen_at .. e.fetched_at
  /\ e.status \in {"new", "updated"} => e.last_updated_at = e.fetched_at
  /\ e.fetched_at <= clock

EntriesAreCoherent ==
  \A id \in SpecIds : /\ entries[id] # None => Coherent(entries[id])
                      /\ catalogFile[id] # None => Coherent(catalogFile[id])

(* Of the two signals of determine_status one implies the other: because   *)
(* the catalog keeps the version of the last content that named one, a     *)
(* version can only differ when the bytes do (versioning.py:61-67, 164).   *)
(* The "two independent signals" of versioning.py:5 are one and its echo.  *)
VersionSignalIsImplied ==
  \A id \in SpecIds, content \in Contents :
    /\ entries[id] # None
    /\ ParseSpec[content] # Raised
    /\ ParseSpec[content].is_valid
    /\ VersionChanged(entries[id], ParseSpec[content])
    => HashChanged(entries[id], Sha256[content])

(* Every discovered spec is counted under exactly one outcome, and counted *)
(* by the time main saves the catalog (updater.py:84-157).                 *)
Outcomes == stats["new_specs"] + stats["updated_specs"]
              + stats["unchanged_specs"] + stats["error_specs"]

StatsAddUp ==
  /\ pc \in {"discover", "save", "saving", "exited"}
       => /\ stats["total_discovered"] = Outcomes
          /\ stats["total_fetched"] = Outcomes
          /\ stats["total_parsed"] \in Outcomes - stats["error_specs"]
                                       - stats["unchanged_specs"] .. Outcomes
  /\ pc \in {"fetch", "append", "appending"}
       => stats["total_discovered"] = Outcomes + 1

(* The run's summary agrees with the files: a run that reports n new or    *)
(* updated specs has written n history records (updater.py:149-155).       *)
RecordsOfThisRun ==
  UNION {{<<id, i>> : i \in {j \in DOMAIN historyFiles[id] :
                               historyFiles[id][j].fetched_at = clock}} :
         id \in SpecIds}

StatsMatchHistory ==
  pc \in {"discover", "save", "saving", "exited"} =>
    Cardinality(RecordsOfThisRun) = stats["new_specs"] + stats["updated_specs"]

(* "history files don't accumulate identical duplicate records on each     *)
(* crawl" (versioning.py:12-13).                                           *)
NoDuplicateRecords ==
  \A id \in SpecIds : \A i \in 1 .. Len(historyFiles[id]) - 1 :
    historyFiles[id][i].content_hash # historyFiles[id][i + 1].content_hash

(* Between two specs, the newest record of a spec's history is the content *)
(* that the catalog calls the latest (updater.py:132-149).                 *)
HistoryEndsAtCatalog ==
  pc \in {"discover", "exited"} => \A id \in SpecIds :
    IF catalogFile[id] = None \/ catalogFile[id].latest_hash = None
    THEN historyFiles[id] = <<>>
    ELSE /\ historyFiles[id] # <<>>
         /\ historyFiles[id][Len(historyFiles[id])].content_hash
              = catalogFile[id].latest_hash

(* A failed fetch or parse is noted "without overwriting good data"        *)
(* (updater.py:183), and an entry otherwise moves forward only: from one   *)
(* saved catalog to the next a spec keeps the time it was first seen, its  *)
(* times do not go back, and its content changes only in the run that says *)
(* so in last_updated_at.                                                  *)
MovesForward(old, new) ==
  /\ new.first_seen_at = old.first_seen_at
  /\ new.last_updated_at >= old.last_updated_at
  /\ new.fetched_at >= old.fetched_at
  /\ new.status = "error" =>
       new = [old EXCEPT !.status = "error", !.fetched_at = new.fetched_at]
  /\ new.latest_hash # old.latest_hash => new.last_updated_at = clock

EntriesMoveForward ==
  [][\A id \in SpecIds : catalogFile[id] # None /\ catalogFile'[id] # None
                          => MovesForward(catalogFile[id], catalogFile'[id])]_vars

(* Even when files are unreadable or damaged, no run leaves a part of a    *)
(* catalog: while one runs, the only new content of catalog.json is the    *)
(* whole catalog in its memory (catalog.py:100-122).                       *)
CatalogIsReplacedWhole ==
  [][loaded => catalogFile' \in {catalogFile, entries}]_vars

(* What an unreadable history file costs is all of its records or none: a  *)
(* run leaves the file as it was, or adds the record of this run to what it *)
(* held or to an empty list (catalog.py:184-209).                          *)
IsRecordOn(new, old) ==
  /\ new # <<>>
  /\ new[Len(new)].fetched_at = clock
  /\ SubSeq(new, 1, Len(new) - 1) \in {old, <<>>}

HistoryIsExtendedOrRestarted ==
  [][loaded => \A id \in SpecIds : \/ historyFiles'[id] = historyFiles[id]
                                   \/ IsRecordOn(historyFiles'[id], historyFiles[id])]_vars

(* The crawler is a write-ahead log: see AuditedCatalog for the promise.   *)
(* (updater.py:137-149 appends before run_crawler.py:125 saves.)           *)
HashOf(entry) == IF entry = None THEN None ELSE entry.latest_hash

RecordedContents(history) ==
  [i \in DOMAIN history |-> history[i].content_hash]

Trails    == [id \in SpecIds |-> RecordedContents(historyFiles[id])]
Published == [id \in SpecIds |-> HashOf(catalogFile[id])]

Audited == INSTANCE AuditedCatalog WITH trail <- Trails, published <- Published

ImplementsAuditedCatalog == Audited!AuditSpec

-----------------------------------------------------------------------------
(*        What the documentation says and the code does not do             *)

(* "id: human-readable github:owner/repo/filename format" (models.py:123): *)
(* an entry that describes a document has its human-readable id.           *)
TrackedSpecHasHumanId ==
  \A id \in SpecIds :
    catalogFile[id] # None /\ catalogFile[id].latest_hash \in Hashes
      => catalogFile[id].id # BlankId

-----------------------------------------------------------------------------
(*                              Liveness                                   *)

(* A spec that is being fetched gets an entry in catalog.json that carries *)
(* the time of this run, whatever the fetch brings, or the run is dead     *)
(* (updater.py:84-137, run_crawler.py:125).                                *)
EverySpecIsRecorded ==
  \A url \in Urls, t \in 1 .. MaxRuns :
    (pc = "fetch" /\ current = url /\ clock = t) ~>
      \/ pc = "dead"
      \/ /\ catalogFile[MakeSpecId[url]] # None
         /\ catalogFile[MakeSpecId[url]].fetched_at = t
====
