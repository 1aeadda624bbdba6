---- MODULE CrawlWorkflowProofs ----
(***************************************************************************)
(* Proofs about the scheduled job: what a git repository that only whole   *)
(* crawls are pushed to can be relied upon for, for every sequence of      *)
(* jobs, whatever kills them or fails in them.                             *)
(***************************************************************************)
EXTENDS CrawlWorkflow, CrawlHistoryProofs

-----------------------------------------------------------------------------
(*                       The job and the crawl in it                       *)

(* A crawl only runs in the crawl step, and what is committed comes from   *)
(* one that has succeeded.                                                 *)
JobInv ==
  /\ job \in {"idle", "setup", "crawl", "commit", "push"}
  /\ event \in Events /\ waiting \subseteq Events
  /\ repoCatalog \in Store!Catalogs
  /\ repoHistory \in [SpecIds -> Seq(HistoryEntry)]
  /\ job # "crawl" => ~Running
  /\ job \in {"commit", "push"} => pc = "exited"

(* What a job does to the variables of the crawl: it replaces the files at *)
(* the checkout, and runs the crawl in its crawl step.                     *)
LEMMA JobSteps ==
  ASSUME [WorkflowNext]_workflowVars
  PROVE  \/ \E e \in waiting : Checkout(e)
         \/ CrawlStarts
         \/ CrawlGoesOn
         \/ CrawlBreaks
         \/ /\ UNCHANGED vars
            /\ \/ \E dir \in {"data", "other"} : Trigger(dir)
               \/ OthersPush
               \/ UNCHANGED <<job, event, waiting, repoVars>>
               \/ /\ job = "crawl" /\ pc = "exited" /\ job' = "commit"
                  /\ UNCHANGED <<event, waiting, repoVars>>
               \/ /\ job # "crawl" \/ pc = "dead"
                  /\ job' = "idle" /\ UNCHANGED <<event, waiting, repoVars>>
               \/ /\ job = "commit" /\ dataDir = "data" /\ job' = "push"
                  /\ UNCHANGED <<event, waiting, repoVars>>
               \/ job = "push" /\ job' = "idle" /\ Push /\ UNCHANGED event
  BY DEF WorkflowNext, JobStep, CrawlSucceeds, CrawlFails, Commit, Push, JobDies,
     Trigger, OthersPush, workflowVars, repoVars

(* The crawl's steps in a job are steps of the crawl.                      *)
LEMMA CrawlInJob ==
  ASSUME [WorkflowNext]_workflowVars
  PROVE  [Next]_vars \/ \E e \in waiting : Checkout(e)
  BY JobSteps DEF CrawlStarts, CrawlGoesOn, CrawlBreaks, Next

(* The fields of events.                                                   *)
LEMMA EventTypes ==
  /\ \A e \in Events : /\ e.data_dir \in {"data", "other"} /\ e.at \in {"head", "behind"}
                       /\ e.catalog \in Store!Catalogs
                       /\ e.history \in [SpecIds -> Seq(HistoryEntry)]
                       /\ Behind(e) \in Events /\ Behind(e).at = "behind"
                       /\ Behind(e).data_dir = e.data_dir
                       /\ Behind(e).catalog = e.catalog /\ Behind(e).history = e.history
  /\ repoCatalog \in Store!Catalogs /\ repoHistory \in [SpecIds -> Seq(HistoryEntry)] =>
       \A dir \in {"data", "other"} : EventNow(dir) \in Events
<1>1. ASSUME NEW e \in Events
      PROVE  /\ e.data_dir \in {"data", "other"} /\ e.at \in {"head", "behind"}
             /\ e.catalog \in Store!Catalogs
             /\ e.history \in [SpecIds -> Seq(HistoryEntry)]
             /\ Behind(e) \in Events /\ Behind(e).at = "behind"
             /\ Behind(e).data_dir = e.data_dir
             /\ Behind(e).catalog = e.catalog /\ Behind(e).history = e.history
  BY DEF Events, Behind
<1> QED BY <1>1 DEF Events, EventNow

(* The files that a job starts with.                                       *)
LEMMA CheckoutFiles ==
  ASSUME NEW e, Checkout(e)
  PROVE  /\ \/ catalogFile' = e.catalog /\ historyFiles' = e.history
            \/ /\ catalogFile' = Store!EmptyCatalog
               /\ historyFiles' = [id \in SpecIds |-> <<>>]
               /\ e.data_dir # "data"
         /\ UNCHANGED <<entries, loaded, temp, pc, current, pending, stats, clock, seen>>
         /\ UNCHANGED <<repoCatalog, repoHistory>>
         /\ job = "idle" /\ job' = "setup" /\ event' = e /\ waiting' = {}
  BY DEF Checkout, NoProcessRuns, repoVars

LEMMA CheckoutKeepsTypes ==
  ASSUME TypeInv, JobInv, NEW e \in waiting, Checkout(e)
  PROVE  TypeInv'
<1>1. /\ UNCHANGED <<entries, loaded, temp, pc, current, pending, stats, clock, seen>>
      /\ catalogFile' \in {e.catalog, Store!EmptyCatalog}
      /\ historyFiles' \in {e.history, [id \in SpecIds |-> <<>>]}
  BY CheckoutFiles
<1>2. <<>> \in Seq(HistoryEntry)
  OBVIOUS
<1>3. historyFiles' \in [SpecIds -> Seq(HistoryEntry)] /\ catalogFile' \in Store!Catalogs
  BY <1>1, <1>2, EmptyTypes, EventTypes DEF JobInv
<1>4. Store!StoreTypeOK'
  BY <1>1, <1>3 DEF TypeInv, TypeOK, Store!StoreTypeOK, Store!Catalogs
<1>5. TypeOK'
  BY <1>1, <1>4 DEF TypeInv, TypeOK
<1>6. ControlOK'
  BY <1>1 DEF TypeInv, ControlOK, Running, InProcess, spec_id
<1> QED BY <1>5, <1>6 DEF TypeInv

LEMMA StepsKeepRunning ==
  /\ CrawlStarts =>
       job' = "crawl" /\ UNCHANGED <<event, waiting, repoCatalog, repoHistory>>
  /\ CrawlGoesOn \/ CrawlBreaks =>
       /\ job = "crawl" /\ job' = "crawl"
       /\ UNCHANGED <<event, waiting, repoCatalog, repoHistory>>
  BY DEF CrawlStarts, CrawlGoesOn, CrawlBreaks, repoVars

LEMMA EventsKeepTypes ==
  ASSUME JobInv, [WorkflowNext]_workflowVars
  PROVE  event' \in Events /\ waiting' \subseteq Events
<1>1. \A e \in Events : Behind(e) \in Events
  BY EventTypes
<1>2. CASE \E e \in waiting : Checkout(e)
  BY <1>2, CheckoutFiles DEF JobInv
<1>3. CASE \E dir \in {"data", "other"} : Trigger(dir)
  BY <1>3, EventTypes DEF Trigger, JobInv
<1>4. CASE OthersPush \/ (UNCHANGED event /\ Push)
  BY <1>1, <1>4 DEF OthersPush, Push, HeadMoves, JobInv
<1>5. CASE UNCHANGED <<event, waiting>>
  BY <1>5 DEF JobInv
<1> QED BY <1>2, <1>3, <1>4, <1>5, JobSteps, StepsKeepRunning

LEMMA JobInvStep ==
  ASSUME TypeInv, JobInv, [WorkflowNext]_workflowVars
  PROVE  JobInv'
<1> USE EventsKeepTypes
<1>2. CASE \E e \in waiting : Checkout(e)
  BY <1>2, CheckoutFiles DEF JobInv, Running, Store!Catalogs
<1>3. CASE CrawlStarts \/ CrawlGoesOn \/ CrawlBreaks
  BY <1>3, StepsKeepRunning DEF JobInv, Store!Catalogs
<1>4. CASE /\ UNCHANGED <<vars, repoVars>>
           /\ \/ UNCHANGED job
              \/ job = "crawl" /\ pc = "exited" /\ job' = "commit"
              \/ job = "commit" /\ job' = "push"
  BY <1>4 DEF JobInv, Running, vars, repoVars, Store!Catalogs
<1>5. CASE UNCHANGED <<vars, repoVars>> /\ job' = "idle" /\ (job # "crawl" \/ pc = "dead")
  BY <1>5 DEF JobInv, Running, vars, repoVars, Store!Catalogs
<1>6. CASE UNCHANGED vars /\ job = "push" /\ job' = "idle" /\ Push
  BY <1>6 DEF JobInv, Running, vars, repoVars, Push, TypeInv, TypeOK,
     Store!StoreTypeOK, Store!Catalogs
<1> QED BY <1>2, <1>3, <1>4, <1>5, <1>6, JobSteps DEF Trigger, OthersPush

LEMMA WorkflowTypes == WorkflowSpec => [](TypeInv /\ JobInv)
<1>1. WorkflowInit => TypeInv /\ JobInv
  <2> SUFFICES ASSUME WorkflowInit PROVE TypeInv /\ JobInv
    OBVIOUS
  <2>1. TypeInv
    BY TypeInvInit DEF WorkflowInit
  <2>2. /\ repoCatalog \in Store!Catalogs
        /\ repoHistory \in [SpecIds -> Seq(HistoryEntry)]
    BY <2>1 DEF WorkflowInit, TypeInv, TypeOK, Store!StoreTypeOK
  <2>3. event \in Events /\ waiting \subseteq Events
    BY <2>2, EventTypes DEF WorkflowInit
  <2> QED BY <2>1, <2>2, <2>3 DEF WorkflowInit, Init, JobInv, Running
<1>2. TypeInv /\ JobInv /\ [WorkflowNext]_workflowVars => TypeInv' /\ JobInv'
  BY CrawlInJob, TypeInvStep, CheckoutKeepsTypes, JobInvStep
<1> QED BY <1>1, <1>2, PTL DEF WorkflowSpec

(* Every variable of the job, its runner and the repository keeps its type.*)
THEOREM WorkflowTypeCorrect == WorkflowSpec => []WorkflowTypeOK
<1>1. TypeInv /\ JobInv => WorkflowTypeOK
  BY DEF TypeInv, JobInv, WorkflowTypeOK
<1> QED BY <1>1, WorkflowTypes, PTL

-----------------------------------------------------------------------------
(*                     The crawl on what was checked out                   *)

(* On a runner, files are read as they were written.                       *)
FilesAreRead == Faults \cap {"read_catalog", "read_history"} = {}

(* The crawl starts from the files, and appends to what it has read.       *)
MemoryInv ==
  /\ pc \in {"discover", "fetch"} => entries = catalogFile
  /\ pc \in InProcess => current \in seen
  /\ pc = "appending" => temp.history = Append(historyFiles[spec_id], pending)

LEMMA MemoryInvStep ==
  ASSUME FilesAreRead, TypeInv, SavingInv, MemoryInv, [Next]_vars
  PROVE  MemoryInv'
<1> USE DEF MemoryInv, Goto, InProcess
<1>1. CASE Start
  BY <1>1 DEF Start, Store!load, Store!CatalogReads, Store!diskVars, FilesAreRead
<1>2. CASE \E url \in Urls : Discover(url)
  BY <1>2 DEF Discover, storeVars
<1>3. CASE FetchFails \/ FetchNotModified
  BY <1>3 DEF Process, process, FetchFails, FetchNotModified, Next, Step, Start, Save,
     Saved, Finish, DiskError, Kill, Damage, Discover, Running, vars
<1>4. CASE \E content \in Contents : ParseRaises(content) \/ ParseRejects(content)
                                       \/ ParseAccepts(content)
  BY <1>4 DEF Process, process, ParseRaises, ParseRejects, ParseAccepts, Next, Step, Start,
     Save, Saved, Finish, DiskError, Kill, Damage, Discover, Running, vars
<1>5. CASE AppendHistory /\ UNCHANGED seen
  <2>1. temp'.history = Append(historyFiles[spec_id], pending)
    BY <1>5 DEF AppendHistory, Store!BeginAppend, Store!HistoryReads, FilesAreRead
  <2>2. UNCHANGED <<historyFiles, pending, current>> /\ pc = "append" /\ pc' = "appending"
    BY <1>5 DEF AppendHistory, Store!BeginAppend, Store!diskVars
  <2> QED BY <1>5, <2>1, <2>2 DEF spec_id
<1>6. CASE HistoryAppended /\ UNCHANGED seen
  BY <1>6 DEF HistoryAppended
<1>7. CASE Save
  BY <1>7 DEF Save
<1>8. CASE Saved
  BY <1>8 DEF Saved, Store!ReplaceCatalog, SavingInv
<1>9. CASE Finish \/ DiskError \/ Kill
  BY <1>9 DEF Finish, DiskError, Kill
<1>10. CASE Damage
  BY <1>10 DEF Damage, Running
<1>11. CASE UNCHANGED vars
  BY <1>11 DEF vars, spec_id
<1> QED BY <1>1, <1>2, <1>3, <1>4, <1>5, <1>6, <1>7, <1>8, <1>9, <1>10, <1>11
        DEF Next, Step, Process, process

(* A waiting event is for the commit that was the head when it came in.    *)
LEMMA WaitingEvents ==
  ASSUME [WorkflowNext]_workflowVars, NEW e \in waiting'
  PROVE  \/ e \in waiting /\ UNCHANGED repoVars
         \/ e.catalog = repoCatalog /\ e.history = repoHistory /\ UNCHANGED repoVars
         \/ \E w \in waiting : e = Behind(w)
<1>1. CASE \E w \in waiting : Checkout(w)
  BY <1>1, CheckoutFiles
<1>2. CASE \E dir \in {"data", "other"} : Trigger(dir)
  BY <1>2 DEF Trigger, EventNow
<1>3. CASE OthersPush
  BY <1>3 DEF OthersPush, HeadMoves
<1>4. CASE Push
  BY <1>4 DEF Push, HeadMoves
<1>5. CASE UNCHANGED <<waiting, repoVars>>
  BY <1>5
<1> QED BY <1>1, <1>2, <1>3, <1>4, <1>5, JobSteps, StepsKeepRunning DEF repoVars

CrawlInv ==
  /\ SavingInv /\ AppendInv /\ MemoryInv /\ VersionInv
  /\ \A id \in SpecIds : Consistent(repoCatalog[id])
  /\ \A e \in waiting, id \in SpecIds : Consistent(e.catalog[id])

(* The assumptions: the digest tells contents apart and the id URLs.       *)
IdsAreDistinct == \A u, v \in Urls : MakeSpecId[u] = MakeSpecId[v] => u = v

RunnerIsSound ==
  /\ FilesAreRead
  /\ NoUnsolicited304
  /\ DigestsAreDistinct
  /\ IdsAreDistinct

LEMMA CrawlInvariant ==
  ASSUME RunnerIsSound
  PROVE  WorkflowSpec => []CrawlInv
<1> USE DEF CrawlInv
<1>1. WorkflowInit => CrawlInv
  BY EmptyIsConsistent DEF WorkflowInit, Init, SavingInv, AppendInv, MemoryInv, InProcess,
     Store!StoreInit, VersionInv, Consistent
<1>2. ASSUME TypeInv, JobInv, CrawlInv, [WorkflowNext]_workflowVars
      PROVE  CrawlInv'
  <2>1. ASSUME NEW e \in waiting, Checkout(e)
        PROVE  CrawlInv'
    <3>1. /\ UNCHANGED <<entries, temp, pc, current, pending, seen, clock>>
          /\ catalogFile' \in {e.catalog, Store!EmptyCatalog}
          /\ UNCHANGED repoCatalog /\ waiting' = {}
      BY <2>1, CheckoutFiles
    <3>2. pc \in {"exited", "dead"}
      BY <1>2, <2>1, CheckoutFiles DEF JobInv, Running
    <3>3. VersionInv'
      BY <1>2, <3>1, EmptyIsConsistent DEF VersionInv, Consistent
    <3> QED BY <1>2, <3>1, <3>2, <3>3
            DEF SavingInv, AppendInv, MemoryInv, InProcess, Consistent
  <2>2. CASE [Next]_vars /\ ~\E e \in waiting : Checkout(e)
    <3>1. SavingInv' /\ AppendInv' /\ MemoryInv' /\ VersionInv'
      BY <1>2, <2>2, SavingInvStep, AppendInvStep, MemoryInvStep, VersionInvStep
         DEF RunnerIsSound
    <3>2. repoCatalog' \in {repoCatalog, catalogFile}
      BY <1>2, <2>2, JobSteps, StepsKeepRunning DEF Push, Trigger, OthersPush, repoVars
    <3>3. \A id \in SpecIds : Consistent(repoCatalog[id])'
      BY <1>2, <3>2 DEF VersionInv, Consistent
    <3>4. ASSUME NEW e \in waiting'
          PROVE  \A id \in SpecIds : Consistent(e.catalog[id])
      <4>1. CASE \E w \in waiting : e = Behind(w)
        BY <1>2, <4>1, EventTypes DEF JobInv
      <4> QED BY <1>2, <4>1, WaitingEvents
    <3>5. \A e \in waiting', id \in SpecIds : Consistent(e.catalog[id])'
      BY <3>4 DEF Consistent
    <3> QED BY <3>1, <3>3, <3>5
  <2> QED BY <1>2, <2>1, <2>2, CrawlInJob
<1>3. TypeInv /\ JobInv /\ CrawlInv /\ [WorkflowNext]_workflowVars => CrawlInv'
  BY <1>2
<1> QED BY <1>1, <1>3, WorkflowTypes, PTL DEF WorkflowSpec

-----------------------------------------------------------------------------
(*                  What a crawl has made of the repository                *)

(* The catalog that the crawl has made so far: memory, while a spec is     *)
(* being worked on.                                                        *)
Made == IF pc \in {"append", "appending", "save", "saving"} THEN entries ELSE catalogFile

TimeOf(entry) == IF entry = None THEN 0 ELSE entry.last_updated_at

(* A spec is as it is in the repository, or has one more record, of this   *)
(* run, with its new content; or the record is still to be appended.       *)
Kept(id) ==
  /\ historyFiles[id] = repoHistory[id]
  /\ HashOf(Made[id]) = HashOf(repoCatalog[id])
  /\ TimeOf(Made[id]) = TimeOf(repoCatalog[id])

HasNewContent(id, record) ==
  /\ record.fetched_at = clock
  /\ record.content_hash = HashOf(Made[id])
  /\ HashOf(Made[id]) # HashOf(repoCatalog[id])
  /\ TimeOf(Made[id]) = clock

Grown(id) ==
  \E record \in HistoryEntry :
    /\ historyFiles[id] = Append(repoHistory[id], record)
    /\ HasNewContent(id, record)

Recording(id) == historyFiles[id] = repoHistory[id] /\ HasNewContent(id, pending)

(* The job's data directory is the repository's, its commit is the head of *)
(* the branch, and its crawl goes on or has succeeded.                     *)
ForTheHead == dataDir = "data" /\ event.at = "head"
Crawls == ForTheHead /\ job \in {"crawl", "commit", "push"} /\ pc # "dead"

OutcomeInv ==
  /\ \A e \in waiting : e.at = "head" => e.catalog = repoCatalog /\ e.history = repoHistory
  /\ job = "setup" /\ ForTheHead =>
       catalogFile = repoCatalog /\ historyFiles = repoHistory
  /\ Crawls =>
       /\ \A id \in SpecIds : IF pc \in {"append", "appending"} /\ id = spec_id
                              THEN Recording(id) ELSE Kept(id) \/ Grown(id)
       /\ \A url \in Urls \ seen : Kept(MakeSpecId[url])
       /\ pc = "fetch" => Kept(spec_id)

(* What a step that leaves a spec alone leaves of it.                      *)
LEMMA SpecIsLeftAlone ==
  ASSUME NEW id \in SpecIds,
         historyFiles'[id] = historyFiles[id], Made'[id] = Made[id],
         UNCHANGED <<clock, repoCatalog, repoHistory>>
  PROVE  (Kept(id) => Kept(id)') /\ (Grown(id) => Grown(id)')
<1> HIDE DEF Made
<1> QED BY DEF Kept, Grown, HasNewContent

LEMMA MadeSoFar ==
  /\ pc \in {"append", "appending", "save", "saving"} => Made = entries
  /\ pc \in {"discover", "fetch", "exited", "dead"} => Made = catalogFile
  /\ pc' \in {"append", "appending", "save", "saving"} => Made' = entries'
  /\ pc' \in {"discover", "fetch", "exited", "dead"} => Made' = catalogFile'
  BY DEF Made

(* The end of a fetch.                                                     *)
LEMMA TimeAfterFetch ==
  ASSUME NEW old \in CatalogEntry \cup {None}, NEW e \in CatalogEntry,
         Failed(old, e) \/ Accepted(old, e), PendingFor(e)
  PROVE  /\ pc' = "append" => TimeOf(e) = clock /\ pending'.fetched_at = clock
         /\ pc' = "save" => TimeOf(e) = TimeOf(old)
<1>1. e # None
  BY NoneIsNoRecord
<1>2. CASE Failed(old, e)
  <2>1. e.last_updated_at = TimeOf(old)
    BY <1>2 DEF Failed, TimeOf, CatalogEntry
  <2> QED BY <1>1, <1>2, <2>1 DEF Failed, PendingFor, TimeOf
<1>3. CASE IsNew(old, e) \/ IsUpdated(old, e)
  BY <1>1, <1>3 DEF IsNew, IsUpdated, PendingFor, TimeOf
<1>4. CASE IsUnchanged(old, e)
  BY <1>1, <1>4 DEF IsUnchanged, PendingFor, TimeOf
<1> QED BY <1>2, <1>3, <1>4 DEF Accepted

LEMMA FetchOutcome ==
  ASSUME RunnerIsSound, VersionSignalIsImplied, TypeInv, JobInv, CrawlInv, OutcomeInv,
         Crawls, Process, pc = "fetch", UNCHANGED <<job, event, waiting, repoCatalog, repoHistory>>
  PROVE  OutcomeInv'
<1> USE DEF ForTheHead, dataDir
<1>1. CASE Died
  BY <1>1 DEF Died, OutcomeInv, Crawls
<1>2. CASE Rewritten
  <2>1. PICK e \in CatalogEntry : /\ Replaces(e)
                                  /\ Failed(existing, e) \/ Accepted(existing, e)
                                  /\ PendingFor(e)
    BY <1>2 DEF Rewritten
  <2>2. /\ spec_id \in SpecIds /\ existing \in CatalogEntry \cup {None}
        /\ spec_id' = spec_id
    BY <2>1, ExistingType DEF Replaces, spec_id
  <2>3. existing = Made[spec_id] /\ entries = Made
    BY MadeSoFar DEF existing, CrawlInv, MemoryInv
  <2>4. /\ UNCHANGED <<historyFiles, clock, seen, current>> /\ entries'[spec_id] = e
        /\ \A id \in SpecIds : id # spec_id => entries'[id] = entries[id]
    BY <2>1 DEF Replaces
  <2>5. pc' \in {"append", "save"} /\ Made' = entries'
    BY <2>1, MadeSoFar DEF PendingFor
  <2>6. /\ Kept(spec_id)
        /\ \A id \in SpecIds : id # spec_id => Kept(id) \/ Grown(id)
        /\ \A url \in Urls \ seen : Kept(MakeSpecId[url])
    BY DEF OutcomeInv
  <2>7. \A id \in SpecIds : id # spec_id =>
          (Kept(id) => Kept(id)') /\ (Grown(id) => Grown(id)')
    BY <2>3, <2>4, <2>5, SpecIsLeftAlone
  <2>8. \A url \in Urls \ seen' : Kept(MakeSpecId[url])'
    <3> SUFFICES ASSUME NEW url \in Urls \ seen PROVE Kept(MakeSpecId[url])'
      BY <2>4
    <3>1. MakeSpecId[url] # spec_id /\ MakeSpecId[url] \in SpecIds
      BY UtilsAreFunctions DEF RunnerIsSound, IdsAreDistinct, CrawlInv, MemoryInv, InProcess,
         spec_id, TypeInv, ControlOK
    <3> QED BY <2>6, <2>7, <3>1
  <2>9. IF pc' = "append" THEN Recording(spec_id)' ELSE Kept(spec_id)'
    <3>1. HashOf(e) = e.latest_hash
      BY NoneIsNoRecord DEF HashOf
    <3>2. \/ /\ pc' = "append"
             /\ pending'.content_hash = HashOf(e) /\ HashOf(e) # HashOf(existing)
          \/ pc' = "save" /\ HashOf(e) = HashOf(existing)
      BY <2>1, <2>2, <3>1, HashAfterFetch
    <3>3. /\ pc' = "append" => TimeOf(e) = clock /\ pending'.fetched_at = clock
          /\ pc' = "save" => TimeOf(e) = TimeOf(existing)
      BY <2>1, <2>2, TimeAfterFetch
    <3>4. /\ historyFiles[spec_id] = repoHistory[spec_id]
          /\ HashOf(existing) = HashOf(repoCatalog[spec_id])
          /\ TimeOf(existing) = TimeOf(repoCatalog[spec_id])
      BY <2>3, <2>6 DEF Kept
    <3>5. Made'[spec_id'] = e
      BY <2>2, <2>4, <2>5
    <3> QED BY <2>2, <2>4, <2>5, <3>2, <3>3, <3>4, <3>5 DEF Recording, HasNewContent, Kept
  <2>10. UNCHANGED spec_id /\ pc' # "fetch" /\ job # "setup"
    BY <2>2, <2>5 DEF Crawls
  <2> QED BY <2>5, <2>6, <2>7, <2>8, <2>9, <2>10 DEF OutcomeInv
<1> QED BY <1>1, <1>2, FetchStep DEF RunnerIsSound

(* The other steps of the crawl.                                           *)
LEMMA StepOutcome ==
  ASSUME RunnerIsSound, VersionSignalIsImplied, TypeInv, JobInv, CrawlInv, OutcomeInv,
         Crawls, Step, UNCHANGED <<job, event, waiting, repoCatalog, repoHistory>>
  PROVE  OutcomeInv'
<1> USE DEF Goto, ForTheHead, dataDir
<1>1. CASE \E url \in Urls \ seen : Discover(url)
  <2>1. PICK url \in Urls \ seen : Discover(url)
    BY <1>1
  <2>2. /\ pc = "discover" /\ pc' = "fetch" /\ current' = url /\ seen' = seen \cup {url}
        /\ UNCHANGED <<catalogFile, historyFiles, clock>>
    BY <2>1 DEF Discover, storeVars
  <2>3. spec_id' = MakeSpecId[url] /\ Made' = Made
    BY <2>2, MadeSoFar DEF spec_id
  <2>4. \A id \in SpecIds : (Kept(id) => Kept(id)') /\ (Grown(id) => Grown(id)')
    BY <2>2, <2>3, SpecIsLeftAlone
  <2>5. \A u \in Urls \ seen : Kept(MakeSpecId[u])'
    BY <2>4, UtilsAreFunctions DEF OutcomeInv
  <2> QED BY <2>2, <2>3, <2>4, <2>5 DEF OutcomeInv, Crawls
<1>2. CASE AppendHistory
  <2>1. /\ pc = "append" /\ pc' = "appending"
        /\ UNCHANGED <<entries, historyFiles, clock, current, pending>>
    BY <1>2 DEF AppendHistory, Store!BeginAppend, Store!diskVars
  <2>2. UNCHANGED <<Made, spec_id, seen>>
    BY <1>2, <2>1, MadeSoFar DEF spec_id, AppendHistory, Step, Process, Discover, Save, Saved,
       Finish
  <2>3. \A id \in SpecIds : (Kept(id) => Kept(id)') /\ (Grown(id) => Grown(id)')
    BY <2>1, <2>2, SpecIsLeftAlone
  <2>4. Recording(spec_id) => Recording(spec_id)'
    BY <2>1, <2>2 DEF Recording, HasNewContent
  <2>5. \A u \in Urls \ seen : Kept(MakeSpecId[u])'
    BY <2>3, UtilsAreFunctions DEF OutcomeInv
  <2> QED BY <2>1, <2>2, <2>3, <2>4, <2>5 DEF OutcomeInv, Crawls
<1>3. CASE HistoryAppended
  <2>1. /\ pc = "appending" /\ pc' = "save" /\ pending \in HistoryEntry
        /\ spec_id \in SpecIds /\ UNCHANGED <<entries, clock, current>>
        /\ historyFiles \in [SpecIds -> Seq(HistoryEntry)]
        /\ historyFiles' = [historyFiles EXCEPT ![spec_id] = temp.history]
    BY <1>3, AppendedHistories
  <2>2. UNCHANGED <<Made, spec_id, seen>>
    BY <1>3, <2>1, MadeSoFar DEF spec_id, HistoryAppended, Step, Process, Discover, Save,
       Saved, Finish
  <2>3. /\ historyFiles'[spec_id] = Append(historyFiles[spec_id], pending)
        /\ \A id \in SpecIds : id # spec_id => historyFiles'[id] = historyFiles[id]
    BY <2>1 DEF CrawlInv, MemoryInv
  <2>4. \A id \in SpecIds : id # spec_id =>
          (Kept(id) => Kept(id)') /\ (Grown(id) => Grown(id)')
    BY <2>1, <2>2, <2>3, SpecIsLeftAlone
  <2>5. Recording(spec_id)
    BY <2>1 DEF OutcomeInv
  <2>6. Grown(spec_id)'
    BY <2>1, <2>2, <2>3, <2>5 DEF Recording, Grown, HasNewContent
  <2>7. \A u \in Urls \ seen : MakeSpecId[u] # spec_id /\ MakeSpecId[u] \in SpecIds
    BY <2>1, UtilsAreFunctions DEF RunnerIsSound, IdsAreDistinct, CrawlInv, MemoryInv,
       InProcess, spec_id, TypeInv, ControlOK
  <2>8. \A u \in Urls \ seen : Kept(MakeSpecId[u])'
    BY <2>4, <2>7 DEF OutcomeInv
  <2>9. \A id \in SpecIds : Kept(id)' \/ Grown(id)'
    BY <2>1, <2>2, <2>4, <2>6 DEF OutcomeInv
  <2> QED BY <2>1, <2>2, <2>8, <2>9 DEF OutcomeInv, Crawls
<1>4. CASE Save \/ Saved \/ Finish
  <2>1. /\ UNCHANGED <<historyFiles, clock, seen>>
        /\ pc \notin {"append", "appending"} /\ pc' \notin {"append", "appending", "fetch"}
    BY <1>4 DEF Save, Saved, Finish, Store!BeginSave, Store!ReplaceCatalog,
       Store!ProcessEnds, Store!diskVars
  <2>2. Made' = Made
    <3>1. CASE Save
      BY <3>1, BetweenFetchAndSave, MadeSoFar DEF Save
    <3>2. CASE Saved
      BY <3>2, MadeSoFar DEF Saved, Store!ReplaceCatalog, CrawlInv, SavingInv
    <3>3. CASE Finish
      BY <3>3, MadeSoFar DEF Finish, Store!ProcessEnds, Store!diskVars
    <3> QED BY <1>4, <3>1, <3>2, <3>3
  <2>3. \A id \in SpecIds : (Kept(id) => Kept(id)') /\ (Grown(id) => Grown(id)')
    BY <2>1, <2>2, SpecIsLeftAlone
  <2>4. \A u \in Urls \ seen : Kept(MakeSpecId[u])'
    BY <2>3, UtilsAreFunctions DEF OutcomeInv
  <2> QED BY <2>1, <2>3, <2>4 DEF OutcomeInv, Crawls
<1>5. Process => pc = "fetch" \/ AppendHistory \/ HistoryAppended
  BY DEF Process, process, FetchFails, FetchNotModified, ParseRaises, ParseRejects,
     ParseAccepts
<1> QED BY <1>1, <1>2, <1>3, <1>4, <1>5, FetchOutcome DEF Step

LEMMA OutcomeInvStep ==
  ASSUME RunnerIsSound, VersionSignalIsImplied, TypeInv, JobInv, CrawlInv, OutcomeInv,
         [WorkflowNext]_workflowVars
  PROVE  OutcomeInv'
<1> USE DEF ForTheHead, dataDir
<1>1. CASE \E e \in waiting : Checkout(e)
  BY <1>1, CheckoutFiles DEF OutcomeInv, Crawls
<1>2. CASE CrawlStarts
  <2>1. /\ job = "setup" /\ job' = "crawl" /\ pc' = "discover"
        /\ UNCHANGED <<catalogFile, historyFiles, event, waiting, repoCatalog, repoHistory>>
    BY <1>2, StepsKeepRunning DEF CrawlStarts, Start, Goto, Store!load, Store!diskVars
  <2>2. Made' = catalogFile'
    BY <2>1, MadeSoFar
  <2>3. ASSUME ForTheHead
        PROVE  \A id \in SpecIds : Kept(id)'
    BY <2>1, <2>2, <2>3 DEF OutcomeInv, Kept
  <2> QED BY <2>1, <2>3, UtilsAreFunctions DEF OutcomeInv, Crawls
<1>3. CASE CrawlGoesOn
  <2>1. Step /\ job = "crawl" /\ UNCHANGED <<job, event, waiting, repoCatalog, repoHistory>>
    BY <1>3 DEF CrawlGoesOn, repoVars
  <2>2. pc # "dead"
    BY <2>1 DEF Step, Process, process, Discover, Save, Saved, Finish, FetchFails,
       FetchNotModified, ParseRaises, ParseRejects, ParseAccepts, AppendHistory,
       HistoryAppended
  <2>3. CASE Crawls
    BY <2>1, <2>3, StepOutcome
  <2>4. CASE ~Crawls
    BY <2>1, <2>2, <2>4 DEF Crawls, OutcomeInv
  <2> QED BY <2>3, <2>4
<1>4. CASE CrawlBreaks
  <2>1. pc' = "dead" /\ job' = "crawl"
    BY <1>4, StepsKeepRunning DEF CrawlBreaks, DiskError, Kill, Goto
  <2> QED BY <1>4, <2>1, StepsKeepRunning DEF OutcomeInv, Crawls
<1>5. ASSUME NEW e \in waiting', e.at = "head"
      PROVE  e.catalog = repoCatalog /\ e.history = repoHistory /\ UNCHANGED repoVars
  <2>1. ~\E w \in waiting : e = Behind(w)
    BY <1>5, EventTypes DEF JobInv
  <2> QED BY <1>5, <2>1, WaitingEvents DEF OutcomeInv
<1>6. CASE UNCHANGED vars /\ job' = "idle"
  BY <1>5, <1>6 DEF OutcomeInv, Crawls, repoVars
<1>7. CASE OthersPush
  <2>1. event'.at = "behind"
    BY <1>7, EventTypes DEF OthersPush, JobInv
  <2> QED BY <1>5, <2>1 DEF OutcomeInv, Crawls, repoVars
<1>8. CASE /\ UNCHANGED <<vars, event, repoCatalog, repoHistory>>
           /\ job' = job \/ (job \in {"crawl", "commit"} /\ job' \in {"commit", "push"})
  <2>1. UNCHANGED <<Made, spec_id, catalogFile, historyFiles, clock, pending, pc, seen>>
    BY <1>8 DEF vars, Made, spec_id
  <2>2. Crawls' => Crawls
    BY <1>8, <2>1 DEF Crawls
  <2>3. \A id \in SpecIds : /\ Kept(id) => Kept(id)'
                            /\ Grown(id) => Grown(id)'
                            /\ Recording(id) => Recording(id)'
    BY <1>8, <2>1 DEF Kept, Grown, Recording, HasNewContent
  <2>4. pc = "fetch" => spec_id \in SpecIds
    BY SpecIdType DEF TypeInv, ControlOK, InProcess
  <2>5. \A e \in waiting' : e.at = "head" =>
          e.catalog = repoCatalog' /\ e.history = repoHistory'
    BY <1>5, <1>8
  <2> QED BY <1>8, <2>1, <2>2, <2>3, <2>4, <2>5, UtilsAreFunctions DEF OutcomeInv
<1> QED BY <1>1, <1>2, <1>3, <1>4, <1>6, <1>7, <1>8, JobSteps DEF repoVars, Trigger

LEMMA OutcomeInvariant ==
  ASSUME RunnerIsSound
  PROVE  WorkflowSpec => []OutcomeInv
<1>1. WorkflowInit => OutcomeInv
  BY DEF WorkflowInit, OutcomeInv, Crawls
<1>2. VersionInv => VersionSignalIsImplied
  BY DEF VersionInv, Consistent, VersionSignalIsImplied, VersionChanged, HashChanged
<1>3. TypeInv /\ JobInv /\ CrawlInv /\ OutcomeInv /\ [WorkflowNext]_workflowVars
        => OutcomeInv'
  BY <1>2, OutcomeInvStep DEF CrawlInv
<1> QED BY <1>1, <1>3, WorkflowTypes, CrawlInvariant, PTL DEF WorkflowSpec

-----------------------------------------------------------------------------
(*                            What is pushed                               *)

(* A push publishes, for every spec, what the crawl has made of it.        *)
LEMMA PushedOutcome ==
  ASSUME JobInv, OutcomeInv, job = "push", ForTheHead
  PROVE  /\ Made = catalogFile
         /\ \A id \in SpecIds : Kept(id) \/ Grown(id)
<1>1. pc = "exited"
  BY DEF JobInv
<1> QED BY <1>1, MadeSoFar DEF OutcomeInv, Crawls

(* Only data/ is ever pushed, and only by Push.                            *)
LEMMA RepositoryChanges ==
  ASSUME [WorkflowNext]_workflowVars
  PROVE  \/ UNCHANGED <<repoCatalog, repoHistory>>
         \/ /\ job = "push" /\ job' = "idle" /\ event.at # "behind" /\ UNCHANGED vars
            /\ repoCatalog' = catalogFile /\ repoHistory' = historyFiles
  BY JobSteps, CheckoutFiles, StepsKeepRunning DEF Push, Trigger, OthersPush, repoVars

(* A commit is made of data/.                                              *)
PushedInv == job = "push" => dataDir = "data"

LEMMA PushedInvariant == WorkflowSpec => []PushedInv
<1>1. WorkflowInit => PushedInv
  BY DEF WorkflowInit, PushedInv
<1>2. JobInv /\ PushedInv /\ [WorkflowNext]_workflowVars => PushedInv'
  <2> SUFFICES ASSUME JobInv, PushedInv, [WorkflowNext]_workflowVars, job' = "push"
               PROVE  dataDir' = "data"
    BY DEF PushedInv
  <2>1. CASE OthersPush
    BY <2>1, EventTypes DEF OthersPush, PushedInv, JobInv, dataDir
  <2> QED BY <2>1, JobSteps, CheckoutFiles, StepsKeepRunning
          DEF PushedInv, Trigger, repoVars, dataDir
<1> QED BY <1>1, <1>2, WorkflowTypes, PTL DEF WorkflowSpec

LEMMA StepIsPublished ==
  ASSUME JobInv, OutcomeInv, PushedInv, [WorkflowNext]_workflowVars
  PROVE  [Repository!PublishRun]_<<RepoTrails, RepoPublished>>
<1>1. CASE UNCHANGED <<repoCatalog, repoHistory>>
  BY <1>1 DEF RepoTrails, RepoPublished
<1>2. CASE /\ job = "push" /\ event.at # "behind" /\ UNCHANGED vars
           /\ repoCatalog' = catalogFile /\ repoHistory' = historyFiles
  <2>1. Made = catalogFile /\ \A id \in SpecIds : Kept(id) \/ Grown(id)
    BY <1>2, PushedOutcome, EventTypes DEF PushedInv, ForTheHead, JobInv
  <2>2. /\ RepoTrails' = [id \in SpecIds |-> RecordedContents(historyFiles[id])]
        /\ RepoPublished' = [id \in SpecIds |-> HashOf(catalogFile[id])]
    BY <1>2 DEF RepoTrails, RepoPublished
  <2>3. ASSUME NEW id \in SpecIds, Kept(id)
        PROVE  Repository!IsKept(id)
    BY <2>1, <2>2, <2>3 DEF Kept, Repository!IsKept, RepoTrails, RepoPublished
  <2>4. ASSUME NEW id \in SpecIds, Grown(id)
        PROVE  \E hash \in Hashes : Repository!Extends(id, hash)
    <3>1. PICK record \in HistoryEntry :
                 /\ historyFiles[id] = Append(repoHistory[id], record)
                 /\ HasNewContent(id, record)
      BY <2>4 DEF Grown
    <3>2. record.content_hash \in Hashes /\ repoHistory[id] \in Seq(HistoryEntry)
      BY DEF HistoryEntry, JobInv
    <3>3. RecordedContents(historyFiles[id])
            = Append(RecordedContents(repoHistory[id]), record.content_hash)
      BY <3>1, <3>2, ContentsOfAppend
    <3>4. Repository!Extends(id, record.content_hash)
      BY <2>1, <2>2, <3>1, <3>3 DEF HasNewContent, Repository!Extends, RepoTrails,
         RepoPublished
    <3> QED BY <3>2, <3>4
  <2>5. DOMAIN RepoTrails' = SpecIds /\ DOMAIN RepoPublished' = SpecIds
    BY <2>2
  <2>6. \A id \in SpecIds : \/ Repository!IsKept(id)
                            \/ \E hash \in Hashes : Repository!Extends(id, hash)
    BY <2>1, <2>3, <2>4
  <2> QED BY <2>5, <2>6 DEF Repository!PublishRun
<1> QED BY <1>1, <1>2, RepositoryChanges

(* Whatever happens to the jobs, every commit to data/ is the outcome of   *)
(* one whole crawl: a spec is as before, or has one more record, of its    *)
(* new content.                                                            *)
THEOREM EveryCommitIsAWholeCrawl ==
  ASSUME RunnerIsSound
  PROVE  WorkflowSpec => ImplementsPublishedRepository
<1>1. WorkflowInit => Repository!RepositoryInit
  <2> SUFFICES ASSUME WorkflowInit PROVE Repository!RepositoryInit
    OBVIOUS
  <2>1. /\ repoCatalog = [id \in SpecIds |-> None]
        /\ repoHistory = [id \in SpecIds |-> <<>>]
    BY DEF WorkflowInit, Init, Store!StoreInit, Store!EmptyCatalog
  <2>2. RecordedContents(<<>>) = <<>>
    BY DEF RecordedContents
  <2> QED BY <2>1, <2>2 DEF Repository!RepositoryInit, RepoTrails, RepoPublished, HashOf
<1>2. JobInv /\ OutcomeInv /\ PushedInv /\ [WorkflowNext]_workflowVars
        => [Repository!PublishRun]_<<RepoTrails, RepoPublished>>
  BY StepIsPublished
<1> QED BY <1>1, <1>2, WorkflowTypes, OutcomeInvariant, PushedInvariant, PTL
        DEF WorkflowSpec, ImplementsPublishedRepository, Repository!RepositorySpec

-----------------------------------------------------------------------------
(*                  Records and entries name the same runs                 *)

(* The records of a history are of runs in order, the last of them the run *)
(* that the entry was updated in.                                          *)
IsDated(history, time) ==
  /\ \A i \in 1 .. Len(history) - 1 : history[i].fetched_at < history[i + 1].fetched_at
  /\ time = IF history = <<>> THEN 0 ELSE history[Len(history)].fetched_at

(* What is in the repository is of runs before this one, or of this one    *)
(* once it has been pushed.                                                *)
PastInv ==
  \A id \in SpecIds : \A i \in 1 .. Len(repoHistory[id]) :
    /\ repoHistory[id][i].fetched_at <= clock
    /\ job \in {"crawl", "commit", "push"} => repoHistory[id][i].fetched_at < clock

LEMMA LaterRecordIsDated ==
  ASSUME NEW h \in Seq(HistoryEntry), NEW record \in HistoryEntry, NEW time,
         IsDated(h, time),
         \A i \in 1 .. Len(h) : h[i].fetched_at < record.fetched_at
  PROVE  /\ IsDated(Append(h, record), record.fetched_at)
         /\ \A i \in 1 .. Len(Append(h, record)) :
              Append(h, record)[i].fetched_at <= record.fetched_at
<1> DEFINE n == Len(h)
           t == Append(h, record)
<1>1. /\ n \in Nat /\ Len(t) = n + 1 /\ t # <<>> /\ t[n + 1] = record
      /\ \A i \in 1 .. n : t[i] = h[i]
  BY AppendSplits, LenProperties
<1>2. \A i \in 1 .. n : h[i].fetched_at \in Nat
  <2>1. \A i \in 1 .. n : h[i] \in HistoryEntry
    BY ElementOfSeq
  <2> QED BY <2>1 DEF HistoryEntry
<1>3. record.fetched_at \in Nat
  BY DEF HistoryEntry
<1> HIDE DEF t
<1>4. \A i \in 1 .. n - 1 : h[i].fetched_at < h[i + 1].fetched_at
  BY DEF IsDated
<1>5. \A i \in 1 .. n : h[i].fetched_at < record.fetched_at
  OBVIOUS
<1> HIDE DEF n
<1>6. \A i \in 1 .. n : t[i].fetched_at < t[i + 1].fetched_at
  <2> SUFFICES ASSUME NEW i \in 1 .. n PROVE t[i].fetched_at < t[i + 1].fetched_at
    OBVIOUS
  <2>1. CASE i = n
    BY <1>1, <1>5, <2>1
  <2>2. CASE i # n
    <3>1. i \in 1 .. n - 1 /\ i + 1 \in 1 .. n
      BY <1>1, <2>2
    <3> QED BY <1>1, <1>4, <3>1
  <2> QED BY <2>1, <2>2
<1>7. IsDated(t, record.fetched_at)
  <2>1. Len(t) - 1 = n
    BY <1>1
  <2> QED BY <1>1, <1>6, <2>1 DEF IsDated
<1>8. \A i \in 1 .. Len(t) : t[i].fetched_at <= record.fetched_at
  <2> SUFFICES ASSUME NEW i \in 1 .. Len(t) PROVE t[i].fetched_at <= record.fetched_at
    OBVIOUS
  <2>1. i \in 1 .. n \/ i = n + 1
    BY <1>1
  <2> QED BY <1>1, <1>2, <1>3, <1>5, <2>1
<1> QED BY <1>7, <1>8 DEF t

LEMMA DatesOfTheRepository ==
  RepoHistoryIsDated <=> \A id \in SpecIds : IsDated(repoHistory[id], TimeOf(repoCatalog[id]))
  BY DEF RepoHistoryIsDated, IsDated, UpdateTime, TimeOf

LEMMA TimeGoesOn ==
  ASSUME clock \in Nat, [WorkflowNext]_workflowVars
  PROVE  \/ /\ clock' = clock
            /\ \/ job' \in {"idle", "setup"}
               \/ job' \in {"crawl", "commit", "push"} /\ job \in {"crawl", "commit", "push"}
               \/ UNCHANGED job
         \/ clock' = clock + 1 /\ CrawlStarts
<1>1. CASE CrawlStarts
  BY <1>1 DEF CrawlStarts, Start
<1>2. CASE CrawlGoesOn \/ CrawlBreaks
  <2>1. clock' = clock
    BY <1>2 DEF CrawlGoesOn, CrawlBreaks, Step, Process, process, Discover, Save, Saved,
       Finish, DiskError, Kill, FetchFails, FetchNotModified, ParseRaises, ParseRejects,
       ParseAccepts, AppendHistory, HistoryAppended
  <2> QED BY <1>2, <2>1, StepsKeepRunning
<1>3. CASE \E e \in waiting : Checkout(e)
  BY <1>3, CheckoutFiles
<1> QED BY <1>1, <1>2, <1>3, JobSteps DEF vars, repoVars, Trigger, OthersPush

LEMMA PushedIsDated ==
  ASSUME TypeInv, JobInv, OutcomeInv, PushedInv, PastInv, RepoHistoryIsDated,
         job = "push", job' = "idle", event.at # "behind", UNCHANGED vars,
         repoCatalog' = catalogFile, repoHistory' = historyFiles
  PROVE  PastInv' /\ RepoHistoryIsDated'
<1>1. Made = catalogFile /\ \A id \in SpecIds : Kept(id) \/ Grown(id)
  BY PushedOutcome, EventTypes DEF PushedInv, ForTheHead, JobInv
<1>2. clock' = clock /\ clock \in Nat
  BY DEF vars, TypeInv, TypeOK
<1>3. ASSUME NEW id \in SpecIds
      PROVE  /\ IsDated(historyFiles[id], TimeOf(catalogFile[id]))
             /\ \A i \in 1 .. Len(historyFiles[id]) : historyFiles[id][i].fetched_at <= clock
  <2>1. /\ repoHistory[id] \in Seq(HistoryEntry)
        /\ IsDated(repoHistory[id], TimeOf(repoCatalog[id]))
        /\ \A i \in 1 .. Len(repoHistory[id]) : repoHistory[id][i].fetched_at < clock
        /\ \A i \in 1 .. Len(repoHistory[id]) : repoHistory[id][i].fetched_at <= clock
    BY DatesOfTheRepository DEF JobInv, PastInv
  <2>2. CASE Kept(id)
    BY <1>1, <2>1, <2>2 DEF Kept
  <2>3. CASE Grown(id)
    <3>1. PICK record \in HistoryEntry :
                 /\ historyFiles[id] = Append(repoHistory[id], record)
                 /\ HasNewContent(id, record)
      BY <2>3 DEF Grown
    <3>2. record.fetched_at = clock /\ TimeOf(catalogFile[id]) = clock
      BY <1>1, <3>1 DEF HasNewContent
    <3>3. \A i \in 1 .. Len(repoHistory[id]) :
            repoHistory[id][i].fetched_at < record.fetched_at
      BY <2>1, <3>2
    <3>4. /\ IsDated(historyFiles[id], record.fetched_at)
          /\ \A i \in 1 .. Len(historyFiles[id]) :
               historyFiles[id][i].fetched_at <= record.fetched_at
      BY <2>1, <3>1, <3>3, LaterRecordIsDated
    <3> QED BY <3>2, <3>4
  <2> QED BY <1>1, <2>2, <2>3
<1>4. RepoHistoryIsDated'
  BY <1>3 DEF RepoHistoryIsDated, IsDated, UpdateTime, TimeOf
<1>5. PastInv'
  BY <1>2, <1>3 DEF PastInv
<1> QED BY <1>4, <1>5

(* In every commit, the records of a history are of runs in order, and the *)
(* entry's last update is the run of the newest.                           *)
THEOREM CommitsAreDated ==
  ASSUME RunnerIsSound
  PROVE  WorkflowSpec => []RepoHistoryIsDated
<1>1. WorkflowInit => PastInv /\ RepoHistoryIsDated
  <2> SUFFICES ASSUME WorkflowInit PROVE PastInv /\ RepoHistoryIsDated
    OBVIOUS
  <2>1. /\ repoCatalog = [id \in SpecIds |-> None]
        /\ repoHistory = [id \in SpecIds |-> <<>>]
    BY DEF WorkflowInit, Init, Store!StoreInit, Store!EmptyCatalog
  <2>2. Len(<<>>) = 0
    OBVIOUS
  <2> QED BY <2>1, <2>2 DEF PastInv, RepoHistoryIsDated, UpdateTime
<1>2. ASSUME TypeInv, JobInv, OutcomeInv, PushedInv, PastInv, RepoHistoryIsDated,
             [WorkflowNext]_workflowVars
      PROVE  PastInv' /\ RepoHistoryIsDated'
  <2>1. CASE UNCHANGED <<repoCatalog, repoHistory>>
    <3>1. RepoHistoryIsDated'
      BY <1>2, <2>1 DEF RepoHistoryIsDated, UpdateTime
    <3>2. clock \in Nat
      BY <1>2 DEF TypeInv, TypeOK
    <3>3. ASSUME NEW id \in SpecIds, NEW i \in 1 .. Len(repoHistory[id])
          PROVE  /\ repoHistory[id][i].fetched_at <= clock'
                 /\ job' \in {"crawl", "commit", "push"}
                      => repoHistory[id][i].fetched_at < clock'
      <4>1. repoHistory[id][i].fetched_at \in Nat
        <5>1. repoHistory[id][i] \in HistoryEntry
          BY <1>2, <3>3, ElementOfSeq DEF JobInv
        <5> QED BY <5>1 DEF HistoryEntry
      <4>2. /\ repoHistory[id][i].fetched_at <= clock
            /\ job \in {"crawl", "commit", "push"} => repoHistory[id][i].fetched_at < clock
        BY <1>2, <3>3 DEF PastInv
      <4> QED BY <1>2, <3>2, <4>1, <4>2, TimeGoesOn
    <3>4. PastInv'
      BY <2>1, <3>3 DEF PastInv
    <3> QED BY <3>1, <3>4
  <2> QED BY <1>2, <2>1, PushedIsDated, RepositoryChanges
<1>3. TypeInv /\ JobInv /\ OutcomeInv /\ PushedInv /\ PastInv /\ RepoHistoryIsDated
        /\ [WorkflowNext]_workflowVars => PastInv' /\ RepoHistoryIsDated'
  BY <1>2
<1> QED BY <1>1, <1>3, WorkflowTypes, OutcomeInvariant, PushedInvariant, PTL DEF WorkflowSpec
====
