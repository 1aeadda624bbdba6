---- MODULE CrawlWorkflow ----
(***************************************************************************)
(* The scheduled job (.github/workflows/crawl.yml): check the repository   *)
(* out on a fresh runner, set up and test, crawl, commit what has changed  *)
(* under data/, push.  The concurrency group lets one job run at a time    *)
(* and one wait, on the commit that was the head of the branch when it was *)
(* triggered.  Others may push to the branch meanwhile.  A step that fails,*)
(* the job's timeout and the loss of the runner end the job, and the       *)
(* runner's files go with it: only what is pushed lasts.                   *)
(***************************************************************************)
EXTENDS RunCrawler

VARIABLES
  job,          \* the step of the job that is next or under way, or "idle"
  event,        \* the event that has triggered the job, or the last one
  waiting,      \* the event of the job that waits for this one, if any
  repoCatalog,  \* data/catalog.json and
  repoHistory   \*   data/history at the head of the branch

repoVars     == <<repoCatalog, repoHistory>>
workflowVars == <<vars, job, event, waiting, repoVars>>

(* What github.event and github.sha say of a run: its input data_dir, which*)
(* is data/ or a directory that is not committed, the files under data/ of *)
(* the commit it is for, and whether that is still the head of the branch. *)
Events == [data_dir : {"data", "other"}, at : {"head", "behind"},
           catalog : Store!Catalogs, history : [SpecIds -> Seq(HistoryEntry)]]

EventNow(dir) ==
  [data_dir |-> dir, at |-> "head", catalog |-> repoCatalog, history |-> repoHistory]

dataDir == event.data_dir
Behind(e) == [e EXCEPT !.at = "behind"]

WorkflowInit ==
  /\ Init
  /\ job = "idle"
  /\ repoCatalog = catalogFile
  /\ repoHistory = historyFiles
  /\ event = EventNow("data")
  /\ waiting = {}

NoProcessRuns ==
  UNCHANGED <<entries, loaded, temp, pc, current, pending, stats, clock, seen>>

(* A run is triggered, by the clock or by hand.  It waits for the job that *)
(* runs, if one does, in place of the one that has been waiting for it.    *)
(* No run is triggered that MaxRuns would not let crawl any more.          *)
Trigger(dir) ==
  /\ clock + (IF job = "setup" THEN 1 ELSE 0) < MaxRuns
  /\ waiting' = {EventNow(dir)}
  /\ UNCHANGED <<vars, job, event, repoVars>>

(* Its job starts, on a runner that has what the commit of the event has,  *)
(* which need not be the head of the branch any more; another directory    *)
(* than data/ is empty.                                                    *)
Checkout(e) ==
  /\ job = "idle"
  /\ clock < MaxRuns
  /\ job' = "setup"
  /\ event' = e
  /\ waiting' = {}
  /\ IF e.data_dir = "data"
     THEN catalogFile' = e.catalog /\ historyFiles' = e.history
     ELSE /\ catalogFile' = Store!EmptyCatalog
          /\ historyFiles' = [id \in SpecIds |-> <<>>]
  /\ UNCHANGED repoVars /\ NoProcessRuns

(* The dependencies are installed and the tests have passed.               *)
CrawlStarts ==
  /\ job = "setup"
  /\ Start
  /\ job' = "crawl"
  /\ UNCHANGED <<event, waiting, repoVars>>

CrawlGoesOn == job = "crawl" /\ Step /\ UNCHANGED <<job, event, waiting, repoVars>>

CrawlBreaks ==
  /\ job = "crawl"
  /\ DiskError \/ Kill
  /\ UNCHANGED <<job, event, waiting, repoVars>>

CrawlSucceeds ==
  /\ job = "crawl" /\ pc = "exited"
  /\ job' = "commit"
  /\ UNCHANGED <<vars, event, waiting, repoVars>>

(* Suffixed with a double underscore: mutants, see Versioning.             *)
CrawlFails__CommitsAnyway ==
  /\ job = "crawl" /\ pc = "dead"
  /\ job' = "commit"
  /\ UNCHANGED <<vars, event, waiting, repoVars>>

(* The crawl step's exit code is not 0: the steps after it are skipped.    *)
CrawlFails ==
  /\ job = "crawl" /\ pc = "dead"
  /\ job' = "idle"
  /\ UNCHANGED <<vars, event, waiting, repoVars>>

(* Set-up, tests, upload, commit or push fail, or the runner is lost.      *)
JobDies ==
  /\ job \in {"setup", "commit", "push"}
  /\ job' = "idle"
  /\ UNCHANGED <<vars, event, waiting, repoVars>>

(* git add data/; git diff --cached --quiet || git commit.                 *)
Commit ==
  /\ job = "commit"
  /\ IF dataDir = "data" /\ <<catalogFile, historyFiles>> # <<event.catalog, event.history>>
     THEN job' = "push" ELSE job' = "idle"
  /\ UNCHANGED <<vars, event, waiting, repoVars>>

(* The head of the branch moves on, and leaves the waiting event behind.    *)
HeadMoves == waiting' = {Behind(e) : e \in waiting}

Push__CatalogOnly ==
  /\ job = "push"
  /\ IF event.at = "behind"
     THEN UNCHANGED <<repoVars, waiting>>
     ELSE repoCatalog' = catalogFile /\ UNCHANGED repoHistory /\ HeadMoves
  /\ job' = "idle"
  /\ UNCHANGED <<vars, event>>

Push__Forces ==
  /\ job = "push"
  /\ repoCatalog' = catalogFile /\ repoHistory' = historyFiles /\ HeadMoves
  /\ job' = "idle"
  /\ UNCHANGED <<vars, event>>

Push__Retries ==
  /\ job = "push"
  /\ IF event.at = "behind"
     THEN UNCHANGED <<repoVars, waiting, job>>
     ELSE /\ repoCatalog' = catalogFile /\ repoHistory' = historyFiles /\ HeadMoves
          /\ job' = "idle"
  /\ UNCHANGED <<vars, event>>

(* git push, which is rejected if the branch has moved since the event.    *)
Push ==
  /\ job = "push"
  /\ IF event.at = "behind"
     THEN UNCHANGED <<repoVars, waiting>>
     ELSE repoCatalog' = catalogFile /\ repoHistory' = historyFiles /\ HeadMoves
  /\ job' = "idle"
  /\ UNCHANGED <<vars, event>>

(* Somebody pushes a commit that does not touch data/.                     *)
OthersPush ==
  /\ job # "idle" \/ waiting # {}
  /\ event' = Behind(event)
  /\ HeadMoves
  /\ UNCHANGED <<vars, job, repoVars>>

JobStep == CrawlStarts \/ CrawlGoesOn \/ CrawlSucceeds \/ CrawlFails \/ Commit \/ Push

WorkflowNext ==
  \/ \E dir \in {"data", "other"} : Trigger(dir)
  \/ \E e \in waiting : Checkout(e)
  \/ JobStep
  \/ CrawlBreaks
  \/ JobDies
  \/ OthersPush

(* A job goes on until it ends: its steps end, or the timeout ends it.     *)
WorkflowSpec == /\ WorkflowInit /\ [][WorkflowNext]_workflowVars
                /\ WF_workflowVars(JobStep)

WorkflowTypeOK ==
  /\ TypeOK
  /\ job \in {"idle", "setup", "crawl", "commit", "push"}
  /\ event \in Events /\ waiting \subseteq Events
  /\ repoCatalog \in Store!Catalogs
  /\ repoHistory \in [SpecIds -> Seq(HistoryEntry)]

-----------------------------------------------------------------------------
(* Whatever happens to the job - killed in the middle of a spec, a full    *)
(* disk, a rejected push -, the repository only ever goes from the outcome *)
(* of one whole crawl to that of another (crawl.yml:54-84): see            *)
(* PublishedRepository.  The half-finished files that RunCrawler can leave *)
(* never get there.                                                        *)
RepoTrails    == [id \in SpecIds |-> RecordedContents(repoHistory[id])]
RepoPublished == [id \in SpecIds |-> HashOf(repoCatalog[id])]

Repository == INSTANCE PublishedRepository
                WITH Specs <- SpecIds, trail <- RepoTrails, published <- RepoPublished

ImplementsPublishedRepository == Repository!RepositorySpec

(* The numbers of a commit's crawl and those in its files agree: every     *)
(* record names the run that published it, once per run and in order, and  *)
(* the entry's last update is that run (crawl.yml:74-84, updater.py:132).  *)
UpdateTime(id) == IF repoCatalog[id] = None THEN 0 ELSE repoCatalog[id].last_updated_at

RepoHistoryIsDated ==
  \A id \in SpecIds :
    LET history == repoHistory[id] IN
    /\ \A i \in 1 .. Len(history) - 1 : history[i].fetched_at < history[i + 1].fetched_at
    /\ UpdateTime(id) = IF history = <<>> THEN 0 ELSE history[Len(history)].fetched_at

(* A job that has started ends, and with it the wait of the next one in    *)
(* the concurrency group (crawl.yml:17-25).                                *)
JobEnds == job # "idle" ~> job = "idle"
====
