---- MODULE CrawlHistoryProofs ----
(***************************************************************************)
(* Proofs about the audit trail and the numbers of a run: what the summary *)
(* counts, what the history files record, and how both go with the catalog *)
(* that is published.                                                      *)
(***************************************************************************)
EXTENDS CrawlEntriesProofs, FiniteSetTheorems, SequenceTheorems

-----------------------------------------------------------------------------
(*                      The counts of a run add up                         *)

(* The tallies, one conjunct per stage of the pipeline.                    *)
RecordsCounted == stats["new_specs"] + stats["updated_specs"]

StatsInv ==
  /\ pc \in {"discover", "save", "saving", "exited"}
       => /\ stats["total_discovered"] = Outcomes
          /\ stats["total_fetched"] = Outcomes
          /\ stats["total_parsed"] \in RecordsCounted .. Outcomes
  /\ pc = "fetch"
       => /\ stats["total_discovered"] = Outcomes + 1
          /\ stats["total_fetched"] = Outcomes
          /\ stats["total_parsed"] \in RecordsCounted .. Outcomes
  /\ pc \in {"append", "appending"}
       => /\ stats["total_discovered"] = Outcomes + 1
          /\ stats["total_fetched"] = Outcomes + 1
          /\ stats["total_parsed"] \in RecordsCounted + 1 .. Outcomes + 1

Tallies == [CrawlStats -> Nat]

LEMMA TallyTypes ==
  ASSUME stats \in Tallies
  PROVE  /\ stats["total_discovered"] \in Nat /\ stats["total_fetched"] \in Nat
         /\ stats["total_parsed"] \in Nat /\ stats["new_specs"] \in Nat
         /\ stats["updated_specs"] \in Nat /\ stats["unchanged_specs"] \in Nat
         /\ stats["error_specs"] \in Nat
  BY DEF Tallies, CrawlStats

LEMMA CountAdds ==
  ASSUME stats \in Tallies, NEW fields, Count(fields)
  PROVE  /\ \A f \in CrawlStats \ fields : stats'[f] = stats[f]
         /\ \A f \in CrawlStats \cap fields : stats'[f] = stats[f] + 1
  BY DEF Count, Tallies

LEMMA StatsInvStep ==
  ASSUME TypeInv, StatsInv, [Next]_vars
  PROVE  StatsInv'
<1> USE DEF Goto, StatsInv, Outcomes, RecordsCounted
<1>1. /\ stats \in Tallies
      /\ stats["total_discovered"] \in Nat /\ stats["total_fetched"] \in Nat
      /\ stats["total_parsed"] \in Nat /\ stats["new_specs"] \in Nat
      /\ stats["updated_specs"] \in Nat /\ stats["unchanged_specs"] \in Nat
      /\ stats["error_specs"] \in Nat
  BY TallyTypes DEF TypeInv, TypeOK, Tallies
<1>2. CASE Start
  BY <1>2 DEF Start, CrawlStats
<1>3. CASE \E url \in Urls : Discover(url)
  BY <1>1, <1>3, CountAdds DEF Discover, CrawlStats
<1>4. CASE FetchFails
  BY <1>1, <1>4, CountAdds DEF FetchFails, CrawlStats
<1>5. CASE FetchNotModified
  BY <1>1, <1>5, CountAdds DEF FetchNotModified, CrawlStats
<1>6. CASE \E content \in Contents : ParseRejects(content)
  BY <1>1, <1>6, CountAdds DEF ParseRejects, CrawlStats
<1>7. CASE \E content \in Contents : ParseRaises(content)
  BY <1>7 DEF ParseRaises
<1>8. ASSUME NEW content \in Contents, ParseAccepts(content)
      PROVE  StatsInv'
  <2>1. \/ /\ pc' = "append"
           /\ Count({"total_fetched", "total_parsed"})
        \/ /\ pc' = "save"
           /\ Count({"total_fetched", "total_parsed", "unchanged_specs"})
    BY <1>8 DEF ParseAccepts
  <2>2. pc = "fetch"
    BY <1>8 DEF ParseAccepts
  <2> QED BY <1>1, <2>1, <2>2, CountAdds DEF CrawlStats
<1>9. CASE AppendHistory
  BY <1>1, <1>9 DEF AppendHistory
<1>10. CASE HistoryAppended
  <2>1. \/ Count({"new_specs"})
        \/ Count({"updated_specs"})
    BY <1>10 DEF HistoryAppended
  <2>2. pc = "appending" /\ pc' = "save"
    BY <1>10 DEF HistoryAppended
  <2> QED BY <1>1, <2>1, <2>2, CountAdds DEF CrawlStats
<1>11. CASE Save \/ Saved \/ Finish \/ Damage
  BY <1>1, <1>11 DEF Save, Saved, Finish, Damage
<1>12. CASE DiskError \/ Kill
  BY <1>12 DEF DiskError, Kill
<1>13. CASE UNCHANGED vars
  BY <1>13 DEF vars
<1> QED BY <1>2, <1>3, <1>4, <1>5, <1>6, <1>7, <1>8, <1>9, <1>10, <1>11, <1>12, <1>13
        DEF Next, Step, Process, process

(* Whatever the faults, every discovered spec is counted once, under one   *)
(* outcome, by the time main saves the catalog.                            *)
THEOREM CountsAddUp == Spec => []StatsAddUp
<1>1. Init => StatsInv
  BY DEF Init, StatsInv, Outcomes, RecordsCounted, CrawlStats
<1>2. TypeInv /\ StatsInv /\ [Next]_vars => StatsInv'
  BY StatsInvStep
<1>3. TypeInv /\ StatsInv => StatsAddUp
  <2> SUFFICES ASSUME TypeInv, StatsInv PROVE StatsAddUp
    OBVIOUS
  <2>1. stats \in Tallies
    BY DEF TypeInv, TypeOK, Tallies
  <2> QED BY <2>1, TallyTypes DEF StatsInv, StatsAddUp, Outcomes, RecordsCounted
<1> QED BY <1>1, <1>2, <1>3, TypeInvariant, PTL DEF Spec

-----------------------------------------------------------------------------
(*                       Histories grow by one record                      *)

LEMMA AppendSplits ==
  ASSUME NEW S, NEW s \in Seq(S), NEW e \in S
  PROVE  /\ Append(s, e) \in Seq(S)
         /\ Append(s, e) # <<>>
         /\ Len(Append(s, e)) = Len(s) + 1
         /\ Append(s, e)[Len(s) + 1] = e
         /\ \A i \in 1 .. Len(s) : Append(s, e)[i] = s[i]
         /\ SubSeq(Append(s, e), 1, Len(s)) = s
<1> DEFINE t == Append(s, e)
<1>1. /\ t \in Seq(S) /\ t # <<>> /\ Len(t) = Len(s) + 1 /\ t[Len(s) + 1] = e
      /\ \A i \in 1 .. Len(s) : t[i] = s[i]
      /\ Len(s) \in Nat
  BY AppendProperties, LenProperties
<1>2. \A i \in 1 .. Len(s) : t[i] \in S
  BY <1>1, ElementOfSeq
<1> HIDE DEF t
<1>3. /\ SubSeq(t, 1, Len(s)) \in Seq(S)
      /\ Len(SubSeq(t, 1, Len(s))) = IF 1 <= Len(s) THEN Len(s) - 1 + 1 ELSE 0
      /\ \A i \in 1 .. Len(s) - 1 + 1 : SubSeq(t, 1, Len(s))[i] = t[1 + i - 1]
  BY <1>1, <1>2, SubSeqProperties
<1>4. SubSeq(t, 1, Len(s)) = s
  BY <1>1, <1>3, SeqEqual
<1> USE DEF t
<1> QED BY <1>1, <1>4

(* The record in hand is of this run, and it goes to the end of what was   *)
(* read.                                                                   *)
AppendInv ==
  /\ pc \in {"append", "appending"} => pending.fetched_at = clock
  /\ pc = "appending" =>
       \E old \in {historyFiles[spec_id], <<>>} : temp.history = Append(old, pending)

LEMMA AppendInvStep ==
  ASSUME TypeInv, AppendInv, [Next]_vars
  PROVE  AppendInv'
<1> USE DEF AppendInv, Goto
<1>1. ASSUME NEW content \in Contents, ParseAccepts(content)
      PROVE  AppendInv'
  BY <1>1 DEF ParseAccepts, build_history_entry
<1>2. CASE AppendHistory
  <2>1. PICK old \in {historyFiles[spec_id], <<>>} :
          temp' = [path |-> spec_id, catalog |-> Store!EmptyCatalog,
                   history |-> Append(old, pending)]
    BY <1>2 DEF AppendHistory, Store!BeginAppend, Store!HistoryReads
  <2>2. /\ UNCHANGED <<historyFiles, pending, clock>> /\ spec_id' = spec_id
        /\ pc = "append" /\ pc' = "appending"
    BY <1>2 DEF AppendHistory, Store!BeginAppend, Store!diskVars, spec_id
  <2>3. temp'.history = Append(old, pending)
    BY <2>1
  <2> QED BY <2>1, <2>2, <2>3
<1>3. CASE FetchFails \/ FetchNotModified \/ HistoryAppended
  BY <1>3 DEF FetchFails, FetchNotModified, HistoryAppended
<1>4. CASE \E content \in Contents : ParseRejects(content) \/ ParseRaises(content)
  BY <1>4 DEF ParseRejects, ParseRaises
<1>5. CASE Start \/ Save \/ Saved \/ Finish \/ DiskError \/ Kill \/ \E url \in Urls : Discover(url)
  BY <1>5 DEF Start, Save, Saved, Finish, DiskError, Kill, Discover
<1>6. CASE Damage
  BY <1>6 DEF Damage, Running
<1>7. CASE UNCHANGED vars
  BY <1>7 DEF vars, spec_id
<1> QED BY <1>1, <1>2, <1>3, <1>4, <1>5, <1>6, <1>7 DEF Next, Step, Process, process

LEMMA AppendInvariant == Spec => []AppendInv
<1>1. Init => AppendInv
  BY DEF Init, AppendInv
<1>2. TypeInv /\ AppendInv /\ [Next]_vars => AppendInv'
  BY AppendInvStep
<1> QED BY <1>1, <1>2, TypeInvariant, PTL DEF Spec

(* Only the end of an append, and damage between two runs, change a        *)
(* history file.                                                           *)
LEMMA HistoryChanges ==
  ASSUME [Next]_vars
  PROVE  UNCHANGED historyFiles \/ HistoryAppended \/ (Damage /\ ~Running)
<1> USE DEF Store!diskVars
<1>1. CASE Process
  BY <1>1 DEF Process, process, FetchFails, FetchNotModified, ParseRaises, record_error,
     ParseRejects, ParseAccepts, AppendHistory, Store!upsert, storeVars,
     Store!ProcessEnds, Store!BeginAppend
<1>2. CASE Start \/ Save \/ Saved \/ Finish \/ DiskError \/ Kill \/ \E url \in Urls : Discover(url)
  BY <1>2 DEF Start, Save, Saved, Finish, DiskError, Kill, Discover, Store!load, storeVars,
     Store!BeginSave, Store!ReplaceCatalog, Store!Kill, Store!ProcessEnds
<1>3. CASE Damage
  BY <1>3 DEF Damage
<1>4. CASE UNCHANGED vars
  BY <1>4 DEF vars
<1> QED BY <1>1, <1>2, <1>3, <1>4 DEF Next, Step

LEMMA AppendedHistories ==
  ASSUME TypeInv, HistoryAppended
  PROVE  /\ pc = "appending" /\ pc' = "save"
         /\ spec_id \in SpecIds /\ pending \in HistoryEntry
         /\ historyFiles \in [SpecIds -> Seq(HistoryEntry)]
         /\ historyFiles' = [historyFiles EXCEPT ![spec_id] = temp.history]
         /\ UNCHANGED <<entries, catalogFile, current, clock>>
<1>1. temp.path = spec_id /\ spec_id \in SpecIds
  BY SpecIdType DEF TypeInv, ControlOK, InProcess, HistoryAppended
<1> QED BY <1>1 DEF HistoryAppended, Store!ReplaceHistory, Goto, TypeInv, TypeOK, ControlOK,
        Store!StoreTypeOK

(* Even with unreadable and damaged files, a run leaves a history as it    *)
(* was, or adds its record to all of it or to an empty list.               *)
THEOREM HistoriesGrowByOneRecord == Spec => HistoryIsExtendedOrRestarted
<1> DEFINE Grows == loaded => \A id \in SpecIds :
             \/ historyFiles'[id] = historyFiles[id]
             \/ IsRecordOn(historyFiles'[id], historyFiles[id])
<1>1. ASSUME TypeInv, AppendInv, HistoryAppended
      PROVE  Grows
  <2>1. PICK old \in {historyFiles[spec_id], <<>>} : temp.history = Append(old, pending)
    BY <1>1, AppendedHistories DEF AppendInv
  <2>2. old \in Seq(HistoryEntry) /\ pending \in HistoryEntry /\ pending.fetched_at = clock
    BY <1>1, <2>1, AppendedHistories, EmptySeq DEF AppendInv
  <2> DEFINE new == Append(old, pending)
  <2>3. /\ new # <<>> /\ Len(new) = Len(old) + 1 /\ new[Len(old) + 1] = pending
        /\ SubSeq(new, 1, Len(old)) = old /\ Len(old) \in Nat
    BY <2>2, AppendSplits, LenProperties
  <2> HIDE DEF new
  <2>4. IsRecordOn(new, historyFiles[spec_id])
    <3>1. Len(new) - 1 = Len(old)
      BY <2>3
    <3> QED BY <2>1, <2>2, <2>3, <3>1 DEF IsRecordOn
  <2>5. \A id \in SpecIds : historyFiles'[id] = IF id = spec_id THEN new
                                                ELSE historyFiles[id]
    BY <1>1, <2>1, AppendedHistories DEF new
  <2> QED BY <2>4, <2>5
<1>2. ASSUME TypeInv, AppendInv, [Next]_vars
      PROVE  Grows
  <2>1. CASE Damage /\ ~Running
    <3>1. loaded => UNCHANGED historyFiles
      BY <2>1 DEF Damage, Store!DamageCatalog, Store!DamageHistory
    <3> QED BY <3>1
  <2> QED BY <1>1, <1>2, <2>1, HistoryChanges
<1>3. TypeInv /\ AppendInv /\ [Next]_vars => [Grows]_vars
  BY <1>2
<1> QED BY <1>3, TypeInvariant, AppendInvariant, PTL DEF Spec, HistoryIsExtendedOrRestarted

-----------------------------------------------------------------------------
(*                  The summary agrees with the histories                  *)

(* No record is from the future, and the records of this run are as many   *)
(* as its summary says.                                                    *)
DatedInv ==
  \A id \in SpecIds : \A i \in DOMAIN historyFiles[id] :
    historyFiles[id][i].fetched_at <= clock

CountedInv ==
  pc # "dead" => /\ IsFiniteSet(RecordsOfThisRun)
                 /\ Cardinality(RecordsOfThisRun) = RecordsCounted

LEMMA InThisRun ==
  \A id, i : <<id, i>> \in RecordsOfThisRun
               <=> /\ id \in SpecIds /\ i \in DOMAIN historyFiles[id]
                   /\ historyFiles[id][i].fetched_at = clock
  BY DEF RecordsOfThisRun

LEMMA OnlyPairs ==
  \A r \in RecordsOfThisRun : \E id \in SpecIds : \E i \in DOMAIN historyFiles[id] :
    r = <<id, i>>
  BY DEF RecordsOfThisRun

(* What an append does to a history file, when files are read as written.  *)
LEMMA AppendedRecord ==
  ASSUME HistoriesAreReadable, TypeInv, RecordInv, AppendInv, HistoryAppended
  PROVE  /\ historyFiles[spec_id] \in Seq(HistoryEntry)
         /\ pending \in HistoryEntry /\ pending.fetched_at = clock
         /\ spec_id \in SpecIds
         /\ historyFiles'[spec_id] = Append(historyFiles[spec_id], pending)
         /\ Len(historyFiles[spec_id]) \in Nat
         /\ DOMAIN historyFiles[spec_id] = 1 .. Len(historyFiles[spec_id])
         /\ Len(historyFiles'[spec_id]) = Len(historyFiles[spec_id]) + 1
         /\ DOMAIN historyFiles'[spec_id] = 1 .. Len(historyFiles[spec_id]) + 1
         /\ historyFiles'[spec_id][Len(historyFiles[spec_id]) + 1] = pending
         /\ \A i \in 1 .. Len(historyFiles[spec_id]) :
              historyFiles'[spec_id][i] = historyFiles[spec_id][i]
         /\ \A id \in SpecIds : id # spec_id => historyFiles'[id] = historyFiles[id]
<1> DEFINE old == historyFiles[spec_id]
           new == Append(old, pending)
<1>1. /\ spec_id \in SpecIds /\ pending \in HistoryEntry /\ pc = "appending"
      /\ historyFiles \in [SpecIds -> Seq(HistoryEntry)]
      /\ historyFiles' = [historyFiles EXCEPT ![spec_id] = temp.history]
  BY AppendedHistories
<1>2. old \in Seq(HistoryEntry) /\ pending.fetched_at = clock /\ temp.history = new
  BY <1>1 DEF RecordInv, AppendInv
<1>3. /\ new \in Seq(HistoryEntry) /\ Len(new) = Len(old) + 1
      /\ new[Len(old) + 1] = pending
      /\ \A i \in 1 .. Len(old) : new[i] = old[i]
  BY <1>1, <1>2, AppendSplits
<1>4. /\ Len(old) \in Nat /\ DOMAIN old = 1 .. Len(old) /\ DOMAIN new = 1 .. Len(new)
  BY <1>2, <1>3, LenProperties
<1>5. /\ historyFiles'[spec_id] = new
      /\ \A id \in SpecIds : id # spec_id => historyFiles'[id] = historyFiles[id]
  BY <1>1, <1>2
<1> HIDE DEF new
<1>6. DOMAIN new = 1 .. Len(old) + 1
  BY <1>3, <1>4
<1>7. historyFiles'[spec_id] = Append(historyFiles[spec_id], pending)
  BY <1>5 DEF new
<1> QED BY <1>1, <1>2, <1>3, <1>4, <1>5, <1>6, <1>7

(* An append adds one record of this run to those there are.               *)
LEMMA OneMoreRecord ==
  ASSUME HistoriesAreReadable, TypeInv, RecordInv, AppendInv, HistoryAppended
  PROVE  \E r : /\ r \notin RecordsOfThisRun
                /\ RecordsOfThisRun' = RecordsOfThisRun \cup {r}
<1> DEFINE n == Len(historyFiles[spec_id]) + 1
           r == <<spec_id, n>>
<1>1. r \notin RecordsOfThisRun
  BY InThisRun, AppendedRecord
<1>2. clock' = clock
  BY DEF HistoryAppended
<1>3. ASSUME NEW id \in SpecIds, NEW i \in DOMAIN historyFiles'[id]
      PROVE  historyFiles'[id][i].fetched_at = clock
               <=> \/ id = spec_id /\ i = n
                   \/ i \in DOMAIN historyFiles[id] /\ historyFiles[id][i].fetched_at = clock
  <2>1. CASE id = spec_id
    BY <2>1, AppendedRecord
  <2>2. CASE id # spec_id
    BY <2>2, AppendedRecord
  <2> QED BY <2>1, <2>2
<1>4. \A id \in SpecIds : DOMAIN historyFiles[id] \subseteq DOMAIN historyFiles'[id]
  BY AppendedRecord
<1>5. n \in DOMAIN historyFiles'[spec_id] /\ spec_id \in SpecIds
  BY AppendedRecord
<1> HIDE DEF n
<1>6. \A id, i : <<id, i>> \in RecordsOfThisRun'
                   <=> <<id, i>> \in RecordsOfThisRun \/ <<id, i>> = r
  <2> SUFFICES ASSUME NEW id, NEW i
               PROVE  <<id, i>> \in RecordsOfThisRun'
                        <=> <<id, i>> \in RecordsOfThisRun \/ <<id, i>> = r
    OBVIOUS
  <2>1. <<id, i>> \in RecordsOfThisRun'
          <=> /\ id \in SpecIds /\ i \in DOMAIN historyFiles'[id]
              /\ historyFiles'[id][i].fetched_at = clock
    BY <1>2 DEF RecordsOfThisRun
  <2> QED BY <1>3, <1>4, <1>5, <2>1, InThisRun
<1>7. \A x \in RecordsOfThisRun' : \E id \in SpecIds : \E i \in DOMAIN historyFiles'[id] :
        x = <<id, i>>
  BY DEF RecordsOfThisRun
<1>8. RecordsOfThisRun' = RecordsOfThisRun \cup {r}
  <2> HIDE DEF r
  <2> QED BY <1>6, <1>7, OnlyPairs DEF r
<1> QED BY <1>1, <1>8

LEMMA NoRecordFromTheFuture ==
  ASSUME HistoriesAreReadable, TypeInv, RecordInv, AppendInv, DatedInv, [Next]_vars
  PROVE  DatedInv'
<1>1. clock \in Nat /\ clock' \in {clock, clock + 1}
  BY DEF TypeInv, TypeOK, Next, Step, Process, process, vars, Start, Discover, Save, Saved,
     Finish, DiskError, Kill, Damage, FetchFails, FetchNotModified, ParseRaises,
     ParseRejects, ParseAccepts, AppendHistory, HistoryAppended
<1>2. historyFiles \in [SpecIds -> Seq(HistoryEntry)]
  BY DEF TypeInv, TypeOK, Store!StoreTypeOK
<1>3. ASSUME NEW id \in SpecIds, NEW i \in DOMAIN historyFiles[id]
      PROVE  historyFiles[id][i].fetched_at <= clock'
  <2>1. historyFiles[id][i] \in HistoryEntry
    BY <1>2, ElementOfSeq, LenProperties
  <2>2. historyFiles[id][i].fetched_at \in Nat
    BY <2>1 DEF HistoryEntry
  <2>3. historyFiles[id][i].fetched_at <= clock
    BY DEF DatedInv
  <2> QED BY <1>1, <2>2, <2>3
<1>4. CASE UNCHANGED historyFiles \/ (Damage /\ ~Running)
  <2>1. UNCHANGED historyFiles
    BY <1>4 DEF Damage, Store!DamageCatalog, Store!DamageHistory, HistoriesAreReadable
  <2> QED BY <1>3, <2>1 DEF DatedInv
<1>5. CASE HistoryAppended
  <2>1. ASSUME NEW id \in SpecIds, NEW i \in DOMAIN historyFiles'[id]
        PROVE  \/ i \in DOMAIN historyFiles[id] /\ historyFiles'[id][i] = historyFiles[id][i]
               \/ historyFiles'[id][i] = pending
    <3>1. CASE id = spec_id
      BY <1>5, <3>1, AppendedRecord
    <3>2. CASE id # spec_id
      BY <1>5, <3>2, AppendedRecord
    <3> QED BY <3>1, <3>2
  <2>2. pending.fetched_at = clock /\ clock' = clock
    BY <1>5, AppendedRecord DEF HistoryAppended
  <2>3. pending.fetched_at <= clock'
    BY <1>1, <2>2
  <2> QED BY <1>3, <2>1, <2>3 DEF DatedInv
<1> QED BY <1>4, <1>5, HistoryChanges

(* A run starts with no record of its own, and no count.                   *)
LEMMA RunStartsWithNothing ==
  ASSUME TypeInv, DatedInv, Start
  PROVE  RecordsOfThisRun' = {} /\ RecordsCounted' = 0
<1>1. clock \in Nat /\ clock' = clock + 1 /\ UNCHANGED historyFiles
  BY DEF TypeInv, TypeOK, Start, Store!load, Store!diskVars
<1>2. historyFiles \in [SpecIds -> Seq(HistoryEntry)]
  BY DEF TypeInv, TypeOK, Store!StoreTypeOK
<1>3. ASSUME NEW id \in SpecIds, NEW i \in DOMAIN historyFiles[id]
      PROVE  historyFiles[id][i].fetched_at # clock'
  <2>1. historyFiles[id][i] \in HistoryEntry
    BY <1>2, ElementOfSeq, LenProperties
  <2>2. historyFiles[id][i].fetched_at \in Nat
    BY <2>1 DEF HistoryEntry
  <2>3. historyFiles[id][i].fetched_at <= clock
    BY DEF DatedInv
  <2> QED BY <1>1, <2>2, <2>3
<1>4. RecordsOfThisRun' = {}
  BY <1>1, <1>3 DEF RecordsOfThisRun
<1>5. RecordsCounted' = 0
  BY DEF Start, RecordsCounted, CrawlStats
<1> QED BY <1>4, <1>5

LEMMA CountedInvStep ==
  ASSUME HistoriesAreReadable, TypeInv, RecordInv, AppendInv, DatedInv, CountedInv,
         [Next]_vars
  PROVE  CountedInv'
<1> USE DEF Goto
<1>1. /\ stats \in Tallies
      /\ stats["new_specs"] \in Nat /\ stats["updated_specs"] \in Nat
  BY TallyTypes DEF TypeInv, TypeOK, Tallies
<1>2. CASE Start
  BY <1>2, RunStartsWithNothing, FS_EmptySet DEF CountedInv
<1>3. CASE HistoryAppended
  <2>1. PICK r : r \notin RecordsOfThisRun /\ RecordsOfThisRun' = RecordsOfThisRun \cup {r}
    BY <1>3, OneMoreRecord
  <2>2. IsFiniteSet(RecordsOfThisRun) /\ Cardinality(RecordsOfThisRun) = RecordsCounted
    BY <1>3, AppendedHistories DEF CountedInv
  <2>3. /\ IsFiniteSet(RecordsOfThisRun')
        /\ Cardinality(RecordsOfThisRun') = RecordsCounted + 1
    BY <2>1, <2>2, FS_AddElement
  <2>4. Count({"new_specs"}) \/ Count({"updated_specs"})
    BY <1>3 DEF HistoryAppended
  <2>5. RecordsCounted' = RecordsCounted + 1
    BY <1>1, <2>4, CountAdds DEF CrawlStats, RecordsCounted
  <2> QED BY <2>3, <2>5 DEF CountedInv
<1>4. ASSUME UNCHANGED <<historyFiles, clock, RecordsCounted>>, pc # "dead" \/ pc' = "dead"
      PROVE  CountedInv'
  BY <1>4 DEF CountedInv, RecordsOfThisRun
<1>5. CASE Process /\ ~HistoryAppended
  <2>1. CASE \E content \in Contents : ParseRaises(content)
    BY <2>1 DEF ParseRaises, CountedInv
  <2>2. CASE \/ FetchFails \/ FetchNotModified \/ AppendHistory
             \/ \E content \in Contents : ParseRejects(content) \/ ParseAccepts(content)
    <3>1. UNCHANGED clock /\ pc # "dead"
      BY <2>2 DEF FetchFails, FetchNotModified, AppendHistory, ParseRejects, ParseAccepts
    <3>2. UNCHANGED historyFiles
      <4>1. Running
        BY <2>2 DEF Running, FetchFails, FetchNotModified, AppendHistory, ParseRejects,
           ParseAccepts
      <4> QED BY <1>5, <4>1, HistoryChanges
    <3>3. UNCHANGED RecordsCounted
      <4>1. \/ Count({"total_fetched", "error_specs"})
            \/ Count({"total_fetched", "unchanged_specs"})
            \/ Count({"total_fetched", "total_parsed", "error_specs"})
            \/ Count({"total_fetched", "total_parsed"})
            \/ Count({"total_fetched", "total_parsed", "unchanged_specs"})
            \/ UNCHANGED stats
        BY <2>2 DEF FetchFails, FetchNotModified, AppendHistory, ParseRejects, ParseAccepts
      <4> QED BY <1>1, <4>1, CountAdds DEF CrawlStats, RecordsCounted
    <3> QED BY <1>4, <3>1, <3>2, <3>3
  <2> QED BY <1>5, <2>1, <2>2 DEF Process, process
<1>6. CASE \E url \in Urls : Discover(url)
  <2>1. RecordsCounted' = RecordsCounted
    BY <1>1, <1>6, CountAdds DEF Discover, CrawlStats, RecordsCounted
  <2> QED BY <1>4, <1>6, <2>1 DEF Discover, storeVars
<1>7. CASE Save \/ Saved \/ Finish
  BY <1>4, <1>7 DEF Save, Saved, Finish, Store!BeginSave, Store!ReplaceCatalog,
     Store!ProcessEnds, Store!diskVars, RecordsCounted
<1>8. CASE DiskError \/ Kill
  BY <1>8 DEF DiskError, Kill, CountedInv
<1>9. CASE Damage
  <2>1. UNCHANGED historyFiles
    BY <1>9 DEF Damage, Store!DamageCatalog, Store!DamageHistory, HistoriesAreReadable
  <2> QED BY <1>4, <1>9, <2>1 DEF Damage, RecordsCounted
<1>10. CASE UNCHANGED vars
  BY <1>4, <1>10 DEF vars, RecordsCounted
<1> QED BY <1>2, <1>3, <1>5, <1>6, <1>7, <1>8, <1>9, <1>10 DEF Next, Step

(* A run that reports n new or updated specs has written n records, also   *)
(* when ids collide and the catalog cannot be read, as long as nothing     *)
(* hides or damages a history file.                                        *)
THEOREM SummaryMatchesHistories ==
  ASSUME HistoriesAreReadable
  PROVE  Spec => []StatsMatchHistory
<1>1. Init => DatedInv /\ CountedInv
  <2> SUFFICES ASSUME Init PROVE DatedInv /\ CountedInv
    OBVIOUS
  <2>1. \A id \in SpecIds : historyFiles[id] = <<>>
    BY DEF Init, Store!StoreInit
  <2>2. RecordsOfThisRun = {} /\ DatedInv
    BY <2>1 DEF RecordsOfThisRun, DatedInv
  <2>3. RecordsCounted = 0
    BY DEF Init, RecordsCounted, CrawlStats
  <2> QED BY <2>2, <2>3, FS_EmptySet DEF CountedInv
<1>2. TypeInv /\ RecordInv /\ AppendInv /\ DatedInv /\ CountedInv /\ [Next]_vars
        => DatedInv' /\ CountedInv'
  BY NoRecordFromTheFuture, CountedInvStep
<1>3. CountedInv => StatsMatchHistory
  BY DEF CountedInv, StatsMatchHistory, RecordsCounted
<1> QED BY <1>1, <1>2, <1>3, TypeInvariant, RecordInvariant, AppendInvariant, PTL DEF Spec

-----------------------------------------------------------------------------
(*                   The newest record and the catalog                     *)

LastHash(id) == IF historyFiles[id] = <<>> THEN None
                ELSE historyFiles[id][Len(historyFiles[id])].content_hash

LEMMA NewestRecordHasContent ==
  ASSUME TypeInv, NEW id \in SpecIds
  PROVE  LastHash(id) = None <=> historyFiles[id] = <<>>
<1>1. historyFiles[id] \in Seq(HistoryEntry)
  BY DEF TypeInv, TypeOK, Store!StoreTypeOK
<1>2. CASE historyFiles[id] # <<>>
  <2>1. historyFiles[id][Len(historyFiles[id])] \in HistoryEntry
    BY <1>1, <1>2, LenProperties, ElementOfSeq, EmptySeq
  <2>2. LastHash(id) \in Hashes
    BY <1>2, <2>1 DEF LastHash, HistoryEntry
  <2> QED BY <1>2, <2>2, NoneIsNoValue
<1>3. CASE historyFiles[id] = <<>>
  BY <1>3 DEF LastHash
<1> QED BY <1>2, <1>3

(* An append makes the pending content the newest of the spec, and of no   *)
(* other.                                                                  *)
LEMMA AppendMovesTheEnd ==
  ASSUME HistoriesAreReadable, TypeInv, RecordInv, AppendInv, HistoryAppended
  PROVE  /\ historyFiles'[spec_id] # <<>>
         /\ \A id \in SpecIds : LastHash(id)' = IF id = spec_id THEN pending.content_hash
                                                ELSE LastHash(id)
<1> DEFINE old == historyFiles[spec_id]
           new == historyFiles'[spec_id]
<1>1. /\ old \in Seq(HistoryEntry) /\ pending \in HistoryEntry
      /\ new = Append(old, pending)
      /\ \A id \in SpecIds : id # spec_id => historyFiles'[id] = historyFiles[id]
  BY AppendedRecord
<1>2. new # <<>> /\ Len(new) = Len(old) + 1 /\ new[Len(old) + 1] = pending
  BY <1>1, AppendSplits
<1>3. \A id \in SpecIds : LastHash(id)' = IF id = spec_id THEN pending.content_hash
                                          ELSE LastHash(id)
  BY <1>1, <1>2 DEF LastHash
<1> QED BY <1>2, <1>3

LEMMA SavedInvariant ==
  ASSUME "read_catalog" \notin Faults
  PROVE  Spec => []SavedInv
<1>1. Init => SavedInv
  BY DEF Init, SavedInv, Running
<1>2. TypeInv /\ SavedInv /\ [Next]_vars => SavedInv'
  BY SavedInvStep
<1> QED BY <1>1, <1>2, TypeInvariant, PTL DEF Spec

(* What a save is about to publish is what is published already, or what   *)
(* was recorded last.                                                      *)
PublishInv ==
  /\ pc \in {"append", "appending"} =>
       /\ entries[spec_id] # None
       /\ pending.content_hash = entries[spec_id].latest_hash
  /\ pc \in {"save", "saving"} =>
       \/ HashOf(entries[spec_id]) = HashOf(catalogFile[spec_id])
       \/ historyFiles[spec_id] # <<>> /\ HashOf(entries[spec_id]) = LastHash(spec_id)

(* What a fetch does to the content of the entry.                          *)
LEMMA HashAfterFetch ==
  ASSUME NEW old \in CatalogEntry \cup {None}, NEW e \in CatalogEntry,
         Failed(old, e) \/ Accepted(old, e), PendingFor(e)
  PROVE  \/ /\ pc' = "append" /\ pending' \in HistoryEntry
            /\ pending'.content_hash = e.latest_hash
            /\ e.latest_hash \in Hashes
            /\ VersionSignalIsImplied => e.latest_hash # HashOf(old)
         \/ /\ pc' = "save"
            /\ HashOf(e) = HashOf(old)
<1>1. e # None
  BY NoneIsNoRecord
<1>2. CASE Failed(old, e)
  <2>1. e.latest_hash = HashOf(old)
    BY <1>2 DEF Failed, HashOf, CatalogEntry
  <2> QED BY <1>1, <1>2, <2>1 DEF Failed, PendingFor, HashOf
<1>3. CASE IsNew(old, e)
  BY <1>3, NoneIsNoValue DEF IsNew, PendingFor, HashOf
<1>4. CASE IsUpdated(old, e)
  BY <1>4 DEF IsUpdated, PendingFor, HashOf
<1>5. CASE IsUnchanged(old, e)
  BY <1>1, <1>5 DEF IsUnchanged, PendingFor, HashOf
<1> QED BY <1>2, <1>3, <1>4, <1>5 DEF Accepted

LEMMA PublishInvStep ==
  ASSUME NoUnsolicited304, HistoriesAreReadable, "read_catalog" \notin Faults,
         TypeInv, RecordInv, AppendInv, ForwardInv, PublishInv, [Next]_vars
  PROVE  PublishInv'
<1> USE DEF Goto
<1>1. CASE Process /\ pc = "fetch"
  <2>1. CASE Died
    BY <2>1 DEF Died, PublishInv
  <2>2. CASE Rewritten
    <3>1. PICK e \in CatalogEntry : /\ Replaces(e)
                                    /\ Failed(existing, e) \/ Accepted(existing, e)
                                    /\ PendingFor(e)
      BY <2>2 DEF Rewritten
    <3>2. \/ pc' = "append" /\ pending'.content_hash = e.latest_hash
          \/ pc' = "save" /\ HashOf(e) = HashOf(existing)
      BY <1>1, <3>1, ExistingType, HashAfterFetch
    <3>3. existing = catalogFile[spec_id]
      BY <1>1 DEF ForwardInv, existing
    <3>4. entries'[spec_id] = e /\ catalogFile' = catalogFile /\ spec_id' = spec_id
      BY <3>1 DEF Replaces, spec_id
    <3>5. e # None
      BY NoneIsNoRecord
    <3> QED BY <3>2, <3>3, <3>4, <3>5 DEF PublishInv, HashOf
  <2> QED BY <1>1, <2>1, <2>2, FetchStep
<1>2. CASE AppendHistory
  BY <1>2 DEF AppendHistory, Store!BeginAppend, Store!diskVars, PublishInv, spec_id
<1>3. CASE HistoryAppended
  <2>1. /\ historyFiles'[spec_id] # <<>> /\ LastHash(spec_id)' = pending.content_hash
        /\ spec_id' = spec_id
    BY <1>3, AppendMovesTheEnd, AppendedHistories DEF spec_id, LastHash
  <2>2. /\ entries[spec_id] # None /\ pending.content_hash = entries[spec_id].latest_hash
        /\ entries' = entries /\ pc' = "save"
    BY <1>3, AppendedHistories DEF PublishInv
  <2> QED BY <2>1, <2>2 DEF PublishInv, HashOf
<1>4. CASE Save
  BY <1>4 DEF Save, Store!BeginSave, Store!EnsureLoaded, Store!diskVars, PublishInv, spec_id,
     TypeInv, ControlOK, Running, LastHash
<1>5. CASE Start \/ Saved \/ Finish \/ DiskError \/ Kill \/ \E url \in Urls : Discover(url)
  BY <1>5 DEF Start, Saved, Finish, DiskError, Kill, Discover, PublishInv
<1>6. CASE Damage
  BY <1>6 DEF Damage, Running, PublishInv
<1>7. CASE UNCHANGED vars
  BY <1>7 DEF vars, PublishInv, spec_id, LastHash
<1>8. Process => pc = "fetch" \/ AppendHistory \/ HistoryAppended
  BY DEF Process, process, FetchFails, FetchNotModified, ParseRaises, ParseRejects,
     ParseAccepts
<1> QED BY <1>1, <1>2, <1>3, <1>4, <1>5, <1>6, <1>7, <1>8 DEF Next, Step

LEMMA PublishInvariant ==
  ASSUME NoUnsolicited304, HistoriesAreReadable, "read_catalog" \notin Faults
  PROVE  Spec => []PublishInv
<1>1. Init => PublishInv
  BY DEF Init, PublishInv
<1>2. TypeInv /\ RecordInv /\ AppendInv /\ ForwardInv /\ PublishInv /\ [Next]_vars
        => PublishInv'
  BY PublishInvStep
<1> QED BY <1>1, <1>2, TypeInvariant, RecordInvariant, AppendInvariant, ForwardInvariant,
           PTL DEF Spec

-----------------------------------------------------------------------------
(*              The crawl keeps the promise of AuditedCatalog              *)

LEMMA ContentsOfHistory ==
  ASSUME NEW h \in Seq(HistoryEntry)
  PROVE  /\ RecordedContents(h) \in Seq(Hashes)
         /\ Len(RecordedContents(h)) = Len(h)
         /\ \A i \in 1 .. Len(h) : RecordedContents(h)[i] = h[i].content_hash
<1> DEFINE n == Len(h)
           c == RecordedContents(h)
<1>1. n \in Nat /\ DOMAIN h = 1 .. n
  BY LenProperties
<1>2. \A i \in 1 .. n : h[i].content_hash \in Hashes
  <2>1. \A i \in 1 .. n : h[i] \in HistoryEntry
    BY <1>1, ElementOfSeq
  <2> QED BY <2>1 DEF HistoryEntry
<1>3. \A i \in 1 .. n : c[i] = h[i].content_hash
  BY <1>1 DEF RecordedContents
<1>4. c \in [1 .. n -> Hashes]
  <2> HIDE DEF n
  <2> QED BY <1>1, <1>2 DEF RecordedContents
<1> HIDE DEF c, n
<1>5. c \in Seq(Hashes) /\ Len(c) = n
  BY <1>1, <1>4
<1> QED BY <1>3, <1>5 DEF c, n

LEMMA ContentsOfAppend ==
  ASSUME NEW h \in Seq(HistoryEntry), NEW e \in HistoryEntry
  PROVE  RecordedContents(Append(h, e)) = Append(RecordedContents(h), e.content_hash)
<1> DEFINE t == Append(h, e)
           c == RecordedContents(h)
           d == Append(c, e.content_hash)
<1>1. /\ t \in Seq(HistoryEntry) /\ Len(t) = Len(h) + 1 /\ t[Len(h) + 1] = e
      /\ \A i \in 1 .. Len(h) : t[i] = h[i]
  BY AppendSplits
<1>2. /\ Len(h) \in Nat /\ DOMAIN h = 1 .. Len(h)
      /\ DOMAIN t = 1 .. Len(h) + 1
  BY <1>1, LenProperties
<1>3. /\ c \in Seq(Hashes) /\ Len(c) = Len(h)
      /\ \A i \in 1 .. Len(h) : c[i] = h[i].content_hash
  BY ContentsOfHistory
<1>4. e.content_hash \in Hashes
  BY DEF HistoryEntry
<1>5. /\ d \in Seq(Hashes) /\ Len(d) = Len(h) + 1 /\ d[Len(h) + 1] = e.content_hash
      /\ \A i \in 1 .. Len(h) : d[i] = c[i]
  BY <1>3, <1>4, AppendSplits
<1> HIDE DEF t, c, d
<1>6. /\ RecordedContents(t) \in Seq(Hashes) /\ Len(RecordedContents(t)) = Len(h) + 1
      /\ \A i \in 1 .. Len(h) + 1 : RecordedContents(t)[i] = t[i].content_hash
  BY <1>1, ContentsOfHistory
<1>7. \A i \in 1 .. Len(h) + 1 : RecordedContents(t)[i] = d[i]
  <2> SUFFICES ASSUME NEW i \in 1 .. Len(h) + 1
               PROVE  RecordedContents(t)[i] = d[i]
    OBVIOUS
  <2>1. i \in 1 .. Len(h) \/ i = Len(h) + 1
    BY <1>2
  <2> QED BY <1>1, <1>3, <1>5, <1>6, <2>1
<1>8. RecordedContents(t) = d
  BY <1>5, <1>6, <1>7, SeqEqual
<1> QED BY <1>8 DEF t, d, c

LEMMA EndOfContents ==
  ASSUME NEW h \in Seq(HistoryEntry), h # <<>>
  PROVE  /\ RecordedContents(h) # <<>>
         /\ RecordedContents(h)[Len(RecordedContents(h))] = h[Len(h)].content_hash
<1>1. Len(h) \in Nat /\ DOMAIN h = 1 .. Len(h) /\ Len(h) # 0
  BY LenProperties, EmptySeq
<1>2. DOMAIN RecordedContents(h) = 1 .. Len(h)
  BY <1>1 DEF RecordedContents
<1>3. Len(RecordedContents(h)) = Len(h)
  BY <1>1, <1>2
<1> QED BY <1>1, <1>2, <1>3 DEF RecordedContents

(* A history file that is replaced is RecordContent, a catalog that is     *)
(* replaced is Publish of the spec that was processed, or nothing when its *)
(* content has not changed, and a catalog.json that is damaged between two *)
(* runs is LoseCatalog.                                                    *)
LEMMA StepIsAudited ==
  ASSUME NoUnsolicited304, HistoriesAreReadable, "read_catalog" \notin Faults,
         TypeInv, RecordInv, AppendInv, SavedInv, PublishInv, [Next]_vars
  PROVE  [Audited!AuditNext]_(Audited!auditVars)
<1> USE DEF Audited!auditVars
<1>1. /\ historyFiles \in [SpecIds -> Seq(HistoryEntry)]
      /\ entries \in [SpecIds -> CatalogEntry \cup {None}]
      /\ catalogFile \in [SpecIds -> CatalogEntry \cup {None}]
  BY DEF TypeInv, TypeOK, Store!StoreTypeOK, Store!Catalogs
<1>2. CASE HistoryAppended
  <2>1. /\ spec_id \in SpecIds /\ pending \in HistoryEntry
        /\ historyFiles[spec_id] \in Seq(HistoryEntry)
        /\ historyFiles'[spec_id] = Append(historyFiles[spec_id], pending)
        /\ \A id \in SpecIds : id # spec_id => historyFiles'[id] = historyFiles[id]
    BY <1>2, AppendedRecord
  <2>2. Trails' = [Trails EXCEPT ![spec_id] = Append(@, pending.content_hash)]
    BY <2>1, ContentsOfAppend DEF Trails
  <2>3. Published' = Published
    BY <1>2, AppendedHistories DEF Published
  <2>4. pending.content_hash \in Hashes
    BY <2>1 DEF HistoryEntry
  <2>5. Audited!RecordContent(spec_id, pending.content_hash)
    BY <2>2, <2>3 DEF Audited!RecordContent
  <2> QED BY <2>1, <2>4, <2>5 DEF Audited!AuditNext
<1>3. CASE Saved
  <2>1. /\ pc = "saving" /\ spec_id \in SpecIds
        /\ catalogFile' = entries /\ UNCHANGED historyFiles
    BY <1>3, SpecIdType DEF Saved, Store!ReplaceCatalog, SavedInv, TypeInv, ControlOK,
       InProcess
  <2>2. Trails' = Trails
    BY <2>1 DEF Trails
  <2>3. \A id \in SpecIds : id # spec_id => entries[id] = catalogFile[id]
    BY <2>1 DEF SavedInv, Running
  <2>4. Published' = [Published EXCEPT ![spec_id] = HashOf(entries[spec_id])]
    BY <2>1, <2>3 DEF Published
  <2>5. CASE HashOf(entries[spec_id]) = HashOf(catalogFile[spec_id])
    <3>1. Published' = Published
      BY <2>1, <2>4, <2>5 DEF Published
    <3> QED BY <2>2, <3>1
  <2>6. CASE historyFiles[spec_id] # <<>> /\ HashOf(entries[spec_id]) = LastHash(spec_id)
    <3>1. /\ Trails[spec_id] # <<>>
          /\ Trails[spec_id][Len(Trails[spec_id])] = LastHash(spec_id)
      BY <1>1, <2>1, <2>6, EndOfContents DEF Trails, LastHash
    <3>2. Audited!Publish(spec_id)
      BY <2>2, <2>4, <2>6, <3>1 DEF Audited!Publish
    <3> QED BY <2>1, <3>2 DEF Audited!AuditNext
  <2> QED BY <2>1, <2>5, <2>6 DEF PublishInv
<1>4. CASE Damage /\ catalogFile' = Store!EmptyCatalog
  <2>1. UNCHANGED historyFiles
    BY <1>4 DEF Damage, Store!DamageCatalog, Store!DamageHistory, HistoriesAreReadable
  <2>2. Published' = [id \in SpecIds |-> None]
    BY <1>4 DEF Published, HashOf, Store!EmptyCatalog
  <2>3. Audited!LoseCatalog
    BY <2>1, <2>2 DEF Audited!LoseCatalog, Trails
  <2> QED BY <2>3 DEF Audited!AuditNext
<1>5. CASE UNCHANGED <<catalogFile, historyFiles>>
  BY <1>5 DEF Trails, Published
<1>6. Damage => UNCHANGED historyFiles
  BY DEF Damage, Store!DamageCatalog, Store!DamageHistory, HistoriesAreReadable
<1>7. Saved => ~HistoryAppended
  BY DEF Saved, HistoryAppended
<1> QED BY <1>2, <1>3, <1>4, <1>5, <1>6, CatalogChanges, HistoryChanges

(* The crawler is a write-ahead log: through kills, failed writes and the  *)
(* loss of catalog.json, for any identification of URLs with specs, a      *)
(* content is recorded before it is published, one spec is published at a  *)
(* time, and only its newest record can be.                                *)
THEOREM CrawlIsAudited ==
  ASSUME NoUnsolicited304, HistoriesAreReadable, "read_catalog" \notin Faults
  PROVE  Spec => ImplementsAuditedCatalog
<1>1. Init => Audited!AuditInit
  <2> SUFFICES ASSUME Init PROVE Audited!AuditInit
    OBVIOUS
  <2>1. /\ catalogFile = [id \in SpecIds |-> None]
        /\ historyFiles = [id \in SpecIds |-> <<>>]
    BY DEF Init, Store!StoreInit, Store!EmptyCatalog
  <2>2. RecordedContents(<<>>) = <<>>
    BY DEF RecordedContents
  <2> QED BY <2>1, <2>2 DEF Audited!AuditInit, Trails, Published, HashOf
<1>2. TypeInv /\ RecordInv /\ AppendInv /\ SavedInv /\ PublishInv /\ [Next]_vars
        => [Audited!AuditNext]_(Audited!auditVars)
  BY StepIsAudited
<1> QED BY <1>1, <1>2, TypeInvariant, RecordInvariant, AppendInvariant, SavedInvariant,
           PublishInvariant, PTL DEF Spec, ImplementsAuditedCatalog, Audited!AuditSpec

-----------------------------------------------------------------------------
(*             No identical records when nothing goes wrong                *)

(* Between two specs, every history ends with what catalog.json calls the  *)
(* latest; within one, with what memory does, but for the record in hand.  *)
EndsAt(catalog) == \A id \in SpecIds : LastHash(id) = HashOf(catalog[id])

EndsInv ==
  /\ pc \in {"discover", "fetch", "exited"} => EndsAt(catalogFile)
  /\ pc \in {"append", "appending"} =>
       /\ \A id \in SpecIds : id # spec_id => LastHash(id) = HashOf(entries[id])
       /\ HashOf(entries[spec_id]) = pending.content_hash
       /\ pending.content_hash # LastHash(spec_id)
  /\ pc \in {"save", "saving"} => EndsAt(entries)

(* A run that dies in the parser leaves the files as they were.            *)
DeadEnds == pc = "dead" => EndsAt(catalogFile)

LEMMA EndsInvStep ==
  ASSUME NoUnsolicited304, HistoriesAreReadable, VersionSignalIsImplied,
         TypeInv, RecordInv, AppendInv, SavingInv, ForwardInv, EndsInv, Step
  PROVE  EndsInv' /\ DeadEnds'
<1> USE DEF Goto, DeadEnds
<1>1. CASE Process /\ pc = "fetch"
  <2>1. EndsAt(catalogFile) /\ entries = catalogFile
    BY <1>1 DEF EndsInv, ForwardInv
  <2>2. CASE Died
    BY <2>1, <2>2 DEF Died, Store!ProcessEnds, Store!diskVars, EndsInv, EndsAt, LastHash
  <2>3. CASE Rewritten
    <3>1. PICK e \in CatalogEntry : /\ Replaces(e)
                                    /\ Failed(existing, e) \/ Accepted(existing, e)
                                    /\ PendingFor(e)
      BY <2>3 DEF Rewritten
    <3>2. \/ /\ pc' = "append" /\ pending'.content_hash = e.latest_hash
             /\ e.latest_hash # HashOf(existing)
          \/ pc' = "save" /\ HashOf(e) = HashOf(existing)
      BY <1>1, <3>1, ExistingType, HashAfterFetch
    <3>3. /\ entries'[spec_id] = e /\ spec_id' = spec_id
          /\ \A id \in SpecIds : id # spec_id => entries'[id] = entries[id]
          /\ historyFiles' = historyFiles
      BY <3>1 DEF Replaces, spec_id
    <3>4. LastHash(spec_id) = HashOf(existing) /\ e # None
      BY <1>1, <2>1, ExistingType, NoneIsNoRecord DEF EndsAt, existing
    <3>5. \A id \in SpecIds : id # spec_id => LastHash(id)' = HashOf(entries'[id])
      BY <2>1, <3>3 DEF EndsAt, LastHash
    <3>6. LastHash(spec_id)' = LastHash(spec_id)
      BY <3>3 DEF LastHash
    <3> QED BY <3>2, <3>3, <3>4, <3>5, <3>6 DEF EndsInv, EndsAt, HashOf
  <2> QED BY <1>1, <2>2, <2>3, FetchStep
<1>2. CASE AppendHistory
  BY <1>2 DEF AppendHistory, Store!BeginAppend, Store!diskVars, EndsInv, spec_id, LastHash
<1>3. CASE HistoryAppended
  <2>1. \A id \in SpecIds : LastHash(id)' = IF id = spec_id THEN pending.content_hash
                                            ELSE LastHash(id)
    BY <1>3, AppendMovesTheEnd
  <2>2. /\ \A id \in SpecIds : id # spec_id => LastHash(id) = HashOf(entries[id])
        /\ HashOf(entries[spec_id]) = pending.content_hash
        /\ entries' = entries /\ pc' = "save"
    BY <1>3, AppendedHistories DEF EndsInv
  <2>3. EndsAt(entries)'
    BY <2>1, <2>2 DEF EndsAt
  <2> QED BY <2>2, <2>3 DEF EndsInv
<1>4. CASE Save
  BY <1>4, BetweenFetchAndSave DEF Save, Store!BeginSave, Store!diskVars, EndsInv, EndsAt,
     LastHash
<1>5. CASE Saved
  BY <1>5 DEF Saved, Store!ReplaceCatalog, SavingInv, EndsInv, EndsAt, LastHash
<1>6. CASE Finish \/ \E url \in Urls : Discover(url)
  BY <1>6 DEF Finish, Discover, Store!ProcessEnds, Store!diskVars, storeVars, EndsInv,
     EndsAt, LastHash
<1>7. Process => pc = "fetch" \/ AppendHistory \/ HistoryAppended
  BY DEF Process, process, FetchFails, FetchNotModified, ParseRaises, ParseRejects,
     ParseAccepts
<1> QED BY <1>1, <1>2, <1>3, <1>4, <1>5, <1>6, <1>7 DEF Step

(* Runs end in the parser or in success, and files are as they were left.  *)
NothingGoesWrong ==
  /\ Faults \cap {"kill", "write", "read_catalog", "read_history", "damage_catalog",
                  "damage_history"} = {}
  /\ NoUnsolicited304

LEMMA EndsInvariant ==
  ASSUME NothingGoesWrong, DigestsAreDistinct
  PROVE  Spec => [](EndsInv /\ DeadEnds)
<1>1. HistoriesAreReadable /\ "read_catalog" \notin Faults /\ NoUnsolicited304
  BY DEF NothingGoesWrong, HistoriesAreReadable
<1>2. Init => EndsInv /\ DeadEnds
  BY DEF Init, Store!StoreInit, Store!EmptyCatalog, EndsInv, DeadEnds, EndsAt, LastHash,
     HashOf
<1>3. ASSUME VersionSignalIsImplied, TypeInv, RecordInv, AppendInv, SavingInv, ForwardInv,
             EndsInv, DeadEnds, [Next]_vars
      PROVE  EndsInv' /\ DeadEnds'
  <2>1. CASE Start
    <3>1. EndsAt(catalogFile)
      BY <1>3, <2>1 DEF Start, Running, EndsInv, DeadEnds
    <3> QED BY <2>1, <3>1 DEF Start, Goto, Store!load, Store!diskVars, EndsInv, DeadEnds,
            EndsAt, LastHash
  <2>2. CASE DiskError \/ Kill \/ Damage
    BY <2>2 DEF DiskError, Kill, Store!Kill, Damage, Store!DamageCatalog,
       Store!DamageHistory, NothingGoesWrong
  <2>3. CASE UNCHANGED vars
    BY <1>3, <2>3 DEF vars, EndsInv, DeadEnds, EndsAt, LastHash, spec_id
  <2> QED BY <1>1, <1>3, <2>1, <2>2, <2>3, EndsInvStep DEF Next
<1>4. VersionSignalIsImplied /\ TypeInv /\ RecordInv /\ AppendInv /\ SavingInv /\ ForwardInv
        /\ EndsInv /\ DeadEnds /\ [Next]_vars => EndsInv' /\ DeadEnds'
  BY <1>3
<1> QED BY <1>1, <1>2, <1>4, VersionSignalIsRedundant, TypeInvariant, RecordInvariant,
           AppendInvariant, SavingInvariant, ForwardInvariant, PTL DEF Spec

(* The newest record of a spec's history is the content that the catalog   *)
(* calls the latest, whenever no spec is in process.                       *)
THEOREM HistoriesEndAtCatalog ==
  ASSUME NothingGoesWrong, DigestsAreDistinct
  PROVE  Spec => []HistoryEndsAtCatalog
<1>1. ASSUME TypeInv, EndsInv
      PROVE  HistoryEndsAtCatalog
  <2> SUFFICES ASSUME pc \in {"discover", "exited"}, NEW id \in SpecIds
               PROVE  IF catalogFile[id] = None \/ catalogFile[id].latest_hash = None
                      THEN historyFiles[id] = <<>>
                      ELSE /\ historyFiles[id] # <<>>
                           /\ historyFiles[id][Len(historyFiles[id])].content_hash
                                = catalogFile[id].latest_hash
    BY DEF HistoryEndsAtCatalog
  <2>1. LastHash(id) = HashOf(catalogFile[id])
    BY <1>1 DEF EndsInv, EndsAt
  <2>2. LastHash(id) = None <=> historyFiles[id] = <<>>
    BY <1>1, NewestRecordHasContent
  <2> QED BY <2>1, <2>2 DEF LastHash, HashOf
<1>2. TypeInv /\ EndsInv => HistoryEndsAtCatalog
  BY <1>1
<1> QED BY <1>2, TypeInvariant, EndsInvariant, PTL

(* History files do not accumulate identical records.                      *)
THEOREM HistoriesDoNotRepeat ==
  ASSUME NothingGoesWrong, DigestsAreDistinct
  PROVE  Spec => []NoDuplicateRecords
<1>1. HistoriesAreReadable /\ "read_catalog" \notin Faults /\ NoUnsolicited304
  BY DEF NothingGoesWrong, HistoriesAreReadable
<1>2. Init => NoDuplicateRecords
  <2>1. \A i \in 1 .. Len(<<>>) - 1 : FALSE
    OBVIOUS
  <2> QED BY <2>1 DEF Init, Store!StoreInit, NoDuplicateRecords
<1>3. ASSUME TypeInv, RecordInv, AppendInv, EndsInv, NoDuplicateRecords, [Next]_vars
      PROVE  NoDuplicateRecords'
  <2>1. CASE UNCHANGED historyFiles
    BY <1>3, <2>1 DEF NoDuplicateRecords
  <2>2. CASE Damage
    <3>1. UNCHANGED historyFiles
      BY <1>1, <2>2 DEF Damage, Store!DamageCatalog, Store!DamageHistory, HistoriesAreReadable
    <3> QED BY <2>1, <3>1
  <2>3. CASE HistoryAppended
    <3> DEFINE old == historyFiles[spec_id]
               new == historyFiles'[spec_id]
               n   == Len(old)
    <3>1. /\ n \in Nat /\ Len(new) = n + 1 /\ new[n + 1] = pending
          /\ \A i \in 1 .. n : new[i] = old[i]
          /\ spec_id \in SpecIds
          /\ \A id \in SpecIds : id # spec_id => historyFiles'[id] = historyFiles[id]
      BY <1>1, <1>3, <2>3, AppendedRecord
    <3>2. old # <<>> => old[n].content_hash # pending.content_hash
      BY <1>3, <2>3 DEF HistoryAppended, EndsInv, LastHash
    <3>3. old = <<>> <=> n = 0
      BY <1>1, <1>3, <2>3, AppendedRecord, EmptySeq
    <3>4. \A i \in 1 .. n - 1 : old[i].content_hash # old[i + 1].content_hash
      BY <1>3, <3>1 DEF NoDuplicateRecords
    <3> HIDE DEF old, new, n
    <3>5. \A i \in 1 .. n : new[i].content_hash # new[i + 1].content_hash
      <4> SUFFICES ASSUME NEW i \in 1 .. n
                   PROVE  new[i].content_hash # new[i + 1].content_hash
        OBVIOUS
      <4>1. CASE i = n
        BY <3>1, <3>2, <3>3, <4>1
      <4>2. CASE i # n
        <5>1. i \in 1 .. n - 1 /\ i + 1 \in 1 .. n
          BY <3>1, <4>2
        <5> QED BY <3>1, <3>4, <5>1
      <4> QED BY <4>1, <4>2
    <3>6. Len(new) - 1 = n
      BY <3>1
    <3>7. ASSUME NEW id \in SpecIds, id # spec_id
          PROVE  \A i \in 1 .. Len(historyFiles'[id]) - 1 :
                   historyFiles'[id][i].content_hash # historyFiles'[id][i + 1].content_hash
      BY <1>3, <3>1, <3>7 DEF NoDuplicateRecords
    <3> QED BY <3>5, <3>6, <3>7 DEF NoDuplicateRecords, new
  <2> QED BY <1>3, <2>1, <2>2, <2>3, HistoryChanges
<1>4. TypeInv /\ RecordInv /\ AppendInv /\ EndsInv /\ NoDuplicateRecords /\ [Next]_vars
        => NoDuplicateRecords'
  BY <1>3
<1> QED BY <1>1, <1>2, <1>4, TypeInvariant, RecordInvariant, AppendInvariant, EndsInvariant,
           PTL DEF Spec
====
