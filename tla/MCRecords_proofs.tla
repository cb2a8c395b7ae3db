-------------------------- MODULE MCRecords_proofs --------------------------
(***************************************************************************)
(* Proofs about what the core keeps on disk, for every number of jobs and  *)
(* watchers.  The parts share no variable: what is shown of the steps of   *)
(* one of them holds of the whole.                                         *)
(***************************************************************************)
EXTENDS MCRecords, FiniteSetTheorems, TLAPS

IndexP == INSTANCE KnowledgeIndex_proofs

IndexInv == IndexP!IndexInv

(* The bounds are what those proofs ask for.                               *)
LEMMA IndexBounded == IndexP!Bounded
BY RecordsAssumption DEF RecordsAssumption, IndexP!Bounded, IndexP!IsFiniteSet, IsFiniteSet

(* They are about the same initial states.                                 *)
LEMMA IndexBegins == Index!Init => IndexInv
<1>1. Index!Init => IndexP!Init
  BY DEF Index!Init, IndexP!Init, Index!None, IndexP!None, Index!Idle, IndexP!Idle
<1>2. QED
  BY <1>1, IndexBounded, IndexP!IndexBegins DEF IndexInv

(* They are about the same steps.                                          *)
LEMMA IndexGoesOn == IndexInv /\ [Index!Next]_indexVars => IndexInv'
<1>1. [Index!Next]_indexVars => [IndexP!Next]_IndexP!vars
  BY DEF indexVars, IndexP!vars, Index!Next, IndexP!Next,
         Index!Work, IndexP!Work, Index!Watch, IndexP!Watch,
         Index!Request, IndexP!Request, Index!Reindex, IndexP!Reindex,
         Index!ReindexMissing, IndexP!ReindexMissing, Index!Queue, IndexP!Queue,
         Index!Begin, IndexP!Begin, Index!Announce, IndexP!Announce,
         Index!Extract, IndexP!Extract, Index!Count, IndexP!Count,
         Index!Replace, IndexP!Replace, Index!Settle, IndexP!Settle,
         Index!Remove, IndexP!Remove, Index!Save, IndexP!Save,
         Index!SetWatching, IndexP!SetWatching, Index!Crash, IndexP!Crash,
         Index!WatcherStops, IndexP!WatcherStops,
         Index!WatcherHandles, IndexP!WatcherHandles,
         Index!SeemsUnchanged, IndexP!SeemsUnchanged, Index!Publish, IndexP!Publish,
         Index!Upserted, IndexP!Upserted, Index!Row, IndexP!Row,
         Index!FreshId, IndexP!FreshId, Index!Ids, IndexP!Ids,
         Index!Cardinality, IndexP!Cardinality, Index!Stored, IndexP!Stored,
         Index!At, IndexP!At, Index!Goto, IndexP!Goto,
         Index!None, IndexP!None, Index!Idle, IndexP!Idle
<1>2. QED
  BY <1>1, IndexBounded, IndexP!IndexGoesOn DEF IndexInv

(* Search finds the passages of one reading of a listed document, in every *)
(* state: however many jobs replace each other's passages, whatever        *)
(* removals and crashes come between, and also what is marked indexed.     *)
THEOREM SearchFindsWholeAlways == Spec => []SearchFindsWhole
<1>1. Init => IndexInv
  BY IndexBegins DEF Init
<1>2. IndexInv /\ [Next]_vars => IndexInv'
  <2>1. [Next]_vars => [Index!Next]_indexVars
    BY DEF Next, Moves, vars
  <2>2. QED
    BY <2>1, IndexGoesOn
<1>3. IndexInv => SearchFindsWhole
  <2>1. IndexInv => IndexP!SearchFindsWhole /\ IndexP!IndexedIsSearchable
    BY IndexP!IndexHolds DEF IndexInv
  <2>2. QED
    BY <2>1 DEF SearchFindsWhole, Index!SearchFindsWhole, IndexP!SearchFindsWhole,
       Index!IndexedIsSearchable, IndexP!IndexedIsSearchable, Index!None, IndexP!None
<1>4. QED
  BY <1>1, <1>2, <1>3, PTL DEF Spec

-----------------------------------------------------------------------------
(* The files that runs change.                                             *)

(* A text of a run's change, what a change found, or neither yet.          *)
Known == Texts \union {Changes!NoFile, "unseen"}
Proposed == [file : Files, status : {"created", "modified"},
             was : Texts \union {Changes!NoFile}, old : Texts, new : Texts]

(* Each entry names what its run wrote last and found first, and a run     *)
(* without one has found nothing; only a run that has not ended is at the  *)
(* gate, and its call starts from what it found there.                     *)
Entered(r, f) ==
    /\ changes[r][f] # Changes!NoEntry =>
           /\ found[r][f] # "unseen" /\ changes[r][f].old = Changes!Contents(found[r][f])
           /\ changes[r][f].new = wrote[r][f]
    /\ changes[r][f] = Changes!NoEntry => found[r][f] = "unseen"
ChangeInv ==
    /\ Changes!TypeOK
    /\ tool \in [Runs -> Proposed \union {Changes!Idle}]
    /\ found \in [Runs -> [Files -> Known]] /\ wrote \in [Runs -> [Files -> Known]]
    /\ \A r \in Runs : tool[r] # Changes!Idle =>
           r \notin ended /\ tool[r].old = Changes!Contents(tool[r].was)
    /\ \A r \in Runs, f \in Files : Entered(r, f)

(* Nothing has changed at first.                                           *)
LEMMA ChangesBegin == Changes!Init => ChangeInv
<1>1. Changes!Init => disk \in [Files -> Texts \union {Changes!NoFile}]
  BY RecordsAssumption DEF Changes!Init, RecordsAssumption, Changes!NoFile
<1>2. QED
  BY <1>1 DEF Changes!Init, ChangeInv, Entered, Changes!TypeOK, Known, Proposed

(* An entry is no missing entry, and a call is no missing call.            *)
LEMMA EntriesDiffer ==
    /\ \A e \in Changes!Entry : e # Changes!NoEntry
    /\ \A t \in Proposed : t # Changes!Idle
<1>1. \A e \in Changes!Entry : e.status # "none"
  BY DEF Changes!Entry
<1>2. Changes!NoEntry.status = "none"
  BY DEF Changes!NoEntry
<1>3. \A t \in Proposed : "new" \in DOMAIN t
  BY DEF Proposed
<1>4. "new" \notin DOMAIN Changes!Idle
  BY DEF Changes!Idle
<1>5. QED
  BY <1>1, <1>2, <1>3, <1>4

(* What a file that is read holds is a text.                               *)
LEMMA ContentsAreTexts == ChangeInv => \A f \in Files : Changes!Contents(disk[f]) \in Texts
BY RecordsAssumption
DEF ChangeInv, Changes!TypeOK, Changes!Contents, Changes!NoFile, RecordsAssumption

(* A read only looks at a file.                                            *)
LEMMA ReadKeepsChanges ==
    ASSUME ChangeInv, NEW r \in Runs, NEW f \in Files, NEW t \in Texts,
           Changes!WriteFile(r, f, t) \/ Changes!EditFile(r, f, t)
    PROVE  ChangeInv'
<1> DEFINE call(s) == [file |-> f, status |-> s, was |-> disk[f],
                       old |-> Changes!Contents(disk[f]), new |-> t]
<1>1. PICK s \in {"created", "modified"} : Changes!AtGate(r, f, s, t)
  BY DEF Changes!WriteFile, Changes!EditFile
<1>2. call(s) \in Proposed
  BY ContentsAreTexts DEF Proposed, ChangeInv, Changes!TypeOK
<1>3. /\ r \notin ended
      /\ tool' = [tool EXCEPT ![r] = call(s)]
      /\ UNCHANGED <<disk, changes, ended, found, wrote>>
  BY <1>1 DEF Changes!AtGate
<1>4. tool' \in [Runs -> Proposed \union {Changes!Idle}]
  BY <1>2, <1>3 DEF ChangeInv
<1>5. \A q \in Runs : tool'[q] # Changes!Idle =>
        q \notin ended /\ tool'[q].old = Changes!Contents(tool'[q].was)
  BY <1>3 DEF ChangeInv
<1>6. \A q \in Runs, g \in Files : Entered(q, g)'
  BY <1>3 DEF ChangeInv, Entered
<1>7. QED
  BY <1>3, <1>4, <1>5, <1>6 DEF ChangeInv, Changes!TypeOK, Proposed, Changes!Contents

(* An allowed edit is of the text the run has seen.                        *)
LEMMA AllowKeepsChanges ==
    ASSUME ChangeInv, NEW r \in Runs, Changes!Allow(r)
    PROVE  ChangeInv'
<1> DEFINE f == tool[r].file
           change == [status |-> tool[r].status, old |-> tool[r].old, new |-> tool[r].new]
           merged == Changes!Merged(changes[r][f], change)
<1>1. /\ tool[r] \in Proposed /\ f \in Files /\ r \notin ended
      /\ tool[r].was \in Texts \union {Changes!NoFile}
      /\ tool[r].old = Changes!Contents(tool[r].was)
  BY DEF ChangeInv, Changes!Allow, Proposed
<1>2. change \in Changes!Entry /\ change.new \in Texts /\ change.old \in Texts
  BY <1>1 DEF Proposed, Changes!Entry
<1>3. /\ disk' = [disk EXCEPT ![f] = change.new]
      /\ changes' = [changes EXCEPT ![r][f] = Changes!Merged(@, change)]
      /\ wrote' = [wrote EXCEPT ![r][f] = change.new]
      /\ found' = [found EXCEPT ![r][f] = IF @ = "unseen" THEN tool[r].was ELSE @]
      /\ tool' = [tool EXCEPT ![r] = Changes!Idle] /\ ended' = ended
  BY DEF Changes!Allow
<1>4. changes[r][f] \in Changes!Entry \union {Changes!NoEntry}
  BY <1>1 DEF ChangeInv, Changes!TypeOK
<1>5. /\ merged \in Changes!Entry /\ merged.new = change.new
      /\ merged.old = IF changes[r][f] = Changes!NoEntry THEN change.old ELSE changes[r][f].old
  BY <1>2, <1>4 DEF Changes!Merged, Changes!Entry
<1>6. \A q \in Runs, g \in Files :
        /\ changes'[q][g] = IF q = r /\ g = f THEN merged ELSE changes[q][g]
        /\ wrote'[q][g] = IF q = r /\ g = f THEN change.new ELSE wrote[q][g]
        /\ found'[q][g] = IF q = r /\ g = f /\ found[r][f] = "unseen" THEN tool[r].was
                          ELSE found[q][g]
  BY <1>1, <1>3 DEF ChangeInv, Changes!TypeOK
<1>7. disk' \in [Files -> Texts \union {Changes!NoFile}]
  BY <1>2, <1>3 DEF ChangeInv, Changes!TypeOK
<1>8. /\ changes' \in [Runs -> [Files -> Changes!Entry \union {Changes!NoEntry}]]
      /\ wrote' \in [Runs -> [Files -> Known]] /\ found' \in [Runs -> [Files -> Known]]
  BY <1>1, <1>2, <1>3, <1>5 DEF ChangeInv, Changes!TypeOK, Known
<1>9. /\ tool' \in [Runs -> Proposed \union {Changes!Idle}]
      /\ \A q \in Runs : tool'[q] # Changes!Idle =>
           q \notin ended' /\ tool'[q].old = Changes!Contents(tool'[q].was)
  BY <1>3 DEF ChangeInv
<1>10. ASSUME NEW q \in Runs, NEW g \in Files PROVE Entered(q, g)'
  <2>1. CASE q = r /\ g = f
    <3>1. /\ changes[r][f] = Changes!NoEntry => found[r][f] = "unseen"
          /\ changes[r][f] # Changes!NoEntry =>
               found[r][f] # "unseen" /\ changes[r][f].old = Changes!Contents(found[r][f])
      BY <1>1 DEF ChangeInv, Entered
    <3>2. tool[r].was # "unseen"
      BY <1>1, RecordsAssumption DEF RecordsAssumption, Changes!NoFile
    <3>3. /\ found'[r][f] # "unseen" /\ merged.old = Changes!Contents(found'[r][f])
          /\ merged.new = wrote'[r][f]
      BY <1>1, <1>5, <1>6, <3>1, <3>2
    <3>4. changes'[r][f] = merged /\ merged # Changes!NoEntry
      BY <1>1, <1>5, <1>6, EntriesDiffer
    <3>5. QED
      BY <2>1, <3>3, <3>4 DEF Entered, Changes!Contents
  <2>2. CASE ~(q = r /\ g = f)
    <3>1. /\ changes'[q][g] = changes[q][g] /\ wrote'[q][g] = wrote[q][g]
          /\ found'[q][g] = found[q][g] /\ ended' = ended
      BY <1>3, <1>6, <2>2
    <3>2. QED
      BY <3>1 DEF ChangeInv, Entered, Changes!Contents
  <2>3. QED
    BY <2>1, <2>2
<1>11. Changes!TypeOK'
  BY <1>3, <1>7, <1>8, <1>9 DEF ChangeInv, Changes!TypeOK, Proposed
<1>12. QED
  BY <1>8, <1>9, <1>10, <1>11 DEF ChangeInv, Changes!Contents

(* A run that ends takes its tools with it.                                *)
LEMMA EndKeepsChanges ==
    ASSUME ChangeInv, NEW r \in Runs, Changes!Refuse(r) \/ Changes!EndRun(r)
    PROVE  ChangeInv'
<1> USE DEF Changes!Contents
<1>1. CASE Changes!Refuse(r)
  BY <1>1 DEF ChangeInv, Entered, Changes!Refuse, Changes!TypeOK
<1>2. CASE Changes!EndRun(r)
  <2>1. ended' \subseteq Runs
    BY <1>2 DEF ChangeInv, Changes!TypeOK, Changes!EndRun
  <2>2. \A q \in Runs : tool'[q] # Changes!Idle =>
          q \notin ended' /\ tool'[q].old = Changes!Contents(tool'[q].was)
    BY <1>2 DEF ChangeInv, Changes!EndRun
  <2>3. \A q \in Runs, f \in Files : Entered(q, f)'
    BY <1>2 DEF ChangeInv, Entered, Changes!EndRun
  <2>4. QED
    BY <1>2, <2>1, <2>2, <2>3 DEF ChangeInv, Changes!TypeOK, Changes!EndRun
<1>3. QED
  BY <1>1, <1>2

(* The operator's own edits touch no entry.                                *)
LEMMA EditKeepsChanges ==
    ASSUME ChangeInv, NEW f \in Files, NEW t \in Texts \union {Changes!NoFile},
           Changes!Edit(f, t)
    PROVE  ChangeInv'
BY DEF ChangeInv, Entered, Changes!Edit, Changes!TypeOK, Changes!Contents

(* What discarding leaves of a file is a text, or nothing.                 *)
LEMMA RestoredIsText ==
    ASSUME ChangeInv, NEW r \in Runs, NEW f \in Files, changes[r][f] # Changes!NoEntry
    PROVE  Changes!Restored(r, f) \in Texts \union {Changes!NoFile}
<1>1. changes[r][f] \in Changes!Entry /\ disk[f] \in Texts \union {Changes!NoFile}
  BY DEF ChangeInv, Changes!TypeOK
<1>2. changes[r][f].old \in Texts
  BY <1>1 DEF Changes!Entry
<1>3. QED
  BY <1>1, <1>2 DEF Changes!Restored

(* Either kind of discard drops entries of an ended run with what is known *)
(* of them, and touches only their files.                                  *)
Dropped(r, f) ==
    IF changes'[r][f] = changes[r][f]
    THEN disk'[f] = disk[f] /\ found'[r][f] = found[r][f] /\ wrote'[r][f] = wrote[r][f]
    ELSE /\ r \in ended /\ changes[r][f] # Changes!NoEntry
         /\ changes'[r][f] = Changes!NoEntry /\ found'[r][f] = "unseen"
         /\ Changes!RestorePlan(changes[r][f], disk[f]) # "refuse"
         /\ disk'[f] = Changes!Restored(r, f)

(* Entries that are dropped go with their history, the others keep theirs. *)
LEMMA GoneIsForgotten ==
    ASSUME ChangeInv, NEW r \in Runs, NEW gone \in SUBSET Files, Changes!Forgotten(r, gone)
    PROVE  /\ changes' \in [Runs -> [Files -> Changes!Entry \union {Changes!NoEntry}]]
           /\ found' \in [Runs -> [Files -> Known]] /\ wrote' \in [Runs -> [Files -> Known]]
           /\ \A q \in Runs : q # r => changes'[q] = changes[q] /\ found'[q] = found[q]
                                         /\ wrote'[q] = wrote[q]
           /\ \A f \in Files :
                /\ changes'[r][f] = IF f \in gone THEN Changes!NoEntry ELSE changes[r][f]
                /\ found'[r][f] = IF f \in gone THEN "unseen" ELSE found[r][f]
                /\ wrote'[r][f] = IF f \in gone THEN "unseen" ELSE wrote[r][f]
<1>1. /\ changes \in [Runs -> [Files -> Changes!Entry \union {Changes!NoEntry}]]
      /\ found \in [Runs -> [Files -> Known]] /\ wrote \in [Runs -> [Files -> Known]]
      /\ "unseen" \in Known
  BY DEF ChangeInv, Changes!TypeOK, Known
<1>2. QED
  BY <1>1 DEF Changes!Forgotten

(* A discard drops its entry, and the file is as the run found it.         *)
LEMMA DiscardsDrop ==
    ASSUME ChangeInv, NEW r \in Runs,
           Changes!DiscardAll(r) \/ \E f \in Files : Changes!Discard(r, f)
    PROVE  /\ disk' \in [Files -> Texts \union {Changes!NoFile}]
           /\ \E gone \in SUBSET Files : Changes!Forgotten(r, gone)
           /\ \A f \in Files : Dropped(r, f)
           /\ UNCHANGED <<tool, ended>>
<1>0. disk \in [Files -> Texts \union {Changes!NoFile}]
  BY DEF ChangeInv, Changes!TypeOK
<1>1. ASSUME NEW f \in Files, Changes!Discard(r, f)
      PROVE  /\ disk' \in [Files -> Texts \union {Changes!NoFile}]
             /\ \E gone \in SUBSET Files : Changes!Forgotten(r, gone)
             /\ \A g \in Files : Dropped(r, g)
             /\ UNCHANGED <<tool, ended>>
  <2>1. /\ r \in ended /\ changes[r][f] # Changes!NoEntry
        /\ Changes!RestorePlan(changes[r][f], disk[f]) # "refuse"
        /\ disk' = [disk EXCEPT ![f] = Changes!Restored(r, f)]
        /\ Changes!Forgotten(r, {f}) /\ {f} \in SUBSET Files
        /\ UNCHANGED <<tool, ended>>
    BY <1>1 DEF Changes!Discard, Changes!Discardable
  <2>2. Changes!Restored(r, f) \in Texts \union {Changes!NoFile}
    BY <2>1, RestoredIsText
  <2>3. \A g \in Files : Dropped(r, g)
    BY <1>0, <2>1, GoneIsForgotten DEF Dropped
  <2>4. QED
    BY <1>0, <2>1, <2>2, <2>3
<1>2. ASSUME Changes!DiscardAll(r)
      PROVE  /\ disk' \in [Files -> Texts \union {Changes!NoFile}]
             /\ \E gone \in SUBSET Files : Changes!Forgotten(r, gone)
             /\ \A g \in Files : Dropped(r, g)
             /\ UNCHANGED <<tool, ended>>
  <2> DEFINE gone == {f \in Files : Changes!Discardable(r, f)}
  <2>1. /\ disk' = [f \in Files |-> IF f \in gone THEN Changes!Restored(r, f) ELSE disk[f]]
        /\ Changes!Forgotten(r, gone) /\ gone \in SUBSET Files
        /\ UNCHANGED <<tool, ended>>
    BY <1>2 DEF Changes!DiscardAll
  <2>2. \A f \in gone : /\ r \in ended /\ changes[r][f] # Changes!NoEntry
                        /\ Changes!RestorePlan(changes[r][f], disk[f]) # "refuse"
    BY DEF Changes!Discardable
  <2>3. \A f \in gone : Changes!Restored(r, f) \in Texts \union {Changes!NoFile}
    BY <2>2, RestoredIsText
  <2>4. \A f \in Files :
          /\ changes'[r][f] = IF f \in gone THEN Changes!NoEntry ELSE changes[r][f]
          /\ found'[r][f] = IF f \in gone THEN "unseen" ELSE found[r][f]
          /\ wrote'[r][f] = IF f \in gone THEN "unseen" ELSE wrote[r][f]
    BY <2>1, GoneIsForgotten
  <2> HIDE DEF gone
  <2>5. \A f \in Files : Dropped(r, f)
    BY <2>1, <2>2, <2>4 DEF Dropped
  <2>6. disk' \in [Files -> Texts \union {Changes!NoFile}]
    BY <1>0, <2>1, <2>3
  <2>7. QED
    BY <2>1, <2>5, <2>6
<1>3. QED
  BY <1>1, <1>2

(* So it leaves the others as they are.                                    *)
LEMMA DiscardKeepsChanges ==
    ASSUME ChangeInv, NEW r \in Runs,
           Changes!DiscardAll(r) \/ \E f \in Files : Changes!Discard(r, f)
    PROVE  ChangeInv'
<1>1. PICK gone \in SUBSET Files : Changes!Forgotten(r, gone)
  BY DiscardsDrop
<1>2. ASSUME NEW q \in Runs, NEW f \in Files PROVE Entered(q, f)'
  <2>1. Entered(q, f)
    BY DEF ChangeInv
  <2>2. CASE q = r /\ f \in gone
    BY <1>1, <2>2, GoneIsForgotten DEF Entered, Changes!Contents
  <2>3. CASE ~(q = r /\ f \in gone)
    <3>1. /\ changes'[q][f] = changes[q][f] /\ found'[q][f] = found[q][f]
          /\ wrote'[q][f] = wrote[q][f]
      BY <1>1, <2>3, GoneIsForgotten
    <3>2. QED
      BY <2>1, <3>1 DEF Entered, Changes!Contents
  <2>4. QED
    BY <2>2, <2>3
<1>3. /\ changes' \in [Runs -> [Files -> Changes!Entry \union {Changes!NoEntry}]]
      /\ found' \in [Runs -> [Files -> Known]] /\ wrote' \in [Runs -> [Files -> Known]]
  BY <1>1, GoneIsForgotten
<1>4. disk' \in [Files -> Texts \union {Changes!NoFile}] /\ UNCHANGED <<tool, ended>>
  BY DiscardsDrop
<1>5. QED
  BY <1>2, <1>3, <1>4 DEF ChangeInv, Changes!TypeOK, Changes!Contents

(* Every step keeps what is known of the changes.                          *)
LEMMA ChangesStep == ChangeInv /\ [Changes!Next]_changeVars => ChangeInv'
<1> SUFFICES ASSUME ChangeInv, [Changes!Next]_changeVars PROVE ChangeInv'
  OBVIOUS
<1>1. CASE UNCHANGED changeVars
  BY <1>1 DEF ChangeInv, Entered, Changes!TypeOK, changeVars, Changes!Contents
<1>2. CASE Changes!Next
  BY <1>2, ReadKeepsChanges, AllowKeepsChanges, EndKeepsChanges, EditKeepsChanges,
     DiscardKeepsChanges DEF Changes!Next
<1>3. QED
  BY <1>1, <1>2

(* Only a discard drops entries.                                           *)
LEMMA OthersDropNothing ==
    ASSUME ChangeInv, Changes!Next, NEW r \in Runs, NEW f \in Files,
           changes[r][f] # Changes!NoEntry, changes'[r][f] = Changes!NoEntry
    PROVE  Dropped(r, f)
<1>1. ASSUME NEW q \in Runs, Changes!Allow(q) PROVE FALSE
  <2> DEFINE change == [status |-> tool[q].status, old |-> tool[q].old, new |-> tool[q].new]
             g == tool[q].file
  <2>1. tool[q] \in Proposed /\ changes' = [changes EXCEPT ![q][g] = Changes!Merged(@, change)]
    BY <1>1 DEF ChangeInv, Changes!Allow
  <2>2. change \in Changes!Entry /\ g \in Files
    BY <2>1 DEF Proposed, Changes!Entry
  <2>3. changes \in [Runs -> [Files -> Changes!Entry \union {Changes!NoEntry}]]
    BY DEF ChangeInv, Changes!TypeOK
  <2>4. Changes!Merged(changes[q][g], change) \in Changes!Entry
    BY <2>2, <2>3 DEF Changes!Merged, Changes!Entry
  <2>5. QED
    BY <2>1, <2>2, <2>3, <2>4, EntriesDiffer
<1>2. \A q \in Runs : Changes!DiscardAll(q) \/ (\E g \in Files : Changes!Discard(q, g)) =>
          q = r
  BY DiscardsDrop, GoneIsForgotten
<1>3. ASSUME NEW q \in Runs,
             Changes!DiscardAll(q) \/ \E g \in Files : Changes!Discard(q, g)
      PROVE  Dropped(r, f)
  BY <1>2, <1>3, DiscardsDrop
<1>4. QED
  BY <1>1, <1>3 DEF Changes!Next, Changes!WriteFile, Changes!EditFile, Changes!AtGate,
     Changes!Refuse, Changes!EndRun, Changes!Edit

(* Discarding brings back what the run found: its entry has what the run   *)
(* wrote last, which the file must hold, and what it found first.          *)
LEMMA DiscardRestores ==
    ASSUME ChangeInv, [Changes!Next]_changeVars, NEW r \in Runs, NEW f \in Files,
           changes[r][f] # Changes!NoEntry, changes'[r][f] = Changes!NoEntry
    PROVE  /\ disk'[f] # disk[f] => disk[f] = wrote[r][f]
           /\ disk'[f] = found[r][f] \/ Changes!Turned(r, f)
<1>1. Changes!Next
  BY DEF changeVars
<1> DEFINE entry == changes[r][f]
<1>2. /\ disk'[f] = Changes!Restored(r, f)
      /\ Changes!RestorePlan(entry, disk[f]) # "refuse"
  BY <1>1, OthersDropNothing DEF Dropped
<1>3. entry.new = wrote[r][f] /\ entry.old = Changes!Contents(found[r][f])
  BY DEF ChangeInv, Entered
<1>4. entry \in Changes!Entry
  BY DEF ChangeInv, Changes!TypeOK
<1>5. entry.status \in {"created", "modified"}
  BY <1>4 DEF Changes!Entry
<1>6. /\ disk'[f] # disk[f] => disk[f] = entry.new
      /\ disk'[f] = IF entry.status = "created" THEN Changes!NoFile ELSE entry.old
  BY <1>2, <1>5 DEF Changes!Restored, Changes!RestorePlan
<1>7. CASE Changes!Turned(r, f)
  BY <1>3, <1>6, <1>7
<1>8. CASE ~Changes!Turned(r, f)
  BY <1>3, <1>6, <1>8 DEF Changes!Turned, Changes!Contents
<1>9. QED
  BY <1>7, <1>8

-----------------------------------------------------------------------------
(* The records of runs.                                                    *)

(* The steps of a turn: those only the subagent's turns take, those up to  *)
(* its receipt, and those it works in or is about to.                      *)
AgentSteps == {"restarted", "launch", "attached", "refused"}
EarlySteps == {"none", "begin", "restarted", "launch", "attached", "insert"}
WorkSteps == {"work", "completed", "done"}
Steps == AgentSteps \union {"begin", "insert", "over"} \union WorkSteps \union {"failed"}
Before == {"restarted", "launch", "refused"}                       \* not attached yet
Attached == {"attached", "begin", "insert", "refused", "work"}

(* What a turn may be: with the status it is to persist once it has one.   *)
TurnRecords ==
    [chat : {"operator", "agent"}, life : 1 .. MaxLives, at : Steps \ {"failed", "completed"}]
    \union [chat : {"agent"}, life : 1 .. MaxLives, at : {"failed", "completed", "done", "over"},
            status : Records!Statuses]

TurnsTyped == turn \in [Records!Turns -> TurnRecords \union {Records!NoTurn}]
AgentsOwn == \A t \in Records!Turns : turn[t].at \in AgentSteps => turn[t].chat = "agent"

(* A life is of one core, and what is at work is of a life that goes on.   *)
LivesDiffer ==
    /\ \A p \in Cores : life[p] <= lives
    /\ \A p, q \in Cores : life[p] # 0 /\ life[p] = life[q] => p = q
    /\ \A t \in Records!Turns : turn[t].at # "none" => turn[t].life <= lives
AtWorkLives == \A t \in Records!Turns : turn[t].at \notin {"none", "over"} => Records!Lives(t)

(* A turn that works has a receipt that runs, and none before.             *)
ReceiptsFit ==
    \A t \in Records!Turns :
        /\ turn[t].at \in WorkSteps =>
             receipt[t].status = "running" /\ receipt[t].owner = turn[t].life
        /\ turn[t].at \in EarlySteps => receipt[t].status = "none"

(* In a core one turn is between check and insert, and none that works has *)
(* its chat.                                                               *)
OneEach ==
    \A t, u \in Records!Turns :
        t # u /\ turn[t].at = "insert" /\ turn[u].at \in {"insert"} \union WorkSteps
            /\ turn[t].life = turn[u].life =>
                turn[u].at # "insert" /\ turn[t].chat # turn[u].chat

(* A subagent at work is held by a turn that has yet to attach to it, or by *)
(* the one that has.                                                       *)
Holds(t, p, steps) ==
    Records!Mine(t, p) /\ turn[t].chat = "agent" /\ turn[t].at \in steps
AgentHeld ==
    \A p \in Cores : agent[p].status \notin Records!Final =>
        \/ agent[p].turn = 0 /\ \E t \in Records!Turns : Holds(t, p, Before)
        \/ agent[p].turn \in Records!Turns /\ Holds(agent[p].turn, p, Attached)

RecordInv ==
    /\ Records!TypeOK /\ TurnsTyped /\ AgentsOwn /\ LivesDiffer /\ AtWorkLives
    /\ ReceiptsFit /\ OneEach /\ Records!OneTurn /\ AgentHeld

(* A core that opens the store has read as running what has a receipt, and *)
(* gives up no turn of a core that lives: lives are not begun twice.       *)
OpeningFits ==
    /\ \A t \in Records!Turns : receipt[t].owner <= lives
    /\ \A p \in Cores, t \in Records!Turns :
         Records!ReadAsRunning(p, t) => receipt[t].status # "none"
    /\ \A p \in Cores : opening[p].at = "interrupt" =>
         ~Records!Alive(receipt[opening[p].turn].owner)

(* What a step may do to a receipt.                                        *)
ReceiptsKept ==
    \A t \in Records!Turns :
        /\ receipt[t].status \notin {"none", "running"} =>
               \/ receipt'[t] = receipt[t]
               \/ /\ receipt[t].status = "settled" /\ receipt'[t].status = "interrupted"
                  /\ \E p \in Cores : Records!ReadAsRunning(p, t)
        /\ receipt'[t].status = "interrupted" /\ receipt[t].status # "interrupted" =>
               ~Records!Alive(receipt[t].owner)

(* No turn is there at first.                                              *)
LEMMA RecordsBegin == Records!Init => RecordInv /\ OpeningFits
<1> SUFFICES ASSUME Records!Init PROVE RecordInv /\ OpeningFits
  OBVIOUS
<1> USE RecordsAssumption DEF RecordsAssumption, Records!Init
<1>1. Records!TypeOK
  BY DEF Records!TypeOK, Records!NoReceipt, Records!Fresh, Records!Statuses, Records!Final,
         Records!NoTurn, Records!Turns
<1>2. TurnsTyped /\ \A t \in Records!Turns : turn[t].at = "none"
  BY DEF TurnsTyped, Records!NoTurn
<1>3. AgentsOwn /\ LivesDiffer /\ AtWorkLives /\ OneEach /\ Records!OneTurn
  BY <1>2 DEF AgentsOwn, LivesDiffer, AtWorkLives, OneEach, Records!OneTurn, Records!Works,
              Records!At, AgentSteps, WorkSteps
<1>4. ReceiptsFit
  BY <1>2 DEF ReceiptsFit, WorkSteps, Records!NoReceipt
<1>5. AgentHeld
  BY DEF AgentHeld, Records!Fresh, Records!Final
<1>6. OpeningFits
  BY DEF OpeningFits, Records!NoReceipt, Records!Opened, Records!ReadAsRunning
<1>7. QED
  BY <1>1, <1>2, <1>3, <1>4, <1>5, <1>6 DEF RecordInv

(* A turn that is there is told from one that is not by its step.          *)
LEMMA TurnIsThere ==
    ASSUME TurnsTyped, NEW t \in Records!Turns
    PROVE  /\ turn[t] = Records!NoTurn <=> turn[t].at = "none"
           /\ turn[t].at # "none" => turn[t] \in TurnRecords
           /\ turn[t] \in TurnRecords =>
                turn[t].chat \in {"operator", "agent"} /\ turn[t].life \in 1 .. MaxLives
                /\ turn[t].at \in Steps
BY DEF TurnsTyped, TurnRecords, Records!NoTurn, Steps, AgentSteps, WorkSteps

(* A turn of a core that lives is that core's alone.                       *)
LEMMA OneCore ==
    ASSUME RecordInv, NEW t \in Records!Turns, Records!Lives(t)
    PROVE  /\ Records!CoreOf(t) \in Cores /\ Records!Mine(t, Records!CoreOf(t))
           /\ \A p \in Cores : Records!Mine(t, p) => p = Records!CoreOf(t)
BY DEF Records!Lives, Records!CoreOf, Records!Mine, RecordInv, LivesDiffer

(* One turn goes to a step, in the chat and the life it has.               *)
Moved(t, step) ==
    /\ turn' \in [Records!Turns -> TurnRecords \union {Records!NoTurn}]
    /\ turn'[t] \in TurnRecords
    /\ turn'[t].at = step /\ turn'[t].chat = turn[t].chat /\ turn'[t].life = turn[t].life
    /\ \A u \in Records!Turns \ {t} : turn'[u] = turn[u]

(* A turn that goes on moves alone.                                        *)
LEMMA GotoMoves ==
    ASSUME RecordInv, NEW t \in Records!Turns, turn[t].at # "none",
           NEW step \in Steps \ {"failed", "completed"}, Records!Goto(t, step),
           turn[t].at \in {"failed", "completed", "done", "over"} => step \in {"done", "over"}
    PROVE  Moved(t, step)
<1>1. turn[t] \in TurnRecords /\ TurnsTyped
  BY TurnIsThere DEF RecordInv
<1>2. turn'[t] = [turn[t] EXCEPT !.at = step] /\ \A u \in Records!Turns \ {t} : turn'[u] = turn[u]
  BY <1>1 DEF Records!Goto, TurnsTyped
<1>3. CASE turn[t] \in [chat : {"operator", "agent"}, life : 1 .. MaxLives,
                        at : Steps \ {"failed", "completed"}]
  <2>1. /\ turn'[t] \in [chat : {"operator", "agent"}, life : 1 .. MaxLives,
                         at : Steps \ {"failed", "completed"}]
        /\ turn'[t].at = step /\ turn'[t].chat = turn[t].chat /\ turn'[t].life = turn[t].life
    BY <1>2, <1>3
  <2>2. turn' \in [Records!Turns -> TurnRecords \union {Records!NoTurn}]
    BY <1>1, <2>1 DEF Records!Goto, TurnsTyped, TurnRecords
  <2>3. QED
    BY <1>2, <2>1, <2>2 DEF Moved, TurnRecords
<1>4. CASE turn[t] \in [chat : {"agent"}, life : 1 .. MaxLives,
                        at : {"failed", "completed", "done", "over"}, status : Records!Statuses]
  <2>1. /\ turn'[t] \in [chat : {"agent"}, life : 1 .. MaxLives,
                         at : {"failed", "completed", "done", "over"}, status : Records!Statuses]
        /\ turn'[t].at = step /\ turn'[t].chat = turn[t].chat /\ turn'[t].life = turn[t].life
    BY <1>2, <1>4
  <2>2. turn' \in [Records!Turns -> TurnRecords \union {Records!NoTurn}]
    BY <1>1, <2>1 DEF Records!Goto, TurnsTyped, TurnRecords
  <2>3. QED
    BY <1>2, <2>1, <2>2 DEF Moved, TurnRecords
<1>5. QED
  BY <1>1, <1>3, <1>4 DEF TurnRecords

(* What a move of one turn leaves as it is.                                *)
LEMMA MoveKeepsLives ==
    ASSUME RecordInv, NEW t \in Records!Turns, Records!Lives(t), turn[t].at # "none",
           NEW step \in Steps, Moved(t, step), step \in AgentSteps => turn[t].chat = "agent",
           life' = life, lives' = lives
    PROVE  /\ TurnsTyped' /\ AgentsOwn' /\ LivesDiffer' /\ AtWorkLives'
           /\ \A u \in Records!Turns, p \in Cores : Records!Mine(u, p)' <=> Records!Mine(u, p)
<1>1. TurnsTyped' /\ AgentsOwn' /\ LivesDiffer'
  BY DEF RecordInv, Moved, TurnsTyped, AgentsOwn, LivesDiffer
<1>2. \A u \in Records!Turns :
        /\ (turn'[u] = Records!NoTurn <=> turn[u] = Records!NoTurn)
        /\ turn[u] # Records!NoTurn => turn'[u].life = turn[u].life
  <2>1. turn[t] # Records!NoTurn
    BY TurnIsThere DEF RecordInv
  <2>2. turn'[t] # Records!NoTurn
    BY DEF Moved, Records!NoTurn, TurnRecords, Steps, AgentSteps, WorkSteps
  <2>3. QED
    BY <2>1, <2>2 DEF Moved
<1>3. \A u \in Records!Turns, p \in Cores : Records!Mine(u, p)' <=> Records!Mine(u, p)
  BY <1>2 DEF Records!Mine
<1>4. AtWorkLives'
  BY <1>3 DEF RecordInv, AtWorkLives, Records!Lives, Moved
<1>5. QED
  BY <1>1, <1>3, <1>4

(* A move that does not insert leaves the chats to whom they are.          *)
LEMMA MoveKeepsChats ==
    ASSUME RecordInv, NEW t \in Records!Turns, NEW step, Moved(t, step),
           \/ step \notin {"insert"} \union WorkSteps
           \/ turn[t].at \in {"insert"} \union WorkSteps /\ step \in WorkSteps
    PROVE  OneEach' /\ Records!OneTurn'
<1> DEFINE Held(x) == x \in {"insert"} \union WorkSteps
<1>1. \A a, b \in Records!Turns :
        a # b /\ Held(turn[a].at) /\ Held(turn[b].at) /\ turn[a].life = turn[b].life =>
            /\ turn[a].at = "insert" \/ turn[b].at = "insert" => turn[a].chat # turn[b].chat
            /\ ~(turn[a].at = "insert" /\ turn[b].at = "insert")
            /\ turn[a].chat # turn[b].chat
  BY DEF RecordInv, OneEach, Records!OneTurn, Records!Works, Records!At, WorkSteps
<1>2. \A a \in Records!Turns :
        /\ turn'[a].at = "insert" => turn[a].at = "insert"
        /\ Held(turn'[a].at) =>
             Held(turn[a].at) /\ turn'[a].chat = turn[a].chat /\ turn'[a].life = turn[a].life
  BY DEF Moved, WorkSteps
<1>3. OneEach'
  BY <1>1, <1>2 DEF OneEach
<1>4. Records!OneTurn'
  BY <1>1, <1>2 DEF Records!OneTurn, Records!Works, Records!At, WorkSteps
<1>5. QED
  BY <1>3, <1>4

(* A move keeps its receipt in step.                                       *)
LEMMA MoveKeepsReceipts ==
    ASSUME RecordInv, NEW t \in Records!Turns, NEW step, Moved(t, step), receipt' = receipt,
           step \in WorkSteps => turn[t].at \in WorkSteps,
           step \in EarlySteps => turn[t].at \in EarlySteps
    PROVE  ReceiptsFit' /\ ReceiptsKept
<1>1. ReceiptsKept
  BY DEF ReceiptsKept, RecordInv, Records!TypeOK
<1>2. ReceiptsFit'
  BY DEF RecordInv, ReceiptsFit, Moved
<1>3. QED
  BY <1>1, <1>2

(* A move of another turn leaves the subagent held.                        *)
LEMMA MoveKeepsAgent ==
    ASSUME RecordInv, NEW t \in Records!Turns, NEW step, Moved(t, step), agent' = agent,
           life' = life,
           \A u \in Records!Turns, p \in Cores : Records!Mine(u, p)' <=> Records!Mine(u, p),
           turn[t].chat = "agent" =>
               /\ turn[t].at \in Before => step \in Before
               /\ turn[t].at \in Attached => step \in Attached
    PROVE  AgentHeld'
<1>1. \A u \in Records!Turns, p \in Cores :
        /\ Holds(u, p, Before) => Holds(u, p, Before)'
        /\ Holds(u, p, Attached) => Holds(u, p, Attached)'
  BY DEF Holds, Moved
<1>2. QED
  BY <1>1 DEF RecordInv, AgentHeld

(* A step of a turn that touches neither its receipt nor the registry.     *)
LEMMA PlainMove ==
    ASSUME RecordInv, NEW t \in Records!Turns, Records!Lives(t),
           NEW step \in (Steps \ {"failed", "completed"}), Records!Goto(t, step),
           turn[t].at \notin {"none", "over"},
           turn[t].at \in {"failed", "completed", "done"} => step \in {"done", "over"},
           step \in AgentSteps => turn[t].chat = "agent",
           \/ step \notin {"insert"} \union WorkSteps
           \/ turn[t].at \in {"insert"} \union WorkSteps /\ step \in WorkSteps,
           step \in WorkSteps => turn[t].at \in WorkSteps,
           step \in EarlySteps => turn[t].at \in EarlySteps,
           turn[t].chat = "agent" =>
               /\ turn[t].at \in Before => step \in Before
               /\ turn[t].at \in Attached => step \in Attached,
           row' \in Records!Statuses,
           UNCHANGED <<life, lives, receipt, agent, note, opening>>
    PROVE  RecordInv' /\ ReceiptsKept
<1>1. Moved(t, step)
  BY GotoMoves
<1>2. /\ TurnsTyped' /\ AgentsOwn' /\ LivesDiffer' /\ AtWorkLives'
      /\ \A u \in Records!Turns, p \in Cores : Records!Mine(u, p)' <=> Records!Mine(u, p)
  BY <1>1, MoveKeepsLives
<1>3. OneEach' /\ Records!OneTurn'
  BY <1>1, MoveKeepsChats
<1>4. ReceiptsFit' /\ ReceiptsKept
  BY <1>1, MoveKeepsReceipts
<1>5. AgentHeld'
  BY <1>1, <1>2, MoveKeepsAgent
<1>6. Records!TypeOK'
  BY <1>2 DEF RecordInv, Records!TypeOK, TurnsTyped, TurnRecords
<1>7. QED
  BY <1>2, <1>3, <1>4, <1>5, <1>6 DEF RecordInv

(* The rows of subagents are no record of a turn.                          *)
LEMMA RowsKeep ==
    ASSUME RecordInv, NEW t \in Records!Turns,
           \/ Records!Persisted(t, "pending", "restarted", "launch")
           \/ Records!Persisted(t, "running", "attached", "begin")
           \/ Records!Persisted(t, turn[t].status, "failed", "over")
           \/ Records!Persisted(t, turn[t].status, "completed", "done")
    PROVE  RecordInv' /\ ReceiptsKept
<1> USE DEF Steps, AgentSteps, EarlySteps, WorkSteps, Before, Attached, Records!At
<1>0. TurnsTyped
  BY DEF RecordInv
<1>1. CASE Records!Persisted(t, "pending", "restarted", "launch")
  BY <1>1, PlainMove DEF Records!Persisted, Records!Statuses, RecordInv, AgentsOwn
<1>2. CASE Records!Persisted(t, "running", "attached", "begin")
  BY <1>2, PlainMove DEF Records!Persisted, Records!Statuses
<1>3. CASE Records!Persisted(t, turn[t].status, "failed", "over")
  <2>1. turn[t].at = "failed" /\ turn[t].status \in Records!Statuses
    BY <1>0, <1>3, TurnIsThere DEF Records!Persisted, TurnRecords
  <2>2. QED
    BY <1>3, <2>1, PlainMove DEF Records!Persisted
<1>4. CASE Records!Persisted(t, turn[t].status, "completed", "done")
  <2>1. turn[t].at = "completed" /\ turn[t].status \in Records!Statuses
    BY <1>0, <1>4, TurnIsThere DEF Records!Persisted, TurnRecords
  <2>2. QED
    BY <1>4, <2>1, PlainMove DEF Records!Persisted
<1>5. QED
  BY <1>1, <1>2, <1>3, <1>4

(* A change of one core's agent that leaves it over, or held.              *)
LEMMA AgentMoves ==
    ASSUME RecordInv, NEW t \in Records!Turns, NEW step, Moved(t, step), life' = life,
           NEW p \in Cores, Records!Mine(t, p),
           \A u \in Records!Turns, q \in Cores : Records!Mine(u, q)' <=> Records!Mine(u, q),
           \A q \in Cores \ {p} : agent'[q] = agent[q],
           \/ agent'[p].status \in Records!Final
           \/ agent'[p].turn = t /\ turn[t].chat = "agent" /\ step \in Attached
    PROVE  AgentHeld'
<1>1. ASSUME NEW q \in Cores \ {p} PROVE ~Records!Mine(t, q)
  BY <1>1 DEF RecordInv, LivesDiffer, Records!Mine
<1>2. \A q \in Cores \ {p}, u \in Records!Turns, steps \in {Before, Attached} :
        Holds(u, q, steps) => Holds(u, q, steps)'
  BY <1>1 DEF Holds, Moved
<1>3. ASSUME NEW q \in Cores, (agent[q].status \notin Records!Final)'
      PROVE  (\/ agent[q].turn = 0 /\ \E u \in Records!Turns : Holds(u, q, Before)
              \/ agent[q].turn \in Records!Turns /\ Holds(agent[q].turn, q, Attached))'
  <2>1. CASE q = p
    BY <1>3, <2>1 DEF Holds, Moved
  <2>2. CASE q # p
    <3>1. agent'[q] = agent[q] /\ agent[q].status \notin Records!Final
      BY <1>3, <2>2
    <3>2. CASE agent[q].turn = 0 /\ \E u \in Records!Turns : Holds(u, q, Before)
      BY <1>2, <2>2, <3>1, <3>2
    <3>3. CASE agent[q].turn \in Records!Turns /\ Holds(agent[q].turn, q, Attached)
      <4>1. agent[q].turn # t
        BY <1>1, <2>2, <3>3 DEF Holds
      <4>2. QED
        BY <2>2, <3>1, <3>3, <4>1 DEF Holds, Moved
    <3>4. QED
      BY <3>1, <3>2, <3>3 DEF RecordInv, AgentHeld
  <2>3. QED
    BY <2>1, <2>2
<1>4. QED
  BY <1>3 DEF AgentHeld

(* A turn attaches to the subagent that was held for it.                   *)
LEMMA AttachKeeps ==
    ASSUME RecordInv, NEW t \in Records!Turns, Records!Attach(t) PROVE RecordInv' /\ ReceiptsKept
<1> DEFINE p == Records!CoreOf(t)
<1> USE DEF Steps, AgentSteps, EarlySteps, WorkSteps, Before, Attached, Records!At
<1>1. Records!Lives(t) /\ turn[t].at = "launch" /\ turn[t].chat = "agent"
  BY DEF Records!Attach, RecordInv, AgentsOwn
<1>2. p \in Cores /\ Records!Mine(t, p)
  BY <1>1, OneCore
<1>3. UNCHANGED <<life, lives, receipt, row, note, opening>>
  BY DEF Records!Attach
<1>4. CASE agent[p].status # "pending"
  <2>1. agent' = agent /\ Records!Goto(t, "refused")
    BY <1>4 DEF Records!Attach
  <2>2. row' \in Records!Statuses
    BY <1>3 DEF RecordInv, Records!TypeOK
  <2>3. QED
    BY <1>1, <1>3, <2>1, <2>2, PlainMove
<1>5. CASE agent[p].status = "pending"
  <2>1. /\ agent' = [agent EXCEPT ![p] = [status |-> "running", turn |-> t]]
        /\ Records!Goto(t, "attached")
    BY <1>5 DEF Records!Attach
  <2>2. Moved(t, "attached")
    BY <1>1, <2>1, GotoMoves
  <2>3. /\ TurnsTyped' /\ AgentsOwn' /\ LivesDiffer' /\ AtWorkLives'
        /\ \A u \in Records!Turns, q \in Cores : Records!Mine(u, q)' <=> Records!Mine(u, q)
    BY <1>1, <1>3, <2>2, MoveKeepsLives
  <2>4. OneEach' /\ Records!OneTurn'
    BY <2>2, MoveKeepsChats
  <2>5. ReceiptsFit' /\ ReceiptsKept
    BY <1>1, <1>3, <2>2, MoveKeepsReceipts
  <2>6. /\ agent' \in [Cores -> [status : Records!Statuses, turn : Records!Turns \union {0}]]
        /\ agent'[p].turn = t /\ \A q \in Cores \ {p} : agent'[q] = agent[q]
    BY <1>2, <2>1 DEF RecordInv, Records!TypeOK, Records!Statuses
  <2>7. AgentHeld'
    BY <1>1, <1>2, <1>3, <2>2, <2>3, <2>6, AgentMoves
  <2>8. Records!TypeOK'
    BY <1>3, <2>3, <2>6 DEF RecordInv, Records!TypeOK, TurnsTyped, TurnRecords
  <2>9. QED
    BY <2>3, <2>4, <2>5, <2>7, <2>8 DEF RecordInv
<1>6. QED
  BY <1>4, <1>5

(* A turn begins when nobody works in its chat.                            *)
LEMMA BeginKeeps ==
    ASSUME RecordInv, NEW t \in Records!Turns, Records!Begin(t) PROVE RecordInv' /\ ReceiptsKept
<1> USE DEF Steps, AgentSteps, EarlySteps, WorkSteps, Before, Attached, Records!At
<1>1. /\ Records!Lives(t) /\ turn[t].at = "begin"
      /\ UNCHANGED <<life, lives, receipt, agent, row, note, opening>>
  BY DEF Records!Begin
<1>2. row' \in Records!Statuses /\ turn[t].chat \in {"operator", "agent"}
  BY <1>1, TurnIsThere DEF RecordInv, Records!TypeOK
<1>3. CASE Records!ChatIsBusy(t)
  <2> DEFINE step == IF turn[t].chat = "agent" THEN "refused" ELSE "over"
  <2>1. Records!Goto(t, step)
    BY <1>3 DEF Records!Begin
  <2>2. QED
    BY <1>1, <1>2, <2>1, PlainMove
<1>4. CASE ~Records!ChatIsBusy(t)
  <2>1. Records!Goto(t, "insert")
    BY <1>4 DEF Records!Begin
  <2>2. Moved(t, "insert")
    BY <1>1, <2>1, GotoMoves
  <2>3. /\ TurnsTyped' /\ AgentsOwn' /\ LivesDiffer' /\ AtWorkLives'
        /\ \A u \in Records!Turns, q \in Cores : Records!Mine(u, q)' <=> Records!Mine(u, q)
    BY <1>1, <2>2, MoveKeepsLives
  <2>4. ASSUME NEW u \in Records!Turns \ {t}, turn[u].life = turn[t].life
        PROVE  turn[u].at # "insert"
    <3>1. Records!CoreOf(t) \in Cores /\ Records!Mine(t, Records!CoreOf(t))
      BY <1>1, OneCore
    <3>2. SUFFICES ASSUME turn[u].at = "insert" PROVE FALSE
      OBVIOUS
    <3>3. turn[u] # Records!NoTurn
      BY <3>2 DEF Records!NoTurn
    <3>4. Records!Mine(u, Records!CoreOf(t))
      BY <2>4, <3>1, <3>3 DEF Records!Mine
    <3>5. QED
      BY <3>2, <3>4 DEF Records!Begin, Records!Locked
  <2>5. ASSUME NEW u \in Records!Turns \ {t}, turn[u].at \in WorkSteps
        PROVE  turn[u].chat # turn[t].chat
    <3>1. receipt[u].status = "running"
      BY <2>5 DEF RecordInv, ReceiptsFit
    <3>2. QED
      BY <1>4, <3>1 DEF Records!ChatIsBusy
  <2>6. OneEach'
    BY <2>2, <2>4, <2>5 DEF RecordInv, OneEach, Moved
  <2>7. Records!OneTurn'
    BY <2>2 DEF RecordInv, Records!OneTurn, Records!Works, Moved
  <2>8. ReceiptsFit' /\ ReceiptsKept
    BY <1>1, <2>2, MoveKeepsReceipts
  <2>9. AgentHeld'
    BY <1>1, <2>2, <2>3, MoveKeepsAgent
  <2>10. Records!TypeOK'
    BY <1>1, <2>3 DEF RecordInv, Records!TypeOK, TurnsTyped, TurnRecords
  <2>11. QED
    BY <2>3, <2>6, <2>7, <2>8, <2>9, <2>10 DEF RecordInv
<1>5. QED
  BY <1>3, <1>4

(* Its receipt is written before it works.                                 *)
LEMMA InsertKeeps ==
    ASSUME RecordInv, NEW t \in Records!Turns, Records!Insert(t) PROVE RecordInv' /\ ReceiptsKept
<1> USE DEF Steps, AgentSteps, EarlySteps, WorkSteps, Before, Attached, Records!At
<1>1. /\ Records!Lives(t) /\ turn[t].at = "insert"
      /\ UNCHANGED <<life, lives, agent, row, note, opening>>
      /\ receipt' = [receipt EXCEPT ![t] = [status |-> "running", owner |-> turn[t].life]]
  BY DEF Records!Insert
<1>2. turn[t].chat \in {"operator", "agent"} /\ turn[t].life \in 1 .. MaxLives
  BY <1>1, TurnIsThere DEF RecordInv
<1>3. PICK step \in {"work", IF turn[t].chat = "agent" THEN "refused" ELSE "over"} :
        Records!Goto(t, step)
  BY DEF Records!Insert
<1>4. Moved(t, step)
  BY <1>1, <1>3, GotoMoves
<1>5. /\ TurnsTyped' /\ AgentsOwn' /\ LivesDiffer' /\ AtWorkLives'
      /\ \A u \in Records!Turns, q \in Cores : Records!Mine(u, q)' <=> Records!Mine(u, q)
  BY <1>1, <1>2, <1>3, <1>4, MoveKeepsLives
<1>6. OneEach' /\ Records!OneTurn'
  BY <1>1, <1>2, <1>4, MoveKeepsChats
<1>7. /\ receipt[t].status = "none" /\ receipt'[t].status = "running"
      /\ receipt'[t].owner = turn[t].life
      /\ \A u \in Records!Turns \ {t} : receipt'[u] = receipt[u]
      /\ receipt' \in [Records!Turns -> [status : {"none", "running", "settled", "interrupted"},
                                         owner : 0 .. MaxLives]]
  BY <1>1, <1>2, RecordsAssumption
  DEF RecordInv, ReceiptsFit, Records!TypeOK, RecordsAssumption
<1>8. ReceiptsFit'
  BY <1>2, <1>4, <1>7 DEF RecordInv, ReceiptsFit, Moved
<1>9. ReceiptsKept
  BY <1>7 DEF ReceiptsKept
<1>10. AgentHeld'
  BY <1>1, <1>2, <1>4, <1>5, MoveKeepsAgent
<1>11. Records!TypeOK'
  BY <1>1, <1>5, <1>7 DEF RecordInv, Records!TypeOK, TurnsTyped, TurnRecords
<1>12. QED
  BY <1>5, <1>6, <1>8, <1>9, <1>10, <1>11 DEF RecordInv

(* A subagent's turn that ends in the registry: its agent is over.         *)
LEMMA EndOfAgent ==
    ASSUME RecordInv, NEW t \in Records!Turns, Records!Lives(t), turn[t].chat = "agent",
           NEW step \in {"failed", "completed"}, NEW status \in Records!Final,
           \/ step = "failed" /\ turn[t].at = "refused"
           \/ step = "completed" /\ turn[t].at = "work",
           agent' = [agent EXCEPT ![Records!CoreOf(t)].status = status],
           turn' = [turn EXCEPT ![t] = [chat |-> "agent", life |-> @.life,
                                        at |-> step, status |-> status]],
           UNCHANGED <<life, lives, receipt, row, note, opening>>
    PROVE  RecordInv' /\ ReceiptsKept
<1> DEFINE p == Records!CoreOf(t)
<1> USE DEF Steps, AgentSteps, EarlySteps, WorkSteps, Before, Attached
<1>1. p \in Cores /\ Records!Mine(t, p)
  BY OneCore
<1>2. Moved(t, step)
  <2>1. turn[t] \in TurnRecords /\ TurnsTyped /\ turn[t].life \in 1 .. MaxLives
    BY TurnIsThere DEF RecordInv
  <2>2. /\ turn'[t] = [chat |-> "agent", life |-> turn[t].life, at |-> step, status |-> status]
        /\ \A u \in Records!Turns \ {t} : turn'[u] = turn[u]
    BY <2>1 DEF TurnsTyped
  <2>3. turn'[t] \in TurnRecords
    BY <2>1, <2>2 DEF TurnRecords, Records!Statuses
  <2>4. turn' \in [Records!Turns -> TurnRecords \union {Records!NoTurn}]
    BY <2>1, <2>2, <2>3 DEF TurnsTyped
  <2>5. QED
    BY <2>2, <2>3, <2>4 DEF Moved
<1>3. /\ TurnsTyped' /\ AgentsOwn' /\ LivesDiffer' /\ AtWorkLives'
      /\ \A u \in Records!Turns, q \in Cores : Records!Mine(u, q)' <=> Records!Mine(u, q)
  BY <1>2, MoveKeepsLives
<1>4. OneEach' /\ Records!OneTurn'
  BY <1>2, MoveKeepsChats
<1>5. ReceiptsFit' /\ ReceiptsKept
  BY <1>2, MoveKeepsReceipts
<1>6. /\ agent' \in [Cores -> [status : Records!Statuses, turn : Records!Turns \union {0}]]
      /\ agent'[p].status = status /\ \A q \in Cores \ {p} : agent'[q] = agent[q]
  BY <1>1 DEF RecordInv, Records!TypeOK, Records!Statuses
<1>7. AgentHeld'
  BY <1>1, <1>2, <1>3, <1>6, AgentMoves
<1>8. Records!TypeOK'
  BY <1>3, <1>6 DEF RecordInv, Records!TypeOK, TurnsTyped, TurnRecords
<1>9. QED
  BY <1>3, <1>4, <1>5, <1>7, <1>8 DEF RecordInv

(* A launch that fails ends the subagent.                                  *)
LEMMA FailReservedKeeps ==
    ASSUME RecordInv, NEW t \in Records!Turns, Records!FailReserved(t)
    PROVE  RecordInv' /\ ReceiptsKept
<1> DEFINE p == Records!CoreOf(t)
           status == IF agent[p].status \in Records!Final THEN agent[p].status ELSE "failed"
<1>1. /\ Records!Lives(t) /\ turn[t].at = "refused" /\ status \in Records!Final
      /\ agent' = [agent EXCEPT ![p].status = status]
      /\ turn' = [turn EXCEPT ![t] = [chat |-> "agent", life |-> @.life,
                                      at |-> "failed", status |-> status]]
      /\ UNCHANGED <<life, lives, receipt, row, note, opening>>
  BY DEF Records!FailReserved, Records!At, Records!Final
<1>2. turn[t].chat = "agent"
  BY <1>1 DEF RecordInv, AgentsOwn, AgentSteps
<1>3. QED
  BY <1>1, <1>2, EndOfAgent

(* A subagent's turn ends it with its status.                              *)
LEMMA CompleteKeeps ==
    ASSUME RecordInv, NEW t \in Records!Turns, Records!Complete(t)
    PROVE  RecordInv' /\ ReceiptsKept
<1> DEFINE p == Records!CoreOf(t)
<1> USE DEF Steps, AgentSteps, EarlySteps, WorkSteps, Before, Attached
<1>1. /\ Records!Lives(t) /\ turn[t].at = "work" /\ turn[t].chat = "agent"
      /\ UNCHANGED <<life, lives, receipt, row, note, opening>>
  BY DEF Records!Complete, Records!At
<1>2. CASE agent[p].turn = t /\ agent[p].status \notin Records!Final
  <2>1. PICK status \in Records!Outcomes(agent[p].status) :
          /\ agent' = [agent EXCEPT ![p].status = status]
          /\ turn' = [turn EXCEPT ![t] = [chat |-> "agent", life |-> @.life,
                                          at |-> "completed", status |-> status]]
    BY <1>2 DEF Records!Complete
  <2>2. status \in Records!Final
    BY <2>1 DEF Records!Outcomes, Records!Final
  <2>3. QED
    BY <1>1, <2>1, <2>2, EndOfAgent
<1>3. CASE ~(agent[p].turn = t /\ agent[p].status \notin Records!Final)
  <2>1. Records!Goto(t, "done") /\ agent' = agent
    BY <1>3 DEF Records!Complete
  <2>2. Moved(t, "done")
    BY <1>1, <2>1, GotoMoves
  <2>3. /\ TurnsTyped' /\ AgentsOwn' /\ LivesDiffer' /\ AtWorkLives'
        /\ \A u \in Records!Turns, q \in Cores : Records!Mine(u, q)' <=> Records!Mine(u, q)
    BY <1>1, <2>2, MoveKeepsLives
  <2>4. OneEach' /\ Records!OneTurn'
    BY <1>1, <2>2, MoveKeepsChats
  <2>5. ReceiptsFit' /\ ReceiptsKept
    BY <1>1, <2>2, MoveKeepsReceipts
  <2>6. ASSUME NEW q \in Cores, agent[q].status \notin Records!Final, agent[q].turn = t
        PROVE  ~Holds(t, q, Attached)
    BY <1>1, <1>3, <2>6, OneCore DEF Holds
  <2>7. \A q \in Cores :
          /\ \A u \in Records!Turns : Holds(u, q, Before) => Holds(u, q, Before)'
          /\ \A u \in Records!Turns \ {t} : Holds(u, q, Attached) => Holds(u, q, Attached)'
    BY <1>1, <2>2, <2>3 DEF Holds, Moved
  <2>8. AgentHeld'
    BY <1>1, <2>1, <2>6, <2>7 DEF RecordInv, AgentHeld
  <2>9. Records!TypeOK'
    BY <1>1, <2>1, <2>3 DEF RecordInv, Records!TypeOK, TurnsTyped, TurnRecords
  <2>10. QED
    BY <2>3, <2>4, <2>5, <2>8, <2>9 DEF RecordInv
<1>4. QED
  BY <1>2, <1>3

(* A turn is done when its receipt says so.                                *)
LEMMA DoneKeeps ==
    ASSUME RecordInv, NEW t \in Records!Turns, Records!Done(t) PROVE RecordInv' /\ ReceiptsKept
<1> USE DEF Steps, AgentSteps, EarlySteps, WorkSteps, Before, Attached, Records!At
<1>1. /\ Records!Lives(t) /\ Records!Goto(t, "over")
      /\ turn[t].at = "done" \/ (turn[t].at = "work" /\ turn[t].chat = "operator")
      /\ UNCHANGED <<life, lives, agent, row, note, opening>>
  BY DEF Records!Done
<1>2. \/ receipt' = receipt
      \/ receipt[t].status = "running" /\ receipt' = [receipt EXCEPT ![t].status = "settled"]
  BY DEF Records!Done, Records!Settles
<1>3. Moved(t, "over")
  BY <1>1, GotoMoves
<1>4. /\ TurnsTyped' /\ AgentsOwn' /\ LivesDiffer' /\ AtWorkLives'
      /\ \A u \in Records!Turns, q \in Cores : Records!Mine(u, q)' <=> Records!Mine(u, q)
  BY <1>1, <1>3, MoveKeepsLives
<1>5. OneEach' /\ Records!OneTurn'
  BY <1>3, MoveKeepsChats
<1>6. /\ receipt' \in [Records!Turns -> [status : {"none", "running", "settled", "interrupted"},
                                         owner : 0 .. MaxLives]]
      /\ \A u \in Records!Turns \ {t} : receipt'[u] = receipt[u]
      /\ receipt'[t] = receipt[t]
            \/ (receipt[t].status = "running" /\ receipt'[t].status = "settled")
  <2>1. receipt \in [Records!Turns -> [status : {"none", "running", "settled", "interrupted"},
                                       owner : 0 .. MaxLives]]
    BY DEF RecordInv, Records!TypeOK
  <2>2. QED
    BY <1>2, <2>1
<1>7. ReceiptsFit'
  BY <1>3, <1>6 DEF RecordInv, ReceiptsFit, Moved
<1>8. ReceiptsKept
  BY <1>6 DEF ReceiptsKept
<1>9. AgentHeld'
  BY <1>1, <1>3, <1>4, MoveKeepsAgent
<1>10. Records!TypeOK'
  BY <1>1, <1>4, <1>6 DEF RecordInv, Records!TypeOK, TurnsTyped, TurnRecords
<1>11. QED
  BY <1>4, <1>5, <1>7, <1>8, <1>9, <1>10 DEF RecordInv

(* Every step of a turn keeps what is known of the records.                *)
LEMMA TurnKeeps ==
    ASSUME RecordInv, NEW t \in Records!Turns, Records!Turn(t) PROVE RecordInv' /\ ReceiptsKept
BY RowsKeep, AttachKeeps, BeginKeeps, InsertKeeps, FailReservedKeeps, CompleteKeeps, DoneKeeps
DEF Records!Turn

(* A turn starts in the life of its core.                                  *)
LEMMA TurnStarts ==
    ASSUME RecordInv, NEW p \in Cores, NEW t \in Records!Turns, life[p] # 0, turn[t].at = "none",
           NEW whose \in {"operator", "agent"}, NEW step \in {"begin", "restarted"},
           step = "restarted" => whose = "agent",
           turn' = [turn EXCEPT ![t] = [chat |-> whose, life |-> life[p], at |-> step]],
           UNCHANGED <<life, lives, receipt, row, note, opening>>
    PROVE  /\ TurnsTyped' /\ AgentsOwn' /\ LivesDiffer' /\ AtWorkLives'
           /\ ReceiptsFit' /\ OneEach' /\ Records!OneTurn' /\ ReceiptsKept
           /\ turn'[t].at = step /\ turn'[t].chat = whose /\ Records!Mine(t, p)'
           /\ \A u \in Records!Turns \ {t} : turn'[u] = turn[u]
           /\ \A u \in Records!Turns, q \in Cores : Records!Mine(u, q) =>
                  u # t /\ Records!Mine(u, q)'
           /\ \A u \in Records!Turns : turn'[u] = Records!NoTurn \/ turn'[u].life \in 1 .. MaxLives
<1> USE DEF Steps, AgentSteps, EarlySteps, WorkSteps
<1>1. life[p] \in 1 .. MaxLives /\ life[p] <= lives
  BY RecordsAssumption DEF RecordInv, LivesDiffer, Records!TypeOK, RecordsAssumption
<1>2. /\ turn'[t] = [chat |-> whose, life |-> life[p], at |-> step]
      /\ \A u \in Records!Turns \ {t} : turn'[u] = turn[u]
  BY DEF RecordInv, TurnsTyped
<1>3. turn'[t] \in TurnRecords /\ turn'[t].at = step /\ turn'[t].chat = whose
      /\ turn'[t].life = life[p] /\ turn'[t] # Records!NoTurn
  BY <1>1, <1>2 DEF TurnRecords, Records!NoTurn
<1>4. TurnsTyped'
  BY <1>2, <1>3 DEF RecordInv, TurnsTyped
<1>5. turn[t] = Records!NoTurn
  BY TurnIsThere DEF RecordInv
<1>6. /\ Records!Mine(t, p)'
      /\ \A u \in Records!Turns, q \in Cores : Records!Mine(u, q) =>
             u # t /\ Records!Mine(u, q)'
  BY <1>2, <1>3, <1>5 DEF Records!Mine
<1>7. AtWorkLives'
  BY <1>2, <1>6 DEF RecordInv, AtWorkLives, Records!Lives
<1>8. AgentsOwn' /\ LivesDiffer'
  BY <1>1, <1>2, <1>3 DEF RecordInv, AgentsOwn, LivesDiffer
<1>9. ReceiptsFit' /\ ReceiptsKept
  BY <1>2, <1>3 DEF RecordInv, ReceiptsFit, ReceiptsKept
<1>10. OneEach' /\ Records!OneTurn'
  BY <1>2, <1>3 DEF RecordInv, OneEach, Records!OneTurn, Records!Works, Records!At
<1>11. \A u \in Records!Turns : turn'[u] = Records!NoTurn \/ turn'[u].life \in 1 .. MaxLives
  BY <1>4 DEF TurnsTyped, TurnRecords
<1>12. QED
  BY <1>2, <1>3, <1>4, <1>6, <1>7, <1>8, <1>9, <1>10, <1>11

(* A message starts a turn, the operator's or the subagent's.              *)
LEMMA SendKeeps ==
    ASSUME RecordInv, NEW p \in Cores, NEW t \in Records!Turns,
           Records!Send(p, t) \/ Records!FollowUp(p, t)
    PROVE  RecordInv' /\ ReceiptsKept
<1>0. life[p] # 0 /\ turn[t].at = "none" /\ UNCHANGED <<life, lives, receipt, row, note, opening>>
  BY DEF Records!Send, Records!FollowUp, Records!NextTurn, Records!NoTurn, Records!Serves
<1>1. CASE Records!Send(p, t)
  <2>0. /\ turn' = [turn EXCEPT ![t] = [chat |-> "operator", life |-> life[p], at |-> "begin"]]
        /\ agent' = agent
    BY <1>1 DEF Records!Send
  <2>1. /\ TurnsTyped' /\ AgentsOwn' /\ LivesDiffer' /\ AtWorkLives'
        /\ ReceiptsFit' /\ OneEach' /\ Records!OneTurn' /\ ReceiptsKept
        /\ \A u \in Records!Turns \ {t} : turn'[u] = turn[u]
        /\ \A u \in Records!Turns, q \in Cores : Records!Mine(u, q) =>
               u # t /\ Records!Mine(u, q)'
        /\ \A u \in Records!Turns : turn'[u] = Records!NoTurn \/ turn'[u].life \in 1 .. MaxLives
    BY <1>0, <2>0, TurnStarts
  <2>2. AgentHeld'
    BY <1>0, <2>0, <2>1 DEF RecordInv, AgentHeld, Holds
  <2>3. Records!TypeOK'
    BY <1>0, <2>0, <2>1 DEF RecordInv, Records!TypeOK
  <2>4. QED
    BY <2>1, <2>2, <2>3 DEF RecordInv
<1>2. CASE Records!FollowUp(p, t)
  <2>0. /\ turn' = [turn EXCEPT ![t] = [chat |-> "agent", life |-> life[p], at |-> "restarted"]]
        /\ agent' = [agent EXCEPT ![p] = [status |-> "pending", turn |-> 0]]
    BY <1>2 DEF Records!FollowUp
  <2>1. /\ TurnsTyped' /\ AgentsOwn' /\ LivesDiffer' /\ AtWorkLives'
        /\ ReceiptsFit' /\ OneEach' /\ Records!OneTurn' /\ ReceiptsKept
        /\ turn'[t].at = "restarted" /\ turn'[t].chat = "agent" /\ Records!Mine(t, p)'
        /\ \A u \in Records!Turns \ {t} : turn'[u] = turn[u]
        /\ \A u \in Records!Turns, q \in Cores : Records!Mine(u, q) =>
               u # t /\ Records!Mine(u, q)'
        /\ \A u \in Records!Turns : turn'[u] = Records!NoTurn \/ turn'[u].life \in 1 .. MaxLives
    BY <1>0, <2>0, TurnStarts
  <2>2. /\ agent' \in [Cores -> [status : Records!Statuses, turn : Records!Turns \union {0}]]
        /\ agent'[p].turn = 0 /\ \A q \in Cores \ {p} : agent'[q] = agent[q]
    BY <2>0 DEF RecordInv, Records!TypeOK, Records!Statuses
  <2>3. Holds(t, p, Before)'
    BY <2>1 DEF Holds, Before
  <2>4. AgentHeld'
    BY <1>0, <2>1, <2>2, <2>3 DEF RecordInv, AgentHeld, Holds
  <2>5. Records!TypeOK'
    BY <1>0, <2>1, <2>2 DEF RecordInv, Records!TypeOK
  <2>6. QED
    BY <2>1, <2>4, <2>5 DEF RecordInv
<1>3. QED
  BY <1>1, <1>2

(* The operator and the parent: the registry, then the row.                *)
LEMMA NotesKeep ==
    ASSUME RecordInv, NEW p \in Cores,
           Records!Stop(p) \/ Records!Message(p) \/ Records!PersistNote(p)
    PROVE  RecordInv' /\ ReceiptsKept
<1>1. UNCHANGED <<life, lives, turn, receipt, opening>>
  BY DEF Records!Stop, Records!Message, Records!PersistNote
<1>2. /\ agent' \in [Cores -> [status : Records!Statuses, turn : Records!Turns \union {0}]]
      /\ row' \in Records!Statuses /\ note' \in [Cores -> Records!Statuses \union {"none"}]
      /\ \A q \in Cores : agent'[q].turn = agent[q].turn
      /\ \A q \in Cores : agent[q].status \in Records!Final => agent'[q].status \in Records!Final
  <2>1. CASE Records!Stop(p)
    <3> DEFINE status == IF agent[p].status \in Records!Final THEN agent[p].status
                         ELSE IF agent[p].turn # 0 THEN "stopping" ELSE "interrupted"
    <3>1. /\ status \in Records!Statuses /\ row' = row
          /\ agent[p].status \in Records!Final => status \in Records!Final
          /\ agent' = [agent EXCEPT ![p].status = status]
          /\ note' = [note EXCEPT ![p] = status]
      BY <2>1 DEF Records!Stop, Records!Statuses, Records!Final
    <3> HIDE DEF status
    <3>2. QED
      BY <3>1 DEF RecordInv, Records!TypeOK
  <2>2. CASE Records!Message(p)
    BY <2>2 DEF Records!Message, RecordInv, Records!TypeOK, Records!Statuses, Records!Final
  <2>3. CASE Records!PersistNote(p)
    BY <2>3 DEF Records!PersistNote, RecordInv, Records!TypeOK, Records!Statuses, Records!Final
  <2>4. QED
    BY <2>1, <2>2, <2>3
<1>3. AgentHeld'
  BY <1>1, <1>2 DEF RecordInv, AgentHeld, Holds, Records!Mine
<1>4. Records!TypeOK'
  BY <1>1, <1>2 DEF RecordInv, Records!TypeOK
<1>5. ReceiptsKept
  BY <1>1 DEF ReceiptsKept
<1>6. QED
  BY <1>1, <1>3, <1>4, <1>5
  DEF RecordInv, TurnsTyped, AgentsOwn, LivesDiffer, AtWorkLives, ReceiptsFit, OneEach,
      Records!OneTurn, Records!Works, Records!At, Records!Lives, Records!Mine

(* What a core has yet to do while it opens the store.                     *)
LEMMA OpeningShapes ==
    ASSUME Records!TypeOK, NEW p \in Cores
    PROVE  /\ opening[p].at = "check" => opening[p].todo \in SUBSET Records!Turns
           /\ opening[p].at = "interrupt" =>
                opening[p].todo \in SUBSET Records!Turns /\ opening[p].turn \in Records!Turns
BY DEF Records!TypeOK, Records!Opened

(* A core that starts takes up what others left.                           *)
LEMMA OpenKeeps ==
    ASSUME RecordInv, NEW p \in Cores, Records!Open(p) PROVE RecordInv' /\ ReceiptsKept
<1> DEFINE taking == [at |-> "check",
                      todo |-> {t \in Records!Turns : receipt[t].status = "running"}]
<1>1. /\ life[p] = 0 /\ lives < MaxLives /\ lives' = lives + 1
      /\ UNCHANGED <<turn, receipt, agent, row, note>>
      /\ life' = [life EXCEPT ![p] = lives'] /\ opening' = [opening EXCEPT ![p] = taking]
  BY DEF Records!Open
<1>2. lives \in Nat /\ MaxLives \in Nat /\ lives' \in 1 .. MaxLives
  BY <1>1, RecordsAssumption DEF RecordInv, Records!TypeOK, RecordsAssumption
<1>3. /\ life' \in [Cores -> 0 .. MaxLives] /\ life'[p] = lives + 1
      /\ \A q \in Cores \ {p} : life'[q] = life[q]
  BY <1>1, <1>2 DEF RecordInv, Records!TypeOK
<1>4. \A t \in Records!Turns, q \in Cores : Records!Mine(t, q)' <=> Records!Mine(t, q)
  <2> SUFFICES ASSUME NEW t \in Records!Turns, NEW q \in Cores
               PROVE  Records!Mine(t, q)' <=> Records!Mine(t, q)
    OBVIOUS
  <2>1. CASE q # p
    BY <1>1, <1>3, <2>1 DEF Records!Mine
  <2>2. CASE q = p
    <3>1. turn[t] # Records!NoTurn => turn[t].life <= lives /\ turn[t].life \in Nat
      BY <1>2, TurnIsThere DEF RecordInv, LivesDiffer, Records!TypeOK
    <3>2. QED
      BY <1>1, <1>2, <1>3, <2>2, <3>1 DEF Records!Mine
  <2>3. QED
    BY <2>1, <2>2
<1>5. LivesDiffer'
  BY <1>1, <1>2, <1>3, TurnIsThere DEF RecordInv, LivesDiffer, Records!TypeOK
<1>6. AtWorkLives' /\ TurnsTyped' /\ AgentsOwn' /\ OneEach' /\ Records!OneTurn'
  BY <1>1, <1>4
  DEF RecordInv, AtWorkLives, Records!Lives, TurnsTyped, AgentsOwn, OneEach, Records!OneTurn,
      Records!Works, Records!At
<1>7. ReceiptsFit' /\ ReceiptsKept
  BY <1>1 DEF RecordInv, ReceiptsFit, ReceiptsKept
<1>8. AgentHeld'
  BY <1>1, <1>4 DEF RecordInv, AgentHeld, Holds
<1>9. Records!TypeOK'
  <2>1. taking \in [at : {"check"}, todo : SUBSET Records!Turns]
    OBVIOUS
  <2> HIDE DEF taking
  <2>2. QED
    BY <1>1, <1>2, <1>3, <2>1 DEF RecordInv, Records!TypeOK
<1>10. QED
  BY <1>5, <1>6, <1>7, <1>8, <1>9 DEF RecordInv

(* The rest of opening the store touches no turn.                          *)
LEMMA OpeningKeepsTurns ==
    ASSUME RecordInv, UNCHANGED <<life, lives, turn, note>>
    PROVE  /\ TurnsTyped' /\ AgentsOwn' /\ LivesDiffer' /\ AtWorkLives'
           /\ OneEach' /\ Records!OneTurn'
           /\ \A t \in Records!Turns, q \in Cores : Records!Mine(t, q)' <=> Records!Mine(t, q)
BY DEF RecordInv, TurnsTyped, AgentsOwn, LivesDiffer, AtWorkLives, OneEach, Records!OneTurn,
       Records!Works, Records!At, Records!Lives, Records!Mine

(* A core asks of an owner whether it lives.                               *)
LEMMA CheckKeeps ==
    ASSUME RecordInv, NEW p \in Cores, NEW t \in Records!Turns, Records!CheckOwner(p, t)
    PROVE  RecordInv' /\ ReceiptsKept
<1> DEFINE todo == opening[p].todo \ {t}
           next == IF Records!Alive(receipt[t].owner) THEN [at |-> "check", todo |-> todo]
                   ELSE [at |-> "interrupt", todo |-> todo, turn |-> t]
<1>1. /\ opening[p].at = "check" /\ opening' = [opening EXCEPT ![p] = next]
      /\ UNCHANGED <<life, lives, turn, receipt, agent, row, note>>
  BY DEF Records!CheckOwner
<1>2. todo \in SUBSET Records!Turns
  BY <1>1, OpeningShapes DEF RecordInv
<1>3. next \in [at : {"check"}, todo : SUBSET Records!Turns]
                \union [at : {"interrupt"}, todo : SUBSET Records!Turns, turn : Records!Turns]
  BY <1>2
<1> HIDE DEF next
<1>4. Records!TypeOK'
  BY <1>1, <1>3 DEF RecordInv, Records!TypeOK
<1>5. ReceiptsFit' /\ ReceiptsKept /\ AgentHeld'
  BY <1>1, OpeningKeepsTurns DEF RecordInv, ReceiptsFit, ReceiptsKept, AgentHeld, Holds
<1>6. QED
  BY <1>1, <1>4, <1>5, OpeningKeepsTurns DEF RecordInv

(* It gives up the turn of an owner that was gone.                         *)
LEMMA InterruptKeeps ==
    ASSUME RecordInv, OpeningFits, NEW p \in Cores, Records!Interrupt(p)
    PROVE  RecordInv' /\ ReceiptsKept
<1> DEFINE t == opening[p].turn
           next == [at |-> "check", todo |-> opening[p].todo]
<1>1. /\ opening[p].at = "interrupt" /\ opening' = [opening EXCEPT ![p] = next]
      /\ receipt' = [receipt EXCEPT ![t].status = "interrupted"]
      /\ UNCHANGED <<life, lives, turn, agent, row, note>>
  BY DEF Records!Interrupt
<1>2. t \in Records!Turns /\ opening[p].todo \in SUBSET Records!Turns
  BY <1>1, OpeningShapes DEF RecordInv
<1>3. ~Records!Alive(receipt[t].owner) /\ receipt[t].status # "none"
  BY <1>1, <1>2 DEF OpeningFits, Records!ReadAsRunning
<1>4. /\ receipt' \in [Records!Turns -> [status : {"none", "running", "settled", "interrupted"},
                                         owner : 0 .. MaxLives]]
      /\ receipt'[t].status = "interrupted"
      /\ receipt[t].status = "interrupted" => receipt'[t] = receipt[t]
      /\ \A u \in Records!Turns \ {t} : receipt'[u] = receipt[u]
  BY <1>1, <1>2 DEF RecordInv, Records!TypeOK
<1>5. turn[t].at \notin WorkSteps \union EarlySteps
  <2>1. turn[t].at \notin EarlySteps
    BY <1>2, <1>3 DEF RecordInv, ReceiptsFit
  <2>2. ASSUME turn[t].at \in WorkSteps PROVE FALSE
    <3>1. PICK q \in Cores : Records!Mine(t, q)
      BY <1>2, <2>2 DEF RecordInv, AtWorkLives, WorkSteps, Records!Lives
    <3>2. Records!Alive(receipt[t].owner)
      BY <1>2, <2>2, <3>1 DEF RecordInv, ReceiptsFit, Records!Alive, Records!Mine
    <3>3. QED
      BY <1>3, <3>2
  <2>3. QED
    BY <2>1, <2>2
<1>6. ReceiptsFit'
  BY <1>1, <1>4, <1>5 DEF RecordInv, ReceiptsFit
<1>7. ReceiptsKept
  <2>1. receipt[t].status \in {"none", "running", "settled", "interrupted"}
    BY <1>2 DEF RecordInv, Records!TypeOK
  <2>2. Records!ReadAsRunning(p, t)
    BY <1>1 DEF Records!ReadAsRunning
  <2>3. QED
    BY <1>2, <1>3, <1>4, <2>1, <2>2 DEF ReceiptsKept
<1>8. Records!TypeOK'
  <2>1. next \in [at : {"check"}, todo : SUBSET Records!Turns]
    BY <1>2
  <2> HIDE DEF next
  <2>2. QED
    BY <1>1, <1>4, <2>1 DEF RecordInv, Records!TypeOK
<1>9. AgentHeld'
  BY <1>1, OpeningKeepsTurns DEF RecordInv, AgentHeld, Holds
<1>10. QED
  BY <1>1, <1>6, <1>7, <1>8, <1>9, OpeningKeepsTurns DEF RecordInv

(* The rows of agents, and the registry restored from them.                *)
LEMMA RestoreKeeps ==
    ASSUME RecordInv, NEW p \in Cores, Records!Reap(p) \/ Records!Restore(p)
    PROVE  RecordInv' /\ ReceiptsKept
<1> USE DEF Records!Statuses, Records!Final
<1>1. UNCHANGED <<life, lives, turn, receipt, note>>
  BY DEF Records!Reap, Records!Restore
<1>2. ReceiptsFit' /\ ReceiptsKept
  BY <1>1 DEF RecordInv, ReceiptsFit, ReceiptsKept
<1>3. CASE Records!Reap(p)
  <2>1. row' \in Records!Statuses /\ agent' = agent
    BY <1>3 DEF Records!Reap, Records!Reaped, RecordInv, Records!TypeOK
  <2>2. AgentHeld'
    BY <1>1, <2>1, OpeningKeepsTurns DEF RecordInv, AgentHeld, Holds
  <2>3. Records!TypeOK'
    BY <1>1, <1>3, <2>1 DEF Records!Reap, RecordInv, Records!TypeOK
  <2>4. QED
    BY <1>1, <1>2, <2>2, <2>3, OpeningKeepsTurns DEF RecordInv
<1>4. CASE Records!Restore(p)
  <2>1. /\ agent' = [agent EXCEPT ![p] = [status |-> Records!Restored(row), turn |-> 0]]
        /\ row' = row /\ opening' = [opening EXCEPT ![p] = Records!Opened]
    BY <1>4 DEF Records!Restore
  <2>2. Records!Restored(row) \in Records!Final
    BY DEF Records!Restored
  <2>3. /\ agent' \in [Cores -> [status : Records!Statuses, turn : Records!Turns \union {0}]]
        /\ agent'[p].status \in Records!Final /\ \A q \in Cores \ {p} : agent'[q] = agent[q]
    BY <2>1, <2>2 DEF RecordInv, Records!TypeOK
  <2>4. AgentHeld'
    BY <1>1, <2>3, OpeningKeepsTurns DEF RecordInv, AgentHeld, Holds
  <2>5. Records!TypeOK'
    BY <1>1, <2>1, <2>3 DEF RecordInv, Records!TypeOK
  <2>6. QED
    BY <1>1, <1>2, <2>4, <2>5, OpeningKeepsTurns DEF RecordInv
<1>5. QED
  BY <1>3, <1>4

(* A core that dies leaves its receipts running.                           *)
LEMMA CrashKeeps ==
    ASSUME RecordInv, NEW p \in Cores, Records!Crash(p) PROVE RecordInv' /\ ReceiptsKept
<1> USE DEF Steps, AgentSteps, EarlySteps, WorkSteps
<1>1. /\ life[p] # 0 /\ life' = [life EXCEPT ![p] = 0] /\ UNCHANGED <<lives, receipt, row>>
      /\ turn' = [t \in Records!Turns |-> IF Records!Mine(t, p) THEN [turn[t] EXCEPT !.at = "over"]
                                          ELSE turn[t]]
      /\ note' = [note EXCEPT ![p] = "none"]
      /\ agent' = [agent EXCEPT ![p] = Records!Fresh]
      /\ opening' = [opening EXCEPT ![p] = Records!Opened]
  BY DEF Records!Crash
<1>2. ASSUME NEW t \in Records!Turns, Records!Mine(t, p)
      PROVE  /\ turn'[t] \in TurnRecords /\ turn'[t].at = "over"
             /\ turn'[t].life = turn[t].life
  <2>1. turn[t] \in TurnRecords
    BY <1>2, TurnIsThere DEF RecordInv, Records!Mine
  <2>2. turn'[t] = [turn[t] EXCEPT !.at = "over"]
    BY <1>1, <1>2
  <2>3. CASE turn[t] \in [chat : {"operator", "agent"}, life : 1 .. MaxLives,
                          at : Steps \ {"failed", "completed"}]
    BY <2>2, <2>3 DEF TurnRecords
  <2>4. CASE turn[t] \in [chat : {"agent"}, life : 1 .. MaxLives,
                          at : {"failed", "completed", "done", "over"}, status : Records!Statuses]
    BY <2>2, <2>4 DEF TurnRecords
  <2>5. QED
    BY <2>1, <2>3, <2>4 DEF TurnRecords
<1>3. \A t \in Records!Turns : ~Records!Mine(t, p) => turn'[t] = turn[t]
  BY <1>1
<1>4. TurnsTyped'
  <2>1. \A t \in Records!Turns : turn'[t] \in TurnRecords \union {Records!NoTurn}
    BY <1>2, <1>3 DEF RecordInv, TurnsTyped
  <2>2. QED
    BY <1>1, <2>1 DEF TurnsTyped
<1>5. /\ life' \in [Cores -> 0 .. MaxLives] /\ life'[p] = 0
      /\ \A q \in Cores \ {p} : life'[q] = life[q]
  BY <1>1, RecordsAssumption DEF RecordInv, Records!TypeOK, RecordsAssumption
<1>6. AgentsOwn'
  BY <1>2, <1>3 DEF RecordInv, AgentsOwn
<1>7. LivesDiffer'
  <2>1. \A t \in Records!Turns : turn'[t].at # "none" => turn[t].at # "none"
                                   /\ turn'[t].life = turn[t].life
    BY <1>2, <1>3, TurnIsThere DEF RecordInv, Records!Mine
  <2>2. lives \in Nat
    BY RecordsAssumption DEF RecordInv, Records!TypeOK, RecordsAssumption
  <2>3. QED
    BY <1>1, <1>5, <2>1, <2>2 DEF RecordInv, LivesDiffer
<1>8. \A t \in Records!Turns, q \in Cores \ {p} :
        Records!Mine(t, q) => turn'[t] = turn[t] /\ Records!Mine(t, q)'
  BY <1>3, <1>5 DEF RecordInv, LivesDiffer, Records!Mine
<1>9. AtWorkLives'
  <2> SUFFICES ASSUME NEW t \in Records!Turns, (turn[t].at \notin {"none", "over"})'
               PROVE  Records!Lives(t)'
    BY DEF AtWorkLives
  <2>1. ~Records!Mine(t, p) /\ turn'[t] = turn[t]
    BY <1>2, <1>3
  <2>2. PICK q \in Cores : Records!Mine(t, q)
    BY <2>1 DEF RecordInv, AtWorkLives, Records!Lives
  <2>3. QED
    BY <1>8, <2>1, <2>2 DEF Records!Lives
<1>10. ReceiptsFit' /\ ReceiptsKept
  BY <1>1, <1>2, <1>3 DEF RecordInv, ReceiptsFit, ReceiptsKept
<1>11. OneEach' /\ Records!OneTurn'
  BY <1>2, <1>3 DEF RecordInv, OneEach, Records!OneTurn, Records!Works, Records!At
<1>12. /\ agent' \in [Cores -> [status : Records!Statuses, turn : Records!Turns \union {0}]]
       /\ agent'[p].status \in Records!Final /\ \A q \in Cores \ {p} : agent'[q] = agent[q]
  BY <1>1 DEF RecordInv, Records!TypeOK, Records!Fresh, Records!Statuses, Records!Final
<1>13. AgentHeld'
  BY <1>5, <1>8, <1>12 DEF RecordInv, AgentHeld, Holds
<1>14. Records!TypeOK'
  BY <1>1, <1>4, <1>5, <1>12 DEF RecordInv, Records!TypeOK, TurnsTyped, TurnRecords
<1>15. QED
  BY <1>4, <1>6, <1>7, <1>9, <1>10, <1>11, <1>13, <1>14 DEF RecordInv

(* What a core has read as running stays on record under its owner.        *)
LEMMA OwnersStay ==
    ASSUME RecordInv, Records!Next
    PROVE  /\ lives <= lives' /\ lives \in Nat /\ lives' \in Nat
           /\ \A t \in Records!Turns :
                /\ receipt[t].status # "none" =>
                     receipt'[t].status # "none" /\ receipt'[t].owner = receipt[t].owner
                /\ receipt[t].owner <= lives => receipt'[t].owner <= lives'
<1>1. lives \in Nat /\ receipt \in [Records!Turns ->
          [status : {"none", "running", "settled", "interrupted"}, owner : 0 .. MaxLives]]
  BY RecordsAssumption DEF RecordInv, Records!TypeOK, RecordsAssumption
<1>2. ASSUME NEW t \in Records!Turns, Records!Insert(t)
      PROVE  /\ lives' = lives /\ receipt[t].status = "none" /\ turn[t].life <= lives
             /\ receipt' = [receipt EXCEPT ![t] = [status |-> "running", owner |-> turn[t].life]]
  BY <1>2 DEF Records!Insert, Records!At, RecordInv, ReceiptsFit, LivesDiffer, EarlySteps
<1>3. ASSUME NEW t \in Records!Turns, Records!Done(t)
      PROVE  /\ lives' = lives
             /\ receipt' = receipt \/ receipt' = [receipt EXCEPT ![t].status = "settled"]
  BY <1>3 DEF Records!Done
<1>4. ASSUME NEW p \in Cores, Records!Interrupt(p)
      PROVE  /\ lives' = lives
             /\ receipt' = [receipt EXCEPT ![opening[p].turn].status = "interrupted"]
  BY <1>4 DEF Records!Interrupt
<1>5. \/ receipt' = receipt /\ lives' \in {lives, lives + 1}
      \/ \E t \in Records!Turns : Records!Insert(t) \/ Records!Done(t)
      \/ \E p \in Cores : Records!Interrupt(p)
  BY DEF Records!Next, Records!Open, Records!Reap, Records!Restore, Records!Crash, Records!Stop,
     Records!Message, Records!PersistNote, Records!CheckOwner, Records!Send, Records!FollowUp,
     Records!Turn, Records!Persisted, Records!Attach, Records!Begin, Records!FailReserved,
     Records!Complete
<1>6. CASE receipt' = receipt /\ lives' \in {lives, lives + 1}
  BY <1>1, <1>6
<1>7. ASSUME NEW t \in Records!Turns, Records!Insert(t) \/ Records!Done(t)
      PROVE  /\ lives' = lives
             /\ \A u \in Records!Turns :
                  \/ receipt'[u].owner = receipt[u].owner /\ receipt'[u].status # "none"
                  \/ receipt'[u] = receipt[u]
                  \/ receipt[u].status = "none" /\ receipt'[u].owner <= lives
  <2>1. CASE Records!Insert(t)
    BY <1>1, <1>2, <2>1
  <2>2. CASE Records!Done(t)
    <3>1. CASE receipt' = receipt
      BY <1>3, <2>2, <3>1
    <3>2. CASE receipt' = [receipt EXCEPT ![t].status = "settled"]
      BY <1>1, <1>3, <2>2, <3>2
    <3>3. QED
      BY <1>3, <2>2, <3>1, <3>2
  <2>3. QED
    BY <1>7, <2>1, <2>2
<1>8. ASSUME NEW p \in Cores, Records!Interrupt(p)
      PROVE  /\ lives' = lives
             /\ \A u \in Records!Turns :
                  \/ receipt'[u].owner = receipt[u].owner /\ receipt'[u].status # "none"
                  \/ receipt'[u] = receipt[u]
  <2>1. ASSUME NEW x, receipt' = [receipt EXCEPT ![x].status = "interrupted"], NEW u \in Records!Turns
        PROVE  \/ receipt'[u].owner = receipt[u].owner /\ receipt'[u].status # "none"
               \/ receipt'[u] = receipt[u]
    BY <1>1, <2>1
  <2>2. QED
    BY <1>4, <1>8, <2>1
<1>9. CASE \E t \in Records!Turns : Records!Insert(t) \/ Records!Done(t)
  BY <1>1, <1>7, <1>9
<1>10. CASE \E p \in Cores : Records!Interrupt(p)
  BY <1>1, <1>8, <1>10
<1>11. QED
  BY <1>5, <1>6, <1>9, <1>10

(* An owner that is gone does not come back.                               *)
LEMMA DeadStayDead ==
    ASSUME RecordInv, Records!Next, NEW owner \in 0 .. lives, ~Records!Alive(owner)
    PROVE  ~Records!Alive(owner)'
<1>1. lives \in Nat /\ life \in [Cores -> 0 .. MaxLives]
  BY RecordsAssumption DEF RecordInv, Records!TypeOK, RecordsAssumption
<1>2. \A p \in Cores : life'[p] \in {life[p], 0, lives + 1}
  BY <1>1
  DEF Records!Next, Records!Open, Records!Reap, Records!Restore, Records!Crash, Records!Stop,
      Records!Message, Records!PersistNote, Records!CheckOwner, Records!Interrupt, Records!Send,
      Records!FollowUp, Records!Turn, Records!Persisted, Records!Attach, Records!Begin,
      Records!Insert, Records!FailReserved, Records!Complete, Records!Done
<1>3. QED
  BY <1>1, <1>2 DEF Records!Alive

(* What a core that opens the store has in hand after a step: what it had  *)
(* before, what it has just read as running, or one it has just checked.   *)
LEMMA InHand ==
    ASSUME RecordInv, Records!Next, NEW p \in Cores
    PROVE  /\ \A t \in Records!Turns : Records!ReadAsRunning(p, t)' =>
                  Records!ReadAsRunning(p, t) \/ receipt[t].status = "running"
           /\ opening'[p].at = "interrupt" =>
                  \/ opening'[p] = opening[p]
                  \/ /\ opening'[p].turn \in Records!Turns
                     /\ ~Records!Alive(receipt[opening'[p].turn].owner)
<1>1. opening \in [Cores -> {Records!Opened, [at |-> "restore"]}
           \union [at : {"check"}, todo : SUBSET Records!Turns]
           \union [at : {"interrupt"}, todo : SUBSET Records!Turns, turn : Records!Turns]]
  BY DEF RecordInv, Records!TypeOK
<1> USE DEF Records!ReadAsRunning
<1>2. CASE opening'[p] = opening[p]
  BY <1>2
<1>3. CASE Records!Open(p)
  BY <1>1, <1>3 DEF Records!Open
<1>4. ASSUME NEW t \in Records!Turns, Records!CheckOwner(p, t)
      PROVE  /\ opening[p].at = "check" /\ t \in opening[p].todo
             /\ Records!Alive(receipt[t].owner) =>
                  opening'[p].at = "check" /\ opening'[p].todo = opening[p].todo \ {t}
             /\ ~Records!Alive(receipt[t].owner) =>
                  /\ opening'[p].at = "interrupt" /\ opening'[p].todo = opening[p].todo \ {t}
                  /\ opening'[p].turn = t
  BY <1>1, <1>4 DEF Records!CheckOwner
<1>5. CASE Records!Interrupt(p)
  BY <1>1, <1>5 DEF Records!Interrupt
<1>6. CASE Records!Reap(p) \/ Records!Restore(p) \/ Records!Crash(p)
  <2>1. opening'[p] \in {[at |-> "restore"], Records!Opened}
    BY <1>1, <1>6 DEF Records!Reap, Records!Restore, Records!Crash
  <2>2. opening'[p].at \in {"restore", "opened"}
    BY <2>1 DEF Records!Opened
  <2>3. QED
    BY <2>2
<1> DEFINE Acts(q) == \/ Records!Open(q) \/ Records!Interrupt(q) \/ Records!Reap(q)
                      \/ Records!Restore(q) \/ Records!Crash(q)
                      \/ \E t \in Records!Turns : Records!CheckOwner(q, t)
<1>7. opening' = opening \/ \E q \in Cores : Acts(q)
  BY DEF Records!Next, Records!Stop, Records!Message, Records!PersistNote, Records!Send,
     Records!FollowUp, Records!Turn, Records!Persisted, Records!Attach, Records!Begin,
     Records!Insert, Records!FailReserved, Records!Complete, Records!Done
<1>8. ASSUME NEW q \in Cores \ {p}, Acts(q) PROVE opening'[p] = opening[p]
  BY <1>1, <1>8
  DEF Records!Open, Records!Interrupt, Records!Reap, Records!Restore, Records!Crash,
      Records!CheckOwner
<1>9. ASSUME NEW t \in Records!Turns, Records!CheckOwner(p, t)
      PROVE  /\ \A u \in Records!Turns :
                  Records!ReadAsRunning(p, u)' => Records!ReadAsRunning(p, u)
             /\ opening'[p].at = "interrupt" =>
                  opening'[p].turn = t /\ ~Records!Alive(receipt[t].owner)
  <2>1. opening[p].at = "check" /\ t \in opening[p].todo
    BY <1>4, <1>9
  <2>2. CASE Records!Alive(receipt[t].owner)
    <3>1. opening'[p].at = "check" /\ opening'[p].todo = opening[p].todo \ {t}
      BY <1>4, <1>9, <2>2
    <3>2. QED
      BY <2>1, <3>1
  <2>3. CASE ~Records!Alive(receipt[t].owner)
    <3>1. /\ opening'[p].at = "interrupt" /\ opening'[p].todo = opening[p].todo \ {t}
          /\ opening'[p].turn = t
      BY <1>4, <1>9, <2>3
    <3>2. QED
      BY <2>1, <2>3, <3>1
  <2>4. QED
    BY <2>2, <2>3
<1>10. CASE Acts(p)
  BY <1>3, <1>5, <1>6, <1>9, <1>10
<1>11. QED
  BY <1>2, <1>7, <1>8, <1>10

(* So every step leaves what the opening cores have in hand as it is to be.*)
LEMMA OpeningStays == ASSUME RecordInv, OpeningFits, Records!Next PROVE OpeningFits'
<1>0. lives \in Nat /\ \A t \in Records!Turns : receipt[t].owner \in 0 .. lives
  BY RecordsAssumption DEF OpeningFits, RecordInv, Records!TypeOK, RecordsAssumption
<1>1. \A t \in Records!Turns : receipt'[t].owner <= lives'
  BY OwnersStay DEF OpeningFits
<1>2. \A p \in Cores, t \in Records!Turns :
        Records!ReadAsRunning(p, t)' => receipt'[t].status # "none"
  BY OwnersStay, InHand DEF OpeningFits
<1>3. ASSUME NEW p \in Cores, opening'[p].at = "interrupt"
      PROVE  ~Records!Alive(receipt[opening[p].turn].owner)'
  <2>1. ASSUME opening'[p] = opening[p]
        PROVE  /\ opening[p].turn \in Records!Turns /\ opening[p].turn = opening'[p].turn
               /\ ~Records!Alive(receipt[opening[p].turn].owner)
               /\ receipt[opening[p].turn].status # "none"
    BY <1>3, <2>1, OpeningShapes DEF OpeningFits, RecordInv, Records!ReadAsRunning
  <2>2. opening'[p].turn \in Records!Turns /\ ~Records!Alive(receipt[opening'[p].turn].owner)
    BY <1>3, <2>1, InHand
  <2>3. PICK t \in Records!Turns : t = opening'[p].turn /\ ~Records!Alive(receipt[t].owner)
    BY <2>2
  <2>4. receipt[t].status # "none"
    <3>1. Records!ReadAsRunning(p, t)'
      BY <1>3, <2>3 DEF Records!ReadAsRunning
    <3>2. Records!ReadAsRunning(p, t) \/ receipt[t].status = "running"
      BY <3>1, InHand
    <3>3. QED
      BY <3>2 DEF OpeningFits
  <2>5. receipt'[t].owner = receipt[t].owner
    BY <2>4, OwnersStay
  <2>6. ~Records!Alive(receipt[t].owner)'
    BY <1>0, <2>3, <2>5, DeadStayDead DEF Records!Alive
  <2>7. QED
    BY <2>3, <2>6
<1>4. QED
  BY <1>1, <1>2, <1>3 DEF OpeningFits

(* Every step keeps the records, and what a receipt says.                  *)
LEMMA RecordsStep ==
    RecordInv /\ OpeningFits /\ [Records!Next]_recordVars =>
        RecordInv' /\ OpeningFits' /\ ReceiptsKept
<1> SUFFICES ASSUME RecordInv, OpeningFits, [Records!Next]_recordVars
             PROVE  RecordInv' /\ OpeningFits' /\ ReceiptsKept
  OBVIOUS
<1>1. CASE UNCHANGED recordVars
  <2>1. RecordInv' /\ ReceiptsKept
    BY <1>1
    DEF recordVars, ReceiptsKept, RecordInv, Records!TypeOK, TurnsTyped, AgentsOwn, LivesDiffer,
        AtWorkLives, ReceiptsFit, OneEach, Records!OneTurn, Records!Works, Records!At,
        Records!Lives, Records!Mine, AgentHeld, Holds
  <2>2. OpeningFits'
    BY <1>1 DEF recordVars, OpeningFits, Records!ReadAsRunning, Records!Alive
  <2>3. QED
    BY <2>1, <2>2
<1>2. CASE Records!Next
  <2>1. RecordInv' /\ ReceiptsKept
    BY <1>2, OpenKeeps, CheckKeeps, InterruptKeeps, RestoreKeeps, CrashKeeps, SendKeeps,
       NotesKeep, TurnKeeps DEF Records!Next
  <2>2. QED
    BY <1>2, <2>1, OpeningStays
<1>3. QED
  BY <1>1, <1>2

(* No subagent is held by nobody.                                          *)
LEMMA NoGhostHolds == RecordInv => Records!NoGhost
BY DEF RecordInv, AgentHeld, Holds, Before, Attached, Records!NoGhost, Records!At

-----------------------------------------------------------------------------
(* The mirrors under the vault.                                            *)

(* What a command and a writer have at each step.                          *)
MirrorKeys == 1 .. MaxKeys
Walk == [at : {"files"}, what : {"seal", "restore"}, key : MirrorKeys, root : Roots,
         failed : BOOLEAN, todo : SUBSET Mirrors!Paths]
WalkOn == [at : {"files", "remove"}, what : {"seal", "restore"}, key : MirrorKeys, root : Roots,
           failed : BOOLEAN, todo : SUBSET Mirrors!Paths, file : Mirrors!Paths]
Ops == {Mirrors!Idle, [at |-> "sync"]}
       \union [at : {"state"}, key : MirrorKeys, root : Roots] \union Walk \union WalkOn
Writings == {Mirrors!Idle}
            \union [at : {"look", "write"}, kind : {"transcript", "memory"}, item : 1 .. MaxWrites]

(* What each step of a command says of its record.                         *)
LEMMA OpShapes ==
    ASSUME NEW o \in Ops
    PROVE  /\ o.at = "idle" => o = Mirrors!Idle
           /\ o.at = "state" => o.key \in MirrorKeys /\ o.root \in Roots
           /\ o.at = "files" => o \in Walk \union WalkOn
           /\ o.at = "remove" => o \in WalkOn
           /\ o.at \in {"files", "remove"} =>
                /\ o.key \in MirrorKeys /\ o.what \in {"seal", "restore"} /\ o.root \in Roots
                /\ o.failed \in BOOLEAN /\ o.todo \in SUBSET Mirrors!Paths
BY DEF Ops, Walk, WalkOn, Mirrors!Idle

(* Keys are numbers from one.                                              *)
LEMMA KeysAreKeys == MirrorKeys \subseteq Nat \ {0} /\ MaxWrites \in Nat /\ MaxKeys \in Nat
BY RecordsAssumption DEF RecordsAssumption, MirrorKeys

(* No text is a missing file, no envelope a missing envelope.              *)
LEMMA CopiesDiffer ==
    /\ \A text \in Mirrors!Shown : text # Mirrors!NoFile
    /\ \A e \in [key : MirrorKeys, text : Mirrors!Shown] : e # Mirrors!NoEnvelope
<1>1. \A text \in Mirrors!Shown : 0 \notin text
  BY KeysAreKeys DEF Mirrors!Shown
<1>2. \A e \in [key : MirrorKeys, text : Mirrors!Shown] : e.key # 0
  BY KeysAreKeys
<1>3. Mirrors!NoEnvelope.key = 0 /\ 0 \in Mirrors!NoFile
  BY DEF Mirrors!NoEnvelope, Mirrors!NoFile
<1>4. QED
  BY <1>1, <1>2, <1>3

(* Sets of writes are what a mirror shows, and no missing file.            *)
LEMMA WritesShown ==
    ASSUME Mirrors!TypeOK
    PROVE  /\ db["memory"] \in Mirrors!Shown /\ db["memory"] # Mirrors!NoFile
           /\ \A p \in Mirrors!Paths, n \in 1 .. MaxWrites :
                LET shown == (IF plain[p] = Mirrors!NoFile THEN {} ELSE plain[p]) \union {n}
                IN  shown \in Mirrors!Shown /\ shown # Mirrors!NoFile
<1>1. db["memory"] \in Mirrors!Shown
  BY DEF Mirrors!TypeOK
<1>2. ASSUME NEW p \in Mirrors!Paths, NEW n \in 1 .. MaxWrites
      PROVE  (IF plain[p] = Mirrors!NoFile THEN {} ELSE plain[p]) \union {n} \in Mirrors!Shown
  <2>1. plain[p] \in Mirrors!Shown \union {Mirrors!NoFile}
    BY DEF Mirrors!TypeOK
  <2>2. QED
    BY <2>1 DEF Mirrors!Shown
<1>3. QED
  BY <1>1, <1>2, CopiesDiffer

(* The types hold whoever works on the vault, and wherever the root moves. *)
MirrorTyped ==
    Mirrors!TypeOK /\ op \in [Clients -> Ops] /\ writer \in [Writers -> Writings]

(* A step of a command that writes no text.                                *)
LEMMA CommandTyped ==
    ASSUME MirrorTyped, NEW c \in Clients, NEW step \in Ops, Mirrors!Command(c, step),
           UNCHANGED <<db, root, plain, sealed, writer>>,
           state' \in 0 .. MaxKeys, keys' \in 0 .. MaxKeys,
           crossed' \in SUBSET MirrorKeys, strayed' \in SUBSET Mirrors!Paths
    PROVE  MirrorTyped'
BY DEF MirrorTyped, Mirrors!TypeOK, Mirrors!Command, MirrorKeys

(* The steps of sealing and restoring have the types.                      *)
LEMMA CommandsTyped ==
    ASSUME MirrorTyped, NEW c \in Clients, Mirrors!Seal(c) \/ Mirrors!Unseal(c)
    PROVE  MirrorTyped'
<1>0. /\ op[c] \in Ops /\ root \in Roots /\ \A r \in Roots : Mirrors!Seen(r) \subseteq Mirrors!Paths
      /\ state \in 0 .. MaxKeys /\ keys \in 0 .. MaxKeys
      /\ crossed \in SUBSET MirrorKeys /\ strayed \in SUBSET Mirrors!Paths
  BY DEF MirrorTyped, Mirrors!TypeOK, Mirrors!Seen, Mirrors!Paths, MirrorKeys
<1>0a. ASSUME NEW key \in MirrorKeys PROVE Mirrors!Crossing(c, key) \in SUBSET MirrorKeys
  <2>1. \A d \in Mirrors!Others(c) : op[d].key \in MirrorKeys
    BY OpShapes DEF MirrorTyped, Mirrors!Others, Mirrors!Busy
  <2>2. QED
    BY <2>1 DEF Mirrors!Crossing
<1>1. CASE Mirrors!Enable(c)
  <2>1. keys' \in MirrorKeys /\ keys' \in 0 .. MaxKeys
    BY <1>0, <1>1, KeysAreKeys DEF Mirrors!Enable, MirrorKeys
  <2>2. [at |-> "state", key |-> keys', root |-> root] \in Ops
    BY <1>0, <2>1 DEF Ops
  <2>3. crossed' \in SUBSET MirrorKeys
    BY <1>0, <1>0a, <1>1, <2>1 DEF Mirrors!Enable
  <2>4. QED
    BY <1>0, <1>1, <2>1, <2>2, <2>3, CommandTyped DEF Mirrors!Enable
<1>2. CASE Mirrors!WriteState(c)
  <2> DEFINE step == [at |-> "files", what |-> "seal", key |-> op[c].key, root |-> op[c].root,
                      failed |-> FALSE,
                      todo |-> {p \in Mirrors!Seen(op[c].root) : Mirrors!Here(p)}]
  <2>1. op[c].key \in MirrorKeys /\ op[c].root \in Roots
    BY <1>0, <1>2, OpShapes DEF Mirrors!WriteState, Mirrors!At
  <2>2. step \in Walk
    BY <1>0, <2>1 DEF Walk
  <2>3. step \in Ops /\ state' \in 0 .. MaxKeys /\ keys' \in 0 .. MaxKeys
    BY <1>0, <1>2, <2>1, <2>2, KeysAreKeys DEF Ops, MirrorKeys, Mirrors!WriteState
  <2>4. QED
    BY <1>0, <1>2, <2>3, CommandTyped DEF Mirrors!WriteState
<1>3. CASE Mirrors!Disable(c)
  <2> DEFINE step == [at |-> "files", what |-> "restore", key |-> state, root |-> root,
                      failed |-> FALSE,
                      todo |-> {p \in Mirrors!Seen(root) : Mirrors!IsSealed(p)}]
  <2>1. state \in MirrorKeys
    BY <1>0, <1>3, KeysAreKeys DEF Mirrors!Disable, MirrorKeys
  <2>2. step \in Walk
    BY <1>0, <2>1 DEF Walk
  <2>3. step \in Ops
    BY <2>2 DEF Ops
  <2>4. crossed' \in SUBSET MirrorKeys
    BY <1>0, <1>0a, <1>3, <2>1 DEF Mirrors!Disable
  <2>5. QED
    BY <1>0, <1>3, <2>3, <2>4, CommandTyped DEF Mirrors!Disable
<1>4. CASE Mirrors!Sealed(c) \/ Mirrors!StayArmed(c) \/ Mirrors!RemoveState(c)
  <2>1. Mirrors!Idle \in Ops /\ [at |-> "sync"] \in Ops /\ 0 \in 0 .. MaxKeys
    BY KeysAreKeys DEF Ops
  <2>2. QED
    BY <1>0, <1>4, <2>1, CommandTyped DEF Mirrors!Sealed, Mirrors!StayArmed, Mirrors!RemoveState
<1>5. ASSUME NEW p \in Mirrors!Paths, Mirrors!Skip(c, p) PROVE MirrorTyped'
  <2> DEFINE step == [op[c] EXCEPT !.todo = @ \ {p}, !.failed = TRUE]
  <2>1. op[c] \in Walk \union WalkOn
    BY <1>0, <1>5, OpShapes DEF Mirrors!Skip, Mirrors!NextOf, Mirrors!At
  <2>2. step \in Walk \union WalkOn
    BY <2>1 DEF Walk, WalkOn
  <2>3. step \in Ops
    BY <2>2 DEF Ops
  <2>4. QED
    BY <1>0, <1>5, <2>3, CommandTyped DEF Mirrors!Skip
<1>6. ASSUME NEW p \in Mirrors!Paths, Mirrors!Envelope(c, p) PROVE MirrorTyped'
  <2> DEFINE envelope == [key |-> op[c].key, text |-> plain[p]]
             step == [at |-> "remove", what |-> "seal", key |-> op[c].key, root |-> op[c].root,
                      failed |-> FALSE, todo |-> op[c].todo, file |-> p]
  <2>1. /\ op[c].at = "files" /\ plain[p] # Mirrors!NoFile
        /\ sealed' = [sealed EXCEPT ![p] = envelope] /\ op' = [op EXCEPT ![c] = step]
        /\ UNCHANGED <<state, keys, db, root, plain, writer, crossed, strayed>>
    BY <1>6 DEF Mirrors!Envelope, Mirrors!Seals, Mirrors!NextOf, Mirrors!At, Mirrors!Here, Mirrors!Command
  <2>2. op[c].key \in MirrorKeys /\ op[c].root \in Roots /\ op[c].todo \in SUBSET Mirrors!Paths
    BY <1>0, <2>1, OpShapes
  <2>3. step \in WalkOn
    BY <2>2 DEF WalkOn
  <2>4. envelope \in [key : 1 .. MaxKeys, text : Mirrors!Shown]
    BY <2>1, <2>2 DEF MirrorTyped, Mirrors!TypeOK, MirrorKeys
  <2>5. op' \in [Clients -> Ops]
    BY <2>1, <2>3 DEF MirrorTyped, Ops
  <2>6. sealed' \in [Mirrors!Paths -> [key : 1 .. MaxKeys, text : Mirrors!Shown]
                                      \union {Mirrors!NoEnvelope}]
    BY <2>1, <2>4 DEF MirrorTyped, Mirrors!TypeOK
  <2>7. QED
    BY <2>1, <2>5, <2>6 DEF MirrorTyped, Mirrors!TypeOK
<1>7. ASSUME NEW p \in Mirrors!Paths, Mirrors!Restore(c, p) PROVE MirrorTyped'
  <2> DEFINE step == [at |-> "remove", what |-> "restore", key |-> op[c].key,
                      root |-> op[c].root, failed |-> op[c].failed, todo |-> op[c].todo, file |-> p]
  <2>1. /\ op[c].at = "files" /\ sealed[p].key = op[c].key
        /\ plain' = [plain EXCEPT ![p] = sealed[p].text] /\ op' = [op EXCEPT ![c] = step]
        /\ UNCHANGED <<state, keys, db, root, sealed, writer, crossed, strayed>>
    BY <1>7 DEF Mirrors!Restore, Mirrors!Restores, Mirrors!NextOf, Mirrors!At, Mirrors!Command
  <2>2. /\ op[c].key \in MirrorKeys /\ op[c].root \in Roots /\ op[c].failed \in BOOLEAN
        /\ op[c].todo \in SUBSET Mirrors!Paths
    BY <1>0, <2>1, OpShapes
  <2>3. step \in WalkOn
    BY <2>2 DEF WalkOn
  <2>4. sealed[p] # Mirrors!NoEnvelope
    BY <2>1, <2>2, KeysAreKeys DEF Mirrors!NoEnvelope
  <2>5. plain' \in [Mirrors!Paths -> Mirrors!Shown \union {Mirrors!NoFile}]
    BY <2>1, <2>4 DEF MirrorTyped, Mirrors!TypeOK
  <2>6. op' \in [Clients -> Ops]
    BY <2>1, <2>3 DEF MirrorTyped, Ops
  <2>7. QED
    BY <2>1, <2>5, <2>6 DEF MirrorTyped, Mirrors!TypeOK
<1>8. CASE Mirrors!RemovePlain(c) \/ Mirrors!RemoveEnvelope(c)
  <2> DEFINE step == [op[c] EXCEPT !.at = "files", !.todo = @ \ {op[c].file}]
  <2>1. /\ op[c].at = "remove" /\ op' = [op EXCEPT ![c] = step]
        /\ UNCHANGED <<state, keys, db, root, writer, crossed, strayed>>
    BY <1>8 DEF Mirrors!RemovePlain, Mirrors!RemoveEnvelope, Mirrors!NextFile, Mirrors!Command,
       Mirrors!At
  <2>2. op[c] \in WalkOn
    BY <1>0, <2>1, OpShapes
  <2>3. step \in WalkOn
    BY <2>2 DEF WalkOn
  <2>4. op' \in [Clients -> Ops]
    BY <2>1, <2>3 DEF MirrorTyped, Ops
  <2>5. \/ plain' = [plain EXCEPT ![op[c].file] = Mirrors!NoFile] /\ sealed' = sealed
        \/ sealed' = [sealed EXCEPT ![op[c].file] = Mirrors!NoEnvelope] /\ plain' = plain
    BY <1>8 DEF Mirrors!RemovePlain, Mirrors!RemoveEnvelope
  <2>6. QED
    BY <2>1, <2>4, <2>5 DEF MirrorTyped, Mirrors!TypeOK
<1>9. CASE Mirrors!SyncMemories(c)
  <2>1. /\ op' = [op EXCEPT ![c] = Mirrors!Idle]
        /\ plain' = IF state # 0 THEN plain
                    ELSE [plain EXCEPT ![Mirrors!Memory(root)] = db["memory"]]
        /\ UNCHANGED <<state, keys, db, root, sealed, writer, crossed, strayed>>
    BY <1>9 DEF Mirrors!SyncMemories, Mirrors!Command
  <2>2. plain' \in [Mirrors!Paths -> Mirrors!Shown \union {Mirrors!NoFile}]
    BY <2>1, WritesShown DEF MirrorTyped, Mirrors!TypeOK
  <2>3. op' \in [Clients -> Ops]
    BY <2>1 DEF MirrorTyped, Ops
  <2>4. QED
    BY <2>1, <2>2, <2>3 DEF MirrorTyped, Mirrors!TypeOK
<1>10. QED
  BY <1>1, <1>2, <1>3, <1>4, <1>5, <1>6, <1>7, <1>8, <1>9 DEF Mirrors!Seal, Mirrors!Unseal

(* So do a mirror that is written, a root that moves and a crash.          *)
LEMMA WriterTyped ==
    ASSUME MirrorTyped, NEW w \in Writers,
           \/ Mirrors!Look(w) \/ Mirrors!Mirror(w)
           \/ \E kind \in {"transcript", "memory"} : Mirrors!Store(w, kind)
    PROVE  MirrorTyped'
<1>0. /\ writer[w] \in Writings
      /\ writer[w].at # "idle" =>
           /\ writer[w].kind \in {"transcript", "memory"} /\ writer[w].item \in 1 .. MaxWrites
           /\ [writer[w] EXCEPT !.at = "write"] \in Writings
  <2>1. writer[w] \in Writings
    BY DEF MirrorTyped
  <2>2. QED
    BY <2>1 DEF Writings, Mirrors!Idle
<1>1. CASE Mirrors!Look(w)
  <2>1. UNCHANGED <<state, keys, db, root, plain, sealed, op, crossed, strayed>> /\ writer[w].at = "look"
    BY <1>1 DEF Mirrors!Look
  <2>2. (IF state # 0 THEN Mirrors!Idle ELSE [writer[w] EXCEPT !.at = "write"]) \in Writings
    BY <1>0, <2>1 DEF Writings
  <2>3. writer' \in [Writers -> Writings]
    BY <1>1, <2>2 DEF Mirrors!Look, MirrorTyped
  <2>4. QED
    BY <2>1, <2>3 DEF MirrorTyped, Mirrors!TypeOK
<1>2. CASE Mirrors!Mirror(w)
  <2>1. /\ UNCHANGED <<state, keys, db, root, sealed, op, crossed, strayed>> /\ writer[w].at = "write"
        /\ writer' = [writer EXCEPT ![w] = Mirrors!Idle]
        /\ plain' = IF writer[w].kind = "memory"
                    THEN [plain EXCEPT ![Mirrors!Memory(root)] = db["memory"]]
                    ELSE [plain EXCEPT ![Mirrors!Transcript] =
                             (IF @ = Mirrors!NoFile THEN {} ELSE @) \union {writer[w].item}]
    BY <1>2 DEF Mirrors!Mirror
  <2>2. writer[w].item \in 1 .. MaxWrites /\ Mirrors!Transcript \in Mirrors!Paths
    BY <1>0, <2>1 DEF Mirrors!Paths
  <2>3. writer' \in [Writers -> Writings]
    BY <2>1 DEF MirrorTyped, Writings
  <2>4. plain' \in [Mirrors!Paths -> Mirrors!Shown \union {Mirrors!NoFile}]
    BY <2>1, <2>2, WritesShown DEF MirrorTyped, Mirrors!TypeOK
  <2>5. QED
    BY <2>1, <2>3, <2>4 DEF MirrorTyped, Mirrors!TypeOK
<1>3. ASSUME NEW kind \in {"transcript", "memory"}, Mirrors!Store(w, kind) PROVE MirrorTyped'
  <2> DEFINE n == CHOOSE i \in 1 .. MaxWrites : i \notin Mirrors!Writes
  <2>1. /\ Mirrors!Writes # 1 .. MaxWrites
        /\ db' = [db EXCEPT ![kind] = @ \union {n}]
        /\ writer' = [writer EXCEPT ![w] = [at |-> "look", kind |-> kind, item |-> n]]
        /\ UNCHANGED <<state, keys, root, plain, sealed, op, crossed, strayed>>
    BY <1>3 DEF Mirrors!Store
  <2>2. Mirrors!Writes \subseteq 1 .. MaxWrites
    BY DEF MirrorTyped, Mirrors!TypeOK, Mirrors!Writes, Mirrors!Shown
  <2>3. n \in 1 .. MaxWrites
    <3>1. \E i \in 1 .. MaxWrites : i \notin Mirrors!Writes
      BY <2>1, <2>2
    <3>2. QED
      BY <3>1
  <2>4. db' \in [{"transcript", "memory"} -> Mirrors!Shown]
    BY <2>1, <2>3 DEF MirrorTyped, Mirrors!TypeOK, Mirrors!Shown
  <2>5. writer' \in [Writers -> Writings]
    BY <2>1, <2>3 DEF MirrorTyped, Writings
  <2>6. QED
    BY <2>1, <2>4, <2>5 DEF MirrorTyped, Mirrors!TypeOK
<1>4. QED
  BY <1>1, <1>2, <1>3

(* Every step has the types.                                               *)
LEMMA MirrorTypesStay == MirrorTyped /\ [Mirrors!Next]_mirrorVars => MirrorTyped'
<1> SUFFICES ASSUME MirrorTyped, [Mirrors!Next]_mirrorVars PROVE MirrorTyped'
  OBVIOUS
<1>1. CASE UNCHANGED mirrorVars
  BY <1>1 DEF MirrorTyped, Mirrors!TypeOK, mirrorVars
<1>2. ASSUME NEW r \in Roots, Mirrors!Move(r) PROVE MirrorTyped'
  <2>1. /\ root' = r /\ UNCHANGED <<state, keys, db, sealed, op, writer, crossed, strayed>>
        /\ plain' = IF state # 0 THEN plain
                    ELSE [plain EXCEPT ![Mirrors!Memory(r)] = db["memory"]]
    BY <1>2 DEF Mirrors!Move
  <2>2. plain' \in [Mirrors!Paths -> Mirrors!Shown \union {Mirrors!NoFile}]
    BY <2>1, WritesShown DEF MirrorTyped, Mirrors!TypeOK
  <2>3. QED
    BY <2>1, <2>2 DEF MirrorTyped, Mirrors!TypeOK
<1>3. CASE Mirrors!Crash
  BY <1>3 DEF Mirrors!Crash, MirrorTyped, Mirrors!TypeOK, Ops, Writings
<1>4. QED
  BY <1>1, <1>2, <1>3, CommandsTyped, WriterTyped DEF Mirrors!Next

-----------------------------------------------------------------------------
(* Of two commands under way together both keys are told.                  *)
Apart ==
    \A c, d \in Clients :
        c # d /\ Mirrors!Busy(c) /\ Mirrors!Busy(d) => op[c].key \in crossed

(* A command that crosses no other has the state file of its key, or is    *)
(* still to write the first; else the state file is of a key that is told. *)
Told == state = 0 \/ state \in crossed
KeyHeld(c) ==
    /\ Mirrors!At(c, "state") => Told
    /\ op[c].at \in {"files", "remove"} =>
         state = op[c].key \/ (op[c].key \in crossed /\ Told)

(* What it sees sealed is still to be restored, unless a file was passed   *)
(* over.                                                                   *)
ToRestore(c) ==
    op[c].at \in {"files", "remove"} /\ op[c].what = "restore" /\ ~op[c].failed =>
        \/ op[c].key \in crossed
        \/ \A p \in Mirrors!Seen(op[c].root) : Mirrors!IsSealed(p) => p \in op[c].todo

KeyInv ==
    /\ MirrorTyped /\ Apart /\ Mirrors!NothingStranded
    /\ \A c \in Clients : KeyHeld(c) /\ ToRestore(c)

(* Nothing is sealed at first.                                             *)
LEMMA MirrorsBegin == Mirrors!Init => KeyInv
<1> SUFFICES ASSUME Mirrors!Init PROVE KeyInv
  OBVIOUS
<1>1. Mirrors!TypeOK
  <2>1. root \in Roots
    BY RecordsAssumption DEF Mirrors!Init, RecordsAssumption
  <2>2. QED
    BY <2>1, KeysAreKeys DEF Mirrors!Init, Mirrors!TypeOK, Mirrors!Shown
<1>2. \A p \in Mirrors!Paths : ~Mirrors!IsSealed(p)
  BY DEF Mirrors!Init, Mirrors!IsSealed
<1>3. \A c \in Clients : op[c].at = "idle"
  BY DEF Mirrors!Init, Mirrors!Idle
<1>4. op \in [Clients -> Ops] /\ writer \in [Writers -> Writings]
  BY DEF Mirrors!Init, Ops, Writings
<1>5. QED
  BY <1>1, <1>2, <1>3, <1>4
  DEF KeyInv, MirrorTyped, Apart, KeyHeld, ToRestore, Mirrors!At, Mirrors!Busy,
      Mirrors!NothingStranded

(* A step of one command: the others keep what they rely on, as their keys *)
(* are told when it changes the state file or an envelope.                 *)
LEMMA CommandKeepsKeys ==
    ASSUME KeyInv, MirrorTyped', NEW c \in Clients, NEW step, Mirrors!Command(c, step),
           crossed \subseteq crossed',
           Mirrors!Busy(c) \/ (state' = state /\ sealed' = sealed),
           state' = state \/ state' = 0 \/ state' = op[c].key,
           step.at \in {"state", "files", "remove"} =>
               (Mirrors!Busy(c) /\ step.key = op[c].key)
                   \/ Mirrors!Crossing(c, step.key) \subseteq crossed',
           KeyHeld(c)', ToRestore(c)', Mirrors!NothingStranded'
    PROVE  KeyInv'
<1>1. op'[c] = step /\ \A d \in Clients : d # c => op'[d] = op[d]
  BY DEF KeyInv, MirrorTyped, Mirrors!Command
<1>2. ASSUME NEW d \in Clients, d # c, Mirrors!Busy(c), Mirrors!Busy(d)
      PROVE  op[c].key \in crossed' /\ op[d].key \in crossed'
  BY <1>2 DEF KeyInv, Apart
<1>3. ASSUME NEW d \in Clients, d # c, Mirrors!Busy(c)', Mirrors!Busy(d)
      PROVE  step.key \in crossed' /\ op[d].key \in crossed'
  <2>1. step.at \in {"state", "files", "remove"}
    BY <1>1, <1>3 DEF Mirrors!Busy
  <2>2. CASE Mirrors!Busy(c) /\ step.key = op[c].key
    BY <1>2, <1>3, <2>2
  <2>3. CASE Mirrors!Crossing(c, step.key) \subseteq crossed'
    <3>1. d \in Mirrors!Others(c)
      BY <1>3 DEF Mirrors!Others
    <3>2. QED
      BY <2>3, <3>1 DEF Mirrors!Crossing
  <2>4. QED
    BY <2>1, <2>2, <2>3
<1>4. Apart'
  <2>1. \A d \in Clients : d # c => (Mirrors!Busy(d)' <=> Mirrors!Busy(d))
    BY <1>1 DEF Mirrors!Busy
  <2>2. QED
    BY <1>1, <1>3, <2>1 DEF KeyInv, Apart
<1>5. ASSUME NEW d \in Clients, d # c PROVE KeyHeld(d)' /\ ToRestore(d)'
  <2>1. CASE ~Mirrors!Busy(d)
    BY <1>1, <1>5, <2>1 DEF KeyHeld, ToRestore, Mirrors!At, Mirrors!Busy
  <2>2. CASE Mirrors!Busy(d) /\ Mirrors!Busy(c)
    <3>1. op[d].key \in crossed' /\ op[c].key \in crossed'
      BY <1>2, <1>5, <2>2
    <3>2. KeyHeld(d)
      BY DEF KeyInv
    <3>3. KeyHeld(d)'
      BY <1>1, <1>5, <3>1, <3>2 DEF KeyHeld, Told, Mirrors!At
    <3>4. QED
      BY <1>1, <1>5, <3>1, <3>3 DEF ToRestore
  <2>3. CASE Mirrors!Busy(d) /\ ~Mirrors!Busy(c)
    <3>1. state' = state /\ sealed' = sealed /\ op'[d] = op[d]
      BY <1>1, <1>5, <2>3
    <3>2. KeyHeld(d) /\ ToRestore(d)
      BY DEF KeyInv
    <3>3. QED
      BY <3>1, <3>2 DEF KeyHeld, Told, ToRestore, Mirrors!At, Mirrors!IsSealed
  <2>4. QED
    BY <2>1, <2>2, <2>3
<1>6. QED
  BY <1>4, <1>5 DEF KeyInv

(* The steps that touch no envelope.                                       *)
LEMMA CommandsKeepKeys ==
    ASSUME KeyInv, MirrorTyped', NEW c \in Clients,
           \/ Mirrors!Enable(c) \/ Mirrors!WriteState(c) \/ Mirrors!Sealed(c)
           \/ Mirrors!Disable(c) \/ Mirrors!RemoveState(c) \/ Mirrors!StayArmed(c)
           \/ Mirrors!SyncMemories(c) \/ \E p \in Mirrors!Paths : Mirrors!Skip(c, p)
    PROVE  KeyInv'
<1>0. /\ op[c] \in Ops /\ state \in 0 .. MaxKeys /\ KeyHeld(c) /\ ToRestore(c)
      /\ Mirrors!NothingStranded
      /\ \A step : Mirrors!Command(c, step) => op'[c] = step
  BY DEF KeyInv, MirrorTyped, Mirrors!TypeOK, Mirrors!Command
<1>1. sealed' = sealed
  BY DEF Mirrors!Enable, Mirrors!WriteState, Mirrors!Sealed, Mirrors!Disable,
         Mirrors!RemoveState, Mirrors!StayArmed, Mirrors!Skip, Mirrors!SyncMemories
<1>2. ASSUME state' = state, crossed \subseteq crossed', strayed' = strayed
      PROVE  Mirrors!NothingStranded'
  BY <1>0, <1>1, <1>2 DEF Mirrors!NothingStranded, Mirrors!IsSealed
<1>3. CASE Mirrors!Enable(c)
  <2> DEFINE step == [at |-> "state", key |-> keys', root |-> root]
  <2>1. /\ state = 0 /\ state' = state /\ strayed' = strayed
        /\ crossed' = crossed \union Mirrors!Crossing(c, keys') /\ Mirrors!Command(c, step)
    BY <1>3 DEF Mirrors!Enable
  <2>2. op'[c] = step
    BY <1>0, <2>1
  <2>3. KeyHeld(c)' /\ ToRestore(c)'
    BY <2>1, <2>2 DEF KeyHeld, ToRestore, Told, Mirrors!At
  <2>4. QED
    BY <1>1, <1>2, <2>1, <2>3, CommandKeepsKeys
<1>4. CASE Mirrors!WriteState(c)
  <2> DEFINE step == [at |-> "files", what |-> "seal", key |-> op[c].key, root |-> op[c].root,
                      failed |-> FALSE,
                      todo |-> {p \in Mirrors!Seen(op[c].root) : Mirrors!Here(p)}]
  <2>1. /\ op[c].at = "state" /\ state' = op[c].key /\ crossed' = crossed /\ strayed' = strayed
        /\ Mirrors!Command(c, step)
    BY <1>4 DEF Mirrors!WriteState, Mirrors!At
  <2>2. op'[c] = step /\ Mirrors!Busy(c)
    BY <1>0, <2>1 DEF Mirrors!Busy
  <2>3. KeyHeld(c)' /\ ToRestore(c)'
    BY <2>1, <2>2 DEF KeyHeld, ToRestore, Mirrors!At
  <2>4. ASSUME NEW p \in Mirrors!Paths, Mirrors!IsSealed(p)
        PROVE  sealed[p].key \in crossed \/ p \in strayed
    <3>1. sealed[p].key # 0
      BY <2>4, KeysAreKeys DEF KeyInv, MirrorTyped, Mirrors!TypeOK, Mirrors!IsSealed, MirrorKeys
    <3>2. Told
      BY <1>0, <2>1 DEF KeyHeld, Mirrors!At
    <3>3. QED
      BY <1>0, <2>4, <3>1, <3>2 DEF Mirrors!NothingStranded, Told
  <2>5. Mirrors!NothingStranded'
    BY <1>1, <2>1, <2>4 DEF Mirrors!NothingStranded, Mirrors!IsSealed
  <2>6. QED
    BY <2>1, <2>2, <2>3, <2>5, CommandKeepsKeys
<1>5. CASE Mirrors!Disable(c)
  <2> DEFINE step == [at |-> "files", what |-> "restore", key |-> state, root |-> root,
                      failed |-> FALSE,
                      todo |-> {p \in Mirrors!Seen(root) : Mirrors!IsSealed(p)}]
  <2>1. /\ state' = state /\ strayed' = strayed /\ crossed' = crossed \union Mirrors!Crossing(c, state)
        /\ Mirrors!Command(c, step)
    BY <1>5 DEF Mirrors!Disable
  <2>2. op'[c] = step
    BY <1>0, <2>1
  <2>3. KeyHeld(c)' /\ ToRestore(c)'
    BY <1>1, <2>1, <2>2 DEF KeyHeld, ToRestore, Mirrors!At, Mirrors!IsSealed
  <2>4. QED
    BY <1>1, <1>2, <2>1, <2>3, CommandKeepsKeys
<1>6. CASE Mirrors!Sealed(c) \/ Mirrors!StayArmed(c) \/ Mirrors!SyncMemories(c)
  <2>1. /\ state' = state /\ strayed' = strayed /\ crossed' = crossed
        /\ Mirrors!Command(c, Mirrors!Idle)
    BY <1>6 DEF Mirrors!Sealed, Mirrors!StayArmed, Mirrors!SyncMemories
  <2>2. op'[c].at = "idle"
    BY <1>0, <2>1 DEF Mirrors!Idle
  <2>3. KeyHeld(c)' /\ ToRestore(c)'
    BY <2>2 DEF KeyHeld, ToRestore, Mirrors!At
  <2>4. Mirrors!Idle.at = "idle"
    BY DEF Mirrors!Idle
  <2>5. QED
    BY <1>1, <1>2, <2>1, <2>3, <2>4, CommandKeepsKeys
<1>7. CASE Mirrors!RemoveState(c)
  <2> DEFINE step == [at |-> "sync"]
  <2>1. /\ op[c].at = "files" /\ op[c].what = "restore" /\ op[c].todo = {} /\ ~op[c].failed
        /\ state' = 0 /\ crossed' = crossed /\ Mirrors!Command(c, step)
        /\ strayed' = strayed \union
               {p \in Mirrors!Paths \ Mirrors!Seen(op[c].root) : Mirrors!IsSealed(p)}
    BY <1>7 DEF Mirrors!RemoveState, Mirrors!MayDisarm, Mirrors!MayDisarmAnyway, Mirrors!At
  <2>2. op'[c] = step /\ Mirrors!Busy(c)
    BY <1>0, <2>1 DEF Mirrors!Busy
  <2>3. KeyHeld(c)' /\ ToRestore(c)'
    BY <2>2 DEF KeyHeld, ToRestore, Mirrors!At
  <2>4. ASSUME NEW p \in Mirrors!Paths, Mirrors!IsSealed(p)
        PROVE  sealed[p].key \in crossed \/ p \in strayed'
    <3>1. CASE op[c].key \in crossed
      <4>1. Told
        BY <1>0, <2>1, <3>1 DEF KeyHeld, Told
      <4>2. sealed[p].key # 0
        BY <2>4, KeysAreKeys DEF KeyInv, MirrorTyped, Mirrors!TypeOK, Mirrors!IsSealed, MirrorKeys
      <4>3. QED
        BY <1>0, <2>1, <2>4, <4>1, <4>2 DEF Mirrors!NothingStranded, Told
    <3>2. CASE op[c].key \notin crossed
      <4>1. p \notin Mirrors!Seen(op[c].root)
        BY <1>0, <2>1, <2>4, <3>2 DEF ToRestore
      <4>2. QED
        BY <2>1, <2>4, <4>1
    <3>3. QED
      BY <3>1, <3>2
  <2>5. Mirrors!NothingStranded'
    BY <1>1, <2>1, <2>4 DEF Mirrors!NothingStranded, Mirrors!IsSealed
  <2>6. step.at = "sync"
    OBVIOUS
  <2>7. QED
    BY <2>1, <2>2, <2>3, <2>5, <2>6, CommandKeepsKeys
<1>8. ASSUME NEW p \in Mirrors!Paths, Mirrors!Skip(c, p) PROVE KeyInv'
  <2> DEFINE step == [op[c] EXCEPT !.todo = @ \ {p}, !.failed = TRUE]
  <2>1. /\ op[c].at = "files" /\ state' = state /\ crossed' = crossed /\ strayed' = strayed
        /\ Mirrors!Command(c, step)
    BY <1>8 DEF Mirrors!Skip, Mirrors!NextOf, Mirrors!At
  <2>2. op[c] \in Walk \union WalkOn /\ Mirrors!Busy(c)
    BY <1>0, <2>1, OpShapes DEF Mirrors!Busy
  <2>3. step.at = "files" /\ step.key = op[c].key /\ step.failed /\ op'[c] = step
    BY <1>0, <2>1, <2>2 DEF Walk, WalkOn
  <2>4. KeyHeld(c)' /\ ToRestore(c)'
    BY <1>0, <2>1, <2>3 DEF KeyHeld, Told, ToRestore, Mirrors!At
  <2>5. QED
    BY <1>1, <1>2, <2>1, <2>2, <2>3, <2>4, CommandKeepsKeys
<1>9. QED
  BY <1>3, <1>4, <1>5, <1>6, <1>7, <1>8

(* The envelope is of the text, under the key of the state file; a mirror  *)
(* is put back before its envelope goes.                                   *)
LEMMA FilesKeepKeys ==
    ASSUME KeyInv, MirrorTyped', NEW c \in Clients,
           \/ \E p \in Mirrors!Paths : Mirrors!Envelope(c, p) \/ Mirrors!Restore(c, p)
           \/ Mirrors!RemovePlain(c) \/ Mirrors!RemoveEnvelope(c)
    PROVE  KeyInv'
<1>0. /\ op[c] \in Ops /\ KeyHeld(c) /\ ToRestore(c) /\ Mirrors!NothingStranded
      /\ sealed \in [Mirrors!Paths -> [key : MirrorKeys, text : Mirrors!Shown]
                                       \union {Mirrors!NoEnvelope}]
      /\ \A step : Mirrors!Command(c, step) => op'[c] = step
  BY DEF KeyInv, MirrorTyped, Mirrors!TypeOK, Mirrors!Command, MirrorKeys
<1>1. ASSUME NEW p \in Mirrors!Paths, Mirrors!Envelope(c, p) PROVE KeyInv'
  <2> DEFINE envelope == [key |-> op[c].key, text |-> plain[p]]
             step == [at |-> "remove", what |-> "seal", key |-> op[c].key, root |-> op[c].root,
                      failed |-> FALSE, todo |-> op[c].todo, file |-> p]
  <2>1. /\ op[c].at = "files" /\ sealed' = [sealed EXCEPT ![p] = envelope]
        /\ UNCHANGED <<state, crossed, strayed>> /\ Mirrors!Command(c, step)
    BY <1>1 DEF Mirrors!Envelope, Mirrors!Seals, Mirrors!NextOf, Mirrors!At
  <2>2. op'[c] = step /\ Mirrors!Busy(c)
    BY <1>0, <2>1 DEF Mirrors!Busy
  <2>3. KeyHeld(c)' /\ ToRestore(c)'
    BY <1>0, <2>1, <2>2 DEF KeyHeld, Told, ToRestore, Mirrors!At
  <2>4. op[c].key = state \/ op[c].key \in crossed
    BY <1>0, <2>1 DEF KeyHeld
  <2>5. Mirrors!NothingStranded'
    BY <1>0, <2>1, <2>4 DEF Mirrors!NothingStranded, Mirrors!IsSealed
  <2>6. QED
    BY <2>1, <2>2, <2>3, <2>5, CommandKeepsKeys
<1>2. ASSUME NEW p \in Mirrors!Paths, Mirrors!Restore(c, p) PROVE KeyInv'
  <2> DEFINE step == [at |-> "remove", what |-> "restore", key |-> op[c].key,
                      root |-> op[c].root, failed |-> op[c].failed, todo |-> op[c].todo,
                      file |-> p]
  <2>1. /\ op[c].at = "files" /\ op[c].what = "restore" /\ sealed' = sealed
        /\ UNCHANGED <<state, crossed, strayed>> /\ Mirrors!Command(c, step)
    BY <1>2 DEF Mirrors!Restore, Mirrors!Restores, Mirrors!NextOf, Mirrors!At
  <2>2. op'[c] = step /\ Mirrors!Busy(c)
    BY <1>0, <2>1 DEF Mirrors!Busy
  <2>3. KeyHeld(c)' /\ ToRestore(c)'
    BY <1>0, <2>1, <2>2 DEF KeyHeld, Told, ToRestore, Mirrors!At, Mirrors!IsSealed
  <2>4. Mirrors!NothingStranded'
    BY <1>0, <2>1 DEF Mirrors!NothingStranded, Mirrors!IsSealed
  <2>5. QED
    BY <2>1, <2>2, <2>3, <2>4, CommandKeepsKeys
<1>3. CASE Mirrors!RemovePlain(c) \/ Mirrors!RemoveEnvelope(c)
  <2> DEFINE p == op[c].file
             step == [op[c] EXCEPT !.at = "files", !.todo = @ \ {p}]
  <2>1. /\ op[c].at = "remove" /\ UNCHANGED <<state, crossed, strayed>>
        /\ Mirrors!Command(c, step)
    BY <1>3 DEF Mirrors!RemovePlain, Mirrors!RemoveEnvelope, Mirrors!At, Mirrors!NextFile
  <2>2. op[c] \in WalkOn /\ Mirrors!Busy(c) /\ op'[c] = step
    BY <1>0, <2>1, OpShapes DEF Mirrors!Busy
  <2>3. /\ step.at = "files" /\ step.what = op[c].what /\ step.key = op[c].key
        /\ step.root = op[c].root /\ step.failed = op[c].failed
        /\ step.todo = op[c].todo \ {p}
    BY <2>2 DEF WalkOn
  <2>4. KeyHeld(c)'
    BY <1>0, <2>1, <2>2, <2>3 DEF KeyHeld, Told, Mirrors!At
  <2>5. CASE Mirrors!RemovePlain(c)
    <3>1. sealed' = sealed /\ op[c].what = "seal"
      BY <2>5 DEF Mirrors!RemovePlain
    <3>2. ToRestore(c)'
      BY <2>2, <2>3, <3>1 DEF ToRestore
    <3>3. Mirrors!NothingStranded'
      BY <1>0, <2>1, <3>1 DEF Mirrors!NothingStranded, Mirrors!IsSealed
    <3>4. QED
      BY <2>1, <2>2, <2>3, <2>4, <3>2, <3>3, CommandKeepsKeys
  <2>6. CASE Mirrors!RemoveEnvelope(c)
    <3>1. \A q \in Mirrors!Paths :
              sealed'[q] = IF q = p THEN Mirrors!NoEnvelope ELSE sealed[q]
      BY <1>0, <2>6 DEF Mirrors!RemoveEnvelope
    <3>2. Mirrors!Seen(op[c].root) \subseteq Mirrors!Paths
      BY <2>2 DEF WalkOn, Mirrors!Seen, Mirrors!Paths
    <3>3. ToRestore(c)'
      BY <1>0, <2>1, <2>2, <2>3, <3>1, <3>2 DEF ToRestore, Mirrors!IsSealed
    <3>4. Mirrors!NothingStranded'
      BY <1>0, <2>1, <3>1 DEF Mirrors!NothingStranded, Mirrors!IsSealed
    <3>5. QED
      BY <2>1, <2>2, <2>3, <2>4, <3>3, <3>4, CommandKeepsKeys
  <2>7. QED
    BY <1>3, <2>5, <2>6
<1>4. QED
  BY <1>1, <1>2, <1>3

(* Every step keeps the key to what is sealed.                             *)
LEMMA MirrorsStep == KeyInv /\ [Mirrors!Next]_mirrorVars => KeyInv'
<1> SUFFICES ASSUME KeyInv, [Mirrors!Next]_mirrorVars PROVE KeyInv'
  OBVIOUS
<1>1. MirrorTyped'
  BY MirrorTypesStay DEF KeyInv
<1>2. ASSUME UNCHANGED <<state, sealed, crossed, strayed>>,
             op' = op \/ \A c \in Clients : op'[c] = Mirrors!Idle
      PROVE  KeyInv'
  <2>1. CASE op' = op
    BY <1>1, <1>2, <2>1
    DEF KeyInv, Apart, KeyHeld, ToRestore, Told, Mirrors!NothingStranded, Mirrors!IsSealed,
        Mirrors!At, Mirrors!Busy
  <2>2. CASE \A c \in Clients : op'[c] = Mirrors!Idle
    <3>1. \A c \in Clients : op'[c].at = "idle"
      BY <2>2 DEF Mirrors!Idle
    <3>2. QED
      BY <1>1, <1>2, <3>1
      DEF KeyInv, Apart, KeyHeld, ToRestore, Mirrors!NothingStranded, Mirrors!IsSealed,
          Mirrors!At, Mirrors!Busy
  <2>3. QED
    BY <1>2, <2>1, <2>2
<1>3. CASE UNCHANGED mirrorVars
  BY <1>2, <1>3 DEF mirrorVars
<1>4. CASE Mirrors!Crash
  BY <1>2, <1>4 DEF Mirrors!Crash
<1>5. ASSUME NEW w \in Writers,
             \/ Mirrors!Look(w) \/ Mirrors!Mirror(w)
             \/ \E kind \in {"transcript", "memory"} : Mirrors!Store(w, kind)
      PROVE  KeyInv'
  BY <1>2, <1>5 DEF Mirrors!Look, Mirrors!Mirror, Mirrors!Store
<1>6. ASSUME NEW r \in Roots, Mirrors!Move(r) PROVE KeyInv'
  BY <1>2, <1>6 DEF Mirrors!Move
<1>7. ASSUME NEW c \in Clients, Mirrors!Seal(c) \/ Mirrors!Unseal(c) PROVE KeyInv'
  BY <1>1, <1>7, CommandsKeepKeys, FilesKeepKeys DEF Mirrors!Seal, Mirrors!Unseal
<1>8. QED
  BY <1>3, <1>4, <1>5, <1>6, <1>7 DEF Mirrors!Next

-----------------------------------------------------------------------------
(* The copy that stays is whole before the other goes, in a command that   *)
(* crosses no other.                                                       *)
CopyMade(c) ==
    Mirrors!At(c, "remove") =>
        \/ op[c].key \in crossed
        \/ IF op[c].what = "seal" THEN Mirrors!IsSealed(op[c].file)
           ELSE Mirrors!Here(op[c].file)
CopyInv == KeyInv /\ \A c \in Clients : CopyMade(c)

(* No other step takes the only copy of a mirror away.                     *)
CopiesKept ==
    \A p \in Mirrors!Paths : Mirrors!Here(p) \/ Mirrors!IsSealed(p) =>
        \/ (Mirrors!Here(p) \/ Mirrors!IsSealed(p))'
        \/ \E c \in Clients :
              Mirrors!At(c, "remove") /\ op[c].file = p /\ op[c].key \in crossed

(* At first no command is under way.                                       *)
LEMMA CopiesBegin == Mirrors!Init => CopyInv
BY MirrorsBegin DEF Mirrors!Init, Mirrors!Idle, Mirrors!At, CopyInv, CopyMade

(* Steps that remove nothing and are not about to.                         *)
LEMMA NothingRemoved ==
    ASSUME CopyInv, KeyInv', crossed \subseteq crossed', sealed' = sealed,
           \A p \in Mirrors!Paths : plain'[p] = plain[p] \/ plain'[p] # Mirrors!NoFile,
           \A c \in Clients : op'[c] = op[c] \/ op'[c].at # "remove"
    PROVE  CopyInv' /\ CopiesKept
<1>1. CopiesKept
  BY DEF CopiesKept, Mirrors!Here, Mirrors!IsSealed
<1>2. ASSUME NEW c \in Clients PROVE CopyMade(c)'
  <2>1. CASE op'[c].at # "remove"
    BY <2>1 DEF CopyMade, Mirrors!At
  <2>2. CASE op'[c] = op[c] /\ op[c].at = "remove"
    <3>1. op[c] \in WalkOn
      BY <2>2, OpShapes DEF CopyInv, KeyInv, MirrorTyped
    <3>2. op[c].file \in Mirrors!Paths
      BY <3>1 DEF WalkOn
    <3>3. QED
      BY <2>2, <3>2 DEF CopyInv, CopyMade, Mirrors!At, Mirrors!Here, Mirrors!IsSealed
  <2>3. QED
    BY <2>1, <2>2
<1>3. QED
  BY <1>1, <1>2 DEF CopyInv

(* The steps of a command that leave every copy where it is.               *)
LEMMA CommandsKeepCopies ==
    ASSUME CopyInv, KeyInv', crossed \subseteq crossed', NEW c \in Clients,
           \/ Mirrors!Enable(c) \/ Mirrors!WriteState(c) \/ Mirrors!Sealed(c)
           \/ Mirrors!Disable(c) \/ Mirrors!RemoveState(c) \/ Mirrors!StayArmed(c)
           \/ Mirrors!SyncMemories(c) \/ \E p \in Mirrors!Paths : Mirrors!Skip(c, p)
    PROVE  CopyInv' /\ CopiesKept
<1>1. /\ op[c] \in Ops /\ db["memory"] \in Mirrors!Shown
      /\ plain \in [Mirrors!Paths -> Mirrors!Shown \union {Mirrors!NoFile}]
  BY DEF CopyInv, KeyInv, MirrorTyped, Mirrors!TypeOK
<1>2. /\ sealed' = sealed
      /\ \/ plain' = plain
         \/ plain' = [plain EXCEPT ![Mirrors!Memory(root)] = db["memory"]]
  BY DEF Mirrors!Enable, Mirrors!WriteState, Mirrors!Sealed, Mirrors!Disable,
         Mirrors!RemoveState, Mirrors!StayArmed, Mirrors!Skip, Mirrors!SyncMemories
<1>3. \A p \in Mirrors!Paths : plain'[p] = plain[p] \/ plain'[p] # Mirrors!NoFile
  BY <1>1, <1>2, CopiesDiffer
<1>4. \A d \in Clients : d # c => op'[d] = op[d]
  BY DEF CopyInv, KeyInv, MirrorTyped, Mirrors!Command, Mirrors!Enable, Mirrors!WriteState,
         Mirrors!Sealed, Mirrors!Disable, Mirrors!RemoveState, Mirrors!StayArmed,
         Mirrors!Skip, Mirrors!SyncMemories
<1>5. op'[c].at # "remove"
  <2>1. ASSUME NEW p \in Mirrors!Paths, Mirrors!Skip(c, p) PROVE op'[c].at # "remove"
    <3>1. /\ op[c].at = "files"
          /\ op' = [op EXCEPT ![c] = [op[c] EXCEPT !.todo = @ \ {p}, !.failed = TRUE]]
      BY <2>1 DEF Mirrors!Skip, Mirrors!NextOf, Mirrors!At, Mirrors!Command
    <3>2. [op[c] EXCEPT !.todo = @ \ {p}, !.failed = TRUE].at = "files"
      BY <1>1, <3>1, OpShapes DEF Walk, WalkOn
    <3>3. QED
      BY <3>1, <3>2 DEF CopyInv, KeyInv, MirrorTyped
  <2>2. QED
    BY <2>1
    DEF CopyInv, KeyInv, MirrorTyped, Mirrors!Command, Mirrors!Enable, Mirrors!WriteState,
        Mirrors!Sealed, Mirrors!Disable, Mirrors!RemoveState, Mirrors!StayArmed,
        Mirrors!SyncMemories, Mirrors!Idle
<1>6. QED
  BY <1>2, <1>3, <1>4, <1>5, NothingRemoved

(* Another command under way has its key told.                             *)
LEMMA OthersKeepCopies ==
    ASSUME CopyInv, crossed \subseteq crossed', NEW c \in Clients,
           op[c].at \in {"files", "remove"},
           \A d \in Clients : d # c => op'[d] = op[d]
    PROVE  \A d \in Clients : d # c => CopyMade(d)'
<1> SUFFICES ASSUME NEW d \in Clients, d # c, op[d].at = "remove" PROVE op[d].key \in crossed
  BY DEF CopyMade, Mirrors!At
<1>1. QED
  BY DEF CopyInv, KeyInv, Apart, Mirrors!Busy

(* The envelope is made and the mirror put back before the other goes.     *)
LEMMA CopiesMade ==
    ASSUME CopyInv, KeyInv', crossed \subseteq crossed', NEW c \in Clients, NEW p \in Mirrors!Paths,
           Mirrors!Envelope(c, p) \/ Mirrors!Restore(c, p)
    PROVE  CopyInv' /\ CopiesKept
<1>1. op[c].at = "files" /\ op[c] \in Ops /\ op[c].key # 0
  <2>1. op[c].at = "files" /\ op[c] \in Ops
    BY DEF CopyInv, KeyInv, MirrorTyped, Mirrors!Envelope, Mirrors!Restore, Mirrors!Seals,
           Mirrors!Restores, Mirrors!NextOf, Mirrors!At
  <2>2. QED
    BY <2>1, OpShapes, KeysAreKeys
<1>2. CASE Mirrors!Envelope(c, p)
  <2> DEFINE envelope == [key |-> op[c].key, text |-> plain[p]]
             step == [at |-> "remove", what |-> "seal", key |-> op[c].key, root |-> op[c].root,
                      failed |-> FALSE, todo |-> op[c].todo, file |-> p]
  <2>1. sealed' = [sealed EXCEPT ![p] = envelope] /\ plain' = plain /\ op' = [op EXCEPT ![c] = step]
    BY <1>2 DEF Mirrors!Envelope, Mirrors!Command
  <2>2. envelope # Mirrors!NoEnvelope
    BY <1>1 DEF Mirrors!NoEnvelope
  <2>3. /\ sealed'[p] # Mirrors!NoEnvelope
        /\ \A q \in Mirrors!Paths \ {p} : sealed'[q] = sealed[q]
    BY <2>1, <2>2 DEF CopyInv, KeyInv, MirrorTyped, Mirrors!TypeOK
  <2>4. op'[c].what = "seal" /\ op'[c].file = p
    BY <2>1 DEF CopyInv, KeyInv, MirrorTyped
  <2>5. \A d \in Clients : CopyMade(d)'
    <3>1. CopyMade(c)'
      BY <2>3, <2>4 DEF CopyMade, Mirrors!IsSealed
    <3>2. \A d \in Clients : d # c => op'[d] = op[d]
      BY <2>1 DEF CopyInv, KeyInv, MirrorTyped
    <3>3. QED
      BY <1>1, <3>1, <3>2, OthersKeepCopies
  <2>6. CopiesKept
    BY <2>1, <2>3 DEF CopiesKept, Mirrors!Here, Mirrors!IsSealed
  <2>7. QED
    BY <2>5, <2>6 DEF CopyInv
<1>3. CASE Mirrors!Restore(c, p)
  <2> DEFINE step == [at |-> "remove", what |-> "restore", key |-> op[c].key,
                      root |-> op[c].root, failed |-> op[c].failed, todo |-> op[c].todo,
                      file |-> p]
  <2>1. /\ plain' = [plain EXCEPT ![p] = sealed[p].text] /\ sealed' = sealed
        /\ op' = [op EXCEPT ![c] = step] /\ sealed[p].key = op[c].key
    BY <1>3 DEF Mirrors!Restore, Mirrors!Command
  <2>2. sealed[p] # Mirrors!NoEnvelope
    BY <1>1, <2>1 DEF Mirrors!NoEnvelope
  <2>3. sealed[p].text # Mirrors!NoFile
    BY <2>2, CopiesDiffer DEF CopyInv, KeyInv, MirrorTyped, Mirrors!TypeOK, MirrorKeys
  <2>4. plain'[p] # Mirrors!NoFile /\ \A q \in Mirrors!Paths \ {p} : plain'[q] = plain[q]
    BY <2>1, <2>3 DEF CopyInv, KeyInv, MirrorTyped, Mirrors!TypeOK
  <2>5. op'[c].what = "restore" /\ op'[c].file = p
    BY <2>1 DEF CopyInv, KeyInv, MirrorTyped
  <2>6. \A d \in Clients : CopyMade(d)'
    <3>1. CopyMade(c)'
      BY <2>4, <2>5 DEF CopyMade, Mirrors!Here
    <3>2. \A d \in Clients : d # c => op'[d] = op[d]
      BY <2>1 DEF CopyInv, KeyInv, MirrorTyped
    <3>3. QED
      BY <1>1, <3>1, <3>2, OthersKeepCopies
  <2>7. CopiesKept
    BY <2>1, <2>4 DEF CopiesKept, Mirrors!Here, Mirrors!IsSealed
  <2>8. QED
    BY <2>6, <2>7 DEF CopyInv
<1>4. QED
  BY <1>2, <1>3

(* What is removed has its other copy.                                     *)
LEMMA RemovalsKeepCopies ==
    ASSUME CopyInv, KeyInv', crossed \subseteq crossed', NEW c \in Clients,
           Mirrors!RemovePlain(c) \/ Mirrors!RemoveEnvelope(c)
    PROVE  CopyInv' /\ CopiesKept
<1> DEFINE p == op[c].file
           step == [op[c] EXCEPT !.at = "files", !.todo = @ \ {p}]
<1>1. op[c].at = "remove" /\ op' = [op EXCEPT ![c] = step] /\ CopyMade(c)
  BY DEF CopyInv, Mirrors!RemovePlain, Mirrors!RemoveEnvelope, Mirrors!At, Mirrors!NextFile,
         Mirrors!Command
<1>2. op[c] \in WalkOn
  BY <1>1, OpShapes DEF CopyInv, KeyInv, MirrorTyped
<1>3. step.at = "files"
  BY <1>2 DEF WalkOn
<1>4. \A d \in Clients : CopyMade(d)'
  <2>1. CopyMade(c)'
    BY <1>1, <1>3 DEF CopyInv, KeyInv, MirrorTyped, CopyMade, Mirrors!At
  <2>2. \A d \in Clients : d # c => op'[d] = op[d]
    BY <1>1 DEF CopyInv, KeyInv, MirrorTyped
  <2>3. QED
    BY <1>1, <2>1, <2>2, OthersKeepCopies
<1>5. CopiesKept
  <2>1. CASE Mirrors!RemovePlain(c)
    <3>1. /\ op[c].what = "seal" /\ sealed' = sealed
          /\ plain' = [plain EXCEPT ![p] = Mirrors!NoFile]
      BY <2>1 DEF Mirrors!RemovePlain
    <3>2. op[c].key \in crossed \/ sealed[p] # Mirrors!NoEnvelope
      BY <1>1, <3>1 DEF CopyMade, Mirrors!At, Mirrors!IsSealed
    <3>3. \A q \in Mirrors!Paths \ {p} : plain'[q] = plain[q]
      BY <3>1 DEF CopyInv, KeyInv, MirrorTyped, Mirrors!TypeOK
    <3>4. QED
      BY <1>1, <3>1, <3>2, <3>3 DEF CopiesKept, Mirrors!Here, Mirrors!IsSealed, Mirrors!At
  <2>2. CASE Mirrors!RemoveEnvelope(c)
    <3>1. /\ op[c].what = "restore" /\ plain' = plain
          /\ sealed' = [sealed EXCEPT ![p] = Mirrors!NoEnvelope]
      BY <2>2 DEF Mirrors!RemoveEnvelope
    <3>2. op[c].key \in crossed \/ plain[p] # Mirrors!NoFile
      BY <1>1, <3>1 DEF CopyMade, Mirrors!At, Mirrors!Here
    <3>3. \A q \in Mirrors!Paths \ {p} : sealed'[q] = sealed[q]
      BY <3>1 DEF CopyInv, KeyInv, MirrorTyped, Mirrors!TypeOK
    <3>4. QED
      BY <1>1, <3>1, <3>2, <3>3 DEF CopiesKept, Mirrors!Here, Mirrors!IsSealed, Mirrors!At
  <2>3. QED
    BY <2>1, <2>2
<1>6. QED
  BY <1>4, <1>5 DEF CopyInv

(* Writers and a root that moves only write.                               *)
LEMMA WritersKeepCopies ==
    ASSUME CopyInv, KeyInv', crossed \subseteq crossed',
           \/ \E w \in Writers :
                \/ Mirrors!Look(w) \/ Mirrors!Mirror(w)
                \/ \E kind \in {"transcript", "memory"} : Mirrors!Store(w, kind)
           \/ \E r \in Roots : Mirrors!Move(r)
    PROVE  CopyInv' /\ CopiesKept
<1>1. op' = op /\ sealed' = sealed
  BY DEF Mirrors!Look, Mirrors!Mirror, Mirrors!Store, Mirrors!Move
<1>2. \A p \in Mirrors!Paths : plain'[p] = plain[p] \/ plain'[p] # Mirrors!NoFile
  <2>1. ASSUME NEW w \in Writers, Mirrors!Mirror(w), writer[w].kind # "memory"
        PROVE  \A p \in Mirrors!Paths : plain'[p] = plain[p] \/ plain'[p] # Mirrors!NoFile
    <3>1. writer[w].at = "write" /\ writer[w] \in Writings
      BY <2>1 DEF Mirrors!Mirror, CopyInv, KeyInv, MirrorTyped
    <3>2. writer[w].item \in 1 .. MaxWrites
      BY <3>1 DEF Writings, Mirrors!Idle
    <3>3. QED
      BY <2>1, <3>2, WritesShown DEF Mirrors!Mirror, CopyInv, KeyInv, MirrorTyped, Mirrors!TypeOK
  <2>2. \A r \in Roots : [plain EXCEPT ![Mirrors!Memory(r)] = db["memory"]]
            \in {t \in [Mirrors!Paths -> Mirrors!Shown \union {Mirrors!NoFile}] :
                   \A p \in Mirrors!Paths : t[p] = plain[p] \/ t[p] # Mirrors!NoFile}
    BY WritesShown DEF CopyInv, KeyInv, MirrorTyped, Mirrors!TypeOK
  <2>3. root \in Roots
    BY DEF CopyInv, KeyInv, MirrorTyped, Mirrors!TypeOK
  <2>4. QED
    BY <2>1, <2>2, <2>3 DEF Mirrors!Look, Mirrors!Mirror, Mirrors!Store, Mirrors!Move
<1>3. QED
  BY <1>1, <1>2, NothingRemoved

(* Every step keeps a copy of each mirror.                                 *)
LEMMA CopiesStep ==
    CopyInv /\ [Mirrors!Next]_mirrorVars => CopyInv' /\ CopiesKept
<1> SUFFICES ASSUME CopyInv, [Mirrors!Next]_mirrorVars
             PROVE  CopyInv' /\ CopiesKept
  OBVIOUS
<1>1. KeyInv' /\ crossed \subseteq crossed'
  <2>1. KeyInv'
    BY MirrorsStep DEF CopyInv
  <2>2. [Mirrors!Next]_mirrorVars => crossed \subseteq crossed'
    BY DEF mirrorVars, Mirrors!Next, Mirrors!Seal, Mirrors!Unseal, Mirrors!Enable,
       Mirrors!WriteState, Mirrors!RemovePlain, Mirrors!Sealed, Mirrors!Envelope, Mirrors!Skip,
       Mirrors!Disable, Mirrors!RemoveEnvelope, Mirrors!RemoveState, Mirrors!StayArmed,
       Mirrors!SyncMemories, Mirrors!Restore, Mirrors!Look, Mirrors!Mirror, Mirrors!Store,
       Mirrors!Move, Mirrors!Crash
  <2>3. QED
    BY <2>1, <2>2
<1>2. CASE UNCHANGED mirrorVars
  BY <1>1, <1>2, NothingRemoved DEF mirrorVars
<1>3. CASE Mirrors!Crash
  BY <1>1, <1>3, NothingRemoved DEF Mirrors!Crash, Mirrors!Idle
<1>4. ASSUME NEW c \in Clients, Mirrors!Seal(c) \/ Mirrors!Unseal(c)
      PROVE  CopyInv' /\ CopiesKept
  BY <1>1, <1>4, CommandsKeepCopies, CopiesMade, RemovalsKeepCopies
  DEF Mirrors!Seal, Mirrors!Unseal
<1>5. QED
  BY <1>1, <1>2, <1>3, <1>4, WritersKeepCopies DEF Mirrors!Next

-----------------------------------------------------------------------------
(* The store as it is opened.                                              *)

(* The migration a table or column comes with.                             *)
InitialTables == {
    "settings", "workspaces", "documents", "doc_blocks", "doc_tables",
    "knowledge_sources", "chunks", "chunk_vectors", "chunks_fts", "artifacts",
    "audit", "sandbox_runs", "sandbox_lines", "egress"}
TableFrom(table) ==
    CASE table \in InitialTables -> 1
      [] table \in {"sessions", "session_messages"} -> 4
      [] table = "memories" -> 5
      [] table = "memory_rollouts" -> 6
      [] table = "workspace_folders" -> 7
      [] table = "previews" -> 8
      [] table = "store_gate" -> 10
      [] table = "vault_event" -> 11
      [] table \in {"run_receipts", "network_events"} -> 12
      [] table = "subagents" -> 14
ColumnFrom(column) ==
    CASE column = <<"audit", "session_id">> -> 2
      [] column = <<"documents", "pipeline">> -> 3
      [] column \in {<<"sessions", "use_memories">>, <<"sessions", "contribute_memories">>,
                     <<"artifacts", "workspace_id">>, <<"artifacts", "session_id">>} -> 5
      [] column \in {<<"workspaces", "pinned">>, <<"workspaces", "archived">>} -> 7
      [] column = Opening!Rel -> 8
      [] column = <<"audit", "operator">> -> 9
      [] column \in {<<"sessions", "pinned">>, <<"sessions", "archived">>} -> 13

(* Migration i makes its tables, and adds its columns to tables of its own *)
(* or of one before; and it is not only the column that may be there.      *)
IsMigration(i) ==
    /\ \A table \in Opening!Migrations[i].tables : TableFrom(table) = i
    /\ \A column \in Opening!Migrations[i].columns :
         ColumnFrom(column) = i /\ \E j \in 1 .. i : column[1] \in Opening!Migrations[j].tables
    /\ \/ Opening!Migrations[i].tables # {}
       \/ \E column \in Opening!Migrations[i].columns : column # Opening!Rel

(* The last version is that of the last migration.                         *)
LEMMA FourteenMigrations == Opening!Last = 14
BY DEF Opening!Last, Opening!Migrations, Opening!ConversationsAndMemory,
       Opening!ProjectsAndRecords, Opening!ReceiptsAndAgents

(* Every migration brings the tables and columns of its number.            *)
LEMMA MigrationsFit ==
    /\ \A i \in 1 .. Opening!Last : IsMigration(i)
    /\ "previews" \in Opening!Migrations[8].tables /\ Opening!Rel \in Opening!Migrations[8].columns
    /\ \A i \in 1 .. Opening!Last : Opening!Rel \in Opening!Migrations[i].columns => i = 8
<1> USE DEF Opening!Migrations, Opening!ConversationsAndMemory, Opening!ProjectsAndRecords,
            Opening!ReceiptsAndAgents
<1>1. /\ Opening!Migrations[1].tables = InitialTables
      /\ Opening!Migrations[1].columns = {}
  BY DEF Opening!InitialSchema, Opening!Making, InitialTables
<1>2. /\ Opening!Migrations[2].tables = {}
      /\ Opening!Migrations[2].columns = {<<"audit", "session_id">>}
  BY DEF Opening!Adding
<1>3. /\ Opening!Migrations[3].tables = {}
      /\ Opening!Migrations[3].columns = {<<"documents", "pipeline">>}
  BY DEF Opening!Adding
<1>4. /\ Opening!Migrations[4].tables = {"sessions", "session_messages"}
      /\ Opening!Migrations[4].columns = {}
  BY DEF Opening!Making
<1>5. /\ Opening!Migrations[5].tables = {"memories"}
      /\ Opening!Migrations[5].columns = 
         {<<"sessions", "use_memories">>, <<"sessions", "contribute_memories">>,
          <<"artifacts", "workspace_id">>, <<"artifacts", "session_id">>}
  OBVIOUS
<1>6. /\ Opening!Migrations[6].tables = {"memory_rollouts"}
      /\ Opening!Migrations[6].columns = {}
  BY DEF Opening!Making
<1>7. /\ Opening!Migrations[7].tables = {"workspace_folders"}
      /\ Opening!Migrations[7].columns = 
         {<<"workspaces", "pinned">>, <<"workspaces", "archived">>}
  OBVIOUS
<1>8. /\ Opening!Migrations[8].tables = {"previews"}
      /\ Opening!Migrations[8].columns = {Opening!Rel}
  OBVIOUS
<1>9. /\ Opening!Migrations[9].tables = {}
      /\ Opening!Migrations[9].columns = {<<"audit", "operator">>}
  BY DEF Opening!Adding
<1>10. /\ Opening!Migrations[10].tables = {"store_gate"}
       /\ Opening!Migrations[10].columns = {}
  BY DEF Opening!Making
<1>11. /\ Opening!Migrations[11].tables = {"vault_event"}
       /\ Opening!Migrations[11].columns = {}
  BY DEF Opening!Making
<1>12. /\ Opening!Migrations[12].tables = {"run_receipts", "network_events"}
       /\ Opening!Migrations[12].columns = {}
  BY DEF Opening!Making
<1>13. /\ Opening!Migrations[13].tables = {}
       /\ Opening!Migrations[13].columns = {<<"sessions", "pinned">>, <<"sessions", "archived">>}
  BY DEF Opening!Adding
<1>14. /\ Opening!Migrations[14].tables = {"subagents"}
       /\ Opening!Migrations[14].columns = {}
  BY DEF Opening!Making
<1> HIDE DEF Opening!Migrations, Opening!ConversationsAndMemory, Opening!ProjectsAndRecords,
             Opening!ReceiptsAndAgents
<1>15. IsMigration(1)
  BY <1>1 DEF IsMigration, TableFrom, ColumnFrom, InitialTables, Opening!Rel
<1>16. IsMigration(2)
  BY <1>1, <1>2 DEF IsMigration, TableFrom, ColumnFrom, InitialTables, Opening!Rel
<1>17. IsMigration(3)
  BY <1>1, <1>3 DEF IsMigration, TableFrom, ColumnFrom, InitialTables, Opening!Rel
<1>18. IsMigration(4)
  BY <1>4 DEF IsMigration, TableFrom, ColumnFrom, InitialTables, Opening!Rel
<1>19. IsMigration(5)
  BY <1>1, <1>4, <1>5 DEF IsMigration, TableFrom, ColumnFrom, InitialTables, Opening!Rel
<1>20. IsMigration(6)
  BY <1>6 DEF IsMigration, TableFrom, ColumnFrom, InitialTables, Opening!Rel
<1>21. IsMigration(7)
  BY <1>1, <1>7 DEF IsMigration, TableFrom, ColumnFrom, InitialTables, Opening!Rel
<1>22. IsMigration(8)
  BY <1>8 DEF IsMigration, TableFrom, ColumnFrom, InitialTables, Opening!Rel
<1>23. IsMigration(9)
  BY <1>1, <1>9 DEF IsMigration, TableFrom, ColumnFrom, InitialTables, Opening!Rel
<1>24. IsMigration(10)
  BY <1>10 DEF IsMigration, TableFrom, ColumnFrom, InitialTables, Opening!Rel
<1>25. IsMigration(11)
  BY <1>11 DEF IsMigration, TableFrom, ColumnFrom, InitialTables, Opening!Rel
<1>26. IsMigration(12)
  BY <1>12 DEF IsMigration, TableFrom, ColumnFrom, InitialTables, Opening!Rel
<1>27. IsMigration(13)
  BY <1>4, <1>13 DEF IsMigration, TableFrom, ColumnFrom, InitialTables, Opening!Rel
<1>28. IsMigration(14)
  BY <1>14 DEF IsMigration, TableFrom, ColumnFrom, InitialTables, Opening!Rel
<1>29. ASSUME NEW i \in 1 .. Opening!Last PROVE IsMigration(i)
  BY FourteenMigrations, <1>15, <1>16, <1>17, <1>18, <1>19, <1>20, <1>21, <1>22, <1>23, <1>24, <1>25, <1>26, <1>27, <1>28
<1>30. QED
  BY <1>8, <1>29 DEF IsMigration, ColumnFrom, Opening!Rel

(* No two migrations make the same.                                        *)
LEMMA MigrationsDiffer ==
    ASSUME NEW i \in 1 .. Opening!Last, NEW j \in 1 .. Opening!Last, i # j
    PROVE  /\ Opening!Migrations[i].tables \intersect Opening!Migrations[j].tables = {}
           /\ Opening!Migrations[i].columns \intersect Opening!Migrations[j].columns = {}
BY MigrationsFit DEF IsMigration

(* What a core that opens the store knows: it is no further than the store,*)
(* and once it has migrated the store is of the last version.              *)
Stores == [version : 0 .. Opening!Last, tables : SUBSET Opening!TablesAt(Opening!Last),
           columns : SUBSET Opening!ColumnsAt(Opening!Last), project : {"rootless", "rooted"}]
Knows(c) ==
    /\ core[c].at = "migrate" => core[c].next <= store.version + 1 /\ core[c].next >= 1
    /\ core[c].at \in {"repair", "add", "open"} => store.version = Opening!Last
    /\ core[c].at = "open" => Opening!Rel \in store.columns \/ skipped
OpenInv ==
    /\ Opening!TypeOK /\ store \in Stores /\ Opening!VersionTellsSchema
    /\ Opening!Rel \in store.columns => store.version >= 8
    /\ \A c \in Cores : Knows(c)

(* A later schema has what an earlier one has.                             *)
LEMMA SchemasGrow ==
    ASSUME NEW v \in 0 .. Opening!Last
    PROVE  /\ Opening!TablesAt(v) \subseteq Opening!TablesAt(Opening!Last)
           /\ Opening!ColumnsAt(v) \subseteq Opening!ColumnsAt(Opening!Last)
           /\ Opening!Rel \in Opening!ColumnsAt(v) <=> v >= 8
           /\ v >= 8 => "previews" \in Opening!TablesAt(v)
BY FourteenMigrations, MigrationsFit DEF Opening!TablesAt, Opening!ColumnsAt

(* A migration adds to the schema before it what it brings.                *)
LEMMA OneMore ==
    ASSUME NEW i \in 1 .. Opening!Last
    PROVE  /\ Opening!TablesAt(i) = Opening!TablesAt(i - 1) \union Opening!Migrations[i].tables
           /\ Opening!ColumnsAt(i) = Opening!ColumnsAt(i - 1) \union Opening!Migrations[i].columns
<1>1. 1 .. i = (1 .. i - 1) \union {i}
  BY FourteenMigrations
<1>2. QED
  BY <1>1 DEF Opening!TablesAt, Opening!ColumnsAt

(* A store is of some version when it is first opened.                     *)
LEMMA OpeningBegins == Opening!Init => OpenInv
<1> SUFFICES ASSUME Opening!Init PROVE OpenInv
  OBVIOUS
<1>1. PICK v \in 0 .. Opening!Last, without \in {{}, {Opening!Rel}} :
          store = [version |-> v, tables |-> Opening!TablesAt(v),
                   columns |-> Opening!ColumnsAt(v) \ without,
                   project |-> IF v \in 1 .. Opening!Folders - 1 THEN "rootless" ELSE "rooted"]
  BY DEF Opening!Init
<1>2. /\ store.version = v /\ store.tables = Opening!TablesAt(v)
      /\ store.columns = Opening!ColumnsAt(v) \ without
      /\ store.project = IF v \in 1 .. Opening!Folders - 1 THEN "rootless" ELSE "rooted"
  BY <1>1
<1>3. store \in Stores
  BY <1>1, SchemasGrow DEF Stores
<1>4. Opening!VersionTellsSchema
  BY <1>2, FourteenMigrations DEF Opening!VersionTellsSchema, Opening!Folders
<1>5. Opening!Rel \in store.columns => store.version >= 8
  BY <1>2, SchemasGrow
<1>6. Opening!TypeOK /\ \A c \in Cores : Knows(c)
  <2>1. core = [c \in Cores |-> [at |-> "shut", next |-> 0]] /\ skipped = FALSE
    BY DEF Opening!Init
  <2>2. 0 \in 0 .. Opening!Last + 1
    BY FourteenMigrations
  <2>3. core \in [Cores -> [at : {"shut", "migrate", "repair", "add", "open", "failed"},
                           next : 0 .. Opening!Last + 1]]
    BY <2>1, <2>2
  <2>4. Opening!TypeOK
    BY <1>3, <2>1, <2>3 DEF Opening!TypeOK, Stores
  <2>5. \A c \in Cores : Knows(c)
    BY <2>1 DEF Knows
  <2>6. QED
    BY <2>4, <2>5
<1>7. QED
  BY <1>3, <1>4, <1>5, <1>6 DEF OpenInv

(* A core goes to a step; the store stays.                                 *)
LEMMA CoreMoves ==
    ASSUME OpenInv, NEW c \in Cores, store' = store, skipped' \in BOOLEAN, skipped => skipped',
           NEW to \in [at : {"shut", "migrate", "repair", "add", "open", "failed"},
                       next : 0 .. Opening!Last + 1],
           core' = [core EXCEPT ![c] = to],
           to.at = "migrate" => to.next <= store.version + 1 /\ to.next >= 1,
           to.at \in {"repair", "add", "open"} => store.version = Opening!Last,
           to.at = "open" => Opening!Rel \in store.columns \/ skipped'
    PROVE  OpenInv'
<1>1. /\ core' \in [Cores -> [at : {"shut", "migrate", "repair", "add", "open", "failed"},
                              next : 0 .. Opening!Last + 1]]
      /\ core'[c] = to /\ \A d \in Cores \ {c} : core'[d] = core[d]
  BY DEF OpenInv, Opening!TypeOK
<1>2. Opening!TypeOK'
  BY <1>1 DEF OpenInv, Opening!TypeOK
<1>3. \A d \in Cores : Knows(d)'
  BY <1>1 DEF OpenInv, Knows
<1>4. QED
  BY <1>2, <1>3 DEF OpenInv, Opening!VersionTellsSchema

(* A core goes to its next step, the others stay.                          *)
LEMMA GotoMovesCore ==
    ASSUME OpenInv, NEW c \in Cores, NEW step \in {"repair", "add", "open", "failed"},
           Opening!Goto(c, step), store' = store, skipped' \in BOOLEAN, skipped => skipped',
           step \in {"repair", "add", "open"} => store.version = Opening!Last,
           step = "open" => Opening!Rel \in store.columns \/ skipped'
    PROVE  OpenInv'
<1> DEFINE to == [core[c] EXCEPT !.at = step]
<1>1. /\ to \in [at : {"shut", "migrate", "repair", "add", "open", "failed"},
                 next : 0 .. Opening!Last + 1]
      /\ to.at = step /\ core' = [core EXCEPT ![c] = to]
  BY DEF OpenInv, Opening!TypeOK, Opening!Goto
<1> HIDE DEF to
<1>2. QED
  BY <1>1, CoreMoves

(* Only the next migration fits what is there: an earlier one would make   *)
(* something that has been made.                                           *)
LEMMA OnlyNextFits ==
    ASSUME OpenInv, NEW i \in 1 .. Opening!Last, Opening!Fits(Opening!Migrations[i])
    PROVE  i > store.version
<1> SUFFICES ASSUME i <= store.version PROVE FALSE
  BY FourteenMigrations DEF OpenInv, Stores
<1>1. /\ Opening!Migrations[i].tables \subseteq store.tables
      /\ Opening!Migrations[i].columns \subseteq store.columns \union {Opening!Rel}
  BY FourteenMigrations
  DEF OpenInv, Stores, Opening!VersionTellsSchema, Opening!TablesAt, Opening!ColumnsAt
<1>2. QED
  BY <1>1, MigrationsFit DEF Opening!Fits, IsMigration

(* A migration takes the store from one schema to the next.                *)
LEMMA MigrateKeeps ==
    ASSUME OpenInv, NEW c \in Cores, Opening!Migrate(c) PROVE OpenInv'
<1> DEFINE i == core[c].next
<1>1. /\ core[c].at = "migrate" /\ i \in 1 .. Opening!Last /\ i <= store.version + 1
      /\ core[c] \in [at : {"shut", "migrate", "repair", "add", "open", "failed"},
                      next : 0 .. Opening!Last + 1]
  BY FourteenMigrations
  DEF Opening!Migrate, Opening!At, OpenInv, Opening!TypeOK, Knows
<1>2. store.version \in 0 .. Opening!Last /\ i = store.version + 1
  <2>1. i > store.version
    BY <1>1, OnlyNextFits DEF Opening!Migrate
  <2>2. QED
    BY <1>1, <2>1, FourteenMigrations DEF OpenInv, Stores
<1>3. /\ store' = Opening!Migrated(i) /\ core' = [core EXCEPT ![c].next = i + 1]
      /\ skipped' = skipped
  BY DEF Opening!Migrate
<1>4. /\ store'.version = i /\ store'.tables = store.tables \union Opening!Migrations[i].tables
      /\ store'.columns = store.columns \union Opening!Migrations[i].columns
      /\ store'.project = IF i = Opening!Folders THEN "rooted" ELSE store.project
      /\ store' = [version |-> store'.version, tables |-> store'.tables,
                   columns |-> store'.columns, project |-> store'.project]
  BY <1>3 DEF Opening!Migrated, Opening!MigratedTables, OpenInv, Stores
<1>5. i - 1 = store.version
  BY <1>2, FourteenMigrations
<1>6. Opening!VersionTellsSchema'
  BY <1>1, <1>2, <1>4, <1>5, OneMore, FourteenMigrations
  DEF OpenInv, Opening!VersionTellsSchema, Opening!Folders
<1>7. store' \in Stores
  <2>1. /\ Opening!Migrations[i].tables \subseteq Opening!TablesAt(Opening!Last)
        /\ Opening!Migrations[i].columns \subseteq Opening!ColumnsAt(Opening!Last)
    BY <1>1 DEF Opening!TablesAt, Opening!ColumnsAt
  <2>2. QED
    BY <1>1, <1>4, <2>1 DEF OpenInv, Stores
<1>8. Opening!Rel \in store'.columns => store'.version >= 8
  BY <1>1, <1>2, <1>4, MigrationsFit, FourteenMigrations DEF OpenInv
<1>9. /\ core' \in [Cores -> [at : {"shut", "migrate", "repair", "add", "open", "failed"},
                              next : 0 .. Opening!Last + 1]]
      /\ core'[c].at = "migrate" /\ core'[c].next = i + 1
      /\ \A d \in Cores \ {c} : core'[d] = core[d]
  BY <1>1, <1>3, FourteenMigrations DEF OpenInv, Opening!TypeOK
<1>10. ASSUME NEW d \in Cores PROVE Knows(d)'
  <2>1. CASE d = c
    BY <1>1, <1>4, <1>9, <2>1, FourteenMigrations DEF Knows
  <2>2. CASE d # c
    <3>1. core'[d] = core[d] /\ Knows(d) /\ core[d].next \in Nat
      BY <1>9, <2>2, FourteenMigrations DEF OpenInv, Opening!TypeOK
    <3>2. QED
      BY <1>1, <1>2, <1>3, <1>4, <3>1, FourteenMigrations DEF Knows
  <2>3. QED
    BY <2>1, <2>2
<1>11. Opening!TypeOK'
  BY <1>3, <1>7, <1>9 DEF OpenInv, Opening!TypeOK, Stores
<1>12. QED
  BY <1>6, <1>7, <1>8, <1>10, <1>11 DEF OpenInv

(* The column added by the repair is one the schema has.                   *)
LEMMA AddColumnKeeps ==
    ASSUME OpenInv, NEW c \in Cores, Opening!AddColumn(c) PROVE OpenInv'
<1>1. core[c].at = "add" /\ Opening!Goto(c, "open") /\ store.version = Opening!Last
  BY DEF Opening!AddColumn, Opening!At, OpenInv, Knows
<1>2. CASE skipped' = (skipped \/ Opening!Rel \notin store.columns) /\ store' = store
  BY <1>1, <1>2, GotoMovesCore DEF OpenInv, Opening!TypeOK
<1>3. CASE store' = [store EXCEPT !.columns = @ \union {Opening!Rel}] /\ skipped' = skipped
  <2>1. Opening!Rel \in Opening!ColumnsAt(Opening!Last)
    BY SchemasGrow, FourteenMigrations
  <2>2. /\ store' \in Stores /\ store'.version = store.version /\ store'.tables = store.tables
        /\ store'.columns = store.columns \union {Opening!Rel} /\ store'.project = store.project
    BY <1>3, <2>1 DEF OpenInv, Stores
  <2>3. /\ core' \in [Cores -> [at : {"shut", "migrate", "repair", "add", "open", "failed"},
                                next : 0 .. Opening!Last + 1]]
        /\ core'[c].at = "open" /\ \A d \in Cores \ {c} : core'[d] = core[d]
    BY <1>1 DEF Opening!Goto, OpenInv, Opening!TypeOK
  <2>4. \A d \in Cores : Knows(d)'
    BY <1>1, <1>3, <2>2, <2>3 DEF OpenInv, Knows
  <2>5. Opening!VersionTellsSchema'
    BY <2>2 DEF OpenInv, Opening!VersionTellsSchema
  <2>6. Opening!TypeOK'
    BY <1>3, <2>2, <2>3 DEF OpenInv, Opening!TypeOK, Stores
  <2>7. QED
    BY <1>1, <2>2, <2>4, <2>5, <2>6, FourteenMigrations DEF OpenInv
<1>4. QED
  BY <1>2, <1>3 DEF Opening!AddColumn

(* Every step keeps the store of its version.                              *)
LEMMA OpeningStep == OpenInv /\ [Opening!Next]_openVars => OpenInv'
<1> SUFFICES ASSUME OpenInv, [Opening!Next]_openVars PROVE OpenInv'
  OBVIOUS
<1>1. CASE UNCHANGED openVars
  BY <1>1 DEF openVars, OpenInv, Opening!TypeOK, Opening!VersionTellsSchema, Knows
<1>2. ASSUME NEW c \in Cores, Opening!Connect(c) PROVE OpenInv'
  <2> DEFINE to == [at |-> "migrate", next |-> store.version + 1]
  <2>1. to \in [at : {"shut", "migrate", "repair", "add", "open", "failed"},
                next : 0 .. Opening!Last + 1]
    BY FourteenMigrations DEF OpenInv, Opening!TypeOK
  <2>2. to.next <= store.version + 1 /\ to.next >= 1
    BY FourteenMigrations DEF OpenInv, Opening!TypeOK
  <2>3. QED
    BY <1>2, <2>1, <2>2, CoreMoves DEF Opening!Connect, OpenInv, Opening!TypeOK
<1>3. ASSUME NEW c \in Cores, Opening!MigrateFails(c) PROVE OpenInv'
  BY <1>3, GotoMovesCore DEF Opening!MigrateFails, Opening!Fail, OpenInv, Opening!TypeOK
<1>4. ASSUME NEW c \in Cores, Opening!Recover(c) PROVE OpenInv'
  <2>1. store.version = Opening!Last
    BY <1>4, FourteenMigrations
    DEF Opening!Recover, Opening!At, OpenInv, Knows, Opening!TypeOK
  <2>2. UNCHANGED <<store, skipped>> /\ (Opening!Goto(c, "repair") \/ Opening!Goto(c, "failed"))
    BY <1>4 DEF Opening!Recover, Opening!Fail
  <2>3. QED
    BY <2>1, <2>2, GotoMovesCore DEF OpenInv, Opening!TypeOK
<1>5. ASSUME NEW c \in Cores, Opening!LookForColumn(c) PROVE OpenInv'
  <2>1. store.version = Opening!Last /\ UNCHANGED <<store, skipped>>
    BY <1>5 DEF Opening!LookForColumn, Opening!At, OpenInv, Knows
  <2>2. "previews" \in store.tables
    BY <2>1, SchemasGrow, FourteenMigrations DEF OpenInv, Opening!VersionTellsSchema
  <2>3. PICK step \in {"add", "open"} :
          Opening!Goto(c, step) /\ (step = "open" => Opening!Rel \in store.columns)
    BY <1>5, <2>2 DEF Opening!LookForColumn
  <2>4. QED
    BY <2>1, <2>3, GotoMovesCore DEF OpenInv, Opening!TypeOK
<1>6. ASSUME NEW c \in Cores, Opening!Shut(c) PROVE OpenInv'
  <2> DEFINE to == [at |-> "shut", next |-> 0]
  <2>1. to \in [at : {"shut", "migrate", "repair", "add", "open", "failed"},
                next : 0 .. Opening!Last + 1]
    BY FourteenMigrations
  <2>2. QED
    BY <1>6, <2>1, CoreMoves DEF Opening!Shut, OpenInv, Opening!TypeOK
<1>7. QED
  BY <1>1, <1>2, <1>3, <1>4, <1>5, <1>6, MigrateKeeps, AddColumnKeeps
  DEF Opening!Next, Opening!Open

(* What the invariant says of the store.                                   *)
LEMMA StoreCanBeOpened == OpenInv => Opening!CanBeOpened
<1> SUFFICES ASSUME OpenInv, NEW i \in store.version + 1 .. Opening!Last
             PROVE  /\ Opening!Migrations[i].tables \intersect store.tables = {}
                    /\ Opening!Migrations[i].columns \intersect store.columns = {}
                    /\ \A column \in Opening!Migrations[i].columns : column[1] \in Opening!TablesAt(i)
  BY DEF Opening!CanBeOpened
<1>1. store.version \in 0 .. Opening!Last /\ i \in 1 .. Opening!Last /\ i > store.version
  BY FourteenMigrations DEF OpenInv, Opening!TypeOK
<1>2. Opening!Migrations[i].tables \intersect store.tables = {}
  BY <1>1, MigrationsDiffer, FourteenMigrations
  DEF OpenInv, Opening!VersionTellsSchema, Opening!TablesAt
<1>3. Opening!Migrations[i].columns \intersect store.columns = {}
  <2> SUFFICES ASSUME NEW column \in Opening!Migrations[i].columns, column \in store.columns
               PROVE  FALSE
    OBVIOUS
  <2>1. CASE column = Opening!Rel
    BY <1>1, <2>1, MigrationsFit, FourteenMigrations DEF OpenInv
  <2>2. CASE column # Opening!Rel
    <3>1. PICK j \in 1 .. store.version : column \in Opening!Migrations[j].columns
      BY <2>2 DEF OpenInv, Opening!VersionTellsSchema, Opening!ColumnsAt
    <3>2. QED
      BY <1>1, <3>1, MigrationsDiffer, FourteenMigrations
  <2>3. QED
    BY <2>1, <2>2
<1>4. \A column \in Opening!Migrations[i].columns : column[1] \in Opening!TablesAt(i)
  BY <1>1, MigrationsFit DEF IsMigration, Opening!TablesAt
<1>5. QED
  BY <1>2, <1>3, <1>4

(* A store that is open has the last schema.                               *)
LEMMA OpenStoreIsComplete == OpenInv => Opening!OpenIsComplete
BY DEF OpenInv, Knows, Opening!OpenIsComplete, Opening!VersionTellsSchema, Opening!At

-----------------------------------------------------------------------------
(* The documents that are read.                                            *)

Readings == [at : {"idle", "lookup", "extract", "read", "escalate", "store"},
             sha : Drafts \union {0}, from : Drafts \union {0},
             images : SUBSET Reading!Pages, text : SUBSET Reading!Pages,
             thin : SUBSET Reading!Pages, silent : SUBSET Reading!Pages,
             noted : SUBSET Reading!Pages]

(* What a call has at each step: every page is in one of its hands, and no *)
(* page that is noted as missing in another.                               *)
Accounted(got) ==
    /\ got \in Readings
    /\ got.at # "idle" => got.sha \in Drafts /\ got.from \in Drafts
    /\ got.at # "idle" /\ paper.kind # "sheet" => got.from = got.sha
    /\ got.at \in {"lookup", "extract"} =>
         /\ got.images = {} /\ got.text = {} /\ got.thin = {} /\ got.silent = {} /\ got.noted = {}
         /\ got.from = got.sha
    /\ got.at = "read" =>
         /\ got.text = {} /\ got.thin = {} /\ got.silent = {}
         /\ got.images \union got.noted = Reading!Pages /\ got.images \intersect got.noted = {}
    /\ got.at \in {"escalate", "store"} =>
         /\ got.text \union got.thin \union got.silent \union got.noted = Reading!Pages
         /\ got.noted \intersect (got.text \union got.thin \union got.silent) = {}
    /\ got.at = "escalate" => got.thin \intersect (got.text \union got.silent) = {}
    /\ got.at = "store" => got.thin = {} /\ (got.noted # {} => got.text # {})

ReadInv ==
    /\ Reading!TypeOK /\ Reading!PartialSaysSo /\ Reading!TextIsOfItsHash
    /\ \A r \in Readers : Accounted(reader[r])

(* Nothing has been read at first.                                         *)
LEMMA ReadingBegins == Reading!Init => ReadInv
<1> SUFFICES ASSUME Reading!Init PROVE ReadInv
  OBVIOUS
<1>1. document = Reading!None
  BY DEF Reading!Init
<1>2. \A r \in Readers : reader[r] = Reading!Nothing
  BY DEF Reading!Init
<1>3. Accounted(Reading!Nothing)
  BY DEF Accounted, Reading!Nothing, Readings
<1>4. Reading!TypeOK
  BY <1>1, RecordsAssumption
  DEF Reading!Init, Reading!TypeOK, Reading!Nothing, RecordsAssumption
<1>5. QED
  BY <1>1, <1>2, <1>3, <1>4 DEF ReadInv, Reading!PartialSaysSo, Reading!TextIsOfItsHash

(* A call that goes on keeps account of its pages.                         *)
LEMMA ReaderMoves ==
    ASSUME ReadInv, NEW r \in Readers, NEW got, Accounted(got),
           Reading!Got(r, got), UNCHANGED <<paper, build, document>>
    PROVE  ReadInv'
<1>1. \A q \in Readers : reader'[q] = IF q = r THEN got ELSE reader[q]
  BY DEF ReadInv, Reading!TypeOK, Reading!Got
<1>2. reader' \in [Readers -> Readings]
  BY DEF ReadInv, Reading!TypeOK, Reading!Got, Readings, Accounted
<1>3. \A q \in Readers : Accounted(reader[q])'
  BY <1>1 DEF ReadInv, Accounted
<1>4. Reading!TypeOK'
  BY <1>2 DEF ReadInv, Reading!TypeOK, Readings
<1>5. QED
  BY <1>3, <1>4 DEF ReadInv, Reading!PartialSaysSo, Reading!TextIsOfItsHash

(* A reader that gives up has nothing.                                     *)
LEMMA DropMoves ==
    ASSUME ReadInv, NEW r \in Readers, Reading!Drop(r), UNCHANGED <<paper, build, document>>
    PROVE  ReadInv'
<1>1. Accounted(Reading!Nothing)
  BY DEF Accounted, Reading!Nothing, Readings
<1>2. QED
  BY <1>1, ReaderMoves DEF Reading!Drop, Reading!Got

(* What the passes have read is kept with account of every page.           *)
LEMMA JudgedAccounted ==
    ASSUME NEW got \in Readings, got.at # "idle",
           got.sha \in Drafts, got.from \in Drafts, paper.kind # "sheet" => got.from = got.sha,
           got.text \union got.silent \union got.noted = Reading!Pages,
           got.noted \intersect (got.text \union got.silent) = {}
    PROVE  Accounted(Reading!Judged(got))
<1>1. CASE got.text = {}
  BY <1>1 DEF Reading!Judged, Accounted, Reading!Nothing, Readings
<1>2. CASE got.text # {}
  <2> DEFINE kept == [got EXCEPT !.at = "store", !.thin = {}]
  <2>1. /\ kept \in Readings /\ kept.at = "store" /\ kept.thin = {}
        /\ kept.sha = got.sha /\ kept.from = got.from /\ kept.text = got.text
        /\ kept.silent = got.silent /\ kept.noted = got.noted
    BY DEF Readings
  <2>2. Reading!Judged(got) = kept
    BY <1>2 DEF Reading!Judged
  <2> HIDE DEF kept
  <2>3. QED
    BY <1>2, <2>1, <2>2 DEF Accounted
<1>3. QED
  BY <1>1, <1>2

(* A reader keeps account of every page on its way.                        *)
LEMMA ReaderKeepsAccount ==
    ASSUME ReadInv, NEW r \in Readers, Reading!Reader(r), ~Reading!Store(r)
    PROVE  ReadInv'
<1> DEFINE has == reader[r]
<1>0. Accounted(has) /\ has \in Readings
  BY DEF ReadInv, Accounted
<1>1. CASE Reading!ReadBytes(r)
  <2> DEFINE got == [Reading!Nothing EXCEPT !.at = "lookup", !.sha = paper.content,
                                            !.from = paper.content]
  <2>1. paper.content \in Drafts
    BY DEF ReadInv, Reading!TypeOK
  <2>2. Accounted(got)
    BY <2>1 DEF Accounted, Reading!Nothing, Readings
  <2>3. QED
    BY <1>1, <2>2, ReaderMoves DEF Reading!ReadBytes, Reading!Got
<1>2. CASE Reading!LookUp(r)
  <2> DEFINE got == [has EXCEPT !.at = "extract"]
  <2>1. has.at = "lookup" /\ UNCHANGED <<paper, build, document>>
    BY <1>2 DEF Reading!LookUp, Reading!At
  <2>2. Accounted(got)
    BY <1>0, <2>1 DEF Accounted, Readings
  <2>3. Reading!Drop(r) \/ Reading!Got(r, got)
    BY <1>2 DEF Reading!LookUp, Reading!Goto, Reading!Got, ReadInv, Reading!TypeOK
  <2>4. QED
    BY <2>1, <2>2, <2>3, ReaderMoves, DropMoves
<1>3. CASE Reading!ExtractNative(r)
  <2>1. has.at = "extract" /\ UNCHANGED <<paper, build, document>>
    BY <1>3 DEF Reading!ExtractNative, Reading!At
  <2>2. ASSUME NEW text \in SUBSET Reading!Pages
        PROVE  Accounted([has EXCEPT !.at = "store", !.text = text,
                             !.silent = Reading!Pages \ text,
                             !.from = IF paper.kind = "sheet" THEN paper.content ELSE @])
    <3>1. paper.content \in Drafts
      BY DEF ReadInv, Reading!TypeOK
    <3>2. QED
      BY <1>0, <2>1, <3>1 DEF Accounted, Readings
  <2>3. QED
    BY <1>3, <2>1, <2>2, ReaderMoves, DropMoves DEF Reading!ExtractNative
<1>4. CASE Reading!FindPages(r)
  <2>1. has.at = "extract" /\ UNCHANGED <<paper, build, document>>
    BY <1>4 DEF Reading!FindPages, Reading!At
  <2>2. ASSUME NEW images \in SUBSET Reading!Pages
        PROVE  Accounted([has EXCEPT !.at = "read", !.images = images,
                                     !.noted = Reading!Pages \ images])
    BY <1>0, <2>1 DEF Accounted, Readings
  <2>3. QED
    BY <1>4, <2>1, <2>2, ReaderMoves, DropMoves DEF Reading!FindPages
<1>5. CASE Reading!Read(r)
  <2> DEFINE got(thin, echoed) ==
          [has EXCEPT !.thin = thin, !.silent = echoed, !.images = {},
                      !.text = has.images \ (thin \union echoed)]
  <2>1. has.at = "read" /\ UNCHANGED <<paper, build, document>>
    BY <1>5 DEF Reading!Read, Reading!At
  <2>2. ASSUME NEW thin \in SUBSET has.images, NEW echoed \in SUBSET has.images,
               thin \intersect echoed = {}
        PROVE  Accounted(IF thin = {} THEN Reading!Judged(got(thin, echoed))
                         ELSE [got(thin, echoed) EXCEPT !.at = "escalate"])
    <3>1. /\ got(thin, echoed) \in Readings /\ got(thin, echoed).at = "read"
          /\ got(thin, echoed).sha = has.sha /\ got(thin, echoed).from = has.from
          /\ got(thin, echoed).thin = thin /\ got(thin, echoed).silent = echoed
          /\ got(thin, echoed).noted = has.noted
          /\ got(thin, echoed).text = has.images \ (thin \union echoed)
      BY <1>0, <2>1 DEF Readings
    <3>2. /\ has.images \union has.noted = Reading!Pages /\ has.images \intersect has.noted = {}
          /\ has.sha \in Drafts /\ has.from \in Drafts
          /\ paper.kind # "sheet" => has.from = has.sha
      BY <1>0, <2>1 DEF Accounted
    <3>3. CASE thin = {}
      BY <3>1, <3>2, <3>3, JudgedAccounted
    <3>4. CASE thin # {}
      <4> DEFINE next == [got(thin, echoed) EXCEPT !.at = "escalate"]
      <4>1. /\ next \in Readings /\ next.at = "escalate" /\ next.sha = has.sha
            /\ next.from = has.from /\ next.thin = thin /\ next.silent = echoed
            /\ next.noted = has.noted /\ next.text = has.images \ (thin \union echoed)
        BY <3>1 DEF Readings
      <4> HIDE DEF next
      <4>2. Accounted(next)
        BY <2>2, <3>2, <4>1 DEF Accounted
      <4>3. QED
        BY <3>4, <4>2 DEF next
    <3>5. QED
      BY <3>3, <3>4
  <2>3. QED
    BY <1>5, <2>1, <2>2, ReaderMoves DEF Reading!Read
<1>6. CASE Reading!Escalate(r)
  <2> DEFINE got(second, echoed) ==
          [has EXCEPT !.text = @ \union second, !.silent = @ \union echoed,
                      !.noted = @ \union Reading!Unread(r, second, echoed)]
  <2>1. has.at = "escalate" /\ UNCHANGED <<paper, build, document>>
    BY <1>6 DEF Reading!Escalate, Reading!At
  <2>2. ASSUME NEW second \in SUBSET has.thin, NEW echoed \in SUBSET has.thin
        PROVE  Accounted(Reading!Judged(got(second, echoed)))
    <3>1. Reading!Unread(r, second, echoed) = has.thin \ (second \union echoed)
      BY DEF Reading!Unread
    <3>2. /\ got(second, echoed) \in Readings /\ got(second, echoed).at = "escalate"
          /\ got(second, echoed).sha = has.sha /\ got(second, echoed).from = has.from
          /\ got(second, echoed).text = has.text \union second
          /\ got(second, echoed).silent = has.silent \union echoed
          /\ got(second, echoed).noted = has.noted \union (has.thin \ (second \union echoed))
      BY <1>0, <2>1, <3>1 DEF Readings
    <3>3. QED
      <4> DEFINE new == got(second, echoed)
      <4>1. new.text \union new.silent \union new.noted = Reading!Pages
        BY <1>0, <2>1, <3>2 DEF Accounted, Readings
      <4>2. new.noted \intersect (new.text \union new.silent) = {}
        BY <1>0, <2>1, <3>2 DEF Accounted, Readings
      <4>3. /\ new \in Readings /\ new.at # "idle" /\ new.sha \in Drafts /\ new.from \in Drafts
            /\ paper.kind # "sheet" => new.from = new.sha
        BY <1>0, <2>1, <3>2 DEF Accounted
      <4> HIDE DEF new
      <4>4. QED
        BY <4>1, <4>2, <4>3, JudgedAccounted DEF new
  <2>3. QED
    BY <1>6, <2>1, <2>2, ReaderMoves DEF Reading!Escalate
<1>7. QED
  BY <1>1, <1>2, <1>3, <1>4, <1>5, <1>6 DEF Reading!Reader

(* The record that is stored names what is missing.                        *)
LEMMA StoreKeepsAccount ==
    ASSUME ReadInv, NEW r \in Readers, Reading!Store(r) PROVE ReadInv'
<1> DEFINE has == reader[r]
<1>1. has \in Readings /\ Accounted(has) /\ has.at = "store"
  BY DEF Reading!Store, Reading!At, ReadInv, Accounted
<1>2. Accounted(Reading!Nothing)
  BY DEF Accounted, Reading!Nothing, Readings
<1>3. /\ reader' = [reader EXCEPT ![r] = Reading!Nothing]
      /\ paper' = paper /\ build' = build
      /\ document' = document \/ document' = Reading!Recorded(has)
  BY DEF Reading!Store, Reading!Drop
<1>4. \A q \in Readers : reader'[q] = IF q = r THEN Reading!Nothing ELSE reader[q]
  BY <1>3 DEF ReadInv, Reading!TypeOK
<1>5. reader' \in [Readers -> Readings]
  BY <1>2, <1>3 DEF ReadInv, Reading!TypeOK, Accounted, Readings
<1>6. \A q \in Readers : Accounted(reader[q])'
  BY <1>2, <1>3, <1>4 DEF ReadInv, Accounted
<1>7. CASE document' = document
  BY <1>3, <1>5, <1>6, <1>7
  DEF ReadInv, Reading!TypeOK, Reading!PartialSaysSo, Reading!TextIsOfItsHash, Readings
<1>8. CASE document' = Reading!Recorded(has)
  <2>1. /\ document'.sha = has.sha /\ document'.from = has.from
        /\ document'.text = has.text /\ document'.noted = has.noted
        /\ document'.silent = has.silent
        /\ document' = [sha |-> has.sha, from |-> has.from, pipeline |-> build,
                        text |-> has.text, noted |-> has.noted, silent |-> has.silent]
    BY <1>8 DEF Reading!Recorded
  <2>2. build \in 1 .. Builds
    BY DEF ReadInv, Reading!TypeOK
  <2>3. document' \in [sha : Drafts, from : Drafts, pipeline : 1 .. Builds,
                       text : SUBSET Reading!Pages, noted : SUBSET Reading!Pages,
                       silent : SUBSET Reading!Pages]
    BY <1>1, <2>1, <2>2 DEF Accounted, Readings
  <2>4. /\ document'.text \union document'.noted \union document'.silent = Reading!Pages
        /\ document'.noted \intersect (document'.text \union document'.silent) = {}
        /\ document'.noted # {} => document'.text # {}
        /\ paper.kind # "sheet" => document'.from = document'.sha
    BY <1>1, <2>1 DEF Accounted, Readings
  <2>5. Reading!TypeOK'
    BY <1>3, <1>5, <2>3 DEF ReadInv, Reading!TypeOK, Readings
  <2>6. Reading!PartialSaysSo' /\ Reading!TextIsOfItsHash'
    BY <1>3, <2>4 DEF Reading!PartialSaysSo, Reading!TextIsOfItsHash
  <2>7. QED
    BY <1>6, <2>5, <2>6 DEF ReadInv
<1>9. QED
  BY <1>3, <1>7, <1>8

(* Every step keeps the record that of its bytes.                          *)
LEMMA ReadingStep == ReadInv /\ [Reading!Next]_readVars => ReadInv'
<1> SUFFICES ASSUME ReadInv, [Reading!Next]_readVars PROVE ReadInv'
  OBVIOUS
<1> USE DEF Reading!TypeOK
<1>1. CASE UNCHANGED readVars
  BY <1>1 DEF readVars, ReadInv, Accounted, Reading!PartialSaysSo, Reading!TextIsOfItsHash
<1>2. ASSUME NEW r \in Readers, Reading!Reader(r) PROVE ReadInv'
  BY <1>2, StoreKeepsAccount, ReaderKeepsAccount
<1>3. CASE Reading!Remove
  BY <1>3 DEF Reading!Remove, ReadInv, Accounted, Reading!PartialSaysSo, Reading!TextIsOfItsHash
<1>4. CASE Reading!Upgrade
  <2>1. Accounted(Reading!Nothing)
    BY DEF Accounted, Reading!Nothing, Readings
  <2>2. /\ reader' = [r \in Readers |-> Reading!Nothing] /\ paper' = paper
        /\ document' = document /\ build' = build + 1 /\ build < Builds
    BY <1>4 DEF Reading!Upgrade
  <2>3. \A r \in Readers : Accounted(reader[r])'
    BY <2>1, <2>2 DEF Accounted
  <2>4. reader' \in [Readers -> Readings]
    BY <2>1, <2>2 DEF Accounted
  <2>5. build' \in 1 .. Builds
    BY <2>2, RecordsAssumption DEF ReadInv, RecordsAssumption
  <2>6. Reading!TypeOK'
    BY <2>2, <2>4, <2>5 DEF ReadInv, Readings
  <2>7. QED
    BY <2>2, <2>3, <2>6 DEF ReadInv, Reading!PartialSaysSo, Reading!TextIsOfItsHash
<1>5. ASSUME NEW c \in Drafts, Reading!Save(c) PROVE ReadInv'
  <2>1. /\ reader' = reader /\ document' = document /\ build' = build
        /\ paper' = [paper EXCEPT !.content = c] /\ paper'.kind = paper.kind
        /\ paper' \in [kind : Kinds, content : Drafts]
    BY <1>5 DEF Reading!Save, ReadInv
  <2>2. \A r \in Readers : Accounted(reader[r])'
    BY <2>1 DEF Accounted, ReadInv
  <2>3. Reading!TypeOK'
    BY <2>1 DEF ReadInv
  <2>4. QED
    BY <2>1, <2>2, <2>3 DEF ReadInv, Reading!PartialSaysSo, Reading!TextIsOfItsHash
<1>6. QED
  BY <1>1, <1>2, <1>3, <1>4, <1>5 DEF Reading!Next, readVars

-----------------------------------------------------------------------------
(* The projects with their folders.                                        *)

(* The commands: a create, an add, and what follows a change of a row.     *)
CreateSteps == {"copy", "lay out", "register", "roll back"}
Commands ==
    {Folders!Free}
    \union [at : {"allocate"} \union CreateSteps, id : Names, path : Folders!Paths]
    \union [at : {"add"}, id : Added, path : Folders!Paths]
    \union [at : {"refresh", "clear"}, id : Folders!Ids, path : Folders!Paths \union {"none"}]
    \union [at : {"remove"}, id : Folders!Ids, path : {"none"}, kept : SUBSET Chats]
Rows == [primary : Folders!Paths, folders : SUBSET Folders!Paths, approved : BOOLEAN]
Folder == [made : BOOLEAN, files : {"none", "part", "whole"}, layout : BOOLEAN]

FoldersTyped ==
    /\ dir \in [Folders!Ids -> Folder]
    /\ project \in [Folders!Ids -> Rows \union {Folders!NoRow}]
    /\ chat \in [Chats -> Folders!Ids \union {"none", "personal"}]
    /\ talk \in [Chats -> Folders!Ids \union {"none"}]
    /\ client \in [Windows -> Commands]

(* A create keeps its files in its own directory or in a folder of the     *)
(* operator; it has that directory to itself until it has registered.      *)
OwnPath(c) == client[c].path \in {client[c].id} \union Places
Creating(c) == client[c].at \in CreateSteps
CreatesOwn ==
    /\ \A c \in Windows : client[c].at = "allocate" \/ Creating(c) => OwnPath(c)
    /\ \A c \in Windows : Creating(c) =>
         dir[client[c].id].made /\ project[client[c].id] = Folders!NoRow
    /\ \A c, d \in Windows : c # d /\ Creating(c) /\ Creating(d) => client[c].id # client[d].id
    /\ \A c \in Windows :
         client[c].at \in {"lay out", "register"} /\ client[c].path \notin Places =>
             dir[client[c].id].files = "whole"

(* Only a directory that is there has files; a registered project has all  *)
(* that was copied to its own, if that is among its folders.               *)
FilesWhole ==
    /\ \A id \in Folders!Ids : ~dir[id].made => dir[id].files = "none"
    /\ \A id \in Names : project[id] # Folders!NoRow =>
         /\ dir[id].made
         /\ project[id].folders \subseteq {id} \union Places
         /\ id \in project[id].folders => dir[id].files = "whole"
    /\ \A id \in Folders!Ids : project[id] # Folders!NoRow => project[id].primary \in project[id].folders

FolderInv == FoldersTyped /\ CreatesOwn /\ FilesWhole

(* What a step may do to the files of a project, and to a conversation.    *)
FilesKept ==
    \A id \in Names : dir[id].files # "none" /\ dir'[id].files # dir[id].files =>
        ~Folders!Registered(id) /\ \E c \in Windows :
            client[c].at \in {"copy", "roll back"} /\ client[c].id = id
ChatsKept ==
    \A x \in Chats : chat[x] # "none" /\ chat'[x] = "none" =>
        \E c \in Windows :
            Folders!At(c, "remove") /\ client[c].id = chat[x] /\ x \notin client[c].kept

(* No project is there at first.                                           *)
LEMMA FoldersBegin == Folders!Init => FolderInv
<1> SUFFICES ASSUME Folders!Init PROVE FolderInv
  OBVIOUS
<1>1. FoldersTyped
  BY DEF Folders!Init, FoldersTyped, Folder, Folders!NoDir, Commands
<1>2. \A c \in Windows : client[c].at = "free"
  BY DEF Folders!Init, Folders!Free
<1>3. \A id \in Folders!Ids : project[id] = Folders!NoRow /\ dir[id].files = "none"
  BY DEF Folders!Init, Folders!NoDir
<1>4. CreatesOwn
  BY <1>2 DEF CreatesOwn, Creating, CreateSteps
<1>5. FilesWhole
  BY <1>3 DEF FilesWhole, Folders!Ids
<1>6. QED
  BY <1>1, <1>4, <1>5 DEF FolderInv

(* A row that is there has its folders.                                    *)
LEMMA RowIsThere ==
    ASSUME FolderInv, NEW id \in Folders!Ids
    PROVE  /\ project[id] = Folders!NoRow => project[id].primary = "none"
           /\ project[id] # Folders!NoRow =>
                /\ project[id] \in Rows /\ project[id].primary \in Folders!Paths
                /\ project[id].folders \subseteq Folders!Paths
BY DEF FolderInv, FoldersTyped, Rows, Folders!NoRow

(* This has the types, and what a registered project promises.             *)
LEMMA FolderTypes == FolderInv => Folders!TypeOK /\ Folders!RegisteredIsWhole
<1> SUFFICES ASSUME FolderInv PROVE Folders!TypeOK /\ Folders!RegisteredIsWhole
  OBVIOUS
<1>1. \A c \in Windows :
         \/ client[c] = Folders!Free
         \/ /\ client[c].at \in {"allocate", "copy", "lay out", "register", "roll back",
                                 "add", "refresh", "remove", "clear"}
            /\ client[c].id \in Folders!Ids /\ client[c].path \in Folders!Paths \union {"none"}
  BY DEF FolderInv, FoldersTyped, Commands, CreateSteps, Folders!Ids
<1>2. \A id \in Folders!Ids :
         \/ project[id] = Folders!NoRow
         \/ /\ project[id] \in [primary : Folders!Paths, folders : SUBSET Folders!Paths, approved : BOOLEAN]
            /\ project[id].primary \in project[id].folders
  BY DEF FolderInv, FoldersTyped, FilesWhole, Rows
<1>3. Folders!TypeOK
  BY <1>1, <1>2 DEF FolderInv, FoldersTyped, Folders!TypeOK, Folder
<1>4. Folders!RegisteredIsWhole
  BY DEF FolderInv, FilesWhole, Folders!RegisteredIsWhole, Folders!Registered, Folders!Ids
<1>5. QED
  BY <1>3, <1>4

(* What a command is at each of its steps.                                 *)
LEMMA CommandsDiffer ==
    ASSUME FolderInv, NEW c \in Windows
    PROVE  /\ client[c].at \in {"allocate"} \union CreateSteps =>
                /\ client[c] = [at |-> client[c].at, id |-> client[c].id, path |-> client[c].path]
                /\ client[c].id \in Names /\ client[c].path \in Folders!Paths
           /\ client[c].at = "add" =>
                /\ client[c] = [at |-> "add", id |-> client[c].id, path |-> client[c].path]
                /\ client[c].id \in Added /\ client[c].path \in Folders!Paths
           /\ client[c].at \in {"refresh", "clear"} => client[c].id \in Folders!Ids
           /\ client[c].at = "remove" => client[c].id \in Folders!Ids
<1> DEFINE has == client[c]
<1>1. has \in Commands
  BY DEF FolderInv, FoldersTyped
<1>2. CASE has = Folders!Free
  BY <1>2 DEF Folders!Free, CreateSteps
<1>3. CASE has \in [at : {"allocate"} \union CreateSteps, id : Names, path : Folders!Paths]
  BY <1>3 DEF CreateSteps
<1>4. CASE has \in [at : {"add"}, id : Added, path : Folders!Paths]
  BY <1>4 DEF CreateSteps
<1>5. CASE has \in [at : {"refresh", "clear"}, id : Folders!Ids,
                    path : Folders!Paths \union {"none"}]
  BY <1>5 DEF CreateSteps
<1>6. CASE has \in [at : {"remove"}, id : Folders!Ids, path : {"none"}, kept : SUBSET Chats]
  BY <1>6 DEF CreateSteps
<1>7. QED
  BY <1>1, <1>2, <1>3, <1>4, <1>5, <1>6 DEF Commands

(* Directories that are there stay, with their files.                      *)
DirsStay ==
    /\ dir' \in [Folders!Ids -> Folder]
    /\ \A id \in Folders!Ids :
         dir'[id].files = dir[id].files /\ (dir[id].made => dir'[id].made)

(* A step of one client that changes no files and no row.                  *)
LEMMA StepOfOne ==
    ASSUME FolderInv, NEW c \in Windows, NEW command \in Commands, DirsStay,
           client' = [client EXCEPT ![c] = command], UNCHANGED <<project, chat, talk>>,
           command.at = "allocate" => command.path \in {command.id} \union Places,
           command.at \in CreateSteps =>
               /\ command.at \in {"register", "roll back", "lay out"}
               /\ Creating(c) /\ command.id = client[c].id /\ command.path = client[c].path
               /\ command.at \in {"lay out", "register"} /\ command.path \notin Places =>
                      dir[command.id].files = "whole"
    PROVE  FolderInv' /\ FilesKept /\ ChatsKept
<1>1. client'[c] = command /\ \A d \in Windows \ {c} : client'[d] = client[d]
  BY DEF FolderInv, FoldersTyped
<1>2. FoldersTyped'
  BY DEF FolderInv, FoldersTyped, DirsStay
<1>0. \A d \in Windows : client[d].at \in CreateSteps \union {"allocate"} => client[d].id \in Folders!Ids
  BY CommandsDiffer DEF Folders!Ids
<1>3. CreatesOwn'
  <2> USE DEF FolderInv, CreatesOwn, Creating, OwnPath, CreateSteps
  <2>1. \A d \in Windows : client'[d].at \in CreateSteps =>
          client[d].at \in CreateSteps /\ client'[d].id = client[d].id
          /\ client'[d].path = client[d].path
    BY <1>1
  <2>2. \A d \in Windows : client'[d].at = "allocate" \/ client'[d].at \in CreateSteps =>
          client'[d].path \in {client'[d].id} \union Places
    BY <1>1, <2>1
  <2>3. \A d \in Windows :
          client'[d].at \in {"lay out", "register"} /\ client'[d].path \notin Places =>
             dir'[client'[d].id].files = "whole"
    <3> SUFFICES ASSUME NEW d \in Windows, client'[d].at \in {"lay out", "register"},
                        client'[d].path \notin Places
                 PROVE  dir'[client'[d].id].files = "whole"
      OBVIOUS
    <3>1. client'[d].at \in CreateSteps
      OBVIOUS
    <3>2. client'[d].id = client[d].id /\ client[d].id \in Folders!Ids
      BY <1>0, <2>1, <3>1
    <3>3. dir[client'[d].id].files = "whole"
      BY <1>1
    <3>4. QED
      BY <3>2, <3>3 DEF DirsStay
  <2>4. \A d \in Windows : client'[d].at \in CreateSteps =>
          dir'[client'[d].id].made /\ project[client'[d].id] = Folders!NoRow
    BY <1>0, <2>1 DEF DirsStay
  <2>5. \A d, e \in Windows :
          d # e /\ client'[d].at \in CreateSteps /\ client'[e].at \in CreateSteps =>
              client'[d].id # client'[e].id
    <3> SUFFICES ASSUME NEW d \in Windows, NEW e \in Windows, d # e,
                        client'[d].at \in CreateSteps, client'[e].at \in CreateSteps
                 PROVE  client'[d].id # client'[e].id
      OBVIOUS
    <3> HIDE DEF CreateSteps
    <3>1. client[d].at \in CreateSteps /\ client[e].at \in CreateSteps
          /\ client'[d].id = client[d].id /\ client'[e].id = client[e].id
      BY <2>1
    <3>2. client[d].id # client[e].id
      BY <3>1
    <3>3. QED
      BY <3>1, <3>2
  <2> HIDE DEF CreateSteps, FolderInv
  <2>6. QED
    BY <2>2, <2>3, <2>4, <2>5
<1>4. FilesWhole'
  BY DEF FolderInv, FilesWhole, DirsStay, Folders!Ids
<1>5. FilesKept /\ ChatsKept
  BY DEF FilesKept, ChatsKept, DirsStay, Folders!Ids
<1>6. QED
  BY <1>2, <1>3, <1>4, <1>5 DEF FolderInv

(* A step that changes rows, conversations and commands, but no directory, *)
(* and goes on with no create.                                             *)
LEMMA RowsMove ==
    ASSUME FolderInv, dir' = dir, FoldersTyped', ChatsKept,
           \A d \in Windows : client'[d] = client[d]
                             \/ client'[d].at \notin CreateSteps \union {"allocate"},
           \A d \in Windows : client'[d].at \in CreateSteps =>
                             project'[client[d].id] = Folders!NoRow,
           \A id \in Names : project'[id] # Folders!NoRow =>
               /\ dir[id].made
               /\ project'[id].folders \subseteq {id} \union Places
               /\ id \in project'[id].folders => dir[id].files = "whole",
           \A id \in Folders!Ids :
               project'[id] # Folders!NoRow => project'[id].primary \in project'[id].folders
    PROVE  FolderInv' /\ FilesKept /\ ChatsKept
<1>1. \A d \in Windows : client'[d].at \in CreateSteps \union {"allocate"} => client'[d] = client[d]
  OBVIOUS
<1>2. CreatesOwn'
  <2> USE DEF FolderInv, CreatesOwn, Creating, OwnPath
  <2>1. \A d \in Windows : client'[d].at = "allocate" \/ client'[d].at \in CreateSteps =>
          client'[d].path \in {client'[d].id} \union Places
    BY <1>1
  <2>2. \A d \in Windows :
          client'[d].at \in {"lay out", "register"} /\ client'[d].path \notin Places =>
             dir[client'[d].id].files = "whole"
    BY <1>1 DEF CreateSteps
  <2>3. \A d \in Windows : client'[d].at \in CreateSteps =>
          dir[client'[d].id].made /\ project'[client'[d].id] = Folders!NoRow
    BY <1>1
  <2>4. ASSUME NEW d \in Windows, NEW e \in Windows, d # e,
               client'[d].at \in CreateSteps, client'[e].at \in CreateSteps
        PROVE  client'[d].id # client'[e].id
    <3>1. client'[d] = client[d] /\ client'[e] = client[e]
      BY <1>1, <2>4
    <3>2. QED
      BY <2>4, <3>1
  <2> HIDE DEF FolderInv
  <2>5. QED
    BY <2>1, <2>2, <2>3, <2>4
<1>3. FilesWhole'
  BY DEF FolderInv, FilesWhole
<1>4. FilesKept
  BY DEF FilesKept
<1>5. QED
  BY <1>2, <1>3, <1>4 DEF FolderInv

(* A create goes on to a command of its own.                               *)
LEMMA GotoIsCommand ==
    ASSUME FolderInv, NEW c \in Windows, NEW step \in CreateSteps, Folders!Goto(c, step),
           client[c].at \in {"allocate"} \union CreateSteps
    PROVE  LET command == [at |-> step, id |-> client[c].id, path |-> client[c].path]
           IN  command \in Commands /\ client' = [client EXCEPT ![c] = command]
<1> DEFINE command == [at |-> step, id |-> client[c].id, path |-> client[c].path]
<1>1. /\ client[c] = [at |-> client[c].at, id |-> client[c].id, path |-> client[c].path]
      /\ client[c].id \in Names /\ client[c].path \in Folders!Paths
  BY CommandsDiffer
<1>2. [client[c] EXCEPT !.at = step] = command
  BY <1>1
<1>3. client' = [client EXCEPT ![c] = [client[c] EXCEPT !.at = step]]
  BY DEF Folders!Goto
<1>4. command \in Commands
  BY <1>1 DEF Commands
<1>5. QED
  BY <1>2, <1>3, <1>4

(* A command that is over leaves its window free.                          *)
LEMMA ReturnMoves ==
    ASSUME FolderInv, NEW c \in Windows, DirsStay, Folders!Return(c),
           UNCHANGED <<project, chat, talk>>
    PROVE  FolderInv' /\ FilesKept /\ ChatsKept
<1>1. Folders!Free \in Commands /\ Folders!Free.at = "free"
  BY DEF Commands, Folders!Free
<1>2. QED
  BY <1>1, StepOfOne DEF Folders!Return, CreateSteps

(* Directories that do not change stay.                                    *)
LEMMA DirUnchanged == FolderInv /\ dir' = dir => DirsStay
BY DEF FolderInv, FoldersTyped, DirsStay

(* To lay a folder out takes no files.                                     *)
LEMMA LayoutStays ==
    ASSUME FolderInv, NEW id \in Folders!Ids,
           \/ dir' = Folders!LaidOut(id)
           \/ dir' = [dir EXCEPT ![id].layout = FALSE]
           \/ dir' = [dir EXCEPT ![id].made = TRUE]
    PROVE  DirsStay
<1>1. dir[id] \in Folder
  BY DEF FolderInv, FoldersTyped
<1>2. /\ dir'[id] \in Folder /\ dir'[id].files = dir[id].files
      /\ dir[id].made => dir'[id].made
      /\ \A other \in Folders!Ids \ {id} : dir'[other] = dir[other]
  <2>1. CASE dir' = Folders!LaidOut(id)
    BY <1>1, <2>1 DEF Folders!LaidOut, FolderInv, FoldersTyped, Folder
  <2>2. CASE dir' = [dir EXCEPT ![id].layout = FALSE]
    BY <1>1, <2>2 DEF FolderInv, FoldersTyped, Folder
  <2>3. CASE dir' = [dir EXCEPT ![id].made = TRUE]
    BY <1>1, <2>3 DEF FolderInv, FoldersTyped, Folder
  <2>4. QED
    BY <2>1, <2>2, <2>3
<1>3. dir' \in [Folders!Ids -> Folder]
  BY <1>2 DEF FolderInv, FoldersTyped, Folders!LaidOut
<1>4. QED
  BY <1>2, <1>3 DEF DirsStay

(* A command that begins has done nothing.                                 *)
LEMMA StartsKeep ==
    ASSUME FolderInv, NEW c \in Windows, NEW id \in Folders!Ids, NEW path \in Folders!Paths,
           Folders!Create(c, id, path) \/ Folders!Add(c, id, path)
    PROVE  FolderInv' /\ FilesKept /\ ChatsKept
<1>1. UNCHANGED <<dir, project, chat, talk>> /\ DirsStay
  BY DirUnchanged DEF Folders!Create, Folders!Add
<1>2. CASE Folders!Create(c, id, path)
  <2> DEFINE command == [at |-> "allocate", id |-> id, path |-> path]
  <2>1. /\ client' = [client EXCEPT ![c] = command] /\ id \in Names
        /\ path \in {id} \union Places
    BY <1>2 DEF Folders!Create
  <2>2. command \in Commands /\ command.at \notin CreateSteps
    BY <2>1 DEF Commands, CreateSteps
  <2>3. QED
    BY <1>1, <2>1, <2>2, StepOfOne
<1>3. CASE Folders!Add(c, id, path)
  <2>1. PICK at \in {"add", "refresh"} :
          /\ client' = [client EXCEPT ![c] = [at |-> at, id |-> id, path |-> path]]
          /\ at = "add" => id \in Added
    BY <1>3 DEF Folders!Add, Folders!New
  <2>2. [at |-> at, id |-> id, path |-> path] \in Commands
    BY <2>1 DEF Commands
  <2>3. QED
    BY <1>1, <2>1, <2>2, StepOfOne DEF CreateSteps
<1>4. QED
  BY <1>2, <1>3

(* A removal first notes the conversations to keep.                        *)
LEMMA RemoveKeeps ==
    ASSUME FolderInv, NEW c \in Windows, NEW id \in Folders!Ids, NEW kept \in SUBSET Chats,
           Folders!Remove(c, id, kept)
    PROVE  FolderInv' /\ FilesKept /\ ChatsKept
<1> DEFINE command == [at |-> "remove", id |-> id, path |-> "none", kept |-> kept]
<1>1. UNCHANGED <<dir, project, chat, talk>> /\ client' = [client EXCEPT ![c] = command]
  BY DEF Folders!Remove
<1>2. command \in Commands /\ command.at = "remove"
  BY DEF Commands
<1>3. QED
  BY <1>1, <1>2, DirUnchanged, StepOfOne DEF CreateSteps

(* A create lays its folder out.                                           *)
LEMMA LayoutKeeps ==
    ASSUME FolderInv, NEW c \in Windows,
           Folders!LayOut(c) \/ Folders!Refresh(c) \/ Folders!ClearLayout(c)
    PROVE  FolderInv' /\ FilesKept /\ ChatsKept
<1> DEFINE id == client[c].id
<1>1. id \in Folders!Ids
  BY CommandsDiffer
  DEF Folders!LayOut, Folders!Refresh, Folders!ClearLayout, Folders!At, CreateSteps, Folders!Ids
<1>2. DirsStay /\ UNCHANGED <<project, chat, talk>>
  BY <1>1, LayoutStays, DirUnchanged DEF Folders!LayOut, Folders!Refresh, Folders!ClearLayout
<1>3. CASE Folders!Return(c)
  BY <1>2, <1>3, ReturnMoves
<1>4. CASE Folders!LayOut(c)
  <2>1. PICK step \in {"register", "roll back"} : Folders!Goto(c, step)
    BY <1>4 DEF Folders!LayOut
  <2> DEFINE command == [at |-> step, id |-> client[c].id, path |-> client[c].path]
  <2>2. client[c].at = "lay out"
    BY <1>4 DEF Folders!LayOut, Folders!At
  <2>3. command \in Commands /\ client' = [client EXCEPT ![c] = command]
    BY <2>1, <2>2, GotoIsCommand DEF CreateSteps
  <2>4. client[c].path \notin Places => dir[client[c].id].files = "whole"
    BY <2>2 DEF FolderInv, CreatesOwn
  <2>5. QED
    BY <1>2, <2>2, <2>3, <2>4, StepOfOne DEF Creating, CreateSteps
<1>5. QED
  BY <1>3, <1>4 DEF Folders!Refresh, Folders!ClearLayout

(* A create works in its own directory, which nobody else creates in.      *)
LEMMA OwnDirMoves ==
    ASSUME FolderInv, NEW c \in Windows, NEW id \in Names, id = client[c].id,
           NEW command \in Commands, client' = [client EXCEPT ![c] = command],
           UNCHANGED <<project, chat, talk>>, project[id] = Folders!NoRow,
           dir' \in [Folders!Ids -> Folder],
           \A other \in Folders!Ids \ {id} : dir'[other] = dir[other],
           \A d \in Windows \ {c} : Creating(d) => client[d].id # id,
           ~dir'[id].made => dir'[id].files = "none",
           dir[id].files # "none" => client[c].at \in {"copy", "roll back"},
           command.at # "allocate",
           command.at \in CreateSteps =>
               /\ command.id = id /\ command.path \in {id} \union Places /\ dir'[id].made
               /\ command.at \in {"lay out", "register"} /\ command.path \notin Places =>
                      dir'[id].files = "whole"
    PROVE  FolderInv' /\ FilesKept /\ ChatsKept
<1>1. client'[c] = command /\ \A d \in Windows \ {c} : client'[d] = client[d]
  BY DEF FolderInv, FoldersTyped
<1>2. FoldersTyped'
  BY DEF FolderInv, FoldersTyped
<1>3. ASSUME NEW d \in Windows \ {c}, client[d].at \in CreateSteps
      PROVE  client'[d] = client[d] /\ dir'[client[d].id] = dir[client[d].id]
             /\ client[d].id # id
  BY <1>1, <1>3, CommandsDiffer DEF Creating, Folders!Ids
<1>4. CreatesOwn'
  <2>1. ASSUME NEW d \in Windows, client'[d].at \in CreateSteps
        PROVE  /\ client'[d].path \in {client'[d].id} \union Places
               /\ dir'[client'[d].id].made /\ project[client'[d].id] = Folders!NoRow
               /\ client'[d].at \in {"lay out", "register"} /\ client'[d].path \notin Places =>
                      dir'[client'[d].id].files = "whole"
    <3>1. CASE d = c
      <4>1. client'[d] = command
        BY <1>1, <3>1
      <4>2. command.at \in CreateSteps
        BY <2>1, <4>1
      <4>3. command.id = id /\ command.path \in {id} \union Places
        BY <4>2
      <4>4. dir'[id].made
        BY <4>2
      <4>5. command.at \in {"lay out", "register"} /\ command.path \notin Places =>
                      dir'[id].files = "whole"
        BY <4>2
      <4>6. QED
        BY <4>1, <4>3, <4>4, <4>5
    <3>2. CASE d # c
      <4>1. /\ client[d].path \in {client[d].id} \union Places
            /\ dir[client[d].id].made /\ project[client[d].id] = Folders!NoRow
            /\ client[d].at \in {"lay out", "register"} /\ client[d].path \notin Places =>
                   dir[client[d].id].files = "whole"
        BY <1>1, <2>1, <3>2 DEF FolderInv, CreatesOwn, Creating, OwnPath
      <4>2. client'[d] = client[d] /\ dir'[client[d].id] = dir[client[d].id]
        BY <1>1, <1>3, <2>1, <3>2
      <4>3. QED
        BY <4>1, <4>2
    <3>3. QED
      BY <3>1, <3>2
  <2>2. ASSUME NEW d \in Windows, client'[d].at = "allocate"
        PROVE  client'[d].path \in {client'[d].id} \union Places
    <3>1. d # c
      BY <1>1, <2>2
    <3>2. client'[d] = client[d]
      BY <1>1, <3>1
    <3>3. OwnPath(d)
      BY <2>2, <3>2 DEF FolderInv, CreatesOwn
    <3>4. QED
      BY <3>2, <3>3 DEF OwnPath
  <2>3. ASSUME NEW d \in Windows, NEW e \in Windows, d # e,
               client'[d].at \in CreateSteps, client'[e].at \in CreateSteps
        PROVE  client'[d].id # client'[e].id
    <3>0. client'[c].at \in CreateSteps => client'[c].id = id
      <4>1. command.at \in CreateSteps => command.id = id
        OBVIOUS
      <4>2. QED
        BY <1>1, <4>1
    <3>1. \A f \in Windows \ {c} : client'[f].at \in CreateSteps =>
            client'[f] = client[f] /\ client'[f].id # id
      <4> SUFFICES ASSUME NEW f \in Windows \ {c}, client'[f].at \in CreateSteps
                   PROVE  client'[f] = client[f] /\ client'[f].id # id
        OBVIOUS
      <4>1. client'[f] = client[f]
        BY <1>1
      <4>2. QED
        BY <1>3, <4>1
    <3>2. CASE d = c
      <4>1. client'[e].id # id
        BY <2>3, <3>1, <3>2
      <4>2. client'[d].id = id
        BY <2>3, <3>0, <3>2
      <4>3. QED
        BY <4>1, <4>2
    <3>5. CASE e = c
      <4>1. client'[d].id # id
        BY <2>3, <3>1, <3>5
      <4>2. client'[e].id = id
        BY <2>3, <3>0, <3>5
      <4>3. QED
        BY <4>1, <4>2
    <3>3. CASE d # c /\ e # c
      <4>1. client'[d] = client[d] /\ client'[e] = client[e]
        BY <1>1, <3>3
      <4>2. Creating(d) /\ Creating(e)
        BY <2>3, <4>1 DEF Creating
      <4>3. client[d].id # client[e].id
        BY <2>3, <4>2 DEF FolderInv, CreatesOwn
      <4>4. QED
        BY <4>1, <4>3
    <3>4. QED
      BY <3>2, <3>3, <3>5
  <2>4. \A d \in Windows :
          client'[d].at \in {"lay out", "register"} => client'[d].at \in CreateSteps
    BY DEF CreateSteps
  <2>5. QED
    BY <2>1, <2>2, <2>3, <2>4 DEF CreatesOwn, Creating, OwnPath
<1>5. FilesWhole'
  <2>1. \A other \in Folders!Ids : ~dir'[other].made => dir'[other].files = "none"
    <3> SUFFICES ASSUME NEW other \in Folders!Ids, ~dir'[other].made
                 PROVE  dir'[other].files = "none"
      OBVIOUS
    <3>1. CASE other = id
      BY <3>1
    <3>2. CASE other # id
      <4>1. dir'[other] = dir[other]
        BY <3>2
      <4>2. QED
        BY <4>1 DEF FolderInv, FilesWhole
    <3>3. QED
      BY <3>1, <3>2
  <2>2. \A other \in Names : project[other] # Folders!NoRow => dir'[other] = dir[other]
    <3> SUFFICES ASSUME NEW other \in Names, project[other] # Folders!NoRow
                 PROVE  dir'[other] = dir[other]
      OBVIOUS
    <3>1. other # id /\ other \in Folders!Ids
      BY DEF Folders!Ids
    <3>2. QED
      BY <3>1
  <2>3. /\ \A other \in Names : project[other] # Folders!NoRow =>
              /\ dir[other].made
              /\ project[other].folders \subseteq {other} \union Places
              /\ other \in project[other].folders => dir[other].files = "whole"
        /\ \A other \in Folders!Ids :
              project[other] # Folders!NoRow => project[other].primary \in project[other].folders
    BY DEF FolderInv, FilesWhole
  <2>4. QED
    BY <2>1, <2>2, <2>3 DEF FilesWhole
<1>6. FilesKept
  BY DEF FilesKept, Folders!Ids, Folders!Registered
<1>7. ChatsKept
  BY DEF ChatsKept
<1>8. QED
  BY <1>2, <1>4, <1>5, <1>6, <1>7 DEF FolderInv

(* A create takes a directory nobody has.                                  *)
LEMMA AllocateKeeps ==
    ASSUME FolderInv, NEW c \in Windows, Folders!Allocate(c)
    PROVE  FolderInv' /\ FilesKept /\ ChatsKept
<1> DEFINE id == client[c].id
           command == [at |-> "copy", id |-> client[c].id, path |-> client[c].path]
<1>1. client[c].at = "allocate" /\ id \in Names /\ id \in Folders!Ids
      /\ client[c].path \in {id} \union Places
  BY CommandsDiffer DEF Folders!Allocate, Folders!At, Folders!Ids, FolderInv, CreatesOwn, OwnPath
<1>2. UNCHANGED <<project, chat, talk>>
  BY DEF Folders!Allocate
<1>3. CASE ~dir[id].made /\ dir' = Folders!MadeFor(c) /\ Folders!Goto(c, "copy")
  <2>1. command \in Commands /\ client' = [client EXCEPT ![c] = command]
    BY <1>1, <1>3, GotoIsCommand DEF CreateSteps
  <2>2. /\ dir' \in [Folders!Ids -> Folder] /\ dir'[id].made
        /\ \A other \in Folders!Ids \ {id} : dir'[other] = dir[other]
    BY <1>1, <1>3 DEF Folders!MadeFor, FolderInv, FoldersTyped, Folder
  <2>3. project[id] = Folders!NoRow /\ dir[id].files = "none"
    BY <1>1, <1>3 DEF FolderInv, FilesWhole
  <2>4. \A d \in Windows \ {c} : Creating(d) => client[d].id # id
    BY <1>3 DEF FolderInv, CreatesOwn
  <2>5. QED
    BY <1>1, <1>2, <2>1, <2>2, <2>3, <2>4, OwnDirMoves
<1>4. CASE Folders!Return(c) /\ dir' = [dir EXCEPT ![id].made = TRUE]
  BY <1>1, <1>2, <1>4, LayoutStays, ReturnMoves
<1>5. CASE Folders!Return(c) /\ dir' = dir
  BY <1>2, <1>5, DirUnchanged, ReturnMoves
<1>6. QED
  BY <1>3, <1>4, <1>5 DEF Folders!Allocate

(* It copies its files there.                                              *)
LEMMA CopyKeeps ==
    ASSUME FolderInv, NEW c \in Windows, Folders!Copy(c)
    PROVE  FolderInv' /\ FilesKept /\ ChatsKept
<1> DEFINE id == client[c].id
           command(step) == [at |-> step, id |-> client[c].id, path |-> client[c].path]
<1>1. /\ client[c].at = "copy" /\ Creating(c)
      /\ id \in Names /\ id \in Folders!Ids /\ client[c].path \in {id} \union Places
      /\ project[id] = Folders!NoRow /\ dir[id].made
      /\ \A d \in Windows \ {c} : Creating(d) => client[d].id # id
  BY CommandsDiffer
  DEF Folders!Copy, Folders!At, Folders!Ids, FolderInv, CreatesOwn, OwnPath, Creating, CreateSteps
<1>2. UNCHANGED <<project, chat, talk>>
  BY DEF Folders!Copy
<1>3. CASE Folders!Goto(c, "roll back") /\ dir' = dir
  <2>1. command("roll back") \in Commands /\ client' = [client EXCEPT ![c] = command("roll back")]
    BY <1>1, <1>3, GotoIsCommand DEF CreateSteps
  <2>2. QED
    BY <1>1, <1>2, <1>3, <2>1, DirUnchanged, StepOfOne
<1>4. CASE Folders!Goto(c, "lay out") /\ client[c].path \in Places /\ dir' = dir
  <2>1. command("lay out") \in Commands /\ client' = [client EXCEPT ![c] = command("lay out")]
    BY <1>1, <1>4, GotoIsCommand DEF CreateSteps
  <2>2. QED
    BY <1>1, <1>2, <1>4, <2>1, DirUnchanged, StepOfOne
<1>5. CASE Folders!Goto(c, "lay out") /\ dir' = [dir EXCEPT ![id].files = "whole"]
  <2>1. command("lay out") \in Commands /\ client' = [client EXCEPT ![c] = command("lay out")]
    BY <1>1, <1>5, GotoIsCommand DEF CreateSteps
  <2>2. /\ dir' \in [Folders!Ids -> Folder] /\ dir'[id].made /\ dir'[id].files = "whole"
        /\ \A other \in Folders!Ids \ {id} : dir'[other] = dir[other]
    BY <1>1, <1>5 DEF FolderInv, FoldersTyped, Folder
  <2>3. QED
    BY <1>1, <1>2, <2>1, <2>2, OwnDirMoves
<1>6. QED
  BY <1>3, <1>4, <1>5 DEF Folders!Copy

(* It takes only its own directory away when it fails.                     *)
LEMMA RollBackKeeps ==
    ASSUME FolderInv, NEW c \in Windows, Folders!RollBack(c)
    PROVE  FolderInv' /\ FilesKept /\ ChatsKept
<1> DEFINE id == client[c].id
<1>1. /\ client[c].at = "roll back" /\ Creating(c)
      /\ id \in Names /\ id \in Folders!Ids /\ project[id] = Folders!NoRow
      /\ \A d \in Windows \ {c} : Creating(d) => client[d].id # id
  BY CommandsDiffer
  DEF Folders!RollBack, Folders!At, Folders!Ids, FolderInv, CreatesOwn, Creating, CreateSteps
<1>2. /\ UNCHANGED <<project, chat, talk>> /\ client' = [client EXCEPT ![c] = Folders!Free]
      /\ dir' = [dir EXCEPT ![id] = Folders!NoDir]
  BY DEF Folders!RollBack, Folders!Return
<1>3. /\ dir' \in [Folders!Ids -> Folder] /\ dir'[id].files = "none"
      /\ \A other \in Folders!Ids \ {id} : dir'[other] = dir[other]
  BY <1>1, <1>2 DEF FolderInv, FoldersTyped, Folder, Folders!NoDir
<1>4. Folders!Free \in Commands /\ Folders!Free.at = "free"
  BY DEF Commands, Folders!Free
<1>5. QED
  BY <1>1, <1>2, <1>3, <1>4, OwnDirMoves DEF CreateSteps

(* The rows of projects that are as they were keep their files.            *)
LEMMA RowsAreWhole ==
    ASSUME FolderInv
    PROVE  /\ \A other \in Names : project[other] # Folders!NoRow =>
                 /\ dir[other].made
                 /\ project[other].folders \subseteq {other} \union Places
                 /\ other \in project[other].folders => dir[other].files = "whole"
           /\ \A other \in Folders!Ids : project[other] # Folders!NoRow =>
                 project[other].primary \in project[other].folders
           /\ \A d \in Windows : client[d].at \in CreateSteps =>
                 project[client[d].id] = Folders!NoRow /\ client[d].id \in Names
BY CommandsDiffer DEF FolderInv, FilesWhole, CreatesOwn, Creating

(* A window that is free has no create.                                    *)
LEMMA FreedClient ==
    ASSUME FolderInv, NEW c \in Windows, NEW command \in Commands,
           client' = [client EXCEPT ![c] = command],
           command.at \notin CreateSteps \union {"allocate"}
    PROVE  /\ client' \in [Windows -> Commands]
           /\ \A d \in Windows : d # c => client'[d] = client[d]
           /\ \A d \in Windows : client'[d] = client[d]
                               \/ client'[d].at \notin CreateSteps \union {"allocate"}
           /\ \A d \in Windows : client'[d].at \in CreateSteps =>
                               d # c /\ client[d].at \in CreateSteps
<1>1. client' \in [Windows -> Commands] /\ client'[c] = command
      /\ \A d \in Windows : d # c => client'[d] = client[d]
  BY DEF FolderInv, FoldersTyped
<1>2. QED
  BY <1>1

(* A row that is added has its directory, with all its files.              *)
LEMMA InsertKeepsRows ==
    ASSUME FolderInv, NEW c \in Windows, NEW id \in Folders!Ids, NEW path \in Folders!Paths,
           NEW approved \in BOOLEAN, id = client[c].id,
           project' = Folders!Inserted(id, path, approved),
           NEW command \in Commands, client' = [client EXCEPT ![c] = command],
           command.at \notin CreateSteps \union {"allocate"},
           id \in Names => dir[id].made /\ path \in {id} \union Places,
           id \in Names /\ path \notin Places => dir[id].files = "whole",
           \A d \in Windows \ {c} : Creating(d) => client[d].id # id,
           UNCHANGED <<dir, chat, talk>>
    PROVE  FolderInv' /\ FilesKept /\ ChatsKept
<1> DEFINE new == [primary |-> path, folders |-> {path}, approved |-> approved]
<1>1. new \in Rows /\ new.primary = path /\ new.folders = {path}
  BY DEF Rows
<1>2. /\ project' \in [Folders!Ids -> Rows \union {Folders!NoRow}]
      /\ \A other \in Folders!Ids \ {id} : project'[other] = project[other]
      /\ project'[id] = project[id] \/ project'[id] = new
  BY <1>1 DEF Folders!Inserted, FolderInv, FoldersTyped
<1> HIDE DEF new
<1>3. /\ client' \in [Windows -> Commands]
      /\ \A d \in Windows : client'[d] = client[d]
                          \/ client'[d].at \notin CreateSteps \union {"allocate"}
      /\ \A d \in Windows : client'[d].at \in CreateSteps =>
                          d # c /\ client[d].at \in CreateSteps
  BY FreedClient
<1>4. FoldersTyped' /\ ChatsKept
  BY <1>2, <1>3 DEF FolderInv, FoldersTyped, ChatsKept
<1>5. ASSUME NEW d \in Windows, client'[d].at \in CreateSteps
      PROVE  project'[client[d].id] = Folders!NoRow
  <2>1. d # c /\ Creating(d)
    BY <1>3, <1>5 DEF Creating
  <2>2. project[client[d].id] = Folders!NoRow /\ client[d].id \in Folders!Ids
    BY <2>1, RowsAreWhole DEF Creating, Folders!Ids
  <2>3. QED
    BY <1>2, <2>1, <2>2
<1>6. ASSUME NEW other \in Folders!Ids, project'[other] # Folders!NoRow
      PROVE  /\ project'[other].primary \in project'[other].folders
             /\ other \in Names =>
                  /\ dir[other].made
                  /\ project'[other].folders \subseteq {other} \union Places
                  /\ other \in project'[other].folders => dir[other].files = "whole"
  <2>1. CASE project'[other] = project[other]
    BY <1>6, <2>1, RowsAreWhole
  <2>2. CASE other = id /\ project'[id] = new
    <3>1. project'[other].primary = path /\ project'[other].folders = {path}
      BY <1>1, <2>2
    <3>2. other \in Names => other \notin Places
      BY RecordsAssumption DEF RecordsAssumption
    <3>3. other \in Names => dir[other].made /\ path \in {other} \union Places
      BY <2>2
    <3>4. other \in Names /\ path = other => dir[other].files = "whole"
      BY <2>2, <3>2
    <3>5. QED
      BY <3>1, <3>3, <3>4
  <2>3. QED
    BY <1>2, <2>1, <2>2
<1>7. \A other \in Names : other \in Folders!Ids
  BY DEF Folders!Ids
<1>8. QED
  BY <1>3, <1>4, <1>5, <1>6, <1>7, RowsMove

(* A create registers what it has made.                                    *)
LEMMA RegisterKeeps ==
    ASSUME FolderInv, NEW c \in Windows, Folders!Register(c)
    PROVE  FolderInv' /\ FilesKept /\ ChatsKept
<1> DEFINE id == client[c].id
<1>1. /\ client[c].at = "register" /\ Creating(c) /\ id \in Names /\ id \in Folders!Ids
      /\ client[c].path \in {id} \union Places /\ client[c].path \in Folders!Paths
      /\ client[c].path \notin Places => dir[id].files = "whole"
      /\ dir[id].made /\ \A d \in Windows \ {c} : Creating(d) => client[d].id # id
  BY CommandsDiffer
  DEF Folders!Register, Folders!At, Folders!Ids, FolderInv, CreatesOwn, OwnPath, Creating, CreateSteps
<1>2. CASE Folders!Goto(c, "roll back") /\ project' = project
  <2> DEFINE command == [at |-> "roll back", id |-> client[c].id, path |-> client[c].path]
  <2>1. command \in Commands /\ client' = [client EXCEPT ![c] = command]
    BY <1>1, <1>2, GotoIsCommand DEF CreateSteps
  <2>2. UNCHANGED <<dir, chat, talk>>
    BY DEF Folders!Register
  <2>3. QED
    BY <1>1, <1>2, <2>1, <2>2, DirUnchanged, StepOfOne
<1>3. CASE Folders!Return(c) /\ project' = Folders!Inserted(id, client[c].path, TRUE)
  <2>1. Folders!Free \in Commands /\ Folders!Free.at \notin CreateSteps \union {"allocate"}
    BY DEF Commands, Folders!Free, CreateSteps
  <2>2. UNCHANGED <<dir, chat, talk>> /\ client' = [client EXCEPT ![c] = Folders!Free]
    BY <1>3 DEF Folders!Register, Folders!Return
  <2>3. TRUE \in BOOLEAN
    OBVIOUS
  <2> DEFINE path == client[c].path
  <2>4. /\ id \in Names => dir[id].made /\ path \in {id} \union Places
        /\ id \in Names /\ path \notin Places => dir[id].files = "whole"
        /\ \A d \in Windows \ {c} : Creating(d) => client[d].id # id
        /\ id \in Folders!Ids /\ path \in Folders!Paths
    BY <1>1
  <2>5. project' = Folders!Inserted(id, path, TRUE)
    BY <1>3
  <2> HIDE DEF path
  <2>6. QED
    BY <2>1, <2>2, <2>3, <2>4, <2>5, InsertKeepsRows
<1>4. QED
  BY <1>2, <1>3 DEF Folders!Register

(* A folder of the operator is added as it is.                             *)
LEMMA AddRowKeeps ==
    ASSUME FolderInv, NEW c \in Windows, Folders!AddRow(c)
    PROVE  FolderInv' /\ FilesKept /\ ChatsKept
<1> DEFINE id == client[c].id
           command == [at |-> "refresh", id |-> client[c].id, path |-> client[c].path]
<1>1. /\ client[c] = [at |-> "add", id |-> client[c].id, path |-> client[c].path]
      /\ id \in Added /\ id \in Folders!Ids /\ id \notin Names /\ client[c].path \in Folders!Paths
  BY CommandsDiffer, RecordsAssumption
  DEF Folders!AddRow, Folders!At, Folders!Ids, RecordsAssumption
<1>2. CASE Folders!Return(c) /\ project' = project
  <2>1. UNCHANGED <<dir, chat, talk>>
    BY DEF Folders!AddRow
  <2>2. QED
    BY <1>2, <2>1, DirUnchanged, ReturnMoves
<1>3. CASE project' = Folders!Inserted(id, client[c].path, FALSE) /\ Folders!Goto(c, "refresh")
  <2>1. [client[c] EXCEPT !.at = "refresh"] = command
    BY <1>1
  <2>2. client' = [client EXCEPT ![c] = command]
    BY <1>3, <2>1 DEF Folders!Goto
  <2>3. command \in Commands /\ command.at \notin CreateSteps \union {"allocate"}
    BY <1>1 DEF Commands, CreateSteps
  <2>4. \A d \in Windows \ {c} : Creating(d) => client[d].id # id
    BY <1>1, CommandsDiffer DEF Creating
  <2>5. UNCHANGED <<dir, chat, talk>>
    BY DEF Folders!AddRow
  <2> HIDE DEF command
  <2>6. QED
    BY <1>1, <1>3, <2>2, <2>3, <2>4, <2>5, InsertKeepsRows
<1>4. QED
  BY <1>2, <1>3 DEF Folders!AddRow

(* An approval changes no folder.                                          *)
LEMMA ApproveKeeps ==
    ASSUME FolderInv, NEW id \in Folders!Ids, Folders!Approve(id)
    PROVE  FolderInv' /\ FilesKept /\ ChatsKept
<1>1. /\ project[id] # Folders!NoRow /\ project' = [project EXCEPT ![id].approved = TRUE]
      /\ UNCHANGED <<dir, chat, talk, client>>
  BY DEF Folders!Approve, Folders!Registered
<1>2. project[id] \in Rows
  BY <1>1, RowIsThere
<1>3. /\ project'[id] \in Rows /\ project'[id].folders = project[id].folders
      /\ project'[id].primary = project[id].primary
      /\ \A other \in Folders!Ids \ {id} : project'[other] = project[other]
      /\ project' \in [Folders!Ids -> Rows \union {Folders!NoRow}]
  BY <1>1, <1>2 DEF FolderInv, FoldersTyped, Rows
<1>4. FoldersTyped' /\ ChatsKept
  BY <1>1, <1>3 DEF FolderInv, FoldersTyped, ChatsKept
<1>5. ASSUME NEW d \in Windows, client'[d].at \in CreateSteps
      PROVE  project'[client[d].id] = Folders!NoRow
  <2>1. project[client[d].id] = Folders!NoRow /\ client[d].id \in Folders!Ids
    BY <1>1, <1>5, RowsAreWhole DEF Folders!Ids
  <2>2. QED
    BY <1>1, <1>3, <2>1
<1>6. ASSUME NEW other \in Folders!Ids, project'[other] # Folders!NoRow
      PROVE  /\ project'[other].primary \in project'[other].folders
             /\ other \in Names =>
                  /\ dir[other].made
                  /\ project'[other].folders \subseteq {other} \union Places
                  /\ other \in project'[other].folders => dir[other].files = "whole"
  <2>1. /\ project[other] # Folders!NoRow /\ project'[other].folders = project[other].folders
        /\ project'[other].primary = project[other].primary
    BY <1>1, <1>3, <1>6
  <2>2. QED
    BY <2>1, RowsAreWhole
<1>7. \A other \in Names : other \in Folders!Ids
  BY DEF Folders!Ids
<1>8. QED
  BY <1>1, <1>4, <1>5, <1>6, <1>7, RowsMove

(* An update changes the folders of a row to others of it.                 *)
LEMMA UpdateKeeps ==
    ASSUME FolderInv, NEW c \in Windows, NEW id \in Folders!Ids,
           NEW folders \in SUBSET Folders!Paths, NEW primary \in folders,
           Folders!Update(c, id, folders, primary)
    PROVE  FolderInv' /\ FilesKept /\ ChatsKept
<1> DEFINE command == [at |-> "refresh", id |-> id, path |-> primary]
<1>1. /\ project[id] # Folders!NoRow /\ primary \in Folders!Paths
      /\ folders \subseteq Places \union project[id].folders
      /\ project' = [project EXCEPT ![id].primary = primary, ![id].folders = folders]
      /\ client' = [client EXCEPT ![c] = command]
      /\ UNCHANGED <<dir, chat, talk>>
  BY DEF Folders!Update, Folders!Registered
<1>2. project[id] \in Rows
  BY <1>1, RowIsThere
<1>3. /\ project'[id] \in Rows /\ project'[id].folders = folders
      /\ project'[id].primary = primary
      /\ \A other \in Folders!Ids \ {id} : project'[other] = project[other]
      /\ project' \in [Folders!Ids -> Rows \union {Folders!NoRow}]
  BY <1>1, <1>2 DEF FolderInv, FoldersTyped, Rows
<1>4. command \in Commands /\ command.at \notin CreateSteps \union {"allocate"}
  BY <1>1 DEF Commands, CreateSteps
<1> HIDE DEF command
<1>5. /\ client' \in [Windows -> Commands]
      /\ \A d \in Windows : client'[d] = client[d]
                          \/ client'[d].at \notin CreateSteps \union {"allocate"}
      /\ \A d \in Windows : client'[d].at \in CreateSteps => client[d].at \in CreateSteps
  BY <1>1, <1>4, FreedClient
<1>6. FoldersTyped' /\ ChatsKept
  BY <1>1, <1>3, <1>5 DEF FolderInv, FoldersTyped, ChatsKept
<1>7. ASSUME NEW d \in Windows, client'[d].at \in CreateSteps
      PROVE  project'[client[d].id] = Folders!NoRow
  <2>1. project[client[d].id] = Folders!NoRow /\ client[d].id \in Folders!Ids
    BY <1>5, <1>7, RowsAreWhole DEF Folders!Ids
  <2>2. QED
    BY <1>1, <1>3, <2>1
<1>8. ASSUME NEW other \in Folders!Ids, project'[other] # Folders!NoRow
      PROVE  /\ project'[other].primary \in project'[other].folders
             /\ other \in Names =>
                  /\ dir[other].made
                  /\ project'[other].folders \subseteq {other} \union Places
                  /\ other \in project'[other].folders => dir[other].files = "whole"
  <2>1. CASE other # id
    BY <1>3, <1>8, <2>1, RowsAreWhole
  <2>2. CASE other = id
    <3>1. other \in Names => other \notin Places
      BY RecordsAssumption DEF RecordsAssumption
    <3>2. other \in Names =>
                  /\ dir[other].made
                  /\ project[other].folders \subseteq {other} \union Places
                  /\ other \in project[other].folders => dir[other].files = "whole"
      BY <1>1, <2>2, RowsAreWhole
    <3>3. QED
      BY <1>1, <1>3, <2>2, <3>1, <3>2
  <2>3. QED
    BY <2>1, <2>2
<1>9. \A other \in Names : other \in Folders!Ids
  BY DEF Folders!Ids
<1>10. QED
  BY <1>1, <1>5, <1>6, <1>7, <1>8, <1>9, RowsMove

(* Turns and new conversations touch no project.                           *)
LEMMA TalksKeep ==
    ASSUME FolderInv, NEW x \in Chats,
           Folders!Bind(x) \/ \E id \in Folders!Ids : Folders!Talk(x, id)
    PROVE  FolderInv' /\ FilesKept /\ ChatsKept
<1>1. UNCHANGED <<dir, project, client>>
  BY DEF Folders!Bind, Folders!Talk
<1>2. /\ chat' \in [Chats -> Folders!Ids \union {"none", "personal"}]
      /\ talk' \in [Chats -> Folders!Ids \union {"none"}]
      /\ \A y \in Chats : chat'[y] = chat[y] \/ chat'[y] # "none"
  BY DEF Folders!Bind, Folders!Talk, FolderInv, FoldersTyped
<1>3. FoldersTyped' /\ ChatsKept
  BY <1>1, <1>2 DEF FolderInv, FoldersTyped, ChatsKept
<1>4. QED
  BY <1>1, <1>3, RowsAreWhole, RowsMove

(* A row goes with the conversations that were not to be kept.             *)
LEMMA RemoveRowKeeps ==
    ASSUME FolderInv, NEW c \in Windows, Folders!RemoveRow(c)
    PROVE  FolderInv' /\ FilesKept /\ ChatsKept
<1> DEFINE id == client[c].id
           kept == client[c].kept
           command == [at |-> "clear", id |-> client[c].id, path |-> "none"]
<1>1. client[c].at = "remove" /\ id \in Folders!Ids /\ UNCHANGED <<dir, talk>>
  BY CommandsDiffer DEF Folders!RemoveRow, Folders!At
<1>2. CASE Folders!Return(c) /\ project' = project /\ chat' = chat
  BY <1>1, <1>2, DirUnchanged, ReturnMoves
<1>3. CASE /\ project' = [project EXCEPT ![id] = Folders!NoRow]
           /\ chat' = Folders!Deleted(id, kept)
           /\ client' = [client EXCEPT ![c] = command]
  <2>1. command \in Commands /\ command.at \notin CreateSteps \union {"allocate"}
    BY <1>1 DEF Commands, CreateSteps
  <2>2. /\ project' \in [Folders!Ids -> Rows \union {Folders!NoRow}]
        /\ \A other \in Folders!Ids : project'[other] \in {project[other], Folders!NoRow}
    BY <1>1, <1>3 DEF FolderInv, FoldersTyped
  <2>3. /\ chat' \in [Chats -> Folders!Ids \union {"none", "personal"}]
        /\ \A x \in Chats : chat[x] # "none" /\ chat'[x] = "none" => chat[x] = id /\ x \notin kept
    BY <1>3 DEF Folders!Deleted, FolderInv, FoldersTyped
  <2>4. ChatsKept
    BY <1>1, <2>3 DEF ChatsKept, Folders!At
  <2> HIDE DEF command
  <2>5. /\ client' \in [Windows -> Commands]
        /\ \A d \in Windows : client'[d] = client[d]
                            \/ client'[d].at \notin CreateSteps \union {"allocate"}
        /\ \A d \in Windows : client'[d].at \in CreateSteps => client[d].at \in CreateSteps
    BY <1>3, <2>1, FreedClient
  <2>6. FoldersTyped'
    BY <1>1, <2>2, <2>3, <2>5 DEF FolderInv, FoldersTyped
  <2>7. ASSUME NEW d \in Windows, client'[d].at \in CreateSteps
        PROVE  project'[client[d].id] = Folders!NoRow
    <3>1. project[client[d].id] = Folders!NoRow /\ client[d].id \in Folders!Ids
      BY <2>5, <2>7, RowsAreWhole DEF Folders!Ids
    <3>2. QED
      BY <2>2, <3>1
  <2>8. ASSUME NEW other \in Folders!Ids, project'[other] # Folders!NoRow
        PROVE  project'[other] = project[other]
    BY <2>2, <2>8
  <2>9. \A other \in Names : other \in Folders!Ids
    BY DEF Folders!Ids
  <2>10. /\ \A other \in Names : project'[other] # Folders!NoRow =>
               /\ dir[other].made
               /\ project'[other].folders \subseteq {other} \union Places
               /\ other \in project'[other].folders => dir[other].files = "whole"
         /\ \A other \in Folders!Ids : project'[other] # Folders!NoRow =>
               project'[other].primary \in project'[other].folders
    BY <2>8, <2>9, RowsAreWhole
  <2>11. QED
    BY <1>1, <2>4, <2>5, <2>6, <2>7, <2>10, RowsMove
<1>4. QED
  BY <1>2, <1>3 DEF Folders!RemoveRow

(* A crash leaves directories and rows as they are.                        *)
LEMMA FoldersCrash ==
    ASSUME FolderInv, Folders!Crash PROVE FolderInv' /\ FilesKept /\ ChatsKept
<1>1. /\ UNCHANGED <<dir, project, chat>> /\ talk' = [x \in Chats |-> "none"]
      /\ client' = [c \in Windows |-> Folders!Free]
  BY DEF Folders!Crash
<1>2. \A c \in Windows : client'[c].at = "free"
  BY <1>1 DEF Folders!Free
<1>3. FoldersTyped' /\ ChatsKept
  BY <1>1 DEF FolderInv, FoldersTyped, Commands, ChatsKept
<1>4. QED
  BY <1>1, <1>2, <1>3, RowsAreWhole, RowsMove DEF CreateSteps

(* Every step keeps the files of projects and what is to be kept.          *)
LEMMA FoldersStep ==
    FolderInv /\ [Folders!Next]_projectVars => FolderInv' /\ FilesKept /\ ChatsKept
<1> SUFFICES ASSUME FolderInv, [Folders!Next]_projectVars
             PROVE  FolderInv' /\ FilesKept /\ ChatsKept
  OBVIOUS
<1>1. CASE UNCHANGED projectVars
  BY <1>1
  DEF projectVars, FolderInv, FoldersTyped, CreatesOwn, OwnPath, Creating, FilesWhole,
      FilesKept, ChatsKept
<1>2. ASSUME NEW c \in Windows, Folders!Client(c) PROVE FolderInv' /\ FilesKept /\ ChatsKept
  BY <1>2, AllocateKeeps, CopyKeeps, LayoutKeeps, RegisterKeeps, RollBackKeeps, AddRowKeeps,
     RemoveRowKeeps
  DEF Folders!Client
<1>3. ASSUME NEW c \in Windows, NEW id \in Folders!Ids, Folders!Command(c, id)
      PROVE  FolderInv' /\ FilesKept /\ ChatsKept
  BY <1>3, StartsKeep, UpdateKeeps, RemoveKeeps DEF Folders!Command
<1>4. QED
  BY <1>1, <1>2, <1>3, ApproveKeeps, TalksKeep, FoldersCrash DEF Folders!Next
-----------------------------------------------------------------------------
(* All of it together: what holds of the parts in every state.             *)
WholeInv ==
    /\ ChangeInv /\ RecordInv /\ OpeningFits /\ CopyInv /\ IndexInv
    /\ OpenInv /\ ReadInv /\ FolderInv

(* What each step of the whole is to the parts.                            *)
LEMMA PartsMove ==
    [Next]_vars =>
        /\ [Changes!Next]_changeVars /\ [Records!Next]_recordVars
        /\ [Mirrors!Next]_mirrorVars /\ [Index!Next]_indexVars
        /\ [Opening!Next]_openVars /\ [Reading!Next]_readVars
        /\ [Folders!Next]_projectVars
BY DEF Next, Moves, vars

(* Every state is one the parts know.                                      *)
LEMMA WholeAlways == Spec => []WholeInv
<1>1. Init => WholeInv
  BY ChangesBegin, RecordsBegin, CopiesBegin, IndexBegins, OpeningBegins, ReadingBegins,
     FoldersBegin
  DEF Init, WholeInv
<1>2. WholeInv /\ [Next]_vars => WholeInv'
  <2>1. WholeInv /\ [Next]_vars =>
            ChangeInv' /\ RecordInv' /\ OpeningFits' /\ IndexInv' /\ OpenInv' /\ ReadInv'
            /\ FolderInv'
    BY PartsMove, ChangesStep, RecordsStep, IndexGoesOn, OpeningStep, ReadingStep, FoldersStep
    DEF WholeInv
  <2>2. WholeInv /\ [Next]_vars => CopyInv'
    BY PartsMove, CopiesStep DEF WholeInv
  <2>3. QED
    BY <2>1, <2>2 DEF WholeInv
<1>3. QED
  BY <1>1, <1>2, PTL DEF Spec

(* Every part has its types, whoever works on it.                          *)
THEOREM RecordsTyped == Spec => []TypeOK
<1>1. WholeInv => TypeOK
  <2>1. IndexInv => Index!TypeOK
    <3>1. IndexInv => IndexP!TypeOK
      BY IndexP!IndexHolds DEF IndexInv
    <3>2. QED
      BY <3>1
      DEF Index!TypeOK, IndexP!TypeOK, Index!None, IndexP!None, Index!Ids, IndexP!Ids,
          Index!Statuses, IndexP!Statuses, Index!Cardinality, IndexP!Cardinality
  <2>2. FolderInv => Folders!TypeOK
    BY FolderTypes
  <2>3. QED
    BY <2>1, <2>2
    DEF WholeInv, TypeOK, ChangeInv, RecordInv, CopyInv, KeyInv, MirrorTyped, OpenInv, ReadInv
<1>2. QED
  BY <1>1, WholeAlways, PTL

(* Discarding a change brings back what the run found, in every step of    *)
(* every behaviour, however many runs change the same file, but where the  *)
(* last change of a run found a file and the first none, or the other way. *)
THEOREM DiscardBringsBackAlways == Spec => DiscardBringsBack
<1>1. WholeInv /\ [Next]_vars =>
        [\A r \in Runs, f \in Files :
           changes[r][f] # Changes!NoEntry /\ changes'[r][f] = Changes!NoEntry =>
             /\ disk'[f] # disk[f] => disk[f] = wrote[r][f]
             /\ disk'[f] = found[r][f] \/ Changes!Turned(r, f)]_(Changes!vars)
  BY PartsMove, DiscardRestores DEF WholeInv
<1>2. QED
  BY <1>1, WholeAlways, PTL DEF Spec, DiscardBringsBack, Changes!DiscardBringsBack

(* The store is what it says it is: the schema is that of its version, a   *)
(* record that of the bytes it names, a registered project has its folder. *)
THEOREM StoreIsWholeAlways == Spec => []StoreIsWhole
<1>1. WholeInv => StoreIsWhole
  BY OpenStoreIsComplete, FolderTypes DEF WholeInv, StoreIsWhole, OpenInv, ReadInv
<1>2. QED
  BY <1>1, WholeAlways, PTL

(* No crash leaves what nobody can take up again, and one turn works in a  *)
(* chat, however many windows command the vault and wherever its root is   *)
(* moved: a sealed mirror has its key on record unless the command that    *)
(* sealed it crossed another or a disable did not see its folder.          *)
THEOREM NothingStrandedAlways == Spec => []NothingStranded
<1>1. WholeInv => NothingStranded
  BY NoGhostHolds, StoreCanBeOpened DEF WholeInv, CopyInv, KeyInv, RecordInv, NothingStranded
<1>2. QED
  BY <1>1, WholeAlways, PTL

(* What is on record stays: receipts, whenever another core opens the      *)
(* store, unless it read one as running before it settled; mirrors,        *)
(* whatever commands cross; files of projects and conversations that were  *)
(* to be kept.                                                             *)
THEOREM RecordsStayAlways == Spec => RecordsStay
<1>1. WholeInv /\ [Next]_vars =>
        [\A t \in Records!Turns :
           /\ receipt[t].status \notin {"none", "running"} =>
                  \/ receipt'[t] = receipt[t]
                  \/ /\ receipt[t].status = "settled" /\ receipt'[t].status = "interrupted"
                     /\ \E p \in Cores : Records!ReadAsRunning(p, t)
           /\ receipt'[t].status = "interrupted" /\ receipt[t].status # "interrupted" =>
                  ~Records!Alive(receipt[t].owner)]_(Records!vars)
  BY PartsMove, RecordsStep DEF WholeInv, ReceiptsKept
<1>2. WholeInv /\ [Next]_vars =>
        [\A p \in Mirrors!Paths : Mirrors!Here(p) \/ Mirrors!IsSealed(p) =>
           \/ (Mirrors!Here(p) \/ Mirrors!IsSealed(p))'
           \/ \E c \in Clients :
                 Mirrors!At(c, "remove") /\ op[c].file = p
                 /\ op[c].key \in crossed]_(Mirrors!vars)
  BY PartsMove, CopiesStep DEF WholeInv, CopiesKept
<1>3. WholeInv /\ [Next]_vars =>
        [\A id \in Names : dir[id].files # "none" /\ dir'[id].files # dir[id].files =>
           ~Folders!Registered(id) /\ \E c \in Windows :
               client[c].at \in {"copy", "roll back"} /\ client[c].id = id]_(Folders!vars)
  BY PartsMove, FoldersStep DEF WholeInv, FilesKept
<1>4. WholeInv /\ [Next]_vars =>
        [\A x \in Chats : chat[x] # "none" /\ chat'[x] = "none" =>
           \E c \in Windows :
               Folders!At(c, "remove") /\ client[c].id = chat[x]
               /\ x \notin client[c].kept]_(Folders!vars)
  BY PartsMove, FoldersStep DEF WholeInv, ChatsKept
<1>5. Spec => Records!ReceiptsHold
  BY <1>1, WholeAlways, PTL DEF Spec, Records!ReceiptsHold
<1>6. Spec => Mirrors!CopyStays
  BY <1>2, WholeAlways, PTL DEF Spec, Mirrors!CopyStays
<1>7. Spec => Folders!FilesStay
  BY <1>3, WholeAlways, PTL DEF Spec, Folders!FilesStay
<1>8. Spec => Folders!KeptChatsStay
  BY <1>4, WholeAlways, PTL DEF Spec, Folders!KeptChatsStay
<1>9. QED
  BY <1>5, <1>6, <1>7, <1>8 DEF RecordsStay
=============================================================================
