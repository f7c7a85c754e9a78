--------------------------- MODULE CloudHomeProofs ---------------------------
(***************************************************************************)
(* Theorems about CloudHome.                                               *)
(***************************************************************************)
EXTENDS CloudHome, SequenceTheorems, TLAPS

Keys == 1..MaxArchives
Stores == [secret : 0..MaxStarts, restoredFor : 0..MaxStarts, archives : Seq(Keys)]
Boxes == [gen : 0..MaxStarts, running : BOOLEAN, home : SUBSET Edits, full : BOOLEAN]
Begun == [pc : {"none", "health", "restore", "undo"}, secret : 0..MaxStarts, key : Nat]
Copies == [pc : {"none", "upload", "trim"}, tries : 0..2, gen : 0..MaxStarts,
           home : SUBSET Edits, records : Seq(Keys)]

(* Records are of archives that were uploaded, the later ones later, and no *)
(* more than are kept.                                                      *)
Listed(s, uploaded) ==
    /\ Len(s) <= KeepArchives
    /\ \A i \in 1..Len(s) : s[i] \in 1..uploaded
    /\ \A i, j \in 1..Len(s) : i < j => s[i] < s[j]

(* What makes TypeOK inductive. *)
TypeInv ==
    /\ store \in Stores
    /\ homes \in Seq(SUBSET Edits) /\ objects \subseteq DOMAIN homes
    /\ box \in Boxes
    /\ start \in Begun
    /\ arch \in [Savers -> Copies]
    /\ asleep \in {"no", "saving"}
    /\ stops \in 0..MaxStops
    /\ del \in {"no", "destroy", "purge", "release"}
    /\ behind \subseteq Savers \cup {"box"}
    /\ tainted \in BOOLEAN

Lists ==
    /\ Listed(store.archives, Len(homes))
    /\ \A h \in Savers : /\ Listed(arch[h].records, Len(homes))
                         /\ arch[h].pc = "none" => arch[h] = NoArchive
    /\ start.pc = "restore" => start.key \in DOMAIN homes

-----------------------------------------------------------------------------
(* The bounds are numbers.                                                  *)
LEMMA Bounds ==
    /\ MaxStarts \in Nat /\ MaxArchives \in Nat /\ MaxStops \in Nat /\ MaxStops > 0
    /\ KeepArchives \in Nat /\ KeepArchives >= 2
  BY KeepAssumption, BoundsAssumption

(* Where nothing is under way. *)
LEMMA Nothing ==
    /\ NoArchive \in Copies /\ NoArchive.pc = "none" /\ Len(NoArchive.records) = 0
    /\ NoStart \in Begun /\ NoStart.pc = "none"
<1>1. <<>> \in Seq(Keys) /\ Len(<<>>) = 0
  OBVIOUS
<1> QED
  BY <1>1, Bounds DEF NoArchive, NoStart, Copies, Begun

(* An attempt copies the home of a container that was filled. *)
LEMMA AttemptIs ==
    ASSUME TypeInv, NEW n \in 1..2
    PROVE  /\ Attempt(n) \in Copies
           /\ Attempt(n).records = <<>>
           /\ \/ Attempt(n) = NoArchive
              \/ /\ box.running /\ HomeRestored
                 /\ Attempt(n).pc = "upload" /\ Attempt(n).home = box.home
<1>1. <<>> \in Seq(Keys)
  OBVIOUS
<1>2. CASE box.running /\ HomeRestored /\ Len(homes) < MaxArchives
  <2>1. Attempt(n) = [pc |-> "upload", tries |-> n, gen |-> box.gen, home |-> box.home,
                      records |-> <<>>]
    BY <1>2 DEF Attempt, NoArchive
  <2>2. box.gen \in 0..MaxStarts /\ box.home \in SUBSET Edits
    BY DEF TypeInv, Boxes
  <2>3. Attempt(n) \in Copies
    BY <1>1, <2>1, <2>2 DEF Copies
  <2> QED
    BY <1>2, <2>1, <2>3
<1>3. CASE ~(box.running /\ HomeRestored /\ Len(homes) < MaxArchives)
  BY <1>3, Nothing DEF Attempt, NoArchive
<1> QED
  BY <1>2, <1>3

(* A container that ends is empty again. *)
LEMMA StoppedBox ==
    ASSUME TypeInv, BoxStops
    PROVE  /\ box' \in Boxes /\ stops' \in 0..MaxStops
           /\ box'.gen = box.gen /\ ~box'.running /\ ~box'.full /\ box'.home = {}
           /\ behind' = behind \ {"box"}
<1>1. stops' \in 0..MaxStops
  BY Bounds DEF BoxStops, TypeInv
<1>2. box' \in Boxes /\ box'.gen = box.gen /\ ~box'.running /\ ~box'.full /\ box'.home = {}
  BY DEF BoxStops, TypeInv, Boxes
<1> QED
  BY <1>1, <1>2 DEF BoxStops

(* The records of one more archive, and what is kept and deleted of them. *)
LEMMA OneMore ==
    ASSUME NEW s \in Seq(Keys), NEW n \in Nat, Listed(s, n), n + 1 \in Keys
    PROVE  LET records == Append(s, n + 1) IN
           /\ records \in Seq(Keys) /\ records # <<>>
           /\ Newest(records) = n + 1
           /\ Trimmed(records) = {} => Listed(records, n + 1)
           /\ Kept(records) \in Seq(Keys) /\ Kept(records) # <<>>
           /\ Listed(Kept(records), n + 1) /\ Newest(Kept(records)) = n + 1
           /\ \A k \in Trimmed(records) : s # <<>> /\ k = s[1] /\ k # Newest(s)
           /\ \A i \in 1..Len(Kept(records)) :
                 \/ Kept(records)[i] = n + 1
                 \/ \E j \in 1..Len(s) : Kept(records)[i] = s[j]
<1> DEFINE records == Append(s, n + 1)
<1>1. /\ records \in Seq(Keys) /\ Len(records) = Len(s) + 1 /\ Len(s) \in Nat
      /\ \A i \in 1..Len(s) : records[i] = s[i]
      /\ records[Len(s) + 1] = n + 1
  OBVIOUS
<1>2. /\ \A i \in 1..Len(records) : records[i] \in 1..(n + 1)
      /\ \A i, j \in 1..Len(records) : i < j => records[i] < records[j]
  BY <1>1 DEF Listed
<1> HIDE DEF records
<1>3. CASE Len(s) < KeepArchives
  <2>1. Trimmed(records) = {} /\ Kept(records) = records
    BY <1>1, <1>3, Bounds DEF Trimmed, Kept
  <2>2. Listed(records, n + 1)
    BY <1>1, <1>2, <1>3, Bounds DEF Listed
  <2>3. Newest(records) = n + 1 /\ records # <<>>
    BY <1>1 DEF Newest
  <2>4. \A i \in 1..Len(records) : records[i] = n + 1 \/ \E j \in 1..Len(s) : records[i] = s[j]
    BY <1>1
  <2> QED
    BY <1>1, <2>1, <2>2, <2>3, <2>4 DEF records
<1>4. CASE Len(s) = KeepArchives
  <2> DEFINE kept == Kept(records)
  <2>1. Trimmed(records) = {records[1]} /\ Len(s) >= 2
    BY <1>1, <1>4, Bounds DEF Trimmed
  <2>2. kept = SubSeq(records, 2, Len(records))
    BY <1>1, <1>4, Bounds DEF Kept
  <2>3. /\ kept \in Seq(Keys) /\ Len(kept) = Len(s)
        /\ \A i \in 1..Len(s) : kept[i] = records[i + 1]
    BY <1>1, <2>1, <2>2
  <2> HIDE DEF kept
  <2>4. Listed(kept, n + 1)
    <3>1. \A i \in 1..Len(kept) : kept[i] \in 1..(n + 1)
      BY <1>1, <1>2, <2>3
    <3>2. ASSUME NEW i \in 1..Len(kept), NEW j \in 1..Len(kept), i < j
          PROVE  kept[i] < kept[j]
      <4>1. i + 1 \in 1..Len(records) /\ j + 1 \in 1..Len(records) /\ i + 1 < j + 1
        BY <1>1, <2>3, <3>2
      <4> QED
        BY <1>2, <2>3, <4>1, <3>2
    <3> QED
      BY <1>4, <2>3, <3>1, <3>2, Bounds DEF Listed
  <2>5. /\ Newest(kept) = n + 1 /\ kept # <<>>
        /\ Newest(records) = n + 1 /\ records # <<>>
    BY <1>1, <2>1, <2>3 DEF Newest
  <2>6. s[1] # Newest(s) /\ records[1] = s[1] /\ s # <<>>
    BY <1>1, <2>1 DEF Listed, Newest
  <2>7. \A i \in 1..Len(kept) : kept[i] = n + 1 \/ \E j \in 1..Len(s) : kept[i] = s[j]
    BY <1>1, <2>3
  <2>8. /\ Trimmed(records) # {}
        /\ \A k \in Trimmed(records) : s # <<>> /\ k = s[1] /\ k # Newest(s)
    BY <2>1, <2>6
  <2> QED
    BY <1>1, <2>3, <2>4, <2>5, <2>7, <2>8 DEF records, kept
<1>5. Len(s) < KeepArchives \/ Len(s) = KeepArchives
  BY <1>1, Bounds DEF Listed
<1> QED
  BY <1>3, <1>4, <1>5 DEF records

-----------------------------------------------------------------------------
(* Every variable keeps to its values.                                      *)

(* Setting and clearing what the session stores. *)
LEMMA StoreType ==
    ASSUME TypeInv
    PROVE  /\ \A s \in 0..MaxStarts, r \in 0..MaxStarts :
                 [store EXCEPT !.secret = s, !.restoredFor = r] \in Stores
           /\ \A r \in 0..MaxStarts : [store EXCEPT !.restoredFor = r] \in Stores
           /\ \A a \in Seq(Keys) : [store EXCEPT !.archives = a] \in Stores
           /\ Cleared(store) \in Stores
           /\ [Cleared(store) EXCEPT !.archives = <<>>] \in Stores
           /\ store.secret \in 0..MaxStarts /\ 0 \in 0..MaxStarts
<1>1. 0 \in 0..MaxStarts /\ <<>> \in Seq(Keys)
  BY Bounds
<1> QED
  BY <1>1 DEF TypeInv, Stores, Cleared

(* A copy in progress changes. *)
LEMMA CopyType ==
    ASSUME TypeInv, NEW h \in Savers, NEW a \in Copies
    PROVE  [arch EXCEPT ![h] = a] \in [Savers -> Copies]
  BY DEF TypeInv

(* A record is written. *)
LEMMA RecordType ==
    ASSUME TypeInv, NEW h \in Savers, NEW records \in Seq(Keys), Record(h, records)
    PROVE  /\ store' \in Stores /\ arch' \in [Savers -> Copies]
           /\ behind' \subseteq Savers \cup {"box"} /\ tainted' \in BOOLEAN
<1>1. store' \in Stores
  BY StoreType DEF Record
<1>2. arch' \in [Savers -> Copies]
  BY Nothing, CopyType DEF Record
<1> QED
  BY <1>1, <1>2 DEF Record, TypeInv

(* An archive is uploaded: its record is written, or waits for the trim. *)
LEMMA UploadType ==
    ASSUME TypeInv, Listed(store.archives, Len(homes)), NEW h \in Savers, ArchiveUploaded(h)
    PROVE  TypeInv'
<1> DEFINE key == Len(homes) + 1
           records == Append(store.archives, key)
<1>1. /\ store.archives \in Seq(Keys) /\ Len(homes) \in Nat /\ key \in Keys
      /\ arch[h] \in Copies /\ arch[h].home \in SUBSET Edits
  BY Bounds DEF TypeInv, Stores, ArchiveUploaded, Keys, Copies
<1>2. records \in Seq(Keys) /\ Kept(records) \in Seq(Keys)
  BY <1>1, OneMore, ZenonT(60)
<1>3. /\ homes' \in Seq(SUBSET Edits) /\ Len(homes') = key
      /\ objects' \subseteq objects \cup {key}
  BY <1>1 DEF ArchiveUploaded, TypeInv
<1>4. objects' \subseteq DOMAIN homes'
  BY <1>1, <1>3 DEF TypeInv
<1>5. CASE Record(h, records)
  BY <1>2, <1>3, <1>4, <1>5, RecordType DEF ArchiveUploaded, TypeInv
<1>6. CASE /\ arch' = [arch EXCEPT ![h].pc = "trim", ![h].records = Kept(records)]
           /\ UNCHANGED <<store, history>>
  <2>1. [arch[h] EXCEPT !.pc = "trim", !.records = Kept(records)] \in Copies
    BY <1>1, <1>2 DEF Copies
  <2>2. arch' = [arch EXCEPT ![h] = [arch[h] EXCEPT !.pc = "trim", !.records = Kept(records)]]
    BY <1>6 DEF TypeInv
  <2>3. arch' \in [Savers -> Copies]
    BY <2>1, <2>2, CopyType
  <2> QED
    BY <1>3, <1>4, <1>6, <2>3 DEF ArchiveUploaded, TypeInv, history
<1> QED
  BY <1>5, <1>6 DEF ArchiveUploaded

(* A copy is begun or given up. *)
LEMMA CopyingType ==
    ASSUME TypeInv, NEW h \in Savers, behind' = Copying(h)
    PROVE  behind' \subseteq Savers \cup {"box"}
  BY DEF Copying, TypeInv

(* The steps of a start. *)
LEMMA StartType ==
    ASSUME TypeInv, Lists, Start
    PROVE  TypeInv'
<1>1. CASE StartBegins
  <2>1. start' \in Begun
    BY <1>1, Nothing DEF StartBegins, Begun
  <2>2. store' \in Stores /\ box' \in Boxes
    <3>1. CASE box.running
      BY <1>1, <3>1 DEF StartBegins, TypeInv
    <3>2. CASE ~box.running
      <4>1. box.gen + 1 \in 0..MaxStarts
        BY <1>1, <3>2, Bounds DEF StartBegins, TypeInv, Boxes
      <4>2. box' = [gen |-> box.gen + 1, running |-> TRUE, home |-> {}, full |-> FALSE]
        BY <1>1, <3>2 DEF StartBegins
      <4>3. box' \in Boxes
        BY <4>1, <4>2 DEF Boxes
      <4>4. store' = [store EXCEPT !.secret = box.gen + 1, !.restoredFor = 0]
        BY <1>1, <3>2 DEF StartBegins
      <4>5. store' \in Stores
        BY <4>1, <4>4, StoreType, Zenon
      <4> QED
        BY <4>3, <4>5
    <3> QED
      BY <3>1, <3>2
  <2> QED
    BY <1>1, <2>1, <2>2 DEF StartBegins, TypeInv, r2, history
<1>2. CASE StartHealthy
  <2>1. start' \in Begun
    <3>1. store.archives # <<>> => ToRestore \in Nat
      BY Bounds DEF ToRestore, Newest, TypeInv, Stores, Keys
    <3>2. start \in Begun /\ [start EXCEPT !.pc = "undo"] \in Begun
      BY DEF TypeInv, Begun
    <3>3. \/ start' = [start EXCEPT !.pc = "undo"]
          \/ start' = NoStart
          \/ /\ store.archives # <<>>
             /\ start' = [pc |-> "restore", secret |-> store.secret, key |-> ToRestore]
      BY <1>2 DEF StartHealthy
    <3>4. store.secret \in 0..MaxStarts
      BY StoreType
    <3>5. store.archives # <<>> =>
            [pc |-> "restore", secret |-> store.secret, key |-> ToRestore] \in Begun
      BY <3>1, <3>4 DEF Begun
    <3> QED
      BY <3>2, <3>3, <3>5, Nothing
  <2>2. store' \in Stores
    BY <1>2, StoreType DEF StartHealthy, TypeInv
  <2>3. box' \in Boxes
    BY <1>2 DEF StartHealthy, TypeInv, Boxes
  <2> QED
    BY <1>2, <2>1, <2>2, <2>3 DEF StartHealthy, TypeInv, r2, history
<1>3. CASE StartRestores
  <2>1. start' \in Begun
    BY <1>3, Nothing DEF StartRestores
  <2>2. homes[start.key] \in SUBSET Edits
    BY <1>3 DEF StartRestores, TypeInv
  <2>3. store' \in Stores /\ box' \in Boxes
    BY <1>3, <2>2, StoreType DEF StartRestores, TypeInv, Begun, Boxes
  <2>4. behind' \subseteq Savers \cup {"box"}
    BY <1>3 DEF StartRestores, TypeInv
  <2> QED
    BY <1>3, <2>1, <2>3, <2>4 DEF StartRestores, TypeInv, r2
<1>4. CASE StartFails
  BY <1>4 DEF StartFails, TypeInv, Begun, r2, history
<1>5. CASE StartUndone
  <2>1. start' \in Begun
    BY <1>5, Nothing DEF StartUndone
  <2>2. /\ box' \in Boxes /\ stops' \in 0..MaxStops
        /\ behind' \subseteq Savers \cup {"box"}
    BY <1>5, StoppedBox DEF StartUndone, Destroyed, DestroyFails, TypeInv
  <2> QED
    BY <1>5, <2>1, <2>2 DEF StartUndone, TypeInv, r2
<1> QED
  BY <1>1, <1>2, <1>3, <1>4, <1>5 DEF Start

(* The rest of them. *)
LEMMA NextType ==
    ASSUME TypeInv, Lists, [Next]_vars
    PROVE  TypeInv'
<1>1. CASE Start
  BY <1>1, StartType
<1>2. CASE OnStopped
  <2>1. stops' \in 0..MaxStops
    BY <1>2, Bounds DEF OnStopped, StopAgain, StopDone, StopFails, TypeInv
  <2>2. store' \in Stores
    BY <1>2, StoreType DEF OnStopped, StopAgain, StopDone, StopFails, TypeInv
  <2> QED
    BY <1>2, <2>1, <2>2 DEF OnStopped, StopAgain, StopDone, StopFails, TypeInv, r2, history
<1>3. ASSUME NEW h \in Savers, ArchiveUploaded(h)
      PROVE  TypeInv'
  BY <1>3, UploadType DEF Lists
<1>4. ASSUME NEW h \in Savers, ArchiveTrimmed(h)
      PROVE  TypeInv'
  <2>1. arch[h].records \in Seq(Keys)
    BY DEF TypeInv, Copies
  <2> QED
    BY <1>4, <2>1, RecordType DEF ArchiveTrimmed, TypeInv, r2
<1>5. ASSUME NEW h \in Savers, ArchiveFails(h)
      PROVE  TypeInv'
  <2>1. arch' \in [Savers -> Copies]
    BY <1>5, AttemptIs, Nothing, CopyType DEF ArchiveFails
  <2> QED
    BY <1>5, <2>1, CopyingType DEF ArchiveFails, TypeInv, r2
<1>6. CASE Alarm
  <2>1. arch' \in [Savers -> Copies]
    BY <1>6, AttemptIs, CopyType
       DEF Alarm, AlarmArchives, AlarmSleeps, SleepSaved, Savers, TypeInv
  <2>2. behind' \subseteq Savers \cup {"box"}
    BY <1>6, CopyingType, StoppedBox
       DEF Alarm, AlarmArchives, AlarmSleeps, SleepSaved, Destroyed, DestroyFails,
           Savers, TypeInv
  <2>3. box' \in Boxes /\ stops' \in 0..MaxStops
    BY <1>6, StoppedBox
       DEF Alarm, AlarmArchives, AlarmSleeps, SleepSaved, Destroyed, DestroyFails, TypeInv
  <2> QED
    BY <1>6, <2>1, <2>2, <2>3
       DEF Alarm, AlarmArchives, AlarmSleeps, SleepSaved, TypeInv, r2
<1>7. CASE Deleting
  <2>1. /\ box' \in Boxes /\ stops' \in 0..MaxStops
        /\ behind' \subseteq Savers \cup {"box"}
    BY <1>7, StoppedBox DEF Deleting, Delete, DeleteDestroys, DeletePurges, DeleteFails,
       DeleteDone, Destroyed, DestroyFails, TypeInv, history
  <2>2. store' \in Stores
    BY <1>7, StoreType DEF Deleting, Delete, DeleteDestroys, DeletePurges, DeleteFails,
       DeleteDone, TypeInv
  <2>3. homes' = homes /\ objects' \subseteq objects
    BY <1>7 DEF Deleting, Delete, DeleteDestroys, DeletePurges, DeleteFails, DeleteDone, r2
  <2> QED
    BY <1>7, <2>1, <2>2, <2>3 DEF Deleting, Delete, DeleteDestroys, DeletePurges,
       DeleteFails, DeleteDone, TypeInv, history
<1>8. CASE BoxEnds
  BY <1>8, StoppedBox DEF BoxEnds, TypeInv, r2
<1>9. CASE Evict
  <2>1. arch' \in [Savers -> Copies] /\ start' \in Begun /\ stops' \in 0..MaxStops
    BY <1>9, Nothing, Bounds DEF Evict
  <2> QED
    BY <1>9, <2>1 DEF Evict, TypeInv, r2
<1>10. ASSUME NEW e \in Edits, Edit(e)
       PROVE  TypeInv'
  <2>1. box' \in Boxes
    BY <1>10 DEF Edit, TypeInv, Boxes
  <2> QED
    BY <1>10, <2>1 DEF Edit, TypeInv, r2, handlers, history
<1>11. CASE UNCHANGED vars
  BY <1>11 DEF vars, TypeInv
<1> QED
  BY <1>1, <1>2, <1>3, <1>4, <1>5, <1>6, <1>7, <1>8, <1>9, <1>10, <1>11
     DEF Next, Archiving

-----------------------------------------------------------------------------
(* The records are those of archives that were uploaded.                    *)

(* Steps that neither upload an archive nor write its record. *)
Quiet ==
    /\ homes' = homes
    /\ store'.archives \in {store.archives, <<>>}
    /\ \A h \in Savers : \/ arch'[h] = arch[h]
                         \/ arch'[h] = NoArchive
                         \/ arch'[h].pc = "upload" /\ arch'[h].records = <<>>

(* The steps that neither upload an archive nor write its record leave R2   *)
(* alone, or purge it, which overtakes every copy in progress.              *)
Calm ==
    /\ Quiet
    /\ \/ objects' = objects
       \/ tainted' /\ \A h \in Savers : arch'[h] # NoArchive => h \in behind'
    /\ tainted /\ ~tainted' => store'.archives = <<>>
    /\ \A h \in Savers : arch'[h].pc = "trim" =>
          arch'[h] = arch[h] /\ (h \in behind => h \in behind')

(* An attempt of one copy says nothing of the other. *)
LEMMA CalmAttempt ==
    ASSUME TypeInv, NEW h \in Savers, NEW n \in 1..2,
           arch' = [arch EXCEPT ![h] = Attempt(n)] \/ arch' = [arch EXCEPT ![h] = NoArchive],
           behind' = Copying(h), UNCHANGED <<store, r2, tainted>>
    PROVE  Calm
<1>1. /\ \A o \in Savers : o # h => arch'[o] = arch[o]
      /\ arch'[h] \in {Attempt(n), NoArchive}
  BY DEF TypeInv
<1>2. NoArchive.pc = "none"
  BY Nothing
<1>3. /\ arch'[h] = NoArchive \/ arch'[h].pc = "upload"
      /\ arch'[h] = NoArchive \/ arch'[h].records = <<>>
  BY <1>1, AttemptIs
<1>4. Quiet
  BY <1>1, <1>3 DEF Quiet, r2
<1>5. ASSUME NEW o \in Savers, arch'[o].pc = "trim"
      PROVE  arch'[o] = arch[o] /\ (o \in behind => o \in behind')
  BY <1>1, <1>2, <1>3, <1>5 DEF Copying
<1> QED
  BY <1>4, <1>5 DEF Calm, r2

(* What ends a container, or does not, has nothing to do with the copies. *)
LEMMA CalmEnds ==
    ASSUME UNCHANGED <<store, r2, arch, tainted>>,
           behind' \in {behind, behind \ {"box"}}
    PROVE  Calm
<1>1. "box" \notin Savers
  BY SnapshotsAssumption DEF Savers
<1> QED
  BY <1>1 DEF Calm, Quiet, r2

(* The calm steps. *)
LEMMA CalmSteps ==
    ASSUME TypeInv, [Next]_vars
    PROVE  \/ Calm
           \/ \E h \in Savers : ArchiveUploaded(h) \/ ArchiveTrimmed(h)
<1>0. "box" \notin Savers /\ NoArchive.pc = "none"
  BY Nothing, SnapshotsAssumption DEF Savers
<1>1. CASE Start
  <2>1. /\ arch' = arch /\ tainted' = tainted /\ UNCHANGED r2
        /\ store'.archives = store.archives
        /\ behind' \in {behind, behind \ {"box"}}
    BY <1>1 DEF Start, StartBegins, StartHealthy, StartRestores, StartFails, StartUndone,
       Destroyed, DestroyFails, BoxStops, history, TypeInv, Stores
  <2> QED
    BY <1>0, <2>1 DEF Calm, Quiet, r2
<1>2. CASE OnStopped
  <2>1. /\ arch' = arch /\ UNCHANGED r2 /\ UNCHANGED history
        /\ store'.archives = store.archives
    BY <1>2 DEF OnStopped, StopAgain, StopDone, StopFails, Cleared, TypeInv, Stores
  <2> QED
    BY <2>1 DEF Calm, Quiet, r2, history
<1>3. ASSUME NEW h \in Savers, ArchiveFails(h)
      PROVE  Calm
  <2>1. /\ behind' = Copying(h) /\ UNCHANGED <<store, r2, tainted>>
        /\ \/ arch' = [arch EXCEPT ![h] = Attempt(2)]
           \/ arch' = [arch EXCEPT ![h] = NoArchive]
    BY <1>3 DEF ArchiveFails
  <2>2. 2 \in 1..2
    OBVIOUS
  <2> QED
    BY <2>1, <2>2, CalmAttempt, Zenon
<1>4. CASE (\E h \in Snapshots : AlarmArchives(h)) \/ AlarmSleeps
  <2>1. \E h \in Savers : /\ arch' = [arch EXCEPT ![h] = Attempt(1)]
                          /\ behind' = Copying(h) /\ UNCHANGED <<store, r2, tainted>>
    BY <1>4 DEF AlarmArchives, AlarmSleeps, Savers
  <2>2. 1 \in 1..2
    OBVIOUS
  <2> QED
    BY <2>1, <2>2, CalmAttempt, Zenon
<1>5. CASE SleepSaved \/ DeleteDestroys \/ BoxEnds
  BY <1>5, CalmEnds DEF SleepSaved, DeleteDestroys, BoxEnds, Destroyed, DestroyFails,
     BoxStops
<1>6. CASE Delete \/ DeleteFails
  BY <1>6, CalmEnds DEF Delete, DeleteFails, history
<1>7. CASE DeletePurges
  <2>1. \A h \in Savers : arch'[h] # NoArchive => h \in behind'
    BY <1>7 DEF DeletePurges
  <2> QED
    BY <1>7, <2>1, <1>0 DEF DeletePurges, Calm, Quiet
<1>8. CASE DeleteDone
  <2>1. store'.archives = <<>>
    BY <1>8 DEF DeleteDone, Cleared, TypeInv, Stores
  <2> QED
    BY <1>0, <1>8, <2>1 DEF DeleteDone, Calm, Quiet, r2
<1>9. CASE Evict
  BY <1>0, <1>9 DEF Evict, Calm, Quiet, r2
<1>10. ASSUME NEW e \in Edits, Edit(e)
       PROVE  Calm
  BY <1>10, CalmEnds DEF Edit, handlers, history
<1>11. CASE UNCHANGED vars
  BY <1>11, CalmEnds DEF vars, r2
<1> QED
  BY <1>1, <1>2, <1>3, <1>4, <1>5, <1>6, <1>7, <1>8, <1>9, <1>10, <1>11
     DEF Next, Archiving, Alarm, Deleting

(* What was uploaded stays uploaded. *)
LEMMA StaysListed ==
    ASSUME NEW s \in Seq(Keys), NEW m \in Nat, NEW n \in Nat, m <= n, Listed(s, m)
    PROVE  Listed(s, n)
  BY DEF Listed

(* No records. *)
LEMMA NoRecords ==
    ASSUME NEW n \in Nat
    PROVE  Listed(<<>>, n)
<1>1. Len(<<>>) = 0
  OBVIOUS
<1> QED
  BY <1>1, Bounds DEF Listed

(* What a start puts back was uploaded. *)
LEMMA StartKey ==
    ASSUME TypeInv, Lists, [Next]_vars, start'.pc = "restore"
    PROVE  start'.key \in DOMAIN homes
<1>1. CASE UNCHANGED start
  BY <1>1 DEF Lists
<1>2. CASE StartBegins \/ StartRestores \/ StartFails \/ StartUndone \/ Evict
  BY <1>2, Nothing
     DEF StartBegins, StartRestores, StartFails, StartUndone, Evict, TypeInv, Begun, NoStart
<1>3. CASE StartHealthy
  <2>1. store.archives # <<>> /\ start'.key = ToRestore
    BY <1>3, Nothing DEF StartHealthy, TypeInv, Begun
  <2>2. ToRestore \in 1..Len(homes)
    BY <2>1 DEF ToRestore, Newest, Lists, Listed, TypeInv, Stores
  <2> QED
    BY <2>1, <2>2 DEF TypeInv
<1> QED
  BY <1>1, <1>2, <1>3 DEF Next, Start, OnStopped, StopAgain, StopDone, StopFails,
     Archiving, ArchiveUploaded, ArchiveTrimmed, ArchiveFails, Alarm, AlarmArchives,
     AlarmSleeps, SleepSaved, Deleting, Delete, DeleteDestroys, DeletePurges,
     DeleteFails, DeleteDone, BoxEnds, Edit, handlers, vars

(* An upload is one more home; its record, if it is not written, is kept. *)
LEMMA UploadIs ==
    ASSUME TypeInv, Lists, NEW h \in Savers, ArchiveUploaded(h)
    PROVE  LET key == Len(homes) + 1
               records == Append(store.archives, key) IN
           /\ key \in Keys /\ key \notin DOMAIN homes
           /\ homes' \in Seq(SUBSET Edits) /\ Len(homes') = key
           /\ \A k \in DOMAIN homes : homes'[k] = homes[k] /\ k \in DOMAIN homes'
           /\ homes'[key] = arch[h].home
           /\ records \in Seq(Keys) /\ Kept(records) \in Seq(Keys)
           /\ \/ Trimmed(records) = {} /\ Record(h, records)
              \/ /\ UNCHANGED <<store, history>>
                 /\ \A o \in Savers : o # h => arch'[o] = arch[o]
                 /\ arch'[h] = [arch[h] EXCEPT !.pc = "trim", !.records = Kept(records)]
<1> DEFINE key == Len(homes) + 1
           records == Append(store.archives, key)
<1>1. /\ store.archives \in Seq(Keys) /\ Len(homes) \in Nat /\ key \in Keys
      /\ arch[h].home \in SUBSET Edits
  BY Bounds DEF TypeInv, Stores, ArchiveUploaded, Keys, Copies
<1>2. records \in Seq(Keys) /\ Kept(records) \in Seq(Keys)
  BY <1>1, OneMore, ZenonT(60) DEF Lists
<1>3. homes \in Seq(SUBSET Edits) /\ homes' = Append(homes, arch[h].home)
  BY DEF ArchiveUploaded, TypeInv
<1>4. /\ homes' \in Seq(SUBSET Edits) /\ Len(homes') = key
      /\ \A k \in DOMAIN homes : homes'[k] = homes[k] /\ k \in DOMAIN homes'
      /\ homes'[key] = arch[h].home /\ key \notin DOMAIN homes
  BY <1>1, <1>3
<1>5. \/ Trimmed(records) = {} /\ Record(h, records)
      \/ /\ UNCHANGED <<store, history>>
         /\ arch' = [arch EXCEPT ![h].pc = "trim", ![h].records = Kept(records)]
  BY DEF ArchiveUploaded
<1>6. CASE arch' = [arch EXCEPT ![h].pc = "trim", ![h].records = Kept(records)]
  <2>1. \A o \in Savers : o # h => arch'[o] = arch[o]
    BY <1>6 DEF TypeInv
  <2>2. arch'[h] = [arch[h] EXCEPT !.pc = "trim", !.records = Kept(records)]
    BY <1>6 DEF TypeInv
  <2> QED
    BY <1>1, <1>2, <1>4, <1>5, <2>1, <2>2
<1> QED
  BY <1>1, <1>2, <1>4, <1>5, <1>6

(* A record ends its copy and leaves the other one. *)
LEMMA RecordIs ==
    ASSUME TypeInv, NEW h \in Savers, NEW records, Record(h, records)
    PROVE  /\ store'.archives = records /\ store'.secret = store.secret
           /\ store'.restoredFor = store.restoredFor
           /\ arch'[h] = NoArchive
           /\ \A o \in Savers : o # h => arch'[o] = arch[o]
           /\ tainted' = (h \in behind)
  BY DEF Record, TypeInv, Stores

(* The step of Lists. *)
LEMMA NextLists ==
    ASSUME TypeInv, Lists, [Next]_vars
    PROVE  Lists'
<1>1. TypeInv'
  BY NextType
<1>2. Len(homes) \in Nat /\ Len(homes') \in Nat
  BY <1>1 DEF TypeInv
<1>3. CASE Quiet
  <2>1. Listed(store'.archives, Len(homes'))
    BY <1>2, <1>3, NoRecords DEF Quiet, Lists
  <2>2. ASSUME NEW h \in Savers
        PROVE  /\ Listed(arch'[h].records, Len(homes'))
               /\ arch'[h].pc = "none" => arch'[h] = NoArchive
    <3>1. NoArchive.records = <<>>
      BY DEF NoArchive
    <3> QED
      BY <1>2, <1>3, <3>1, NoRecords DEF Quiet, Lists
  <2>3. start'.pc = "restore" => start'.key \in DOMAIN homes'
    BY <1>3, StartKey DEF Quiet
  <2> QED
    BY <2>1, <2>2, <2>3 DEF Lists
<1>4. ASSUME NEW h \in Savers, ArchiveUploaded(h)
      PROVE  Lists'
  <2> DEFINE key == Len(homes) + 1
             records == Append(store.archives, key)
  <2>1. /\ Len(homes') = key /\ key \in Keys
        /\ \A k \in DOMAIN homes : k \in DOMAIN homes'
        /\ \/ Trimmed(records) = {} /\ Record(h, records)
           \/ /\ UNCHANGED <<store, history>>
              /\ \A o \in Savers : o # h => arch'[o] = arch[o]
              /\ arch'[h] = [arch[h] EXCEPT !.pc = "trim", !.records = Kept(records)]
    BY <1>4, UploadIs, ZenonT(60)
  <2>2. store.archives \in Seq(Keys) /\ \A o \in Savers : arch[o].records \in Seq(Keys)
    BY DEF TypeInv, Stores, Copies
  <2>3. /\ Listed(store.archives, key)
        /\ \A o \in Savers : Listed(arch[o].records, key)
    BY <1>2, <2>2, StaysListed DEF Lists
  <2>4. /\ Listed(Kept(records), key)
        /\ Trimmed(records) = {} => Listed(records, key)
    BY <1>2, <2>1, <2>2, OneMore, ZenonT(60) DEF Lists
  <2>5. start'.pc = "restore" => start'.key \in DOMAIN homes'
    BY <2>1, StartKey
  <2>6. CASE Trimmed(records) = {} /\ Record(h, records)
    <3>1. /\ store'.archives = records /\ arch'[h] = NoArchive
          /\ \A o \in Savers : o # h => arch'[o] = arch[o]
      BY <2>6, RecordIs
    <3>2. Listed(NoArchive.records, key) 
      BY <1>2, NoRecords DEF NoArchive
    <3>3. \A o \in Savers : /\ Listed(arch'[o].records, key)
                            /\ arch'[o].pc = "none" => arch'[o] = NoArchive
      BY <2>3, <3>1, <3>2 DEF Lists
    <3> QED
      BY <2>1, <2>4, <2>5, <2>6, <3>1, <3>3 DEF Lists
  <2>7. CASE /\ UNCHANGED <<store, history>>
             /\ \A o \in Savers : o # h => arch'[o] = arch[o]
             /\ arch'[h] = [arch[h] EXCEPT !.pc = "trim", !.records = Kept(records)]
    <3>1. arch'[h].pc = "trim" /\ arch'[h].records = Kept(records)
      BY <2>7 DEF TypeInv, Copies
    <3>2. \A o \in Savers : /\ Listed(arch'[o].records, key)
                            /\ arch'[o].pc = "none" => arch'[o] = NoArchive
      BY <2>3, <2>4, <2>7, <3>1 DEF Lists
    <3> QED
      BY <2>1, <2>3, <2>5, <2>7, <3>2 DEF Lists
  <2> QED
    BY <2>1, <2>6, <2>7
<1>5. ASSUME NEW h \in Savers, ArchiveTrimmed(h)
      PROVE  Lists'
  <2>1. /\ store'.archives = arch[h].records /\ arch'[h] = NoArchive
        /\ \A o \in Savers : o # h => arch'[o] = arch[o]
    BY <1>5, RecordIs DEF ArchiveTrimmed
  <2>2. homes' = homes
    BY <1>5 DEF ArchiveTrimmed, r2
  <2>3. Listed(NoArchive.records, Len(homes))
    BY <1>2, NoRecords DEF NoArchive
  <2>4. start'.pc = "restore" => start'.key \in DOMAIN homes'
    BY <2>2, StartKey
  <2> QED
    BY <2>1, <2>2, <2>3, <2>4 DEF Lists
<1> QED
  BY <1>3, <1>4, <1>5, CalmSteps DEF Calm

(* At first nothing is saved. *)
LEMMA InitType ==
    ASSUME Init
    PROVE  TypeInv /\ Lists
<1>1. /\ <<>> \in Seq(Keys) /\ Len(<<>>) = 0 /\ 0 \in 0..MaxStarts /\ 0 \in 0..MaxStops
      /\ <<>> \in Seq(SUBSET Edits)
  BY Bounds
<1>2. TypeInv
  BY <1>1, Nothing, Bounds DEF Init, TypeInv, Stores, Boxes
<1>3. Lists
  BY <1>1, Nothing, Bounds DEF Init, Lists, Listed
<1> QED
  BY <1>2, <1>3

(* userSession.ts:449-451: the types; and no more records than are kept.    *)
THEOREM TypeCorrect == Spec => []TypeOK
<1>1. Init => TypeInv /\ Lists
  BY InitType
<1>2. TypeInv /\ Lists /\ [Next]_vars => TypeInv' /\ Lists'
  BY NextType, NextLists
<1>3. TypeInv /\ Lists => TypeOK
  <2> SUFFICES ASSUME TypeInv, Lists PROVE TypeOK
    OBVIOUS
  <2>1. \A h \in Savers : arch[h].tries \in 0..2 /\ arch[h].home \subseteq Edits
    BY DEF TypeInv, Copies
  <2>2. start.pc \in {"none", "health", "restore", "undo"}
    BY DEF TypeInv, Begun
  <2> QED
    BY <2>1, <2>2 DEF TypeInv, Lists, Listed, TypeOK, Stores, Boxes, Keys
<1> QED
  BY <1>1, <1>2, <1>3, PTL DEF Spec

-----------------------------------------------------------------------------
(* A home counts as restored when it was filled under the secret it has.    *)
Filled ==
    /\ store.secret \in {0, box.gen}
    /\ ~box.running => ~box.full
    /\ ~box.full => box.home = {}
    /\ start.pc = "restore" => ~box.full /\ start.secret = box.gen
    /\ box.running => /\ HomeRestored => box.full
                      /\ box.full /\ store.secret # 0 => HomeRestored

(* A container that ends, or does not, leaves what Filled says of it. *)
LEMMA EndsFilled ==
    ASSUME TypeInv, Filled,
           UNCHANGED <<store, homes>>, start' = start \/ start'.pc # "restore",
           BoxStops \/ box' = box
    PROVE  Filled'
<1>1. CASE BoxStops
  <2>1. box'.gen = box.gen /\ ~box'.running /\ ~box'.full /\ box'.home = {}
    BY <1>1, StoppedBox
  <2> QED
    BY <2>1 DEF Filled
<1>2. CASE box' = box
  BY <1>2 DEF Filled, HomeRestored
<1> QED
  BY <1>1, <1>2

(* The secret and its home are cleared together. *)
LEMMA ClearedFilled ==
    ASSUME TypeInv, Filled, UNCHANGED <<box, start>>,
           store'.secret = 0
    PROVE  Filled'
  BY DEF Filled, HomeRestored

(* A container begins empty, under a secret no home was put back for. *)
LEMMA BeginsFilled ==
    ASSUME TypeInv, Filled, StartBegins
    PROVE  Filled'
<1>1. start'.pc # "restore"
  BY Nothing DEF StartBegins, NoStart
<1>2. CASE box.running
  BY <1>1, <1>2 DEF StartBegins, Filled, HomeRestored
<1>3. CASE ~box.running
  <2>1. box.gen \in Nat
    BY DEF TypeInv, Boxes
  <2>2. box' = [gen |-> box.gen + 1, running |-> TRUE, home |-> {}, full |-> FALSE]
    BY <1>3 DEF StartBegins
  <2>3. store' = [store EXCEPT !.secret = box.gen + 1, !.restoredFor = 0]
    BY <1>3 DEF StartBegins
  <2>4. store'.secret = box.gen + 1 /\ store'.restoredFor = 0
    BY <2>3 DEF TypeInv, Stores
  <2>5. box'.gen = box.gen + 1 /\ box'.home = {} /\ ~box'.full
    BY <2>2
  <2> QED
    BY <1>1, <2>1, <2>4, <2>5 DEF Filled, HomeRestored
<1> QED
  BY <1>2, <1>3

(* A healthy host is filled at once where nothing was ever saved. *)
LEMMA HealthyFilled ==
    ASSUME TypeInv, Filled, StartHealthy
    PROVE  Filled'
<1>1. CASE UNCHANGED <<store, box>> /\ start'.pc # "restore"
  BY <1>1 DEF Filled, HomeRestored
<1>2. CASE /\ store.secret # 0 /\ ~HomeRestored
           /\ store' = [store EXCEPT !.restoredFor = store.secret]
           /\ box' = [box EXCEPT !.full = TRUE] /\ start' = NoStart
  <2>1. store'.secret = store.secret /\ store'.restoredFor = store.secret
    BY <1>2 DEF TypeInv, Stores
  <2>2. box'.full /\ box'.gen = box.gen /\ box'.running
    BY <1>2 DEF TypeInv, Boxes, StartHealthy
  <2> QED
    BY <1>2, <2>1, <2>2, Nothing DEF Filled, HomeRestored
<1>3. CASE /\ store.secret # 0 /\ ~HomeRestored /\ UNCHANGED <<store, box>>
           /\ start' = [pc |-> "restore", secret |-> store.secret, key |-> ToRestore]
  <2>1. start'.secret = store.secret
    BY <1>3
  <2> QED
    BY <1>3, <2>1 DEF Filled, HomeRestored, StartHealthy
<1>4. start' = [start EXCEPT !.pc = "undo"] => start'.pc # "restore"
  BY DEF TypeInv, Begun
<1> QED
  BY <1>1, <1>2, <1>3, <1>4, Nothing DEF StartHealthy

(* An archive put back fills the home under the secret it was begun for. *)
LEMMA RestoresFilled ==
    ASSUME TypeInv, Filled, StartRestores
    PROVE  Filled'
<1>1. store'.secret = store.secret /\ store'.restoredFor = start.secret
  BY DEF StartRestores, TypeInv, Stores
<1>2. box'.full /\ box'.gen = box.gen /\ box'.running
  BY DEF StartRestores, TypeInv, Boxes
<1>3. start' = NoStart /\ store.secret = box.gen /\ start.secret = box.gen
  BY DEF StartRestores, Filled
<1> QED
  BY <1>1, <1>2, <1>3, Nothing DEF Filled, HomeRestored

(* An edit is of a home that was filled. *)
LEMMA EditFilled ==
    ASSUME TypeInv, Filled, NEW e \in Edits, Edit(e)
    PROVE  Filled'
<1>1. box'.full /\ box'.gen = box.gen /\ box'.running /\ box.full /\ box.running
  BY DEF Edit, TypeInv, Boxes
<1> QED
  BY <1>1 DEF Edit, Filled, HomeRestored, handlers

(* A copy, its upload and its record change neither. *)
LEMMA ArchiveFilled ==
    ASSUME TypeInv, Filled, NEW h \in Savers,
           ArchiveUploaded(h) \/ ArchiveTrimmed(h) \/ ArchiveFails(h)
    PROVE  Filled'
<1>1. UNCHANGED <<box, start>>
  BY DEF ArchiveUploaded, ArchiveTrimmed, ArchiveFails
<1>2. store'.secret = store.secret /\ store'.restoredFor = store.restoredFor
  <2>1. \/ store' = store
        \/ \E records : Record(h, records)
    BY DEF ArchiveUploaded, ArchiveTrimmed, ArchiveFails
  <2> QED
    BY <2>1, RecordIs
<1> QED
  BY <1>1, <1>2 DEF Filled, HomeRestored

(* The step of Filled. *)
LEMMA NextFilled ==
    ASSUME TypeInv, Filled, [Next]_vars
    PROVE  Filled'
<1>1. CASE Start
  <2>1. CASE StartFails
    <3>1. start'.pc # "restore"
      BY <2>1 DEF StartFails, TypeInv, Begun
    <3> QED
      BY <2>1, <3>1, EndsFilled DEF StartFails, r2
  <2>2. CASE StartUndone
    <3>1. start'.pc # "restore"
      BY <2>2, Nothing DEF StartUndone
    <3> QED
      BY <2>2, <3>1, EndsFilled DEF StartUndone, Destroyed, DestroyFails, r2
  <2> QED
    BY <1>1, <2>1, <2>2, BeginsFilled, HealthyFilled, RestoresFilled DEF Start
<1>2. CASE OnStopped
  <2>1. CASE StopDone
    <3>1. store'.secret = 0
      BY <2>1 DEF StopDone, Cleared, TypeInv, Stores
    <3> QED
      BY <2>1, <3>1, ClearedFilled DEF StopDone
  <2>2. CASE StopAgain \/ StopFails
    BY <2>2, EndsFilled DEF StopAgain, StopFails, r2
  <2> QED
    BY <1>2, <2>1, <2>2 DEF OnStopped
<1>3. CASE Alarm
  BY <1>3, EndsFilled DEF Alarm, AlarmArchives, AlarmSleeps, SleepSaved, Destroyed,
     DestroyFails, r2
<1>4. CASE Deleting
  <2>1. CASE DeleteDone
    <3>1. store'.secret = 0
      BY <2>1 DEF DeleteDone, Cleared, TypeInv, Stores
    <3> QED
      BY <2>1, <3>1, ClearedFilled DEF DeleteDone
  <2>2. CASE Delete \/ DeleteDestroys \/ DeletePurges \/ DeleteFails
    BY <2>2, EndsFilled DEF Delete, DeleteDestroys, DeletePurges, DeleteFails, Destroyed,
       DestroyFails, r2
  <2> QED
    BY <1>4, <2>1, <2>2 DEF Deleting
<1>5. CASE BoxEnds
  BY <1>5, EndsFilled DEF BoxEnds, r2
<1>6. CASE Evict
  BY <1>6, Nothing, EndsFilled DEF Evict, r2
<1>7. CASE UNCHANGED vars
  BY <1>7 DEF vars, Filled, HomeRestored
<1> QED
  BY <1>1, <1>2, <1>3, <1>4, <1>5, <1>6, <1>7, ArchiveFilled, EditFilled DEF Next, Archiving

-----------------------------------------------------------------------------
(* What was uploaded is there until a record of its own no longer names it. *)

(* An archive whose record waits for the trim is where R2 has it: in no      *)
(* other list, and there unless a deletion or another record overtook it.   *)
Uploaded ==
    \A h \in Savers : arch[h].pc = "trim" =>
        LET records == arch[h].records IN
        /\ records # <<>> /\ homes[Newest(records)] = arch[h].home
        /\ \A i \in 1..Len(store.archives) : store.archives[i] # Newest(records)
        /\ \A o \in Savers \ {h} : \A i \in 1..Len(arch[o].records) :
              arch[o].records[i] # Newest(records)
        /\ h \notin behind => Newest(records) \in objects

(* They lose nothing that was uploaded. *)
LEMMA CalmUploaded ==
    ASSUME TypeInv, Uploaded, NewestIsThere, Calm
    PROVE  Uploaded' /\ NewestIsThere'
<1>1. NewestIsThere'
  BY DEF Calm, Quiet, NewestIsThere
<1>2. ASSUME NEW h \in Savers, arch'[h].pc = "trim"
      PROVE  LET records == arch'[h].records IN
             /\ records # <<>> /\ homes'[Newest(records)] = arch'[h].home
             /\ \A i \in 1..Len(store'.archives) : store'.archives[i] # Newest(records)
             /\ \A o \in Savers \ {h} : \A i \in 1..Len(arch'[o].records) :
                   arch'[o].records[i] # Newest(records)
             /\ h \notin behind' => Newest(records) \in objects'
  <2> DEFINE records == arch[h].records
  <2>1. arch'[h] = arch[h] /\ (h \in behind => h \in behind') /\ homes' = homes
    BY <1>2 DEF Calm, Quiet
  <2>2. /\ records # <<>> /\ homes[Newest(records)] = arch[h].home
        /\ \A i \in 1..Len(store.archives) : store.archives[i] # Newest(records)
        /\ \A o \in Savers \ {h} : \A i \in 1..Len(arch[o].records) :
              arch[o].records[i] # Newest(records)
        /\ h \notin behind => Newest(records) \in objects
    BY <1>2, <2>1 DEF Uploaded
  <2>3. Len(<<>>) = 0 /\ NoArchive.records = <<>>
    BY DEF NoArchive
  <2>4. \A i \in 1..Len(store'.archives) : store'.archives[i] # Newest(records)
    <3>1. store'.archives = store.archives \/ store'.archives = <<>>
      BY DEF Calm, Quiet
    <3> QED
      BY <2>2, <2>3, <3>1
  <2>5. ASSUME NEW o \in Savers \ {h}, NEW i \in 1..Len(arch'[o].records)
        PROVE  arch'[o].records[i] # Newest(records)
    <3>1. arch'[o] = arch[o] \/ arch'[o].records = <<>>
      BY <2>3 DEF Calm, Quiet
    <3> QED
      BY <2>2, <2>3, <2>5, <3>1
  <2>6. h \notin behind' => Newest(records) \in objects'
    <3>1. NoArchive.pc = "none"
      BY Nothing
    <3> QED
      BY <1>2, <2>1, <2>2, <3>1 DEF Calm
  <2> QED
    BY <2>1, <2>2, <2>4, <2>5, <2>6
<1> QED
  BY <1>1, <1>2 DEF Uploaded

(* A record is written: its archive is there unless it was overtaken. *)
LEMMA TrimmedUploaded ==
    ASSUME TypeInv, Lists, Uploaded, NEW h \in Savers, ArchiveTrimmed(h)
    PROVE  Uploaded' /\ NewestIsThere'
<1>1. /\ store'.archives = arch[h].records /\ arch'[h] = NoArchive
      /\ \A o \in Savers : o # h => arch'[o] = arch[o]
      /\ tainted' = (h \in behind) /\ homes' = homes /\ objects' = objects
  BY RecordIs DEF ArchiveTrimmed, r2
<1>2. NewestIsThere'
  BY <1>1 DEF NewestIsThere, Uploaded, ArchiveTrimmed
<1>3. \A o \in Savers \ {h} : arch[o] # NoArchive => o \in behind'
  BY DEF ArchiveTrimmed, Record
<1>4. NoArchive.pc = "none" /\ Len(NoArchive.records) = 0
  BY Nothing
<1>5. ASSUME NEW o \in Savers, arch'[o].pc = "trim"
      PROVE  LET records == arch'[o].records IN
             /\ records # <<>> /\ homes'[Newest(records)] = arch'[o].home
             /\ \A i \in 1..Len(store'.archives) : store'.archives[i] # Newest(records)
             /\ \A p \in Savers \ {o} : \A i \in 1..Len(arch'[p].records) :
                   arch'[p].records[i] # Newest(records)
             /\ o \notin behind' => Newest(records) \in objects'
  <2> DEFINE records == arch[o].records
  <2>1. o # h /\ arch'[o] = arch[o] /\ o \in behind'
    BY <1>1, <1>3, <1>4, <1>5
  <2>2. /\ records # <<>> /\ homes[Newest(records)] = arch[o].home
        /\ \A p \in Savers \ {o} : \A i \in 1..Len(arch[p].records) :
              arch[p].records[i] # Newest(records)
    BY <1>5, <2>1 DEF Uploaded
  <2>3. \A i \in 1..Len(store'.archives) : store'.archives[i] # Newest(records)
    BY <1>1, <2>1, <2>2
  <2>4. \A p \in Savers \ {o} : \A i \in 1..Len(arch'[p].records) :
              arch'[p].records[i] # Newest(records)
    BY <1>1, <1>4, <2>2
  <2> QED
    BY <1>1, <2>1, <2>2, <2>3, <2>4
<1> QED
  BY <1>2, <1>5 DEF Uploaded

(* An upload deletes no archive but the oldest of those recorded. *)
LEMMA UploadKeeps ==
    ASSUME TypeInv, Lists, NEW h \in Savers, ArchiveUploaded(h),
           NEW k \in objects,
           \A i \in 1..Len(store.archives) : i = Len(store.archives) \/ store.archives[i] # k
    PROVE  k \in objects'
<1> DEFINE key == Len(homes) + 1
           records == Append(store.archives, key)
<1>1. objects' = (objects \cup {key}) \ Trimmed(records)
  BY DEF ArchiveUploaded
<1>2. key \in Keys
  BY UploadIs, ZenonT(60)
<1>3. store.archives \in Seq(Keys) /\ Len(homes) \in Nat
  BY DEF TypeInv, Stores
<1>4. \A t \in Trimmed(records) :
         /\ store.archives # <<>> /\ t = store.archives[1] /\ t # Newest(store.archives)
  BY <1>2, <1>3, OneMore, ZenonT(60) DEF Lists
<1>5. k \notin Trimmed(records)
  BY <1>3, <1>4 DEF Newest
<1> QED
  BY <1>1, <1>5

(* An archive is uploaded, and its record written at once or after the trim. *)
LEMMA UploadUploaded ==
    ASSUME TypeInv, Lists, Uploaded, NewestIsThere, NEW h \in Savers, ArchiveUploaded(h)
    PROVE  Uploaded' /\ NewestIsThere'
<1> DEFINE key == Len(homes) + 1
           records == Append(store.archives, key)
           kept == Kept(records)
<1>1. /\ key \in Keys /\ Len(homes') = key
      /\ \A k \in DOMAIN homes : homes'[k] = homes[k]
      /\ homes'[key] = arch[h].home
      /\ \/ Trimmed(records) = {} /\ Record(h, records)
         \/ /\ UNCHANGED <<store, history>>
            /\ \A o \in Savers : o # h => arch'[o] = arch[o]
            /\ arch'[h] = [arch[h] EXCEPT !.pc = "trim", !.records = kept]
  BY UploadIs, ZenonT(60)
<1>2. /\ store.archives \in Seq(Keys) /\ Len(homes) \in Nat /\ DOMAIN homes = 1..Len(homes)
      /\ \A o \in Savers : arch[o].records \in Seq(Keys)
      /\ Listed(store.archives, Len(homes))
      /\ \A o \in Savers : Listed(arch[o].records, Len(homes))
  BY DEF TypeInv, Stores, Copies, Lists
<1>3. /\ records \in Seq(Keys) /\ records # <<>> /\ Newest(records) = key
      /\ kept \in Seq(Keys) /\ kept # <<>> /\ Newest(kept) = key
      /\ \A i \in 1..Len(kept) :
            kept[i] = key \/ \E j \in 1..Len(store.archives) : kept[i] = store.archives[j]
      /\ \A k \in Trimmed(records) : store.archives # <<>> /\ k = store.archives[1]
  <2>1. /\ store.archives \in Seq(Keys) /\ Len(homes) \in Nat
        /\ Listed(store.archives, Len(homes)) /\ Len(homes) + 1 \in Keys
    BY <1>1, <1>2
  <2> QED
    BY <2>1, OneMore, ZenonT(60)
<1>4. key \in objects'
  <2>1. key \notin Trimmed(records)
    <3>1. \A i \in 1..Len(store.archives) : store.archives[i] < key
      BY <1>2 DEF Listed
    <3> QED
      BY <1>2, <1>3, <3>1
  <2> QED
    BY <2>1 DEF ArchiveUploaded
<1>5. ASSUME NEW o \in Savers \ {h}, arch[o].pc = "trim"
      PROVE  LET k == Newest(arch[o].records) IN
             /\ arch[o].records # <<>> /\ k \in 1..Len(homes) /\ k # key
             /\ homes'[k] = arch[o].home
             /\ \A i \in 1..Len(store.archives) : store.archives[i] # k
             /\ \A p \in Savers \ {o} : \A i \in 1..Len(arch[p].records) :
                   arch[p].records[i] # k
             /\ o \notin behind => k \in objects'
  <2> DEFINE k == Newest(arch[o].records)
  <2>1. /\ arch[o].records # <<>> /\ homes[k] = arch[o].home
        /\ \A i \in 1..Len(store.archives) : store.archives[i] # k
        /\ \A p \in Savers \ {o} : \A i \in 1..Len(arch[p].records) : arch[p].records[i] # k
        /\ o \notin behind => k \in objects
    BY <1>5 DEF Uploaded
  <2>2. k \in 1..Len(homes)
    BY <1>2, <2>1 DEF Listed, Newest
  <2>3. homes'[k] = arch[o].home /\ k # key
    BY <1>1, <1>2, <2>1, <2>2
  <2>4. o \notin behind => k \in objects'
    BY <2>1, UploadKeeps
  <2> QED
    BY <2>1, <2>2, <2>3, <2>4
<1>6. Len(NoArchive.records) = 0 /\ NoArchive.pc = "none"
  BY Nothing
<1>7. CASE Trimmed(records) = {} /\ Record(h, records)
  <2>1. /\ store'.archives = records /\ arch'[h] = NoArchive
        /\ \A o \in Savers : o # h => arch'[o] = arch[o]
    BY <1>7, RecordIs
  <2>2. NewestIsThere'
    BY <1>3, <1>4, <2>1 DEF NewestIsThere
  <2>3. \A o \in Savers \ {h} : arch[o] # NoArchive => o \in behind'
    BY <1>7 DEF Record
  <2>4. \A i \in 1..Len(records) :
           records[i] = key \/ \E j \in 1..Len(store.archives) : records[i] = store.archives[j]
    BY <1>2
  <2>5. ASSUME NEW o \in Savers, arch'[o].pc = "trim"
        PROVE  LET l == arch'[o].records IN
               /\ l # <<>> /\ homes'[Newest(l)] = arch'[o].home
               /\ \A i \in 1..Len(store'.archives) : store'.archives[i] # Newest(l)
               /\ \A p \in Savers \ {o} : \A i \in 1..Len(arch'[p].records) :
                     arch'[p].records[i] # Newest(l)
               /\ o \notin behind' => Newest(l) \in objects'
    <3> DEFINE k == Newest(arch[o].records)
    <3>1. o # h /\ arch'[o] = arch[o] /\ o \in behind'
      BY <1>6, <2>1, <2>3, <2>5
    <3>2. /\ arch[o].records # <<>> /\ k # key
          /\ homes'[k] = arch[o].home
          /\ \A i \in 1..Len(store.archives) : store.archives[i] # k
          /\ \A p \in Savers \ {o} : \A i \in 1..Len(arch[p].records) : arch[p].records[i] # k
      BY <1>5, <2>5, <3>1
    <3>3. \A i \in 1..Len(store'.archives) : store'.archives[i] # k
      BY <2>1, <2>4, <3>2
    <3>4. \A p \in Savers \ {o} : \A i \in 1..Len(arch'[p].records) : arch'[p].records[i] # k
      BY <1>6, <2>1, <3>2
    <3> QED
      BY <3>1, <3>2, <3>3, <3>4
  <2> HIDE DEF records, kept, key
  <2> QED
    BY <2>2, <2>5 DEF Uploaded
<1>8. CASE /\ UNCHANGED <<store, history>>
           /\ \A o \in Savers : o # h => arch'[o] = arch[o]
           /\ arch'[h] = [arch[h] EXCEPT !.pc = "trim", !.records = kept]
  <2>1. /\ arch'[h].pc = "trim" /\ arch'[h].records = kept /\ arch'[h].home = arch[h].home
    BY <1>8 DEF TypeInv, Copies
  <2>2. NewestIsThere'
    <3>1. CASE store.archives # <<>> /\ ~tainted
      <4>1. Newest(store.archives) \in objects
        BY <3>1 DEF NewestIsThere
      <4>2. \A i \in 1..Len(store.archives) :
               i = Len(store.archives) \/ store.archives[i] # Newest(store.archives)
        <5>1. \A i, j \in 1..Len(store.archives) :
                 i < j => store.archives[i] < store.archives[j]
          BY <1>2 DEF Listed
        <5>2. \A i \in 1..Len(store.archives) : store.archives[i] \in Nat
          BY <1>2 DEF Listed
        <5>3. Len(store.archives) \in Nat
          BY <1>2
        <5> QED
          BY <5>1, <5>2, <5>3 DEF Newest
      <4> QED
        BY <1>8, <4>1, <4>2, UploadKeeps DEF NewestIsThere
    <3> QED
      BY <1>8, <3>1 DEF NewestIsThere, history
  <2>3. /\ kept # <<>> /\ homes'[Newest(kept)] = arch'[h].home
        /\ \A i \in 1..Len(store'.archives) : store'.archives[i] # Newest(kept)
        /\ \A p \in Savers \ {h} : \A i \in 1..Len(arch'[p].records) :
              arch'[p].records[i] # Newest(kept)
        /\ Newest(kept) \in objects'
    <3>1. \A i \in 1..Len(store.archives) : store.archives[i] # key
      BY <1>2 DEF Listed
    <3>2. \A p \in Savers : \A i \in 1..Len(arch[p].records) : arch[p].records[i] # key
      BY <1>2 DEF Listed
    <3> QED
      BY <1>1, <1>3, <1>4, <1>8, <2>1, <3>1, <3>2
  <2>4. ASSUME NEW o \in Savers, arch'[o].pc = "trim", o # h
        PROVE  LET l == arch'[o].records IN
               /\ l # <<>> /\ homes'[Newest(l)] = arch'[o].home
               /\ \A i \in 1..Len(store'.archives) : store'.archives[i] # Newest(l)
               /\ \A p \in Savers \ {o} : \A i \in 1..Len(arch'[p].records) :
                     arch'[p].records[i] # Newest(l)
               /\ o \notin behind' => Newest(l) \in objects'
    <3> DEFINE k == Newest(arch[o].records)
    <3>1. arch'[o] = arch[o]
      BY <1>8, <2>4
    <3>2. /\ arch[o].records # <<>> /\ k # key
          /\ homes'[k] = arch[o].home
          /\ \A i \in 1..Len(store.archives) : store.archives[i] # k
          /\ \A p \in Savers \ {o} : \A i \in 1..Len(arch[p].records) : arch[p].records[i] # k
          /\ o \notin behind => k \in objects'
      BY <1>5, <2>4, <3>1
    <3>3. \A i \in 1..Len(kept) : kept[i] # k
      BY <1>3, <3>2
    <3>4. \A p \in Savers \ {o} : \A i \in 1..Len(arch'[p].records) : arch'[p].records[i] # k
      <4>1. ASSUME NEW p \in Savers \ {o}, NEW i \in 1..Len(arch'[p].records)
            PROVE  arch'[p].records[i] # k
        <5>1. CASE p = h
          BY <2>1, <3>3, <4>1, <5>1
        <5>2. CASE p # h
          BY <1>8, <3>2, <4>1, <5>2
        <5> QED
          BY <5>1, <5>2
      <4> QED
        BY <4>1
    <3>5. store' = store /\ behind' = behind
      BY <1>8 DEF history
    <3> QED
      BY <3>1, <3>2, <3>4, <3>5
  <2> HIDE DEF records, kept, key
  <2> QED
    BY <2>1, <2>2, <2>3, <2>4 DEF Uploaded
<1> QED
  BY <1>1, <1>7, <1>8

(* The step of both. *)
LEMMA NextUploaded ==
    ASSUME TypeInv, Lists, Uploaded, NewestIsThere, [Next]_vars
    PROVE  Uploaded' /\ NewestIsThere'
  BY CalmSteps, CalmUploaded, TrimmedUploaded, UploadUploaded

(* At first nothing was filled or uploaded. *)
LEMMA InitAll ==
    ASSUME Init
    PROVE  TypeInv /\ Lists /\ Filled /\ Uploaded /\ NewestIsThere
<1>1. TypeInv /\ Lists
  BY InitType
<1>2. Filled /\ Uploaded /\ NewestIsThere
  BY Nothing DEF Init, Filled, Uploaded, NewestIsThere, HomeRestored
<1> QED
  BY <1>1, <1>2

(* userSession.ts:430-433: the archive a start puts back is there, or no      *)
(* start ever succeeds again; unless a deletion purged R2 and then failed,  *)
(* or an archive it overtook was recorded after it.                         *)
THEOREM NewestStays == Spec => []NewestIsThere
<1> DEFINE I == TypeInv /\ Lists /\ Uploaded /\ NewestIsThere
<1>1. Init => I
  BY InitAll
<1>2. I /\ [Next]_vars => I'
  BY NextType, NextLists, NextUploaded
<1> QED
  BY <1>1, <1>2, PTL DEF Spec

-----------------------------------------------------------------------------
(* What the newest archive has the homes and copies in use have.            *)

(* A home that was filled has it, and the archive it is being filled from.   *)
BoxCovers ==
    box.running /\ "box" \notin behind /\ store.archives # <<>> =>
        IF HomeRestored
        THEN homes[Newest(store.archives)] \subseteq box.home
        ELSE start.pc = "restore" =>
               homes[Newest(store.archives)] \subseteq homes[start.key]

(* A copy has it. *)
SaversCover ==
    \A h \in Savers :
        arch[h].pc # "none" /\ h \notin behind /\ store.archives # <<>> =>
            homes[Newest(store.archives)] \subseteq arch[h].home

Covered == BoxCovers /\ SaversCover

(* A container left alone, and one that ends, are covered as before. *)
LEMMA BoxAlone ==
    ASSUME BoxCovers, UNCHANGED <<store, homes>>,
           start' = start \/ start'.pc # "restore",
           \/ ~box'.running
           \/ box' = box /\ ("box" \in behind => "box" \in behind')
    PROVE  BoxCovers'
  BY DEF BoxCovers, HomeRestored

(* Copies left alone, or given up, are covered as before. *)
LEMMA SaversAlone ==
    ASSUME SaversCover, UNCHANGED homes, store'.archives \in {store.archives, <<>>},
           \A h \in Savers : \/ arch'[h] = NoArchive
                             \/ arch'[h] = arch[h] /\ (h \in behind => h \in behind')
    PROVE  SaversCover'
<1>1. NoArchive.pc = "none"
  BY Nothing
<1> QED
  BY <1>1 DEF SaversCover

(* Of a home that is covered a copy is covered. *)
LEMMA AttemptCovered ==
    ASSUME TypeInv, Covered, NEW h \in Savers, NEW n \in 1..2,
           arch' = [arch EXCEPT ![h] = Attempt(n)] \/ arch' = [arch EXCEPT ![h] = NoArchive],
           behind' = Copying(h), UNCHANGED <<store, r2, box, start>>
    PROVE  Covered'
<1>1. /\ \A o \in Savers : o # h => arch'[o] = arch[o]
      /\ arch'[h] \in {Attempt(n), NoArchive}
  BY DEF TypeInv
<1>2. "box" \notin Savers
  BY SnapshotsAssumption DEF Savers
<1>3. BoxCovers'
  BY <1>2, BoxAlone DEF Covered, Copying, r2
<1>4. ASSUME NEW o \in Savers,
             arch'[o].pc # "none", o \notin behind', store'.archives # <<>>
      PROVE  homes'[Newest(store'.archives)] \subseteq arch'[o].home
  <2>1. CASE o # h
    BY <1>1, <1>4, <2>1 DEF Copying, Covered, SaversCover, r2
  <2>2. CASE o = h
    <3>1. arch'[h] # NoArchive
      BY <1>4, <2>2, Nothing
    <3>2. "box" \notin behind
      BY <1>4, <2>2, <3>1 DEF Copying
    <3>3. box.running /\ HomeRestored /\ arch'[h].home = box.home
      BY <1>1, <3>1, AttemptIs
    <3> QED
      BY <1>4, <2>2, <3>2, <3>3 DEF Covered, BoxCovers, r2
  <2> QED
    BY <2>1, <2>2
<1> QED
  BY <1>3, <1>4 DEF Covered, SaversCover

(* A home that was written down covers what is in use, or overtakes it. *)
LEMMA RecordCovered ==
    ASSUME TypeInv, Filled, NEW h \in Savers, NEW records, Record(h, records),
           UNCHANGED <<box, start>>,
           homes'[Newest(records)] = arch[h].home
    PROVE  Covered'
<1>1. /\ store'.archives = records /\ arch'[h] = NoArchive
      /\ \A o \in Savers : o # h => arch'[o] = arch[o]
      /\ store'.secret = store.secret /\ store'.restoredFor = store.restoredFor
  BY RecordIs
<1>2. /\ \A o \in Savers \ {h} : arch[o] # NoArchive => o \in behind'
      /\ "box" \notin behind' => arch[h].home \subseteq box.home
  BY DEF Record
<1>3. SaversCover'
  BY <1>1, <1>2, Nothing DEF SaversCover
<1>4. BoxCovers'
  <2> SUFFICES ASSUME box.running, "box" \notin behind'
               PROVE  IF HomeRestored
                      THEN arch[h].home \subseteq box.home
                      ELSE start.pc = "restore" => arch[h].home \subseteq homes'[start.key]
    BY <1>1 DEF BoxCovers, HomeRestored
  <2>1. arch[h].home \subseteq box.home
    BY <1>2
  <2>2. start.pc = "restore" => box.home = {}
    BY DEF Filled
  <2> QED
    BY <2>1, <2>2
<1> QED
  BY <1>3, <1>4 DEF Covered

(* One more home in R2 leaves the others. *)
LEMMA UploadCovered ==
    ASSUME TypeInv, Lists, Filled, Covered, NEW h \in Savers, ArchiveUploaded(h)
    PROVE  Covered'
<1> DEFINE key == Len(homes) + 1
           records == Append(store.archives, key)
           kept == Kept(records)
<1>1. /\ key \in Keys
      /\ \A k \in DOMAIN homes : homes'[k] = homes[k]
      /\ homes'[key] = arch[h].home
      /\ \/ Trimmed(records) = {} /\ Record(h, records)
         \/ /\ UNCHANGED <<store, history>>
            /\ \A o \in Savers : o # h => arch'[o] = arch[o]
            /\ arch'[h] = [arch[h] EXCEPT !.pc = "trim", !.records = kept]
  BY UploadIs, ZenonT(60)
<1>2. UNCHANGED <<box, start>>
  BY DEF ArchiveUploaded
<1>3. CASE Trimmed(records) = {} /\ Record(h, records)
  <2>1. /\ store.archives \in Seq(Keys) /\ Len(homes) \in Nat
        /\ Listed(store.archives, Len(homes)) /\ Len(homes) + 1 \in Keys
    BY <1>1 DEF TypeInv, Stores, Lists
  <2>2. Newest(records) = key
    BY <2>1, OneMore, ZenonT(60)
  <2>3. homes'[Newest(records)] = arch[h].home
    BY <1>1, <2>2
  <2> HIDE DEF records, kept, key
  <2> QED
    BY <1>2, <1>3, <2>3, RecordCovered
<1>4. CASE /\ UNCHANGED <<store, history>>
           /\ \A o \in Savers : o # h => arch'[o] = arch[o]
           /\ arch'[h] = [arch[h] EXCEPT !.pc = "trim", !.records = kept]
  <2>1. arch'[h].home = arch[h].home /\ arch[h].pc = "upload"
    BY <1>4 DEF TypeInv, Copies, ArchiveUploaded
  <2>2. store.archives # <<>> => Newest(store.archives) \in DOMAIN homes
    BY DEF TypeInv, Stores, Lists, Listed, Newest
  <2>3. start.pc = "restore" => start.key \in DOMAIN homes
    BY DEF Lists
  <2>4. BoxCovers'
    BY <1>1, <1>2, <1>4, <2>2, <2>3 DEF Covered, BoxCovers, HomeRestored, history
  <2>5. SaversCover'
    <3>1. ASSUME NEW o \in Savers, arch'[o].pc # "none", o \notin behind,
                 store.archives # <<>>
          PROVE  homes'[Newest(store.archives)] \subseteq arch'[o].home
      <4>1. arch[o].pc # "none" /\ arch'[o].home = arch[o].home
        BY <1>4, <2>1, <3>1
      <4> QED
        BY <1>1, <2>2, <3>1, <4>1 DEF Covered, SaversCover
    <3> QED
      BY <1>4, <3>1 DEF SaversCover, history
  <2> QED
    BY <2>4, <2>5 DEF Covered
<1> QED
  BY <1>1, <1>3, <1>4

(* A record is written after the trim. *)
LEMMA TrimmedCovered ==
    ASSUME TypeInv, Filled, Uploaded, NEW h \in Savers, ArchiveTrimmed(h)
    PROVE  Covered'
<1>1. homes'[Newest(arch[h].records)] = arch[h].home
  BY DEF ArchiveTrimmed, Uploaded, r2
<1> QED
  BY <1>1, RecordCovered DEF ArchiveTrimmed

(* A start fills a home that is covered. *)
LEMMA StartCovered ==
    ASSUME TypeInv, Filled, Covered, Start
    PROVE  Covered'
<1>0. "box" \notin Savers /\ NoStart.pc # "restore"
  BY Nothing, SnapshotsAssumption DEF Savers
<1>1. CASE StartBegins
  <2>1. UNCHANGED <<homes, arch, behind>> /\ store'.archives = store.archives
    BY <1>1 DEF StartBegins, r2, history, TypeInv, Stores
  <2>2. start'.pc # "restore"
    BY <1>1, Nothing DEF StartBegins, NoStart
  <2>3. CASE box.running
    <3>1. BoxCovers'
      BY <1>1, <2>1, <2>2, <2>3, BoxAlone DEF StartBegins, Covered
    <3> QED
      BY <2>1, <3>1, SaversAlone DEF Covered
  <2>4. CASE ~box.running
    <3>1. store' = [store EXCEPT !.secret = box.gen + 1, !.restoredFor = 0]
      BY <1>1, <2>4 DEF StartBegins
    <3>2. store'.secret = box.gen + 1 /\ store'.restoredFor = 0 /\ box.gen \in Nat
      BY <3>1 DEF TypeInv, Stores, Boxes
    <3>3. ~HomeRestored'
      BY <3>2 DEF HomeRestored
    <3>4. BoxCovers'
      BY <2>2, <3>3 DEF BoxCovers
    <3> QED
      BY <2>1, <3>4, SaversAlone DEF Covered
  <2> QED
    BY <2>3, <2>4
<1>2. CASE StartHealthy
  <2>1. UNCHANGED <<homes, arch, behind>> /\ store'.archives = store.archives
    BY <1>2 DEF StartHealthy, r2, history, TypeInv, Stores
  <2>2. SaversCover'
    BY <2>1, SaversAlone DEF Covered
  <2>3. start' = [start EXCEPT !.pc = "undo"] => start'.pc # "restore"
    BY DEF TypeInv, Begun
  <2>4. CASE UNCHANGED <<store, box>> /\ start'.pc # "restore"
    BY <2>1, <2>2, <2>4, BoxAlone DEF Covered
  <2>5. CASE store.archives = <<>>
    BY <2>1, <2>2, <2>5 DEF Covered, BoxCovers
  <2>6. CASE /\ UNCHANGED <<store, box>> /\ ~HomeRestored
             /\ start' = [pc |-> "restore", secret |-> store.secret, key |-> ToRestore]
    BY <2>1, <2>2, <2>6 DEF Covered, BoxCovers, HomeRestored, ToRestore
  <2> QED
    BY <1>0, <1>2, <2>3, <2>4, <2>5, <2>6 DEF StartHealthy
<1>3. CASE StartRestores
  <2>1. /\ UNCHANGED <<homes, arch>> /\ store'.archives = store.archives
        /\ box.running /\ start.pc = "restore" /\ box'.home = homes[start.key]
        /\ behind' = IF store.archives # <<>> /\ start.key = Newest(store.archives)
                     THEN behind \ {"box"} ELSE behind
    BY <1>3 DEF StartRestores, r2, TypeInv, Stores, Boxes
  <2>2. SaversCover'
    BY <1>0, <2>1, SaversAlone DEF Covered
  <2>3. ~HomeRestored
    BY <2>1 DEF Filled
  <2>4. start'.pc # "restore"
    BY <1>0, <1>3 DEF StartRestores
  <2>5. BoxCovers'
    BY <2>1, <2>3, <2>4 DEF Covered, BoxCovers
  <2> QED
    BY <2>2, <2>5 DEF Covered
<1>4. CASE StartFails
  <2>1. start'.pc # "restore"
    BY <1>4 DEF StartFails, TypeInv, Begun
  <2> QED
    BY <1>4, <2>1, BoxAlone, SaversAlone DEF StartFails, Covered, r2, history
<1>5. CASE StartUndone
  <2>1. /\ UNCHANGED <<store, homes, arch>> /\ start' = NoStart
        /\ behind' \in {behind, behind \ {"box"}}
        /\ ~box'.running \/ UNCHANGED <<box, behind>>
    <3>1. /\ UNCHANGED <<store, homes, arch>> /\ start' = NoStart
          /\ BoxStops \/ UNCHANGED <<box, behind>>
      BY <1>5 DEF StartUndone, Destroyed, DestroyFails, r2
    <3>2. CASE BoxStops
      BY <3>1, <3>2, StoppedBox
    <3>3. CASE UNCHANGED <<box, behind>>
      BY <3>1, <3>3
    <3> QED
      BY <3>1, <3>2, <3>3
  <2> QED
    BY <1>0, <2>1, BoxAlone, SaversAlone DEF Covered
<1> QED
  BY <1>1, <1>2, <1>3, <1>4, <1>5 DEF Start

(* The steps that end a container, or leave it, and change nothing else of it. *)
LEMMA EndsCovered ==
    ASSUME TypeInv, Covered, UNCHANGED <<store, homes, arch, start>>,
           BoxStops \/ UNCHANGED <<box, behind>>
    PROVE  Covered'
<1>1. "box" \notin Savers
  BY SnapshotsAssumption DEF Savers
<1>2. \/ ~box'.running /\ behind' = behind \ {"box"}
      \/ box' = box /\ behind' = behind
  BY StoppedBox
<1> QED
  BY <1>1, <1>2, BoxAlone, SaversAlone DEF Covered

(* The secret is cleared: no home counts as restored. *)
LEMMA ClearedCovered ==
    ASSUME TypeInv, Filled, Covered, StopDone
    PROVE  Covered'
<1>1. UNCHANGED <<homes, arch, behind, box, start>> /\ store'.archives = store.archives
      /\ store'.secret = 0
  BY DEF StopDone, Cleared, r2, history, TypeInv, Stores
<1>2. SaversCover'
  BY <1>1, SaversAlone DEF Covered
<1>3. box.running /\ start.pc = "restore" => ~HomeRestored
  BY DEF Filled
<1>4. BoxCovers'
  BY <1>1, <1>3 DEF Covered, BoxCovers, HomeRestored
<1> QED
  BY <1>2, <1>4 DEF Covered

(* A home that was filled gets what else it has from edits. *)
LEMMA EditCovered ==
    ASSUME TypeInv, Filled, Covered, NEW e \in Edits, Edit(e)
    PROVE  Covered'
<1>1. /\ UNCHANGED <<store, homes, start, arch, behind>>
      /\ box'.running = box.running /\ box'.home = box.home \cup {e}
  BY DEF Edit, r2, handlers, history, TypeInv, Boxes
<1>2. SaversCover'
  BY <1>1, SaversAlone DEF Covered
<1>3. BoxCovers'
  BY <1>1 DEF Covered, BoxCovers, HomeRestored
<1> QED
  BY <1>2, <1>3 DEF Covered

(* A deletion overtakes the copies, and takes the records away. *)
LEMMA DeletingCovered ==
    ASSUME TypeInv, Covered, Deleting
    PROVE  Covered'
<1>1. CASE Delete \/ DeleteDestroys \/ DeleteFails
  BY <1>1, EndsCovered DEF Delete, DeleteDestroys, DeleteFails, Destroyed, DestroyFails,
     r2, history
<1>2. CASE DeletePurges
  <2>1. /\ UNCHANGED <<store, homes, arch, start, box>> /\ behind \subseteq behind'
    BY <1>2 DEF DeletePurges
  <2> QED
    BY <2>1, BoxAlone, SaversAlone DEF Covered
<1>3. CASE DeleteDone
  <2>1. store'.archives = <<>>
    BY <1>3 DEF DeleteDone, Cleared, TypeInv, Stores
  <2> QED
    BY <2>1 DEF Covered, BoxCovers, SaversCover
<1> QED
  BY <1>1, <1>2, <1>3 DEF Deleting

(* The step of both. *)
LEMMA NextCovered ==
    ASSUME TypeInv, Lists, Filled, Uploaded, Covered, [Next]_vars
    PROVE  Covered'
<1>1. CASE StopAgain \/ StopFails
  BY <1>1, EndsCovered DEF StopAgain, StopFails, r2, history
<1>2. ASSUME NEW h \in Savers, ArchiveFails(h)
      PROVE  Covered'
  <2>1. /\ behind' = Copying(h) /\ UNCHANGED <<store, r2, box, start>>
        /\ \/ arch' = [arch EXCEPT ![h] = Attempt(2)]
           \/ arch' = [arch EXCEPT ![h] = NoArchive]
    BY <1>2 DEF ArchiveFails
  <2>2. 2 \in 1..2
    OBVIOUS
  <2> QED
    BY <2>1, <2>2, AttemptCovered, Zenon
<1>3. CASE (\E h \in Snapshots : AlarmArchives(h)) \/ AlarmSleeps
  <2>1. \E h \in Savers : /\ arch' = [arch EXCEPT ![h] = Attempt(1)]
                          /\ behind' = Copying(h) /\ UNCHANGED <<store, r2, box, start>>
    BY <1>3 DEF AlarmArchives, AlarmSleeps, Savers
  <2>2. 1 \in 1..2
    OBVIOUS
  <2> QED
    BY <2>1, <2>2, AttemptCovered, Zenon
<1>4. CASE SleepSaved \/ BoxEnds
  BY <1>4, EndsCovered DEF SleepSaved, BoxEnds, Destroyed, DestroyFails, r2
<1>5. CASE Evict
  <2>1. /\ UNCHANGED <<store, homes, box>> /\ start'.pc # "restore"
        /\ ("box" \in behind => "box" \in behind')
        /\ \A h \in Savers : arch'[h] = NoArchive
    BY <1>5, Nothing DEF Evict, r2
  <2> QED
    BY <2>1, BoxAlone, SaversAlone DEF Covered
<1>6. CASE UNCHANGED vars
  BY <1>6, EndsCovered DEF vars
<1> QED
  BY <1>1, <1>2, <1>3, <1>4, <1>5, <1>6, StartCovered, ClearedCovered, EditCovered,
     DeletingCovered, UploadCovered, TrimmedCovered
     DEF Next, OnStopped, Archiving, Alarm

(* What the two properties of the homes rest on. *)
HomeInv == TypeInv /\ Lists /\ Filled /\ Uploaded /\ NewestIsThere /\ Covered

(* It is an invariant. *)
LEMMA HomeInvHolds == Spec => []HomeInv
<1>1. Init => HomeInv
  <2> SUFFICES ASSUME Init PROVE HomeInv
    OBVIOUS
  <2>1. Covered
    BY Nothing DEF Init, Covered, BoxCovers, SaversCover
  <2> QED
    BY <2>1, InitAll DEF HomeInv
<1>2. HomeInv /\ [Next]_vars => HomeInv'
  BY NextType, NextLists, NextFilled, NextUploaded, NextCovered DEF HomeInv
<1> QED
  BY <1>1, <1>2, PTL DEF Spec

(* userSession.ts:358, 441-442: a home that counts as restored, and may be    *)
(* shown or archived, has what was saved before it was filled; also when R2  *)
(* was purged, or the newest record was overtaken, meanwhile.               *)
THEOREM RestoredIsComplete == Spec => []RestoredHomeIsComplete
<1>1. HomeInv => RestoredHomeIsComplete
  BY DEF HomeInv, Covered, BoxCovers, RestoredHomeIsComplete
<1> QED
  BY <1>1, HomeInvHolds, PTL

(* userSession.ts:358: no archive of an empty or partly restored home ever    *)
(* becomes the newest: what the newest archive has the next one has, unless *)
(* it was overtaken by another archive's record or by a deletion.           *)
THEOREM SavedSurvives == Spec => SavedHomeSurvives
<1>1. ASSUME HomeInv, [Next]_vars
      PROVE  store'.archives \notin {store.archives, <<>>}
                /\ store.archives # <<>> /\ ~tainted' =>
             homes[Newest(store.archives)] \subseteq homes'[Newest(store'.archives)]
  <2> SUFFICES ASSUME store'.archives \notin {store.archives, <<>>},
                      store.archives # <<>>, ~tainted'
               PROVE  homes[Newest(store.archives)]
                         \subseteq homes'[Newest(store'.archives)]
    OBVIOUS
  <2>0. TypeInv /\ Lists /\ Uploaded /\ Covered
    BY <1>1 DEF HomeInv
  <2>1. PICK h \in Savers : ArchiveUploaded(h) \/ ArchiveTrimmed(h)
    BY <1>1, <2>0, CalmSteps DEF Calm, Quiet
  <2>2. CASE ArchiveUploaded(h)
    <3> DEFINE key == Len(homes) + 1
               records == Append(store.archives, key)
    <3>1. /\ key \in Keys /\ homes'[key] = arch[h].home
          /\ Record(h, records) \/ UNCHANGED store
      BY <2>0, <2>2, UploadIs, ZenonT(60)
    <3>2. /\ store.archives \in Seq(Keys) /\ Len(homes) \in Nat
          /\ Listed(store.archives, Len(homes)) /\ Len(homes) + 1 \in Keys
      BY <2>0, <3>1 DEF TypeInv, Stores, Lists
    <3>3. Newest(records) = key
      BY <3>2, OneMore, ZenonT(60)
    <3>4. Record(h, records)
      BY <3>1
    <3> HIDE DEF records, key
    <3>5. store'.archives = records /\ h \notin behind
      BY <2>0, <3>4, RecordIs
    <3>6. arch[h].pc # "none"
      BY <2>2 DEF ArchiveUploaded
    <3> QED
      BY <2>0, <3>1, <3>3, <3>5, <3>6 DEF Covered, SaversCover
  <2>3. CASE ArchiveTrimmed(h)
    <3>1. store'.archives = arch[h].records /\ h \notin behind /\ arch[h].pc = "trim"
          /\ homes' = homes
      BY <2>0, <2>3, RecordIs DEF ArchiveTrimmed, r2
    <3>2. homes[Newest(arch[h].records)] = arch[h].home
      BY <2>0, <3>1 DEF Uploaded
    <3> QED
      BY <2>0, <3>1, <3>2 DEF Covered, SaversCover
  <2> QED
    BY <2>1, <2>2, <2>3
<1> QED
  BY <1>1, HomeInvHolds, PTL DEF Spec, SavedHomeSurvives
=============================================================================
