------------------------------ MODULE CloudHome ------------------------------
(***************************************************************************)
(* The home of a person's cloud sandbox and its archives: what is saved,   *)
(* when it is put back, and what is kept of it                             *)
(* (apps/cloud/src/userSession.ts; its slot, charges and alarm are in      *)
(* CloudSession).                                                          *)
(*                                                                         *)
(* A container starts with an empty home under a new secret.  The newest   *)
(* archive goes back into it once, and restoredFor then names the secret:  *)
(* only such a home may be archived.  Storage calls of the session let     *)
(* nothing else of it run; calls to the container, to R2 and to the budget *)
(* do.  So a start, archives, several stops and a deletion interleave, and *)
(* each works on the secret and the records as they are when it looks.     *)
(* A home is the set of edits it has; an archive is of the home at the     *)
(* moment the host is asked for it.                                        *)
(***************************************************************************)
EXTENDS Integers, Sequences, FiniteSets

CONSTANTS
    KeepArchives,   \* archives kept of a home
    Snapshots,      \* archives in the background at once (a bound)
    MaxStarts,      \* containers started (a bound)
    MaxEdits,       \* edits of the home (a bound)
    MaxArchives,    \* archives uploaded (a bound)
    MaxStops,       \* onStopped runs at once (a bound)
    Troubles        \* what may go wrong in one behaviour (bounds)

\* With one archive kept, the trim before the record would delete the newest.
ASSUME KeepAssumption == KeepArchives \in Nat \ {0, 1}
ASSUME SnapshotsAssumption == Snapshots \cap {"sleep", "box"} = {}
ASSUME BoundsAssumption ==
    /\ {MaxStarts, MaxEdits, MaxArchives} \subseteq Nat
    /\ MaxStops \in Nat \ {0}
    /\ Troubles \subseteq [faults : Nat,      \* failing calls, but for a deletion's
                          evictions : Nat,   \* evictions of the session's object
                          deletes : Nat]     \* deletions asked for

VARIABLES
    store,    \* the session's storage: the secret, whose home is complete, records
    homes,    \* R2: the homes uploaded; an archive's key is its place
    objects,  \* R2: keys of the archives still there
    box,      \* the container; full once its home was put back
    start,    \* the shared start in progress
    arch,     \* archives in progress: before sleeping ("sleep"), in the background
    asleep,   \* sleep, of the alarm handler
    stops,    \* onStopped runs that wait for their charge
    del,      \* deleteEverything
    limits,   \* what is left of the bounds
    behind,   \* history: homes and copies that lack what the newest archive has
    tainted   \* history: the newest record was written out of turn

r2 == <<homes, objects>>
handlers == <<start, arch, asleep, stops, del>>
history == <<behind, tainted>>
vars == <<store, homes, objects, box, start, arch, asleep, stops, del, limits,
          behind, tainted>>

Savers == Snapshots \cup {"sleep"}
Edits == 1..MaxEdits

NoArchive == [pc |-> "none", tries |-> 0, gen |-> 0, home |-> {}, records |-> <<>>]
NoStart == [pc |-> "none", secret |-> 0, key |-> 0]

Spend(what) == /\ limits[what] > 0
               /\ limits' = [limits EXCEPT ![what] = @ - 1]

Newest(records) == records[Len(records)]

HomeRestored == store.secret # 0 /\ store.restoredFor = store.secret

Init ==
    /\ store = [secret |-> 0, restoredFor |-> 0, archives |-> <<>>]
    /\ homes = <<>> /\ objects = {}
    /\ box = [gen |-> 0, running |-> FALSE, home |-> {}, full |-> FALSE]
    /\ start = NoStart
    /\ arch = [h \in Savers |-> NoArchive]
    /\ asleep = "no"
    /\ stops = 0
    /\ del = "no"
    /\ \E t \in Troubles :
         limits = [faults |-> t.faults, evictions |-> t.evictions,
                   deletes |-> t.deletes, edits |-> MaxEdits]
    /\ behind = {} /\ tainted = FALSE

-----------------------------------------------------------------------------
(* The container *)

(* It ends, by destroy or by itself, and its monitor calls onStopped.        *)
BoxStops ==
    /\ box.running
    /\ box' = [box EXCEPT !.running = FALSE, !.full = FALSE, !.home = {}]
    /\ stops' = IF stops < MaxStops THEN stops + 1 ELSE stops
    /\ behind' = behind \ {"box"}

Destroyed == \/ BoxStops
             \/ ~box.running /\ UNCHANGED <<box, stops, behind>>

DestroyFails == /\ box.running /\ Spend("faults")
                /\ UNCHANGED <<box, stops, behind>>

BoxEnds ==
    /\ BoxStops
    /\ UNCHANGED <<store, r2, start, arch, asleep, del, limits, tainted>>

(* The person, or an agent of theirs, changes the home.                     *)
Edit(e) ==
    /\ box.running /\ box.full
    /\ Spend("edits")
    /\ e \notin UNION {homes[k] : k \in DOMAIN homes} \cup box.home
    /\ box' = [box EXCEPT !.home = @ \cup {e}]
    /\ UNCHANGED <<store, r2, handlers, history>>

(* onStopped also runs for an alarm, or a start that failed, that finds no   *)
(* container.                                                               *)
StopAgain ==
    /\ box.gen > 0 /\ ~box.running /\ stops < MaxStops
    /\ stops' = stops + 1
    /\ UNCHANGED <<store, r2, box, start, arch, asleep, del, limits, history>>

(* The charge is answered: the records go, those of a container started      *)
(* since then too; or it failed, and an alarm will run onStopped again.     *)
Cleared(st) == [st EXCEPT !.secret = 0, !.restoredFor = 0]

StopDone ==
    /\ stops > 0
    /\ stops' = stops - 1
    /\ store' = Cleared(store)
    /\ UNCHANGED <<r2, box, start, arch, asleep, del, limits, history>>

StopFails ==
    /\ stops > 0 /\ Spend("faults")
    /\ stops' = stops - 1
    /\ UNCHANGED <<store, r2, box, start, arch, asleep, del, history>>

-----------------------------------------------------------------------------
(* start, restoreOnce *)

(* A tab joins the start in progress, or begins one.                         *)
StartBegins ==
    /\ start = NoStart
    /\ start' = [NoStart EXCEPT !.pc = "health"]
    /\ IF box.running
       THEN UNCHANGED <<store, box>>
       ELSE LET g == box.gen + 1 IN
            /\ box.gen < MaxStarts
            /\ box' = [gen |-> g, running |-> TRUE, home |-> {}, full |-> FALSE]
            /\ store' = [store EXCEPT !.secret = g, !.restoredFor = 0]
    /\ UNCHANGED <<r2, arch, asleep, stops, del, limits, history>>

ToRestore_Oldest == store.archives[1]       \* mutant

ToRestore == Newest(store.archives)

(* The host is healthy: without its secret the start fails.                  *)
StartHealthy ==
    /\ start.pc = "health" /\ box.running
    /\ IF store.secret = 0
       THEN start' = [start EXCEPT !.pc = "undo"] /\ UNCHANGED <<store, box>>
       ELSE IF HomeRestored
       THEN start' = NoStart /\ UNCHANGED <<store, box>>
       ELSE IF store.archives = <<>>
       THEN /\ store' = [store EXCEPT !.restoredFor = store.secret]
            /\ box' = [box EXCEPT !.full = TRUE]
            /\ start' = NoStart
       ELSE /\ start' = [pc |-> "restore", secret |-> store.secret,
                         key |-> ToRestore]
            /\ UNCHANGED <<store, box>>
    /\ UNCHANGED <<r2, arch, asleep, stops, del, limits, history>>

(* The archive goes from R2 to the host, which wants the host's secret.      *)
StartRestores ==
    /\ start.pc = "restore" /\ start.key \in objects
    /\ box.running /\ store.secret = box.gen
    /\ box' = [box EXCEPT !.home = homes[start.key], !.full = TRUE]
    /\ store' = [store EXCEPT !.restoredFor = start.secret]
    /\ start' = NoStart
    /\ behind' = IF store.archives # <<>> /\ start.key = Newest(store.archives)
                 THEN behind \ {"box"} ELSE behind
    /\ UNCHANGED <<r2, arch, asleep, stops, del, limits, tainted>>

(* Not healthy within 90 seconds, no archive under the key, or it could not  *)
(* be put back.                                                             *)
StartFails ==
    /\ start.pc \in {"health", "restore"}
    /\ start' = [start EXCEPT !.pc = "undo"]
    /\ UNCHANGED <<store, r2, box, arch, asleep, stops, del, limits, history>>

(* The container is destroyed, or that fails and an alarm is set.            *)
StartUndone ==
    /\ start.pc = "undo"
    /\ start' = NoStart
    /\ \/ Destroyed /\ UNCHANGED limits
       \/ DestroyFails
    /\ UNCHANGED <<store, r2, arch, asleep, del, tainted>>

-----------------------------------------------------------------------------
(* archive, archiveSafely *)

Attempt_AnyHome(n) ==                       \* mutant: restored or not
    IF box.running /\ Len(homes) < MaxArchives
    THEN [NoArchive EXCEPT !.pc = "upload", !.tries = n, !.gen = box.gen,
                           !.home = box.home]
    ELSE NoArchive

(* One attempt of two: only a home that was restored is fetched, as it is    *)
(* when the host is asked for it.                                           *)
Attempt(n) == IF box.running /\ HomeRestored /\ Len(homes) < MaxArchives
              THEN [NoArchive EXCEPT !.pc = "upload", !.tries = n, !.gen = box.gen,
                                     !.home = box.home]
              ELSE NoArchive

(* A copy of a home that lacks what the newest archive has lacks it too.     *)
Copying(h) == IF "box" \in behind /\ arch'[h] # NoArchive
              THEN behind \cup {h} ELSE behind \ {h}

(* The record is written: this home is the newest.  Copies made before, and  *)
(* a container filled from an older one, lack what it has.                  *)
Record(h, records) ==
    /\ store' = [store EXCEPT !.archives = records]
    /\ arch' = [arch EXCEPT ![h] = NoArchive]
    /\ tainted' = (h \in behind)
    /\ behind' = (behind \ {h})
                 \cup {other \in Savers \ {h} : arch[other] # NoArchive}
                 \cup (IF arch[h].home \subseteq box.home THEN {} ELSE {"box"})

Trimmed_Newest(records) ==                  \* mutant: from the wrong end
    {records[i] : i \in (KeepArchives + 1)..Len(records)}

Trimmed(records) == {records[i] : i \in 1..(Len(records) - KeepArchives)}

Kept_OneMore(records) ==                    \* mutant: an off-by-one
    IF Len(records) <= KeepArchives + 1 THEN records
    ELSE SubSeq(records, Len(records) - KeepArchives, Len(records))

Kept(records) == IF Len(records) <= KeepArchives THEN records
                 ELSE SubSeq(records, Len(records) - KeepArchives + 1, Len(records))

(* putStream is done.  Archives too many are deleted before the record is     *)
(* written.                                                                 *)
ArchiveUploaded(h) ==
    LET key == Len(homes) + 1
        records == Append(store.archives, key)
        old == Trimmed(records)
    IN
    /\ arch[h].pc = "upload"
    /\ key <= MaxArchives
    /\ homes' = Append(homes, arch[h].home)
    /\ objects' = (objects \cup {key}) \ old
    /\ IF old = {} THEN Record(h, records)
       ELSE /\ arch' = [arch EXCEPT ![h].pc = "trim",
                                    ![h].records = Kept(records)]
            /\ UNCHANGED <<store, history>>
    /\ UNCHANGED <<box, start, asleep, stops, del, limits>>

ArchiveTrimmed(h) ==
    /\ arch[h].pc = "trim"
    /\ Record(h, arch[h].records)
    /\ UNCHANGED <<r2, box, start, asleep, stops, del, limits>>

(* The host or R2 fails, as they do when the container ended.                *)
ArchiveFails(h) ==
    /\ arch[h].pc = "upload"
    /\ IF box.running /\ box.gen = arch[h].gen /\ Len(homes) < MaxArchives
       THEN Spend("faults") ELSE UNCHANGED limits
    /\ arch' = [arch EXCEPT ![h] =
                    IF arch[h].tries = 1 THEN Attempt(2) ELSE NoArchive]
    /\ behind' = Copying(h)
    /\ UNCHANGED <<store, r2, box, start, asleep, stops, del, tainted>>

-----------------------------------------------------------------------------
(* alarm, sleep *)

(* A minute in which it was time for an archive.  lastArchiveAt is written at  *)
(* an archive's end, so the next minute may begin another beside it.        *)
AlarmArchives(h) ==
    /\ asleep = "no" /\ box.running
    /\ arch[h] = NoArchive
    /\ arch' = [arch EXCEPT ![h] = Attempt(1)]
    /\ behind' = Copying(h)
    /\ UNCHANGED <<store, r2, box, start, asleep, stops, del, limits, tainted>>

(* The container may have ended, or another may run, since the handler looked. *)
AlarmSleeps ==
    /\ asleep = "no" /\ box.gen > 0
    /\ asleep' = "saving"
    /\ arch' = [arch EXCEPT !["sleep"] = Attempt(1)]
    /\ behind' = Copying("sleep")
    /\ UNCHANGED <<store, r2, box, start, stops, del, limits, tainted>>

SleepSaved ==
    /\ asleep = "saving" /\ arch["sleep"] = NoArchive
    /\ asleep' = "no"
    /\ \/ Destroyed /\ UNCHANGED limits
       \/ DestroyFails
    /\ UNCHANGED <<store, r2, start, arch, del, tainted>>

-----------------------------------------------------------------------------
(* deleteEverything *)

Delete ==
    /\ del = "no" /\ Spend("deletes")
    /\ del' = "destroy"
    /\ UNCHANGED <<store, r2, box, start, arch, asleep, stops, history>>

(* A container that cannot be stopped is left running.                      *)
DeleteDestroys ==
    /\ del = "destroy"
    /\ del' = "purge"
    /\ Destroyed \/ UNCHANGED <<box, stops, behind>>
    /\ UNCHANGED <<store, r2, start, arch, asleep, limits, tainted>>

DeletePurges ==
    /\ del = "purge"
    /\ del' = "release"
    /\ objects' = {}
    /\ tainted' = TRUE
    /\ behind' = behind \cup {h \in Savers : arch[h] # NoArchive}
    /\ UNCHANGED <<store, homes, box, start, arch, asleep, stops, limits>>

(* The budget or R2 fails: the records stay as they are.                    *)
DeleteFails ==
    /\ del \in {"purge", "release"}
    /\ del' = "no"
    /\ UNCHANGED <<store, r2, box, start, arch, asleep, stops, limits, history>>

DeleteDone ==
    /\ del = "release"
    /\ del' = "no"
    /\ store' = [Cleared(store) EXCEPT !.archives = <<>>]
    /\ tainted' = FALSE
    /\ behind' = behind \ {"box"}
    /\ UNCHANGED <<r2, box, start, arch, asleep, stops, limits>>

-----------------------------------------------------------------------------
(* The session's object is evicted: what was under way is not resumed.       *)
Evict ==
    /\ Spend("evictions")
    /\ start' = NoStart /\ asleep' = "no" /\ stops' = 0 /\ del' = "no"
    /\ arch' = [h \in Savers |-> NoArchive]
    /\ behind' = behind \cap {"box"}
    /\ UNCHANGED <<store, r2, box, tainted>>

Start == \/ StartBegins \/ StartHealthy \/ StartRestores
         \/ StartFails \/ StartUndone

OnStopped == StopAgain \/ StopDone \/ StopFails

Archiving == \E h \in Savers : \/ ArchiveUploaded(h) \/ ArchiveTrimmed(h)
                               \/ ArchiveFails(h)

Alarm == \/ \E h \in Snapshots : AlarmArchives(h)
         \/ AlarmSleeps \/ SleepSaved

Deleting == Delete \/ DeleteDestroys \/ DeletePurges \/ DeleteFails \/ DeleteDone

Next == \/ Start \/ OnStopped \/ Archiving \/ Alarm \/ Deleting
        \/ BoxEnds \/ Evict
        \/ \E e \in Edits : Edit(e)

Spec == Init /\ [][Next]_vars

-----------------------------------------------------------------------------
(* userSession.ts:449-451: the types; and no more records than are kept.     *)
TypeOK ==
    /\ store \in [secret : 0..MaxStarts, restoredFor : 0..MaxStarts,
                  archives : Seq(1..MaxArchives)]
    /\ Len(store.archives) <= KeepArchives
    /\ homes \in Seq(SUBSET Edits) /\ objects \subseteq DOMAIN homes
    /\ box \in [gen : 0..MaxStarts, running : BOOLEAN, home : SUBSET Edits,
                full : BOOLEAN]
    /\ start.pc \in {"none", "health", "restore", "undo"}
    /\ \A h \in Savers : arch[h].tries \in 0..2 /\ arch[h].home \subseteq Edits
    /\ asleep \in {"no", "saving"}
    /\ stops \in 0..MaxStops
    /\ del \in {"no", "destroy", "purge", "release"}

(* userSession.ts:358: no archive of an empty or partly restored home ever    *)
(* becomes the newest: what the newest archive has the next one has, unless *)
(* it was overtaken by another archive's record or by a deletion.           *)
SavedHomeSurvives ==
    [][store'.archives \notin {store.archives, <<>>}
          /\ store.archives # <<>> /\ ~tainted' =>
          homes[Newest(store.archives)] \subseteq homes'[Newest(store'.archives)]]_vars

(* userSession.ts:358, 441-442: a home that counts as restored, and may be    *)
(* shown or archived, has what was saved before it was filled; also when R2  *)
(* was purged, or the newest record was overtaken, meanwhile.               *)
RestoredHomeIsComplete ==
    box.running /\ HomeRestored /\ store.archives # <<>>
        /\ "box" \notin behind =>
        homes[Newest(store.archives)] \subseteq box.home

(* userSession.ts:430-433: the archive a start puts back is there, or no      *)
(* start ever succeeds again; unless a deletion purged R2 and then failed,  *)
(* or an archive it overtook was recorded after it.                         *)
NewestIsThere ==
    store.archives # <<>> /\ ~tainted => Newest(store.archives) \in objects
=============================================================================
