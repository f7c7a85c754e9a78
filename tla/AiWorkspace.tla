---------------------------- MODULE AiWorkspace ----------------------------
(***************************************************************************)
(* One AI task workspace: proposals staged in a sandbox, reviewed, applied *)
(* to the user's project under a checkpoint and rolled back from it        *)
(* (apps/desktop/src/main/aiWorkspaceService.ts, aiWorkspaceStore.ts, and  *)
(* the task record of packages/ai/src/workspaces.ts).                      *)
(*                                                                         *)
(* The task record, the checkpoint's manifest and every project file are   *)
(* separate files on disk, written one at a time.  Nothing locks them: the *)
(* user types into the project, the agent proposes while the user decides, *)
(* and the process may die between any two writes.  A call saves the whole *)
(* record it read when it began.                                           *)
(***************************************************************************)
EXTENDS Integers, Sequences, Functions

CONSTANTS
    Files,      \* paths of the project the task touches
    Base,       \* [Files -> text]: the project when the task starts
    Proposed,   \* the texts the agent proposes, in turn (their number a bound)
    Partial,    \* [proposals -> text]: the proposal with only some hunks taken
    Typed,      \* the texts the user types, in turn (their number a bound)
    MaxFaults,  \* project writes that fail (a bound)
    MaxCrashes  \* times the editor dies (a bound)

Proposals == Range(Proposed)
Edits == Range(Typed)
Accepted == Proposals \cup Range(Partial)   \* what an apply may write
Texts == Accepted \cup Edits \cup {Base[f] : f \in Files}
Unowned == "unowned"    \* the task has put nothing of its own in the file

ASSUME TextsAssumption == /\ Base \in [Files -> Texts]
                          /\ Proposed \in Seq(Proposals)
                          /\ Partial \in [Proposals -> Accepted]
                          /\ Typed \in Seq(Edits)
                          /\ Accepted \cap Edits = {}
                          /\ {Base[f] : f \in Files} \cap (Accepted \cup Edits) = {}
                          /\ Unowned \notin Texts
ASSUME BoundsAssumption == MaxFaults \in Nat /\ MaxCrashes \in Nat

VARIABLES
    task,       \* the record on disk
    manifest,   \* the checkpoint's manifest on disk; <<>> when there is none
    project,    \* the user's files
    sandbox,    \* the task's copy of them
    background, \* the agent's proposal, or the storage clean-up, in flight
    call,       \* the call in flight for the user, or start-up recovery
    budget,     \* what is left of the bounds
    late,       \* files the user edited since the call in flight last looked
    pre,        \* history: the text a file had when it entered the checkpoint
    lost        \* history: a save has overwritten a newer record

vars == <<task, manifest, project, sandbox, background, call, budget,
          late, pre, lost>>

States == {"preparing", "ready", "running", "paused", "review", "applying",
           "applied", "conflict", "discarded", "failed", "rolling-back",
           "rolled-back", "removed"}

None == [kind |-> "none"]

PartialOn(S, T) == UNION {[D -> T] : D \in SUBSET S}
Without(fn, S) == [f \in DOMAIN fn \ S |-> fn[f]]

TaskRecords ==
    [state : States, checkpoint : BOOLEAN, sandbox : BOOLEAN,
     changes : PartialOn(Files, [original : Texts, proposed : Proposals])]

Entries == PartialOn(Files, [original : Texts, applied : Accepted])

Removed == [state |-> "removed", checkpoint |-> FALSE, sandbox |-> FALSE,
            changes |-> <<>>]

-----------------------------------------------------------------------------
(* A call holds the record it works on, the record it last saw on disk, the *)
(* manifest entries it goes by and the files still to write.                *)

Call(kind, phase, t) ==
    [kind |-> kind, phase |-> phase, task |-> t, seen |-> task,
     entries |-> <<>>, todo |-> {}, done |-> {}]

Recovering == call.kind = "recover"
Free == call = None

(* store.save from a call: the whole record, whatever is on disk by now.    *)
Save(t, seen) == /\ task' = t
                 /\ lost' = (lost \/ task # seen)

(* One project file is written or put back by the call in flight.           *)
WriteFile(f, text) == project' = [project EXCEPT ![f] = text]

Owning(originals) ==
    pre' = [f \in Files |->
              IF f \in DOMAIN originals /\ (pre[f] = Unowned \/ f \notin DOMAIN manifest)
              THEN originals[f] ELSE pre[f]]
Disowning(S)    == pre' = [f \in Files |-> IF f \in S THEN Unowned ELSE pre[f]]

Spend(what) == /\ budget[what] > 0
               /\ budget' = [budget EXCEPT ![what] = @ - 1]

Init ==
    /\ task = [state |-> "preparing", checkpoint |-> FALSE, sandbox |-> FALSE,
               changes |-> <<>>]
    /\ manifest = <<>>
    /\ project = Base
    /\ sandbox = Base
    /\ background = None
    /\ call = Call("start", "save", task)
    /\ budget = [writes |-> Len(Proposed), edits |-> Len(Typed),
                  faults |-> MaxFaults, crashes |-> MaxCrashes]
    /\ late = {}
    /\ pre = [f \in Files |-> Unowned]
    /\ lost = FALSE

-----------------------------------------------------------------------------
(* The user and the agent *)

Nth(texts, what) == texts[Len(texts) - budget[what] + 1]

HumanEdit(f) ==
    /\ Spend("edits")
    /\ WriteFile(f, Nth(Typed, "edits"))
    /\ late' = IF Free THEN late ELSE late \cup {f}
    /\ UNCHANGED <<task, manifest, sandbox, background, call, pre, lost>>

(* start: the sandbox is copied, or cannot be (no room, no worktree).       *)
StartSave ==
    /\ call.kind = "start"
    /\ \/ /\ Save([call.task EXCEPT !.state = "ready", !.sandbox = TRUE], call.seen)
          /\ sandbox' = project
       \/ /\ Save([call.task EXCEPT !.state = "failed"], call.seen)
          /\ UNCHANGED sandbox
    /\ call' = None
    /\ UNCHANGED <<manifest, project, background, budget, late, pre>>

(* A path proposed again keeps the original of the first proposal; a new one *)
(* takes the user's file, or for a team's merge the sandbox's.              *)
Original(f, baseline) ==
    IF f \in DOMAIN task.changes THEN task.changes[f].original
    ELSE IF baseline = "human" THEN project[f] ELSE sandbox[f]

WriteProposal(f, baseline) ==
    /\ background = None /\ ~Recovering
    /\ task.sandbox
    /\ Spend("writes")
    /\ background' = [kind |-> "propose", seen |-> task, file |-> f,
                      change |-> [original |-> Original(f, baseline),
                                  proposed |-> Nth(Proposed, "writes")]]
    /\ sandbox' = [sandbox EXCEPT ![f] = Nth(Proposed, "writes")]
    /\ UNCHANGED <<task, manifest, project, call, late, pre, lost>>

AcceptsEdits == {"ready", "paused", "running", "conflict", "review"}

(* updateForReview throws in any other state, after the sandbox was written. *)
UpdateForReview ==
    LET seen == background.seen IN
    [seen EXCEPT !.state = "review",
                 !.changes = [f \in DOMAIN seen.changes \cup {background.file} |->
                                IF f = background.file THEN background.change
                                ELSE seen.changes[f]]]

ProposalSaved ==
    /\ background.kind = "propose"
    /\ IF background.seen.state \in AcceptsEdits
       THEN Save(UpdateForReview, background.seen)
       ELSE UNCHANGED <<task, lost>>
    /\ background' = None
    /\ UNCHANGED <<manifest, project, sandbox, call, budget, late, pre>>

-----------------------------------------------------------------------------
(* Calls that read the record and save it once *)

Saving(kind, t) ==
    /\ Free
    /\ call' = Call(kind, "save", t)
    /\ UNCHANGED <<task, manifest, project, background, budget, late, pre,
                   lost>>

Pause == /\ task.state \in {"ready", "running"}
         /\ Saving("pause", [task EXCEPT !.state = "paused"])
         /\ UNCHANGED sandbox

(* Mutant: the task takes the state of the file's review.                   *)
Rejected_Named(f) ==
    [task EXCEPT !.changes = Without(task.changes, {f}), !.state = "rejected"]

Rejected(f) ==
    LET left == Without(task.changes, {f}) IN
    [task EXCEPT !.changes = left,
                 !.state = IF left # <<>> THEN "review"
                           ELSE IF task.checkpoint THEN "applied" ELSE "paused"]

Reject(f) ==
    /\ task.state = "review"
    /\ f \in DOMAIN task.changes
    /\ Saving("reject", Rejected(f))
    /\ sandbox' = [sandbox EXCEPT ![f] = task.changes[f].original]

SaveRecord ==
    /\ call # None /\ call.phase = "save"
    /\ call.kind \in {"pause", "reject", "conflict"}
    /\ Save(call.task, call.seen)
    /\ call' = None
    /\ UNCHANGED <<manifest, project, sandbox, background, budget, late, pre>>

Discardable == {"preparing", "ready", "paused", "review", "conflict", "failed",
                "discarded"}

Discard ==
    /\ Free /\ ~task.checkpoint
    /\ task.state \in Discardable
    /\ call' = Call("discard", IF task.state = "discarded" THEN "drop" ELSE "save",
                    [task EXCEPT !.state = "discarded"])
    /\ UNCHANGED <<task, manifest, project, sandbox, background, budget, late,
                   pre, lost>>

DiscardSaved ==
    /\ call.kind = "discard" /\ call.phase = "save"
    /\ Save(call.task, call.seen)
    /\ call' = [call EXCEPT !.phase = "drop", !.seen = call.task]
    /\ UNCHANGED <<manifest, project, sandbox, background, budget, late, pre>>

DiscardDropped ==
    /\ call.kind = "discard" /\ call.phase = "drop"
    /\ Save([call.task EXCEPT !.sandbox = FALSE], call.seen)
    /\ call' = None
    /\ UNCHANGED <<manifest, project, sandbox, background, budget, late, pre>>

Working == {"preparing", "ready", "running", "applying", "rolling-back"}

Remove ==
    /\ Free /\ ~task.checkpoint
    /\ task.state \notin Working \cup {"removed"}
    /\ call' = Call("remove", "remove", Removed)
    /\ UNCHANGED <<task, manifest, project, sandbox, background, budget, late,
                   pre, lost>>

(* The task's folder goes, the manifests in it too.                         *)
RemoveDone ==
    /\ call.kind = "remove"
    /\ Save(Removed, call.seen)
    /\ manifest' = <<>>
    /\ call' = None
    /\ UNCHANGED <<project, sandbox, background, budget, late, pre>>

-----------------------------------------------------------------------------
(* apply *)

Overlapping(sel) == {f \in sel : project[f] # task.changes[f].original}

(* acceptedHunkIds: all of a proposal, or only some of its hunks, at least   *)
(* one of them.                                                             *)
Contents(f, part) == IF f \in part THEN Partial[task.changes[f].proposed]
                     ELSE task.changes[f].proposed
Offered(change) == {change.proposed, Partial[change.proposed]}

(* Mutant: the checkpoint records the text that is there now.               *)
ManifestFor_Latest(sel, part) ==
    LET old == IF task.checkpoint THEN manifest ELSE <<>> IN
    [f \in DOMAIN old \cup sel |->
        IF f \notin sel THEN old[f]
        ELSE [original |-> task.changes[f].original, applied |-> Contents(f, part)]]

(* An earlier accepted edit of the same file keeps the pre-task original.   *)
ManifestFor(sel, part) ==
    LET old == IF task.checkpoint THEN manifest ELSE <<>> IN
    [f \in DOMAIN old \cup sel |->
        IF f \notin sel THEN old[f]
        ELSE [original |-> IF f \in DOMAIN old THEN old[f].original
                           ELSE task.changes[f].original,
              applied  |-> Contents(f, part)]]

CanApply(sel) == /\ Free /\ task.state = "review"
                 /\ sel # {} /\ sel \subseteq DOMAIN task.changes

ApplyConflict(sel) ==
    /\ CanApply(sel) /\ Overlapping(sel) # {}
    /\ Saving("conflict", [task EXCEPT !.state = "conflict"])
    /\ UNCHANGED sandbox

(* readManifest throws when the record names a checkpoint that is not there. *)
(* Hunks of the files in part are left out; the whole change leaves review.  *)
ApplyStart(sel, part) ==
    /\ CanApply(sel) /\ Overlapping(sel) = {}
    /\ task.checkpoint => manifest # <<>>
    /\ call' = [Call("apply", "save",
                     [task EXCEPT !.state = "applying", !.checkpoint = TRUE])
                EXCEPT !.entries = ManifestFor(sel, part), !.todo = sel]
    /\ late' = {}
    /\ UNCHANGED <<task, manifest, project, sandbox, background, budget, pre,
                   lost>>

ApplySaved ==
    /\ call.kind = "apply" /\ call.phase = "save"
    /\ Save(call.task, call.seen)
    /\ call' = [call EXCEPT !.phase = "manifest", !.seen = call.task]
    /\ UNCHANGED <<manifest, project, sandbox, background, budget, late, pre>>

ApplyManifest ==
    /\ call.kind = "apply" /\ call.phase = "manifest"
    /\ manifest' = call.entries
    /\ Owning([f \in call.todo |-> call.task.changes[f].original])
    /\ call' = [call EXCEPT !.phase = "write"]
    /\ UNCHANGED <<task, project, sandbox, background, budget, late,
                   lost>>

ApplyWrite(f) ==
    /\ call.kind = "apply" /\ call.phase = "write"
    /\ f \in call.todo
    /\ WriteFile(f, call.entries[f].applied)
    /\ call' = [call EXCEPT !.todo = @ \ {f}, !.done = @ \cup {f}]
    /\ UNCHANGED <<task, manifest, sandbox, background, budget, late, pre,
                   lost>>

ApplyWriteFails ==
    /\ call.kind = "apply" /\ call.phase = "write" /\ call.todo # {}
    /\ Spend("faults")
    /\ call' = [call EXCEPT !.phase = "undo"]
    /\ UNCHANGED <<task, manifest, project, sandbox, background, late, pre,
                   lost>>

ApplyUndo(f) ==
    /\ call.kind = "apply" /\ call.phase = "undo"
    /\ f \in call.done
    /\ WriteFile(f, call.task.changes[f].original)
    /\ call' = [call EXCEPT !.done = @ \ {f}]
    /\ UNCHANGED <<task, manifest, sandbox, background, budget, late, pre,
                   lost>>

(* The disk that failed may fail again, putting a file back: apply throws    *)
(* and the record stays "applying".                                         *)
ApplyUndoFails ==
    /\ call.kind = "apply" /\ call.phase = "undo" /\ call.done # {}
    /\ call' = None
    /\ UNCHANGED <<task, manifest, project, sandbox, background, budget, late, pre,
                   lost>>

ApplyFailed ==
    /\ call.kind = "apply" /\ call.phase = "undo" /\ call.done = {}
    /\ Save([call.task EXCEPT !.state = "failed"], call.seen)
    /\ call' = None
    /\ UNCHANGED <<manifest, project, sandbox, background, budget, late, pre>>

(* Mutant: accepting some files ends the review of all.                     *)
AfterApply_WholeReview(c) ==
    [c.task EXCEPT !.changes = <<>>, !.state = "applied"]

AfterApply(c) ==
    LET left == Without(c.task.changes, c.done) IN
    [c.task EXCEPT !.changes = left,
                   !.state = IF left = <<>> THEN "applied" ELSE "review"]

ApplyDone ==
    /\ call.kind = "apply" /\ call.phase = "write" /\ call.todo = {}
    /\ Save(AfterApply(call), call.seen)
    /\ call' = None
    /\ UNCHANGED <<manifest, project, sandbox, background, budget, late, pre>>

-----------------------------------------------------------------------------
(* rollback *)

RollbackStart ==
    /\ Free
    /\ task.state = "applied" \/ (task.state = "review" /\ task.checkpoint)
    /\ task.checkpoint /\ manifest # <<>>
    /\ call' = [Call("rollback", "save", [task EXCEPT !.state = "rolling-back"])
                EXCEPT !.entries = manifest]
    /\ UNCHANGED <<task, manifest, project, sandbox, background, budget, late,
                   pre, lost>>

RollbackSaved ==
    /\ call.kind = "rollback" /\ call.phase = "save"
    /\ Save(call.task, call.seen)
    /\ call' = [call EXCEPT !.phase = "check", !.seen = call.task]
    /\ UNCHANGED <<manifest, project, sandbox, background, budget, late, pre>>

(* Mutant: rolling back does not look at the files.                         *)
Untouched_Unread(entries) == TRUE

Untouched(entries) == \A f \in DOMAIN entries : project[f] = entries[f].applied

RollbackCheck ==
    /\ call.kind = "rollback" /\ call.phase = "check"
    /\ call' = IF Untouched(call.entries)
               THEN [call EXCEPT !.phase = "write", !.todo = DOMAIN call.entries]
               ELSE [call EXCEPT !.kind = "conflict", !.phase = "save",
                                 !.task.state = "conflict"]
    /\ late' = {}
    /\ UNCHANGED <<task, manifest, project, sandbox, background, budget, pre,
                   lost>>

RollbackWrite(f) ==
    /\ call.kind = "rollback" /\ call.phase = "write"
    /\ f \in call.todo
    /\ WriteFile(f, call.entries[f].original)
    /\ call' = [call EXCEPT !.todo = @ \ {f}, !.done = @ \cup {f}]
    /\ UNCHANGED <<task, manifest, sandbox, background, budget, late, pre,
                   lost>>

RollbackWriteFails ==
    /\ call.kind = "rollback" /\ call.phase = "write" /\ call.todo # {}
    /\ Spend("faults")
    /\ call' = [call EXCEPT !.phase = "undo"]
    /\ UNCHANGED <<task, manifest, project, sandbox, background, late, pre,
                   lost>>

(* Files already restored get the accepted text back, if they can.          *)
RollbackUndo(f) ==
    /\ call.kind = "rollback" /\ call.phase = "undo"
    /\ f \in call.done
    /\ WriteFile(f, call.entries[f].applied) \/ UNCHANGED project
    /\ call' = [call EXCEPT !.done = @ \ {f}]
    /\ UNCHANGED <<task, manifest, sandbox, background, budget, late, pre, lost>>

RollbackFailed ==
    /\ call.kind = "rollback" /\ call.phase = "undo" /\ call.done = {}
    /\ Save([call.task EXCEPT !.state = "failed"], call.seen)
    /\ call' = None
    /\ UNCHANGED <<manifest, project, sandbox, background, budget, late, pre>>

RollbackDone ==
    /\ call.kind = "rollback" /\ call.phase = "write" /\ call.todo = {}
    /\ Save([call.task EXCEPT !.state = "rolled-back", !.changes = <<>>], call.seen)
    /\ Disowning(Files)
    /\ call' = None
    /\ UNCHANGED <<manifest, project, sandbox, background, budget, late>>

-----------------------------------------------------------------------------
(* Storage maintenance, run when another task starts *)

Terminal == {"applied", "discarded", "failed", "rolled-back"}

(* By age or for room: the sandbox goes, then the record read in the listing *)
(* is saved without it.                                                     *)
DropSandbox ==
    /\ background = None /\ ~Recovering
    /\ task.sandbox /\ task.state \in Terminal
    /\ background' = [kind |-> "storage", seen |-> task]
    /\ UNCHANGED <<task, manifest, project, sandbox, call, budget, late, pre,
                   lost>>

SandboxDropped ==
    /\ background.kind = "storage"
    /\ Save([background.seen EXCEPT !.sandbox = FALSE], background.seen)
    /\ background' = None
    /\ UNCHANGED <<manifest, project, sandbox, call, budget, late, pre>>

(* A record untouched for checkpointRetention (days) has no call under way.  *)
(* Its undo is given up on purpose.                                         *)
DropCheckpoint ==
    /\ background = None /\ Free
    /\ task.checkpoint /\ task.state \notin {"applied", "conflict"}
    /\ task' = [task EXCEPT !.checkpoint = FALSE]
    /\ manifest' = <<>>
    /\ Disowning(Files)
    /\ UNCHANGED <<project, sandbox, background, call, budget, late, lost>>

-----------------------------------------------------------------------------
(* The process dies; at the next start recoverActive runs before any call.  *)

Crash ==
    /\ Spend("crashes")
    /\ background' = None
    /\ call' = Call("recover", "start", task)
    /\ UNCHANGED <<task, manifest, project, sandbox, late, pre, lost>>

Interrupted == task.state \in {"applying", "rolling-back"}

Known == \A f \in DOMAIN manifest :
            project[f] \in {manifest[f].original, manifest[f].applied}

(* Entries of the interrupted apply; the others were accepted before it.     *)
Selected == DOMAIN manifest \cap DOMAIN task.changes

Recoverable ==
    /\ task.checkpoint /\ manifest # <<>>
    /\ Known
    /\ task.state = "applying" =>
          \A f \in DOMAIN manifest \ Selected : project[f] = manifest[f].applied

RecoverTransaction ==
    /\ Recovering /\ call.phase = "start" /\ Interrupted
    /\ call' = IF Recoverable
               THEN [call EXCEPT !.phase = "write", !.entries = manifest,
                                 !.todo = IF task.state = "applying"
                                          THEN Selected ELSE DOMAIN manifest]
               ELSE [call EXCEPT !.phase = "save", !.task.state = "conflict"]
    /\ late' = {}
    /\ UNCHANGED <<task, manifest, project, sandbox, background, budget, pre,
                   lost>>

RecoverWrite(f) ==
    /\ Recovering /\ call.phase = "write"
    /\ f \in call.todo
    /\ WriteFile(f, call.entries[f].original)
    /\ call' = [call EXCEPT !.todo = @ \ {f}, !.done = @ \cup {f}]
    /\ UNCHANGED <<task, manifest, sandbox, background, budget, late, pre,
                   lost>>

RecoverWriteFails ==
    /\ Recovering /\ call.phase = "write" /\ call.todo # {}
    /\ Spend("faults")
    /\ call' = [call EXCEPT !.phase = "save", !.task.state = "conflict"]
    /\ UNCHANGED <<task, manifest, project, sandbox, background, late, pre,
                   lost>>

(* The manifest keeps the entries accepted earlier, or goes with the last.   *)
RecoverManifest ==
    /\ Recovering /\ call.phase = "write" /\ call.todo = {}
    /\ LET prior == Without(call.entries, call.done) IN
       IF task.state = "applying"
       THEN /\ manifest' = prior
            /\ call' = [call EXCEPT !.phase = "save", !.task.state = "review",
                                    !.task.checkpoint = prior # <<>>]
       ELSE /\ call' = [call EXCEPT !.phase = "save", !.task.state = "rolled-back"]
            /\ UNCHANGED manifest
    /\ UNCHANGED <<task, project, sandbox, background, budget, late, pre, lost>>

RecoverSaved ==
    /\ Recovering /\ call.phase = "save"
    /\ Save(call.task, call.seen)
    /\ Disowning(CASE call.task.state = "rolled-back" -> Files
                   [] call.task.state = "review" -> Files \ DOMAIN manifest
                   [] OTHER -> {})
    /\ call' = None
    /\ UNCHANGED <<manifest, project, sandbox, background, budget, late>>

(* store.recoverActive: work that was under way waits for the user.          *)
RecoverActive ==
    /\ Recovering /\ call.phase = "start" /\ ~Interrupted
    /\ call' = IF task.state \in {"preparing", "ready", "running"}
               THEN [call EXCEPT !.phase = "save", !.task.state = "paused"]
               ELSE None
    /\ UNCHANGED <<task, manifest, project, sandbox, background, budget, late,
                   pre, lost>>

-----------------------------------------------------------------------------
Agent == \/ \E f \in Files, baseline \in {"human", "sandbox"} :
                WriteProposal(f, baseline)
         \/ ProposalSaved

OneSave == \/ StartSave \/ Pause \/ SaveRecord
           \/ \E f \in Files : Reject(f)
           \/ Discard \/ DiscardSaved \/ DiscardDropped
           \/ Remove \/ RemoveDone

Apply == \/ \E sel \in SUBSET Files :
                ApplyConflict(sel) \/ \E part \in SUBSET sel : ApplyStart(sel, part)
         \/ ApplySaved \/ ApplyManifest
         \/ \E f \in Files : ApplyWrite(f) \/ ApplyUndo(f)
         \/ ApplyWriteFails \/ ApplyUndoFails \/ ApplyFailed \/ ApplyDone

Rollback == \/ RollbackStart \/ RollbackSaved \/ RollbackCheck
            \/ \E f \in Files : RollbackWrite(f) \/ RollbackUndo(f)
            \/ RollbackWriteFails \/ RollbackFailed \/ RollbackDone

Maintenance == DropSandbox \/ SandboxDropped \/ DropCheckpoint

Recovery == \/ RecoverTransaction \/ RecoverManifest \/ RecoverSaved \/ RecoverActive
            \/ \E f \in Files : RecoverWrite(f)
            \/ RecoverWriteFails

Next == \/ \E f \in Files : HumanEdit(f)
        \/ Agent \/ OneSave \/ Apply \/ Rollback \/ Maintenance
        \/ Crash \/ Recovery

Spec == Init /\ [][Next]_vars

-----------------------------------------------------------------------------
(* The types; a record, also one held in a call, is one the store can read:  *)
(* every state is one of AiTaskState (workspaces.ts:13-25).                 *)
TypeOK ==
    /\ task \in TaskRecords
    /\ manifest \in Entries
    /\ project \in [Files -> Texts] /\ sandbox \in [Files -> Texts]
    /\ late \subseteq Files
    /\ pre \in [Files -> Texts \cup {Unowned}]
    /\ lost \in BOOLEAN
    /\ call # None => /\ call.task \in TaskRecords /\ call.seen \in TaskRecords
                      /\ call.entries \in Entries
                      /\ call.todo \cup call.done \subseteq Files
    /\ background # None => background.seen \in TaskRecords
    /\ \A b \in DOMAIN budget : budget[b] \in Nat

(* Wherever the project holds text the task put there, the record has a      *)
(* checkpoint and the manifest on disk has the text the file had before the  *)
(* task first meant to write it: at every instant, so at every crash, and   *)
(* however many times a file was accepted.  Only a save over a newer record *)
(* breaks it (apply, writeManifest, recoverTransaction).                    *)
TaskText(f) == /\ pre[f] # Unowned
               /\ project[f] \in Accepted \ {pre[f]}

AppliedHasUndo ==
    ~lost => \A f \in Files : TaskText(f) =>
        /\ task.checkpoint
        /\ f \in DOMAIN manifest
        /\ manifest[f].original = pre[f]

(* What the user typed is replaced in the project only by a change that was  *)
(* made against that very text (or goes back to it when a rollback stops    *)
(* half way), or when it was typed after the call in flight had looked at   *)
(* the file (the checks of apply, rollback and recoverTransaction).         *)
Reviewed(f) ==
    /\ call # None
    /\ \/ call.kind = "apply" /\ call.task.changes[f].original = project[f]
       \/ call.phase = "undo" /\ call.entries[f].original = project[f]

HumanTextPreserved ==
    [][\A f \in Files : project[f] \in Edits /\ project'[f] # project[f] =>
          \/ budget'.edits < budget.edits
          \/ f \in late
          \/ Reviewed(f)]_vars

(* An apply or a rollback that ends well ended for every file. A change    *)
(* that left the review is in the project, as its manifest entry says,     *)
(* whole or with the hunks accepted of it; after an interrupted apply no   *)
(* file with a change still in review holds text of the task; after a      *)
(* rollback no file at all does. A file edited meanwhile is exempt. And    *)
(* start-up recovery leaves no transaction open.                           *)
AppliedWhole ==
    \A f \in DOMAIN task.changes \ (DOMAIN task'.changes \cup late) :
        /\ f \in DOMAIN manifest /\ project[f] = manifest[f].applied
        /\ project[f] \in Offered(task.changes[f])

RecoveredWhole == \A f \in DOMAIN task.changes : ~TaskText(f)

TransactionsAreWhole ==
    [][~lost' =>
        /\ task.state = "applying" /\ task'.state \in {"review", "applied"} =>
              IF Recovering THEN RecoveredWhole ELSE AppliedWhole
        /\ task.state = "rolling-back" /\ task'.state = "rolled-back" =>
              \A f \in Files : ~TaskText(f)
        /\ Recovering /\ call' = None => ~Interrupted']_vars
=============================================================================
