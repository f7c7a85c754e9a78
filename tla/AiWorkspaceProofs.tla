------------------------- MODULE AiWorkspaceProofs -------------------------
(***************************************************************************)
(* Theorems about AiWorkspace, for any files, texts, faults and crashes:   *)
(* the types, that a user's text is never replaced unseen, and - as long   *)
(* as no save has overwritten a newer record - that text of the task in    *)
(* the project always has its undo on disk and that transactions end       *)
(* whole.                                                                  *)
(*                                                                         *)
(* Two invariants carry them.  WorkInv says what each call in flight holds *)
(* of the files it is about to write, whatever is saved beside it; UndoInv *)
(* says how the record, the manifest, the history variable and the call    *)
(* agree while nothing was lost.                                           *)
(***************************************************************************)
EXTENDS AiWorkspace, TLAPS

Kinds == {"start", "pause", "reject", "conflict", "discard", "remove",
          "apply", "rollback", "recover"}
Phases == {"start", "save", "drop", "remove", "manifest", "write", "check", "undo"}

Calls == [kind : Kinds, phase : Phases, task : TaskRecords, seen : TaskRecords,
          entries : Entries, todo : SUBSET Files, done : SUBSET Files]

Changes == [original : Texts, proposed : Proposals]

Entry == [original : Texts, applied : Accepted]

Backgrounds == [kind : {"propose"}, seen : TaskRecords, file : Files, change : Changes]
               \cup [kind : {"storage"}, seen : TaskRecords]

Budgets == [writes : 0 .. Len(Proposed), edits : 0 .. Len(Typed),
            faults : Nat, crashes : Nat]

(* The types, and the bounds of the counters.                              *)
Typing ==
    /\ task \in TaskRecords
    /\ manifest \in Entries
    /\ project \in [Files -> Texts]
    /\ sandbox \in [Files -> Texts]
    /\ background \in Backgrounds \cup {None}
    /\ call \in Calls \cup {None}
    /\ budget \in Budgets
    /\ late \in SUBSET Files
    /\ pre \in [Files -> Texts \cup {Unowned}]
    /\ lost \in BOOLEAN

(* The clean-up goes by the record of a finished task.                     *)
Storing == background.kind = "storage" => background.seen.state \in Terminal

(* A call that saves once keeps the checkpoint its record names.           *)
ShortCalls ==
    /\ call.kind \in {"start", "pause", "reject", "conflict", "discard"} =>
          /\ call.seen.state # "rolled-back"
          /\ call.task.state # "rolled-back"
          /\ call.seen.checkpoint => call.task.checkpoint
    /\ call.kind \in {"start", "pause", "reject", "conflict"} => call.phase = "save"
    /\ call.kind = "start" => call.seen.state = "preparing"
    /\ call.kind = "pause" => call.task.state = "paused"
    /\ call.kind = "reject" => /\ call.seen.state = "review"
                               /\ call.task.state \in {"review", "applied", "paused"}
    /\ call.kind = "conflict" => call.task.state = "conflict"
    /\ call.kind = "discard" => call.task.state = "discarded"
    /\ call.kind = "remove" => /\ call.phase = "remove"
                               /\ ~call.seen.checkpoint

Unchanged(f) == project[f] = call.task.changes[f].original
Applied(f)   == project[f] = call.entries[f].applied
Restored(f)  == project[f] = call.entries[f].original

(* Files an apply has yet to write hold what was reviewed, those it has    *)
(* written what was accepted, unless the user edited them since.           *)
Applying ==
    call.kind = "apply" =>
      /\ call.phase \in {"save", "manifest", "write", "undo"}
      /\ call.task.state = "applying" /\ call.task.checkpoint
      /\ call.seen.state # "rolled-back"
      /\ call.todo \cup call.done \subseteq DOMAIN call.entries \cap DOMAIN call.task.changes
      /\ \A f \in call.todo \cup call.done :
            call.entries[f].applied \in Offered(call.task.changes[f])
      /\ call.phase # "undo" => \A f \in call.todo \ late : Unchanged(f)
      /\ \A f \in call.done \ late : Applied(f)
      /\ call.phase \in {"save", "manifest"} => call.done = {}
      /\ call.phase \in {"write", "undo"} => manifest = call.entries

(* The same of a rollback, which goes by the manifest on disk.             *)
RollingBack ==
    call.kind = "rollback" =>
      /\ call.phase \in {"save", "check", "write", "undo"}
      /\ call.task.state = "rolling-back" /\ call.task.checkpoint
      /\ call.seen.state # "rolled-back"
      /\ call.entries = manifest
      /\ call.todo \cup call.done \subseteq DOMAIN call.entries
      /\ call.phase \in {"save", "check"} => call.done = {}
      /\ call.phase = "write" =>
            /\ \A f \in call.todo \ late : Applied(f)
            /\ call.todo \cup call.done = DOMAIN call.entries
      /\ call.phase \in {"write", "undo"} => \A f \in call.done \ late : Restored(f)

(* The files recovery puts back.                                           *)
Scope == IF task.state = "applying" THEN Selected ELSE DOMAIN manifest

(* Recovery is alone: nothing is in flight beside it, and what it saves    *)
(* follows from the manifest it left.                                      *)
InRecovery ==
    call.kind = "recover" =>
      /\ background = None
      /\ call.phase \in {"start", "write", "save"}
      /\ call.seen = task
      /\ call.phase = "start" => call.task = task /\ call.done = {}
      /\ call.phase = "write" =>
            /\ Interrupted
            /\ call.task = task
            /\ task.checkpoint
            /\ call.entries = manifest
            /\ call.todo \cup call.done = Scope
            /\ \A f \in call.todo \ late :
                  project[f] \in {call.entries[f].original, call.entries[f].applied}
      /\ call.phase = "save" =>
            /\ task.state # "rolled-back"
            /\ call.task.state \in {"conflict", "review", "rolled-back", "paused"}
            /\ call.task.state = "review" =>
                  /\ task.state = "applying"
                  /\ Selected = {}
                  /\ call.task.checkpoint = (manifest # <<>>)
            /\ call.task.state # "review" => call.task.checkpoint = task.checkpoint
            /\ call.task.state = "rolled-back" => task.state = "rolling-back"

(* What holds whatever a save overwrites.                                  *)
WorkInv == Typing /\ Storing /\ ShortCalls /\ Applying /\ RollingBack /\ InRecovery

(* A transaction whose record is on disk.                                  *)
InForce ==
    \/ call.kind = "apply" /\ call.phase \in {"manifest", "write", "undo"}
    \/ call.kind = "rollback" /\ call.phase \in {"check", "write", "undo"}

CallsSeeTheirRecord == InForce => call.task = task /\ call.seen = task

(* The manifest an apply will write keeps the originals of the last one.   *)
Planned ==
    call.kind = "apply" /\ call.phase \in {"save", "manifest"} =>
      /\ DOMAIN call.entries = DOMAIN manifest \cup call.todo
      /\ \A f \in DOMAIN call.entries :
           call.entries[f].original =
              IF f \in DOMAIN manifest THEN manifest[f].original
              ELSE call.task.changes[f].original

(* The manifest has the text every file in it had before the task, no file *)
(* outside it holds text of the task, and a record that names no           *)
(* checkpoint has none.                                                    *)
OriginalsKept == task.state # "rolled-back" =>
                    \A f \in DOMAIN manifest : pre[f] = manifest[f].original
NothingOwned == task.state = "rolled-back" => \A f \in Files : pre[f] = Unowned
InManifest == \A f \in Files : TaskText(f) => f \in DOMAIN manifest
CheckpointNamed == ~task.checkpoint => manifest = <<>>

(* A file a rollback or the recovery has put back is free of the task.     *)
PutBack ==
    /\ call.kind \in {"rollback", "recover"} /\ call.phase = "write" =>
          \A f \in call.done : ~TaskText(f)
    /\ call.kind = "recover" /\ call.phase = "save" /\ call.task.state = "rolled-back" =>
          \A f \in Files : ~TaskText(f)

(* What holds until a save overwrites a newer record.                      *)
UndoInv == ~lost => /\ CallsSeeTheirRecord /\ Planned /\ OriginalsKept /\ NothingOwned
                 /\ InManifest /\ CheckpointNamed /\ PutBack

(* What it is to be a function on some of a set.                           *)
LEMMA PartialFunctions ==
    ASSUME NEW S, NEW T, NEW fn
    PROVE  fn \in PartialOn(S, T) <=> DOMAIN fn \subseteq S /\ fn \in [DOMAIN fn -> T]
BY DEF PartialOn

(* Taking paths out of a change set or a manifest leaves one.              *)
LEMMA WithoutIsPartial ==
    ASSUME NEW S, NEW T, NEW fn \in PartialOn(S, T), NEW X
    PROVE  /\ Without(fn, X) \in PartialOn(S, T)
           /\ DOMAIN Without(fn, X) = DOMAIN fn \ X
           /\ \A x \in DOMAIN fn \ X : Without(fn, X)[x] = fn[x]
BY PartialFunctions DEF Without

(* The empty manifest is one.                                              *)
LEMMA EmptyIsPartial ==
    ASSUME NEW S, NEW T
    PROVE  <<>> \in PartialOn(S, T) /\ DOMAIN <<>> = {}
<1>1. PICK e : e = <<>>
  OBVIOUS
<1>2. DOMAIN e = {} /\ e \in [{} -> T]
  BY <1>1
<1> QED
  BY <1>1, <1>2, PartialFunctions

(* The fields of a record, and the records that differ from it in one.     *)
LEMMA TaskFields ==
    ASSUME NEW t \in TaskRecords
    PROVE  /\ t.state \in States
           /\ t.checkpoint \in BOOLEAN
           /\ t.sandbox \in BOOLEAN
           /\ t.changes \in PartialOn(Files, Changes)
BY DEF TaskRecords, Changes

(* The text that is typed or proposed next is one of the texts.            *)
LEMMA NextText ==
    ASSUME budget \in Budgets
    PROVE  /\ budget.edits > 0 => Nth(Typed, "edits") \in Edits
           /\ budget.writes > 0 => Nth(Proposed, "writes") \in Proposals
BY TextsAssumption, SMTT(30) DEF Budgets, Nth, Edits, Proposals, Range

(* Spending takes one from one of the bounds.                              *)
LEMMA SpendTyping ==
    ASSUME budget \in Budgets, NEW what \in {"writes", "edits", "faults", "crashes"},
           Spend(what)
    PROVE  budget' \in Budgets
BY DEF Budgets, Spend

(* A new call is one.                                                      *)
LEMMA CallTyping ==
    ASSUME task \in TaskRecords, NEW k \in Kinds, NEW p \in Phases, NEW t \in TaskRecords
    PROVE  /\ Call(k, p, t) \in Calls
           /\ Call(k, p, t).kind = k /\ Call(k, p, t).phase = p
           /\ Call(k, p, t).task = t /\ Call(k, p, t).seen = task
           /\ Call(k, p, t).entries = <<>>
           /\ Call(k, p, t).todo = {} /\ Call(k, p, t).done = {}
<1>1. <<>> \in Entries
  BY EmptyIsPartial DEF Entries
<1>2. PICK e \in Entries : e = <<>>
  BY <1>1
<1> QED
  BY <1>2 DEF Call, Calls

(* No kind of call is none.                                                *)
LEMMA SomeCall ==
    ASSUME NEW c \in Calls \cup {None}
    PROVE  /\ c.kind \in Kinds => c \in Calls
           /\ c = None <=> c.kind = "none"
           /\ c \in Calls <=> c # None
BY DEF Calls, None, Kinds

(* A record in another state, and without its sandbox, is a record.        *)
LEMMA RecordTyping ==
    ASSUME NEW t \in TaskRecords
    PROVE  /\ \A s \in States : [t EXCEPT !.state = s] \in TaskRecords
           /\ \A b \in BOOLEAN : [t EXCEPT !.sandbox = b] \in TaskRecords
           /\ \A b \in BOOLEAN : [t EXCEPT !.checkpoint = b] \in TaskRecords
           /\ \A s \in States, b \in BOOLEAN :
                 /\ [t EXCEPT !.state = s, !.sandbox = b] \in TaskRecords
                 /\ [t EXCEPT !.state = s, !.checkpoint = b] \in TaskRecords
           /\ \A s \in States, ch \in PartialOn(Files, Changes) :
                 /\ [t EXCEPT !.state = s, !.changes = ch] \in TaskRecords
                 /\ [t EXCEPT !.changes = ch, !.state = s] \in TaskRecords
BY DEF TaskRecords, Changes

(* A save puts a record on disk.                                           *)
LEMMA SaveTyping ==
    ASSUME lost \in BOOLEAN, NEW t \in TaskRecords, NEW seen, Save(t, seen)
    PROVE  task' \in TaskRecords /\ lost' \in BOOLEAN
BY DEF Save

(* A written file holds what was written, the others what they held.       *)
LEMMA WriteTyping ==
    ASSUME project \in [Files -> Texts], NEW f \in Files, NEW x \in Texts,
           WriteFile(f, x)
    PROVE  /\ project' \in [Files -> Texts]
           /\ project'[f] = x
           /\ \A g \in Files \ {f} : project'[g] = project[g]
BY DEF WriteFile

(* The history variable keeps its type.                                    *)
LEMMA OwnTyping ==
    ASSUME pre \in [Files -> Texts \cup {Unowned}]
    PROVE  /\ \A S : Disowning(S) => pre' \in [Files -> Texts \cup {Unowned}]
           /\ \A o : /\ \A f \in DOMAIN o : o[f] \in Texts
                     /\ Owning(o)
                     => pre' \in [Files -> Texts \cup {Unowned}]
BY DEF Owning, Disowning

(* The first state is typed.                                               *)
LEMMA InitTyping == Init => Typing
<1> SUFFICES ASSUME Init PROVE Typing
  OBVIOUS
<1>1. <<>> \in PartialOn(Files, Changes) /\ <<>> \in Entries
  BY EmptyIsPartial DEF Entries
<1>2. PICK e : e = <<>>
  OBVIOUS
<1>3. task \in TaskRecords
  <2>1. task = [state |-> "preparing", checkpoint |-> FALSE, sandbox |-> FALSE,
                changes |-> e]
    BY <1>2 DEF Init
  <2> QED
    BY <1>1, <1>2, <2>1 DEF TaskRecords, States, Changes
<1>4. call \in Calls
  <2>1. "start" \in Kinds /\ "save" \in Phases
    BY DEF Kinds, Phases
  <2> QED
    BY <1>3, <2>1, CallTyping DEF Init
<1>5. budget \in Budgets
  BY TextsAssumption, BoundsAssumption DEF Init, Budgets
<1> QED
  BY <1>1, <1>3, <1>4, <1>5, TextsAssumption DEF Init, Typing

(* The agent's two steps are typed.                                        *)
LEMMA AgentTyping ==
    ASSUME Typing, Storing, Agent
    PROVE  Typing' /\ Storing'
<1>2. ASSUME NEW f \in Files, NEW baseline \in {"human", "sandbox"},
             WriteProposal(f, baseline)
      PROVE  Typing' /\ Storing'
  <2>1. budget' \in Budgets /\ Nth(Proposed, "writes") \in Proposals
    BY <1>2, SpendTyping, NextText DEF WriteProposal, Typing, Spend
  <2>2. Original(f, baseline) \in Texts
    <3>1. task.changes \in PartialOn(Files, Changes)
      BY TaskFields DEF Typing
    <3>2. f \in DOMAIN task.changes => task.changes[f] \in Changes
      BY <3>1, PartialFunctions
    <3> QED
      BY <3>2 DEF Original, Typing, Changes
  <2>3. background' \in Backgrounds /\ background'.kind = "propose"
    BY <1>2, <2>1, <2>2 DEF WriteProposal, Backgrounds, Changes, Typing
  <2>4. sandbox' \in [Files -> Texts]
    BY <1>2, <2>1 DEF WriteProposal, Typing, Texts, Accepted
  <2> QED
    BY <1>2, <2>1, <2>3, <2>4 DEF WriteProposal, Typing, Storing
<1>3. ASSUME ProposalSaved
      PROVE  Typing' /\ Storing'
  <2> DEFINE b == background
  <2>1. b \in [kind : {"propose"}, seen : TaskRecords, file : Files, change : Changes]
    BY <1>3 DEF ProposalSaved, Typing, Backgrounds, None
  <2>2. UpdateForReview \in TaskRecords
    <3> DEFINE ch == [f \in DOMAIN b.seen.changes \cup {b.file} |->
                         IF f = b.file THEN b.change ELSE b.seen.changes[f]]
    <3>1. b.seen.changes \in PartialOn(Files, Changes)
      BY <2>1, TaskFields
    <3>2. \A f \in DOMAIN b.seen.changes : b.seen.changes[f] \in Changes
      BY <3>1, PartialFunctions
    <3>3. DOMAIN ch \subseteq Files /\ ch \in [DOMAIN ch -> Changes]
      BY <2>1, <3>1, <3>2, PartialFunctions
    <3>4. ch \in PartialOn(Files, Changes)
      BY <3>3, PartialFunctions
    <3>5. UpdateForReview = [b.seen EXCEPT !.state = "review", !.changes = ch]
      BY DEF UpdateForReview
    <3> HIDE DEF ch
    <3> QED
      BY <2>1, <3>4, <3>5, RecordTyping DEF States
  <2>3. task' \in TaskRecords /\ lost' \in BOOLEAN
    BY <1>3, <2>2, SaveTyping DEF ProposalSaved, Typing
  <2> QED
    BY <1>3, <2>3 DEF ProposalSaved, Typing, Storing, None
<1> QED
  BY <1>2, <1>3 DEF Agent

(* A call that moves on is a call.                                         *)
LEMMA CallMoves ==
    ASSUME NEW c \in Calls
    PROVE  /\ \A p \in Phases :
                 /\ [c EXCEPT !.phase = p] \in Calls
                 /\ [c EXCEPT !.phase = p, !.seen = c.task] \in Calls
           /\ \A p \in Phases, td \in SUBSET Files :
                 [c EXCEPT !.phase = p, !.todo = td] \in Calls
           /\ \A p \in Phases, td \in SUBSET Files, e \in Entries :
                 [c EXCEPT !.phase = p, !.entries = e, !.todo = td] \in Calls
           /\ \A td \in SUBSET Files, e \in Entries :
                 [c EXCEPT !.entries = e, !.todo = td] \in Calls
           /\ \A e \in Entries : [c EXCEPT !.entries = e] \in Calls
           /\ \A f \in Files :
                 /\ [c EXCEPT !.todo = @ \ {f}, !.done = @ \cup {f}] \in Calls
                 /\ [c EXCEPT !.done = @ \ {f}] \in Calls
           /\ \A p \in Phases, s \in States :
                 [c EXCEPT !.phase = p, !.task.state = s] \in Calls
           /\ \A p \in Phases, s \in States, k \in Kinds :
                 [c EXCEPT !.kind = k, !.phase = p, !.task.state = s] \in Calls
           /\ \A p \in Phases, s \in States, b \in BOOLEAN :
                 [c EXCEPT !.phase = p, !.task.state = s, !.task.checkpoint = b] \in Calls
<1>1. c.task \in TaskRecords
  BY DEF Calls
<1>2. \A s \in States : [c.task EXCEPT !.state = s] \in TaskRecords
  BY <1>1, RecordTyping
<1>3. \A s \in States, b \in BOOLEAN :
         [c.task EXCEPT !.state = s, !.checkpoint = b] \in TaskRecords
  BY <1>1, RecordTyping
<1> QED
  BY <1>1, <1>2, <1>3 DEF Calls

(* What is left of a removed task is a record.                             *)
LEMMA RemovedTyping ==
    Removed \in TaskRecords /\ ~Removed.checkpoint /\ Removed.state = "removed"
<1>1. PICK e \in PartialOn(Files, Changes) : e = <<>>
  BY EmptyIsPartial
<1>2. Removed = [state |-> "removed", checkpoint |-> FALSE, sandbox |-> FALSE,
                 changes |-> e]
  BY <1>1 DEF Removed
<1> QED
  BY <1>2 DEF TaskRecords, States, Changes

(* The short calls and their saves are typed.                              *)
LEMMA SavingTyping ==
    ASSUME Typing, NEW k \in Kinds, NEW t \in TaskRecords, Saving(k, t),
           sandbox' \in [Files -> Texts]
    PROVE  Typing'
<1>1. Call(k, "save", t) \in Calls
  BY CallTyping DEF Typing, Phases
<1> QED
  BY <1>1 DEF Typing, Saving

(* The calls that save once are typed.                                     *)
LEMMA OneSaveTyping ==
    ASSUME Typing, OneSave
    PROVE  Typing'
<1>1. /\ task \in TaskRecords
      /\ task.changes \in PartialOn(Files, Changes)
  BY TaskFields DEF Typing
<1>2. call # None => /\ call \in Calls
                     /\ call.task \in TaskRecords
                     /\ call.task.changes \in PartialOn(Files, Changes)
  <2>1. call # None => call \in Calls
    BY DEF Typing
  <2>2. call # None => call.task \in TaskRecords
    BY <2>1 DEF Calls
  <2> QED
    BY <2>1, <2>2, TaskFields
<1> USE DEF Typing
<1>3. ASSUME StartSave PROVE Typing'
  <2>1. call.task \in TaskRecords /\ "ready" \in States /\ "failed" \in States
    BY <1>2, <1>3 DEF StartSave, None, States
  <2>3. /\ [call.task EXCEPT !.state = "ready", !.sandbox = TRUE] \in TaskRecords
        /\ [call.task EXCEPT !.state = "failed"] \in TaskRecords
    BY <2>1, RecordTyping
  <2>2. task' \in TaskRecords /\ lost' \in BOOLEAN
    BY <1>3, <2>3, SaveTyping DEF StartSave
  <2> QED
    BY <1>3, <2>2 DEF StartSave
<1>4. ASSUME Pause PROVE Typing'
  <2>1. "pause" \in Kinds /\ [task EXCEPT !.state = "paused"] \in TaskRecords
    BY <1>1, RecordTyping DEF States, Kinds
  <2> QED
    BY <1>4, <2>1, SavingTyping DEF Pause
<1>5. ASSUME SaveRecord PROVE Typing'
  <2>1. task' \in TaskRecords /\ lost' \in BOOLEAN
    BY <1>2, <1>5, SaveTyping DEF SaveRecord
  <2> QED
    BY <1>5, <2>1 DEF SaveRecord
<1>6. ASSUME NEW f \in Files, Reject(f) PROVE Typing'
  <2>1. Without(task.changes, {f}) \in PartialOn(Files, Changes)
    BY <1>1, WithoutIsPartial
  <2>2. "reject" \in Kinds /\ Rejected(f) \in TaskRecords
    BY <1>1, <2>1, RecordTyping DEF Rejected, States, Kinds
  <2>3. task.changes[f] \in Changes
    BY <1>1, <1>6, PartialFunctions DEF Reject
  <2>4. sandbox' \in [Files -> Texts]
    BY <1>6, <2>3 DEF Reject, Changes
  <2> QED
    BY <1>6, <2>2, <2>4, SavingTyping DEF Reject
<1>7. ASSUME Discard PROVE Typing'
  <2>1. "discard" \in Kinds /\ [task EXCEPT !.state = "discarded"] \in TaskRecords
    BY <1>1, RecordTyping DEF States, Kinds
  <2>2. (IF task.state = "discarded" THEN "drop" ELSE "save") \in Phases
    BY DEF Phases
  <2>3. call' \in Calls
    BY <1>1, <1>7, <2>1, <2>2, CallTyping DEF Discard
  <2> QED
    BY <1>7, <2>3 DEF Discard
<1>8. ASSUME DiscardSaved PROVE Typing'
  <2>1. task' \in TaskRecords /\ lost' \in BOOLEAN
    BY <1>2, <1>8, SaveTyping DEF DiscardSaved, None
  <2>2. call' \in Calls
    <3>1. call \in Calls /\ "drop" \in Phases
      BY <1>2, <1>8 DEF DiscardSaved, None, Phases
    <3> QED
      BY <1>8, <3>1, CallMoves DEF DiscardSaved
  <2> QED
    BY <1>8, <2>1, <2>2 DEF DiscardSaved
<1>9. ASSUME DiscardDropped PROVE Typing'
  <2>1. [call.task EXCEPT !.sandbox = FALSE] \in TaskRecords
    <3>1. call.task \in TaskRecords
      BY <1>2, <1>9 DEF DiscardDropped, None
    <3> QED
      BY <3>1, RecordTyping
  <2>2. task' \in TaskRecords /\ lost' \in BOOLEAN
    BY <1>9, <2>1, SaveTyping DEF DiscardDropped
  <2> QED
    BY <1>9, <2>2 DEF DiscardDropped
<1>10. Removed \in TaskRecords /\ <<>> \in Entries
  BY RemovedTyping, EmptyIsPartial DEF Entries
<1>11. ASSUME Remove PROVE Typing'
  <2>1. call' \in Calls
    BY <1>1, <1>10, <1>11, CallTyping DEF Remove, Kinds, Phases
  <2> QED
    BY <1>11, <2>1 DEF Remove
<1>12. ASSUME RemoveDone PROVE Typing'
  <2>1. task' \in TaskRecords /\ lost' \in BOOLEAN
    BY <1>10, <1>12, SaveTyping DEF RemoveDone
  <2> QED
    BY <1>10, <1>12, <2>1 DEF RemoveDone
<1> QED
  BY <1>3, <1>4, <1>5, <1>6, <1>7, <1>8, <1>9, <1>11, <1>12 DEF OneSave

(* The clean-up is typed.                                                  *)
LEMMA MaintenanceTyping ==
    ASSUME Typing, Storing, Maintenance
    PROVE  Typing' /\ Storing'
<1>1. task \in TaskRecords /\ task.changes \in PartialOn(Files, Changes)
  BY TaskFields DEF Typing
<1>2. ASSUME DropSandbox PROVE Typing' /\ Storing'
  <2>1. background' \in Backgrounds
    BY <1>1, <1>2 DEF DropSandbox, Backgrounds
  <2> QED
    BY <1>2, <2>1 DEF DropSandbox, Typing, Storing
<1>3. ASSUME SandboxDropped PROVE Typing' /\ Storing'
  <2>1. background.seen \in TaskRecords
    BY <1>3 DEF SandboxDropped, Typing, Backgrounds, None
  <2>2. [background.seen EXCEPT !.sandbox = FALSE] \in TaskRecords
    BY <2>1, TaskFields, RecordTyping
  <2>3. task' \in TaskRecords /\ lost' \in BOOLEAN
    BY <1>3, <2>2, SaveTyping DEF SandboxDropped, Typing
  <2> QED
    BY <1>3, <2>3 DEF SandboxDropped, Typing, Storing, None
<1>4. ASSUME DropCheckpoint PROVE Typing' /\ Storing'
  <2>1. task' \in TaskRecords
    BY <1>1, <1>4, RecordTyping DEF DropCheckpoint
  <2>2. <<>> \in Entries
    BY EmptyIsPartial DEF Entries
  <2>3. pre' \in [Files -> Texts \cup {Unowned}]
    BY <1>4, OwnTyping DEF DropCheckpoint, Typing
  <2> QED
    BY <1>4, <2>1, <2>2, <2>3 DEF DropCheckpoint, Typing, Storing
<1> QED
  BY <1>2, <1>3, <1>4 DEF Maintenance

(* A crash leaves a typed state.                                           *)
LEMMA CrashTyping ==
    ASSUME Typing, Crash
    PROVE  Typing'
<1>1. budget' \in Budgets
  BY SpendTyping DEF Crash, Typing
<1>2. call' \in Calls
  BY CallTyping DEF Crash, Typing, Kinds, Phases
<1> QED
  BY <1>1, <1>2 DEF Crash, Typing

(* What the user types is a text.                                          *)
LEMMA HumanEditTyping ==
    ASSUME Typing, NEW f \in Files, HumanEdit(f)
    PROVE  Typing'
<1>1. budget' \in Budgets
  BY SpendTyping DEF HumanEdit, Typing
<1>2. Nth(Typed, "edits") \in Texts
  BY NextText DEF HumanEdit, Typing, Spend, Texts
<1>3. project' \in [Files -> Texts]
  BY <1>2, WriteTyping DEF HumanEdit, Typing
<1> QED
  BY <1>1, <1>3 DEF HumanEdit, Typing

(* What is accepted of a proposal is one of the texts an apply may write.  *)
LEMMA ContentsTyping ==
    ASSUME NEW f, NEW part, task.changes[f] \in Changes
    PROVE  /\ Contents(f, part) \in Accepted
           /\ Contents(f, part) \in Offered(task.changes[f])
<1>1. task.changes[f].proposed \in Proposals
  BY DEF Changes
<1>2. Partial[task.changes[f].proposed] \in Accepted
  BY <1>1, TextsAssumption
<1> QED
  BY <1>1, <1>2 DEF Contents, Offered, Accepted

(* The manifest an apply is about to write, for the files selected.        *)
LEMMA ManifestOf ==
    ASSUME Typing, NEW sel \in SUBSET DOMAIN task.changes, NEW part
    PROVE  /\ ManifestFor(sel, part) \in Entries
           /\ sel \subseteq DOMAIN ManifestFor(sel, part)
           /\ \A f \in sel : ManifestFor(sel, part)[f].applied
                                \in Offered(task.changes[f])
<1> DEFINE old == IF task.checkpoint THEN manifest ELSE <<>>
           m == ManifestFor(sel, part)
<1>1. task.changes \in PartialOn(Files, Changes)
  BY TaskFields DEF Typing
<1>2. \A f \in sel : task.changes[f] \in Changes /\ f \in Files
  BY <1>1, PartialFunctions
<1>3. old \in PartialOn(Files, Entry)
  BY EmptyIsPartial DEF Typing, Entries, Entry
<1>4. DOMAIN old \subseteq Files /\ \A f \in DOMAIN old : old[f] \in Entry
  BY <1>3, PartialFunctions
<1>5. m = [f \in DOMAIN old \cup sel |->
            IF f \notin sel THEN old[f]
            ELSE [original |-> IF f \in DOMAIN old THEN old[f].original
                               ELSE task.changes[f].original,
                  applied  |-> Contents(f, part)]]
  BY DEF ManifestFor
<1> HIDE DEF old, m
<1>6. \A f \in DOMAIN old \cup sel : m[f] \in Entry
  <2>1. \A f \in sel : Contents(f, part) \in Accepted
    BY <1>2, ContentsTyping
  <2> QED
    BY <1>2, <1>4, <1>5, <2>1 DEF Changes, Entry
<1>7. m \in PartialOn(Files, Entry)
  <2>1. DOMAIN m \subseteq Files /\ m \in [DOMAIN m -> Entry]
    BY <1>2, <1>4, <1>5, <1>6
  <2> QED
    BY <2>1, PartialFunctions
<1>8. \A f \in sel : m[f].applied \in Offered(task.changes[f])
  BY <1>2, <1>5, ContentsTyping
<1> QED
  BY <1>5, <1>7, <1>8 DEF m, Entries, Entry

(* An entry of the call's manifest is one.                                 *)
LEMMA EntryTyping ==
    ASSUME NEW c \in Calls
    PROVE  /\ DOMAIN c.entries \subseteq Files
           /\ \A f \in DOMAIN c.entries : /\ c.entries[f].original \in Texts
                                          /\ c.entries[f].applied \in Accepted
                                          /\ c.entries[f].applied \in Texts
           /\ DOMAIN c.task.changes \subseteq Files
           /\ \A f \in DOMAIN c.task.changes : /\ c.task.changes[f].original \in Texts
                                               /\ c.task.changes[f].proposed \in Proposals
<1>1. c.entries \in PartialOn(Files, Entry)
  BY DEF Calls, Entries, Entry
<1>2. c.task.changes \in PartialOn(Files, Changes)
  BY TaskFields DEF Calls
<1>3. DOMAIN c.entries \subseteq Files /\ DOMAIN c.task.changes \subseteq Files
  BY <1>1, <1>2, PartialFunctions
<1>4. \A f \in DOMAIN c.entries : c.entries[f] \in Entry
  BY <1>1, PartialFunctions
<1>5. \A f \in DOMAIN c.task.changes : c.task.changes[f] \in Changes
  BY <1>2, PartialFunctions
<1> QED
  BY <1>3, <1>4, <1>5 DEF Changes, Entry, Texts

(* The steps of an apply are typed.                                        *)
LEMMA ApplyTyping ==
    ASSUME Typing, Applying, Apply
    PROVE  Typing'
<1>1. /\ task \in TaskRecords
      /\ task.changes \in PartialOn(Files, Changes)
  BY TaskFields DEF Typing
<1>2. call.kind = "apply" =>
        /\ call \in Calls
        /\ call.task \in TaskRecords
        /\ call.task.changes \in PartialOn(Files, Changes)
  <2>1. call.kind = "apply" => call \in Calls
    BY SomeCall DEF Typing, Kinds
  <2>2. call.kind = "apply" => call.task \in TaskRecords
    BY <2>1 DEF Calls
  <2> QED
    BY <2>1, <2>2, TaskFields
<1> USE DEF Typing
<1>3. ASSUME NEW sel \in SUBSET Files, ApplyConflict(sel) PROVE Typing'
  <2>1. "conflict" \in Kinds /\ [task EXCEPT !.state = "conflict"] \in TaskRecords
    BY <1>1, RecordTyping DEF States, Kinds
  <2> QED
    BY <1>3, <2>1, SavingTyping DEF ApplyConflict
<1>4. ASSUME NEW sel \in SUBSET Files, NEW part \in SUBSET sel, ApplyStart(sel, part)
      PROVE  Typing'
  <2>1. "apply" \in Kinds /\ "save" \in Phases /\ "applying" \in States
    BY DEF Kinds, Phases, States
  <2>2. [task EXCEPT !.state = "applying", !.checkpoint = TRUE] \in TaskRecords
    BY <1>1, <2>1, RecordTyping
  <2>3. ManifestFor(sel, part) \in Entries
    BY <1>4, ManifestOf DEF ApplyStart, CanApply
  <2>4. call' \in Calls
    BY <1>1, <1>4, <2>1, <2>2, <2>3, CallTyping, CallMoves DEF ApplyStart
  <2> QED
    BY <1>4, <2>4 DEF ApplyStart
<1>5. ASSUME ApplySaved PROVE Typing'
  <2>1. task' \in TaskRecords /\ lost' \in BOOLEAN
    BY <1>2, <1>5, SaveTyping DEF ApplySaved
  <2>2. call' \in Calls
    <3>1. call \in Calls /\ "manifest" \in Phases
      BY <1>2, <1>5 DEF ApplySaved, Phases
    <3> QED
      BY <1>5, <3>1, CallMoves DEF ApplySaved
  <2> QED
    BY <1>5, <2>1, <2>2 DEF ApplySaved
<1>6. ASSUME ApplyManifest PROVE Typing'
  <2>1. call \in Calls /\ "write" \in Phases
    BY <1>2, <1>6 DEF ApplyManifest, Phases
  <2>2. call' \in Calls
    BY <1>6, <2>1, CallMoves DEF ApplyManifest
  <2>3. manifest' \in Entries
    BY <1>6, <2>1 DEF ApplyManifest, Calls
  <2>4. pre' \in [Files -> Texts \cup {Unowned}]
    <3> DEFINE o == [f \in call.todo |-> call.task.changes[f].original]
    <3>1. call.todo \subseteq DOMAIN call.task.changes
      BY <1>6 DEF ApplyManifest, Applying
    <3>2. \A f \in DOMAIN o : o[f] \in Texts
      BY <2>1, <3>1, EntryTyping
    <3>3. Owning(o)
      BY <1>6 DEF ApplyManifest
    <3> HIDE DEF o
    <3> QED
      BY <3>2, <3>3, OwnTyping
  <2> QED
    BY <1>6, <2>2, <2>3, <2>4 DEF ApplyManifest
<1>7. ASSUME NEW f \in Files, ApplyWrite(f) PROVE Typing'
  <2>1. call \in Calls /\ f \in DOMAIN call.entries
    BY <1>2, <1>7 DEF ApplyWrite, Applying
  <2>2. project' \in [Files -> Texts]
    BY <1>7, <2>1, EntryTyping, WriteTyping DEF ApplyWrite
  <2>3. call' \in Calls
    BY <1>7, <2>1, CallMoves DEF ApplyWrite
  <2> QED
    BY <1>7, <2>2, <2>3 DEF ApplyWrite
<1>8. ASSUME NEW f \in Files, ApplyUndo(f) PROVE Typing'
  <2>1. call \in Calls /\ f \in DOMAIN call.task.changes
    BY <1>2, <1>8 DEF ApplyUndo, Applying
  <2>2. project' \in [Files -> Texts]
    BY <1>8, <2>1, EntryTyping, WriteTyping DEF ApplyUndo
  <2>3. call' \in Calls
    BY <1>8, <2>1, CallMoves DEF ApplyUndo
  <2> QED
    BY <1>8, <2>2, <2>3 DEF ApplyUndo
<1>9. ASSUME ApplyWriteFails PROVE Typing'
  <2>1. budget' \in Budgets
    BY <1>9, SpendTyping DEF ApplyWriteFails
  <2>2. call \in Calls /\ "undo" \in Phases
    BY <1>2, <1>9 DEF ApplyWriteFails, Phases
  <2>3. call' \in Calls
    BY <1>9, <2>2, CallMoves DEF ApplyWriteFails
  <2> QED
    BY <1>9, <2>1, <2>3 DEF ApplyWriteFails
<1>10. ASSUME ApplyUndoFails PROVE Typing'
  BY <1>10 DEF ApplyUndoFails
<1>11. ASSUME ApplyFailed PROVE Typing'
  <2>1. call.task \in TaskRecords /\ "failed" \in States
    BY <1>2, <1>11 DEF ApplyFailed, States
  <2>2. [call.task EXCEPT !.state = "failed"] \in TaskRecords
    BY <2>1, RecordTyping
  <2>3. task' \in TaskRecords /\ lost' \in BOOLEAN
    BY <1>11, <2>2, SaveTyping DEF ApplyFailed
  <2> QED
    BY <1>11, <2>3 DEF ApplyFailed
<1>12. ASSUME ApplyDone PROVE Typing'
  <2>1. call.task \in TaskRecords /\ call.task.changes \in PartialOn(Files, Changes)
    BY <1>2, <1>12 DEF ApplyDone
  <2>2. Without(call.task.changes, call.done) \in PartialOn(Files, Changes)
    BY <2>1, WithoutIsPartial
  <2>3. AfterApply(call) \in TaskRecords
    BY <2>1, <2>2, RecordTyping DEF AfterApply, States
  <2>4. task' \in TaskRecords /\ lost' \in BOOLEAN
    BY <1>12, <2>3, SaveTyping DEF ApplyDone
  <2> QED
    BY <1>12, <2>4 DEF ApplyDone
<1> QED
  BY <1>3, <1>4, <1>5, <1>6, <1>7, <1>8, <1>9, <1>10, <1>11, <1>12 DEF Apply

(* The steps of a rollback are typed.                                      *)
LEMMA RollbackTyping ==
    ASSUME Typing, RollingBack, Rollback
    PROVE  Typing'
<1>1. task \in TaskRecords
  BY DEF Typing
<1>2. call.kind = "rollback" =>
        /\ call \in Calls
        /\ call.task \in TaskRecords
        /\ call.task.changes \in PartialOn(Files, Changes)
  <2>1. call.kind = "rollback" => call \in Calls
    BY SomeCall DEF Typing, Kinds
  <2>2. call.kind = "rollback" => call.task \in TaskRecords
    BY <2>1 DEF Calls
  <2> QED
    BY <2>1, <2>2, TaskFields
<1> USE DEF Typing
<1>3. ASSUME RollbackStart PROVE Typing'
  <2>1. "rollback" \in Kinds /\ "save" \in Phases /\ "rolling-back" \in States
    BY DEF Kinds, Phases, States
  <2>2. [task EXCEPT !.state = "rolling-back"] \in TaskRecords
    BY <1>1, <2>1, RecordTyping
  <2>3. call' \in Calls
    BY <1>1, <1>3, <2>1, <2>2, CallTyping, CallMoves DEF RollbackStart
  <2> QED
    BY <1>3, <2>3 DEF RollbackStart
<1>4. ASSUME RollbackSaved PROVE Typing'
  <2>1. task' \in TaskRecords /\ lost' \in BOOLEAN
    BY <1>2, <1>4, SaveTyping DEF RollbackSaved
  <2>2. call' \in Calls
    <3>1. call \in Calls /\ "check" \in Phases
      BY <1>2, <1>4 DEF RollbackSaved, Phases
    <3> QED
      BY <1>4, <3>1, CallMoves DEF RollbackSaved
  <2> QED
    BY <1>4, <2>1, <2>2 DEF RollbackSaved
<1>5. ASSUME RollbackCheck PROVE Typing'
  <2>1. /\ call \in Calls /\ "conflict" \in Kinds /\ "conflict" \in States
        /\ "write" \in Phases /\ "save" \in Phases
    BY <1>2, <1>5 DEF RollbackCheck, Phases, Kinds, States
  <2>2. DOMAIN call.entries \in SUBSET Files
    BY <2>1, EntryTyping
  <2>3. /\ [call EXCEPT !.phase = "write", !.todo = DOMAIN call.entries] \in Calls
        /\ [call EXCEPT !.kind = "conflict", !.phase = "save",
                        !.task.state = "conflict"] \in Calls
    BY <2>1, <2>2, CallMoves
  <2>4. call' \in Calls
    BY <1>5, <2>3 DEF RollbackCheck
  <2> QED
    BY <1>5, <2>4 DEF RollbackCheck
<1>6. ASSUME NEW f \in Files, RollbackWrite(f) PROVE Typing'
  <2>1. call \in Calls /\ f \in DOMAIN call.entries
    BY <1>2, <1>6 DEF RollbackWrite, RollingBack
  <2>2. project' \in [Files -> Texts]
    BY <1>6, <2>1, EntryTyping, WriteTyping DEF RollbackWrite
  <2>3. call' \in Calls
    BY <1>6, <2>1, CallMoves DEF RollbackWrite
  <2> QED
    BY <1>6, <2>2, <2>3 DEF RollbackWrite
<1>7. ASSUME NEW f \in Files, RollbackUndo(f) PROVE Typing'
  <2>1. call \in Calls /\ f \in DOMAIN call.entries
    BY <1>2, <1>7 DEF RollbackUndo, RollingBack
  <2>2. project' \in [Files -> Texts]
    BY <1>7, <2>1, EntryTyping, WriteTyping DEF RollbackUndo
  <2>3. call' \in Calls
    BY <1>7, <2>1, CallMoves DEF RollbackUndo
  <2> QED
    BY <1>7, <2>2, <2>3 DEF RollbackUndo
<1>8. ASSUME RollbackWriteFails PROVE Typing'
  <2>1. budget' \in Budgets
    BY <1>8, SpendTyping DEF RollbackWriteFails
  <2>2. call \in Calls /\ "undo" \in Phases
    BY <1>2, <1>8 DEF RollbackWriteFails, Phases
  <2>3. call' \in Calls
    BY <1>8, <2>2, CallMoves DEF RollbackWriteFails
  <2> QED
    BY <1>8, <2>1, <2>3 DEF RollbackWriteFails
<1>9. ASSUME RollbackFailed PROVE Typing'
  <2>1. call.task \in TaskRecords /\ "failed" \in States
    BY <1>2, <1>9 DEF RollbackFailed, States
  <2>2. [call.task EXCEPT !.state = "failed"] \in TaskRecords
    BY <2>1, RecordTyping
  <2>3. task' \in TaskRecords /\ lost' \in BOOLEAN
    BY <1>9, <2>2, SaveTyping DEF RollbackFailed
  <2> QED
    BY <1>9, <2>3 DEF RollbackFailed
<1>10. ASSUME RollbackDone PROVE Typing'
  <2>1. call.task \in TaskRecords /\ "rolled-back" \in States
    BY <1>2, <1>10 DEF RollbackDone, States
  <2>2. [call.task EXCEPT !.state = "rolled-back", !.changes = <<>>] \in TaskRecords
    <3>1. PICK e \in PartialOn(Files, Changes) : e = <<>>
      BY EmptyIsPartial
    <3> QED
      BY <2>1, <3>1, RecordTyping
  <2>3. task' \in TaskRecords /\ lost' \in BOOLEAN
    BY <1>10, <2>2, SaveTyping DEF RollbackDone
  <2>4. pre' \in [Files -> Texts \cup {Unowned}]
    BY <1>10, OwnTyping DEF RollbackDone
  <2> QED
    BY <1>10, <2>3, <2>4 DEF RollbackDone
<1> QED
  BY <1>3, <1>4, <1>5, <1>6, <1>7, <1>8, <1>9, <1>10 DEF Rollback

(* The steps of the recovery at start-up are typed.                        *)
LEMMA RecoveryTyping ==
    ASSUME Typing, InRecovery, Recovery
    PROVE  Typing'
<1>1. call.kind = "recover" => call \in Calls
  BY SomeCall DEF Typing, Kinds
<1>2. /\ "write" \in Phases /\ "save" \in Phases
      /\ "conflict" \in States /\ "review" \in States
      /\ "rolled-back" \in States /\ "paused" \in States
  BY DEF Phases, States
<1>3. DOMAIN manifest \subseteq Files
  BY PartialFunctions DEF Typing, Entries
<1> USE DEF Typing
<1>4. ASSUME RecoverTransaction PROVE Typing'
  <2>1. call \in Calls
    BY <1>1, <1>4 DEF RecoverTransaction, Recovering
  <2>2. PICK td \in SUBSET Files :
           td = IF task.state = "applying" THEN Selected ELSE DOMAIN manifest
    BY <1>3 DEF Selected
  <2>3. /\ [call EXCEPT !.phase = "write", !.entries = manifest, !.todo = td] \in Calls
        /\ [call EXCEPT !.phase = "save", !.task.state = "conflict"] \in Calls
    <3>1. manifest \in Entries
      OBVIOUS
    <3> QED
      BY <1>2, <2>1, <3>1, CallMoves
  <2>4. call' \in Calls
    BY <1>4, <2>2, <2>3 DEF RecoverTransaction
  <2> QED
    BY <1>4, <2>4 DEF RecoverTransaction
<1>5. ASSUME NEW f \in Files, RecoverWrite(f) PROVE Typing'
  <2>1. call \in Calls /\ f \in DOMAIN call.entries
    BY <1>1, <1>5 DEF RecoverWrite, InRecovery, Recovering, Scope, Selected
  <2>2. project' \in [Files -> Texts]
    BY <1>5, <2>1, EntryTyping, WriteTyping DEF RecoverWrite
  <2>3. call' \in Calls
    BY <1>5, <2>1, CallMoves DEF RecoverWrite
  <2> QED
    BY <1>5, <2>2, <2>3 DEF RecoverWrite
<1>6. ASSUME RecoverWriteFails PROVE Typing'
  <2>1. budget' \in Budgets
    BY <1>6, SpendTyping DEF RecoverWriteFails
  <2>2. call \in Calls /\ "conflict" \in States
    BY <1>1, <1>2, <1>6 DEF RecoverWriteFails, Recovering
  <2>3. call' \in Calls
    BY <1>2, <1>6, <2>2, CallMoves DEF RecoverWriteFails
  <2> QED
    BY <1>6, <2>1, <2>3 DEF RecoverWriteFails
<1>7. ASSUME RecoverManifest PROVE Typing'
  <2>1. call \in Calls /\ "review" \in States /\ "rolled-back" \in States
    BY <1>1, <1>2, <1>7 DEF RecoverManifest, Recovering
  <2>2. Without(call.entries, call.done) \in Entries
    BY <2>1, WithoutIsPartial DEF Calls, Entries
  <2>3. manifest' \in Entries
    BY <1>7, <2>2 DEF RecoverManifest
  <2>4. PICK b \in BOOLEAN : b = (Without(call.entries, call.done) # <<>>)
    OBVIOUS
  <2>5. /\ [call EXCEPT !.phase = "save", !.task.state = "review",
                        !.task.checkpoint = b] \in Calls
        /\ [call EXCEPT !.phase = "save", !.task.state = "rolled-back"] \in Calls
    BY <1>2, <2>1, CallMoves
  <2>6. call' \in Calls
    BY <1>7, <2>4, <2>5 DEF RecoverManifest
  <2> QED
    BY <1>7, <2>3, <2>6 DEF RecoverManifest
<1>8. ASSUME RecoverSaved PROVE Typing'
  <2>1. call.task \in TaskRecords
    BY <1>1, <1>8 DEF RecoverSaved, Recovering, Calls
  <2>2. task' \in TaskRecords /\ lost' \in BOOLEAN
    BY <1>8, <2>1, SaveTyping DEF RecoverSaved
  <2>3. pre' \in [Files -> Texts \cup {Unowned}]
    BY <1>8, OwnTyping DEF RecoverSaved
  <2> QED
    BY <1>8, <2>2, <2>3 DEF RecoverSaved
<1>9. ASSUME RecoverActive PROVE Typing'
  <2>1. call \in Calls /\ "paused" \in States
    BY <1>1, <1>2, <1>9 DEF RecoverActive, Recovering
  <2>2. [call EXCEPT !.phase = "save", !.task.state = "paused"] \in Calls
    BY <1>2, <2>1, CallMoves
  <2>3. call' \in Calls \cup {None}
    BY <1>9, <2>2 DEF RecoverActive
  <2> QED
    BY <1>9, <2>3 DEF RecoverActive
<1> QED
  BY <1>4, <1>5, <1>6, <1>7, <1>8, <1>9 DEF Recovery

(* Every step is typed, and the clean-up keeps going by a finished record. *)
LEMMA TypingStep ==
    ASSUME WorkInv, [Next]_vars
    PROVE  Typing' /\ Storing'
<1>1. Typing /\ Storing /\ Applying /\ RollingBack /\ InRecovery
  BY DEF WorkInv
<1>3. CASE UNCHANGED vars
  BY <1>1, <1>3 DEF vars, Typing, Storing
<1>4. ASSUME NEW f \in Files, HumanEdit(f) PROVE Typing' /\ Storing'
  BY <1>1, <1>4, HumanEditTyping DEF HumanEdit, Storing
<1>5. CASE Agent
  BY <1>1, <1>5, AgentTyping
<1>6. CASE OneSave
  <2>1. UNCHANGED background
    BY <1>6 DEF OneSave, StartSave, Pause, SaveRecord, Reject, Discard, DiscardSaved,
                DiscardDropped, Remove, RemoveDone, Saving
  <2> QED
    BY <1>1, <1>6, <2>1, OneSaveTyping DEF Storing
<1>7. CASE Apply
  <2>1. UNCHANGED background
    BY <1>7 DEF Apply, ApplyConflict, ApplyStart, ApplySaved, ApplyManifest, ApplyWrite,
                ApplyUndo, ApplyWriteFails, ApplyUndoFails, ApplyFailed, ApplyDone, Saving
  <2> QED
    BY <1>1, <1>7, <2>1, ApplyTyping DEF Storing
<1>8. CASE Rollback
  <2>1. UNCHANGED background
    BY <1>8 DEF Rollback, RollbackStart, RollbackSaved, RollbackCheck, RollbackWrite,
                RollbackUndo, RollbackWriteFails, RollbackFailed, RollbackDone
  <2> QED
    BY <1>1, <1>8, <2>1, RollbackTyping DEF Storing
<1>9. CASE Maintenance
  BY <1>1, <1>9, MaintenanceTyping
<1>10. CASE Crash
  BY <1>1, <1>10, CrashTyping DEF Crash, Storing, None
<1>11. CASE Recovery
  <2>1. UNCHANGED background
    BY <1>11 DEF Recovery, RecoverTransaction, RecoverManifest, RecoverSaved,
                 RecoverActive, RecoverWrite, RecoverWriteFails
  <2> QED
    BY <1>1, <1>11, <2>1, RecoveryTyping DEF Storing
<1> QED
  BY <1>3, <1>4, <1>5, <1>6, <1>7, <1>8, <1>9, <1>10, <1>11 DEF Next

(* What is said of the call in flight, whatever was lost.                  *)
CallsInv == ShortCalls /\ Applying /\ RollingBack /\ InRecovery

(* With no call in flight there is nothing to say.                         *)
LEMMA NoCall == ASSUME call' = None PROVE CallsInv'
BY DEF CallsInv, ShortCalls, Applying, RollingBack, InRecovery, None

(* The call is not touched by what the agent and the clean-up do.          *)
LEMMA SameCall ==
    ASSUME CallsInv, UNCHANGED <<call, manifest, project, late>>, call.kind # "recover"
    PROVE  CallsInv'
BY DEF CallsInv, ShortCalls, Applying, RollingBack, InRecovery, Unchanged, Applied, Restored

(* A call that saves once.                                                 *)
LEMMA SavingCalls ==
    ASSUME Typing, NEW k \in {"pause", "reject", "conflict"}, NEW t \in TaskRecords,
           Saving(k, t),
           task.state # "rolled-back", t.state # "rolled-back",
           task.checkpoint => t.checkpoint,
           k = "pause" => t.state = "paused",
           k = "reject" => /\ task.state = "review"
                           /\ t.state \in {"review", "applied", "paused"},
           k = "conflict" => t.state = "conflict"
    PROVE  CallsInv'
<1>1. k \in Kinds /\ "save" \in Phases
  BY DEF Kinds, Phases
<1>2. /\ call'.kind = k /\ call'.phase = "save" /\ call'.task = t /\ call'.seen = task
  BY <1>1, CallTyping DEF Saving, Typing
<1> QED
  BY <1>2 DEF CallsInv, ShortCalls, Applying, RollingBack, InRecovery

(* The user types while a call is in flight: the file is late for it.      *)
LEMMA HumanEditCalls ==
    ASSUME Typing, CallsInv, NEW f \in Files, HumanEdit(f)
    PROVE  CallsInv'
<1>1. CASE call = None
  BY <1>1, NoCall DEF HumanEdit
<1>2. CASE call # None
  <2>1. /\ UNCHANGED <<task, manifest, background, call>>
        /\ late' = late \cup {f}
        /\ \A g \in Files \ {f} : project'[g] = project[g]
    BY <1>2 DEF HumanEdit, Free, WriteFile, Typing
  <2>2. call \in Calls
    BY <1>2 DEF Typing
  <2>3. /\ call.todo \subseteq Files /\ call.done \subseteq Files
        /\ DOMAIN call.entries \subseteq Files
    BY <2>2, EntryTyping DEF Calls
  <2>4. /\ \A g \in (call.todo \cup call.done) \ late' :
              g \in Files \ {f} /\ g \notin late /\ project'[g] = project[g]
    BY <2>1, <2>3
  <2>5. ShortCalls'
    BY <2>1 DEF CallsInv, ShortCalls
  <2>6. Applying'
    BY <2>1, <2>4 DEF CallsInv, Applying, Unchanged, Applied
  <2>7. RollingBack'
    BY <2>1, <2>4 DEF CallsInv, RollingBack, Restored, Applied
  <2>8. InRecovery'
    BY <2>1, <2>4 DEF CallsInv, InRecovery, Interrupted, Scope, Selected
  <2> QED
    BY <2>5, <2>6, <2>7, <2>8 DEF CallsInv
<1> QED
  BY <1>1, <1>2

(* The calls that save once, and the agent and the clean-up beside a call. *)
LEMMA OneSaveCalls ==
    ASSUME Typing, CallsInv, OneSave
    PROVE  CallsInv'
<1>1. task \in TaskRecords /\ task.changes \in PartialOn(Files, Changes)
  BY TaskFields DEF Typing
<1>2. CASE StartSave \/ SaveRecord \/ DiscardDropped \/ RemoveDone
  BY <1>2, NoCall DEF StartSave, SaveRecord, DiscardDropped, RemoveDone
<1>3. CASE Pause
  <2>1. PICK t \in TaskRecords : t = [task EXCEPT !.state = "paused"]
    BY <1>1, RecordTyping DEF States
  <2>2. t.state = "paused" /\ t.checkpoint = task.checkpoint
    BY <1>1, <2>1 DEF TaskRecords
  <2> QED
    BY <1>3, <2>1, <2>2, SavingCalls DEF Pause
<1>4. ASSUME NEW f \in Files, Reject(f) PROVE CallsInv'
  <2>1. Without(task.changes, {f}) \in PartialOn(Files, Changes)
    BY <1>1, WithoutIsPartial
  <2>2. PICK t \in TaskRecords : t = Rejected(f)
    BY <1>1, <2>1, RecordTyping DEF Rejected, States
  <2>3. t.state \in {"review", "applied", "paused"} /\ t.checkpoint = task.checkpoint
    BY <1>1, <2>2 DEF TaskRecords, Rejected
  <2> QED
    BY <1>4, <2>2, <2>3, SavingCalls DEF Reject
<1>5. CASE Discard
  <2>1. PICK t \in TaskRecords : t = [task EXCEPT !.state = "discarded"]
    BY <1>1, RecordTyping DEF States
  <2>2. t.state = "discarded" /\ t.checkpoint = task.checkpoint
    BY <1>1, <2>1 DEF TaskRecords
  <2>3. PICK p \in Phases : p = IF task.state = "discarded" THEN "drop" ELSE "save"
    BY DEF Phases
  <2>4. call'.kind = "discard" /\ call'.task = t /\ call'.seen = task
    BY <1>1, <1>5, <2>1, <2>3, CallTyping DEF Discard, Kinds
  <2>5. task.state # "rolled-back"
    BY <1>5 DEF Discard, Discardable
  <2> QED
    BY <2>2, <2>4, <2>5
    DEF CallsInv, ShortCalls, Applying, RollingBack, InRecovery
<1>6. CASE DiscardSaved
  <2>1. call \in Calls
    BY <1>6, SomeCall DEF DiscardSaved, Typing, Kinds
  <2>2. call'.kind = "discard" /\ call'.task = call.task /\ call'.seen = call.task
    BY <1>6, <2>1 DEF DiscardSaved, Calls
  <2>3. call.task.state = "discarded"
    BY <1>6 DEF DiscardSaved, CallsInv, ShortCalls
  <2> QED
    BY <2>2, <2>3 DEF CallsInv, ShortCalls, Applying, RollingBack, InRecovery
<1>7. CASE Remove
  <2>1. Removed \in TaskRecords
    BY RemovedTyping
  <2>2. "remove" \in Kinds /\ "remove" \in Phases
    BY DEF Kinds, Phases
  <2>3. call'.kind = "remove" /\ call'.phase = "remove" /\ call'.seen = task
    BY <1>1, <1>7, <2>1, <2>2, CallTyping DEF Remove
  <2> QED
    BY <1>7, <2>3 DEF Remove, CallsInv, ShortCalls, Applying, RollingBack, InRecovery
<1> QED
  BY <1>2, <1>3, <1>4, <1>5, <1>6, <1>7 DEF OneSave

(* An apply: the selected files still hold what was reviewed until they are*)
(* written, and then hold what was accepted.                               *)
LEMMA ApplyCalls ==
    ASSUME Typing, CallsInv, Apply
    PROVE  CallsInv'
<1> USE DEF CallsInv
<1>1. task \in TaskRecords
  BY DEF Typing
<1>2. call.kind = "apply" => call \in Calls
  BY SomeCall DEF Typing, Kinds
<1>3. ASSUME NEW sel \in SUBSET Files, ApplyConflict(sel) PROVE CallsInv'
  <2>1. PICK t \in TaskRecords : t = [task EXCEPT !.state = "conflict"]
    BY <1>1, RecordTyping DEF States
  <2>2. t.state = "conflict" /\ t.checkpoint = task.checkpoint
    BY <1>1, <2>1 DEF TaskRecords
  <2> QED
    BY <1>3, <2>1, <2>2, SavingCalls DEF ApplyConflict, CanApply
<1>4. ASSUME NEW sel \in SUBSET Files, NEW part \in SUBSET sel, ApplyStart(sel, part)
      PROVE  CallsInv'
  <2>1. PICK t \in TaskRecords :
           t = [task EXCEPT !.state = "applying", !.checkpoint = TRUE]
    BY <1>1, RecordTyping DEF States
  <2>2. t.state = "applying" /\ t.checkpoint /\ t.changes = task.changes
    BY <1>1, <2>1 DEF TaskRecords
  <2>3. sel \in SUBSET DOMAIN task.changes /\ sel \in SUBSET Files
    BY <1>4 DEF ApplyStart, CanApply
  <2>4. /\ ManifestFor(sel, part) \in Entries
        /\ sel \subseteq DOMAIN ManifestFor(sel, part)
        /\ \A f \in sel : ManifestFor(sel, part)[f].applied
                        \in Offered(task.changes[f])
    BY <2>3, ManifestOf
  <2>5. PICK c \in Calls : c = Call("apply", "save", t)
    BY <1>1, CallTyping DEF Kinds, Phases
  <2>6. /\ c.kind = "apply" /\ c.phase = "save" /\ c.task = t /\ c.seen = task
        /\ c.done = {}
    BY <2>5 DEF Call
  <2>7. call' = [c EXCEPT !.entries = ManifestFor(sel, part), !.todo = sel]
    BY <1>4, <2>1, <2>5 DEF ApplyStart
  <2>8. /\ call'.kind = "apply" /\ call'.phase = "save"
        /\ call'.task = t /\ call'.seen = task
        /\ call'.entries = ManifestFor(sel, part) /\ call'.todo = sel /\ call'.done = {}
    BY <2>6, <2>7 DEF Calls
  <2>9. \A f \in sel : project[f] = task.changes[f].original
    BY <1>4 DEF ApplyStart, Overlapping
  <2>10. task.state = "review" /\ UNCHANGED project
    BY <1>4 DEF ApplyStart, CanApply
  <2> QED
    BY <2>2, <2>3, <2>4, <2>8, <2>9, <2>10
    DEF ShortCalls, Applying, RollingBack, InRecovery, Unchanged
<1>5. CASE ApplySaved
  <2>1. call \in Calls
    BY <1>2, <1>5 DEF ApplySaved
  <2>2. /\ call'.kind = "apply" /\ call'.phase = "manifest"
        /\ call'.task = call.task /\ call'.seen = call.task
        /\ call'.entries = call.entries /\ call'.todo = call.todo /\ call'.done = call.done
    BY <1>5, <2>1 DEF ApplySaved, Calls
  <2> QED
    BY <1>5, <2>2
    DEF ApplySaved, ShortCalls, Applying, RollingBack, InRecovery, Unchanged, Applied
<1>6. CASE ApplyManifest
  <2>1. call \in Calls
    BY <1>2, <1>6 DEF ApplyManifest
  <2>2. /\ call'.kind = "apply" /\ call'.phase = "write"
        /\ call'.task = call.task /\ call'.seen = call.seen
        /\ call'.entries = call.entries /\ call'.todo = call.todo /\ call'.done = call.done
    BY <1>6, <2>1 DEF ApplyManifest, Calls
  <2> QED
    BY <1>6, <2>2
    DEF ApplyManifest, ShortCalls, Applying, RollingBack, InRecovery, Unchanged, Applied
<1>7. ASSUME NEW f \in Files, ApplyWrite(f) PROVE CallsInv'
  <2>1. call \in Calls /\ f \in DOMAIN call.entries
    BY <1>2, <1>7 DEF ApplyWrite, Applying
  <2>2. /\ call'.kind = "apply" /\ call'.phase = "write"
        /\ call'.task = call.task /\ call'.seen = call.seen
        /\ call'.entries = call.entries
        /\ call'.todo = call.todo \ {f} /\ call'.done = call.done \cup {f}
    BY <1>7, <2>1 DEF ApplyWrite, Calls
  <2>3. /\ project'[f] = call.entries[f].applied
        /\ \A g \in Files \ {f} : project'[g] = project[g]
    BY <1>7, <2>1, EntryTyping, WriteTyping DEF ApplyWrite, Typing
  <2>4. call.todo \subseteq Files /\ call.done \subseteq Files
    BY <2>1 DEF Calls
  <2>5. UNCHANGED <<manifest, late>> /\ f \in call.todo
        /\ call.kind = "apply" /\ call.phase = "write"
    BY <1>7 DEF ApplyWrite
  <2>6. Applying'
    BY <2>2, <2>3, <2>4, <2>5 DEF Applying, Unchanged, Applied
  <2> QED
    BY <2>2, <2>6 DEF ShortCalls, RollingBack, InRecovery
<1>8. ASSUME NEW f \in Files, ApplyUndo(f) PROVE CallsInv'
  <2>1. call \in Calls /\ f \in DOMAIN call.task.changes
    BY <1>2, <1>8 DEF ApplyUndo, Applying
  <2>2. /\ call'.kind = "apply" /\ call'.phase = "undo"
        /\ call'.task = call.task /\ call'.seen = call.seen
        /\ call'.entries = call.entries
        /\ call'.todo = call.todo /\ call'.done = call.done \ {f}
    BY <1>8, <2>1 DEF ApplyUndo, Calls
  <2>3. \A g \in Files \ {f} : project'[g] = project[g]
    BY <1>8, <2>1, EntryTyping, WriteTyping DEF ApplyUndo, Typing
  <2>4. call.todo \subseteq Files /\ call.done \subseteq Files
    BY <2>1 DEF Calls
  <2>5. UNCHANGED <<manifest, late>> /\ call.kind = "apply" /\ call.phase = "undo"
    BY <1>8 DEF ApplyUndo
  <2>6. Applying'
    BY <2>2, <2>3, <2>4, <2>5 DEF Applying, Applied
  <2> QED
    BY <2>2, <2>6 DEF ShortCalls, RollingBack, InRecovery
<1>9. CASE ApplyWriteFails
  <2>1. call \in Calls
    BY <1>2, <1>9 DEF ApplyWriteFails
  <2>2. /\ call'.kind = "apply" /\ call'.phase = "undo"
        /\ call'.task = call.task /\ call'.seen = call.seen
        /\ call'.entries = call.entries /\ call'.todo = call.todo /\ call'.done = call.done
    BY <1>9, <2>1 DEF ApplyWriteFails, Calls
  <2> QED
    BY <1>9, <2>2
    DEF ApplyWriteFails, ShortCalls, Applying, RollingBack, InRecovery, Applied
<1>10. CASE ApplyUndoFails \/ ApplyFailed \/ ApplyDone
  BY <1>10, NoCall DEF ApplyUndoFails, ApplyFailed, ApplyDone
<1> QED
  BY <1>3, <1>4, <1>5, <1>6, <1>7, <1>8, <1>9, <1>10 DEF Apply

(* A rollback goes by the manifest on disk, and until it has put a file    *)
(* back the file holds what was accepted.                                  *)
LEMMA RollbackCalls ==
    ASSUME Typing, CallsInv, Rollback
    PROVE  CallsInv'
<1> USE DEF CallsInv
<1>1. task \in TaskRecords
  BY DEF Typing
<1>2. call.kind = "rollback" => call \in Calls
  BY SomeCall DEF Typing, Kinds
<1>3. CASE RollbackStart
  <2>1. PICK t \in TaskRecords : t = [task EXCEPT !.state = "rolling-back"]
    BY <1>1, RecordTyping DEF States
  <2>2. t.state = "rolling-back" /\ t.checkpoint
    BY <1>1, <1>3, <2>1 DEF TaskRecords, RollbackStart
  <2>3. PICK c \in Calls : c = Call("rollback", "save", t)
    BY <1>1, CallTyping DEF Kinds, Phases
  <2>4. /\ c.kind = "rollback" /\ c.phase = "save" /\ c.task = t /\ c.seen = task
        /\ c.todo = {} /\ c.done = {}
    BY <2>3 DEF Call
  <2>5. call' = [c EXCEPT !.entries = manifest]
    BY <1>3, <2>1, <2>3 DEF RollbackStart
  <2>6. /\ call'.kind = "rollback" /\ call'.phase = "save"
        /\ call'.task = t /\ call'.seen = task
        /\ call'.entries = manifest /\ call'.todo = {} /\ call'.done = {}
    BY <2>4, <2>5 DEF Calls
  <2>7. task.state # "rolled-back" /\ UNCHANGED manifest
    BY <1>3 DEF RollbackStart
  <2> QED
    BY <2>2, <2>6, <2>7 DEF ShortCalls, Applying, RollingBack, InRecovery
<1>4. CASE RollbackSaved
  <2>1. call \in Calls
    BY <1>2, <1>4 DEF RollbackSaved
  <2>2. /\ call'.kind = "rollback" /\ call'.phase = "check"
        /\ call'.task = call.task /\ call'.seen = call.task
        /\ call'.entries = call.entries /\ call'.todo = call.todo /\ call'.done = call.done
    BY <1>4, <2>1 DEF RollbackSaved, Calls
  <2> QED
    BY <1>4, <2>2 DEF RollbackSaved, ShortCalls, Applying, RollingBack, InRecovery
<1>5. CASE RollbackCheck
  <2>1. call \in Calls
    BY <1>2, <1>5 DEF RollbackCheck
  <2>2. CASE Untouched(call.entries)
    <3>1. /\ call'.kind = "rollback" /\ call'.phase = "write"
          /\ call'.task = call.task /\ call'.seen = call.seen
          /\ call'.entries = call.entries
          /\ call'.todo = DOMAIN call.entries /\ call'.done = call.done
      BY <1>5, <2>1, <2>2 DEF RollbackCheck, Calls
    <3>2. \A f \in DOMAIN call.entries : project[f] = call.entries[f].applied
      BY <2>2 DEF Untouched
    <3>3. call.done = {}
      BY <1>5 DEF RollbackCheck, RollingBack
    <3> QED
      BY <1>5, <3>1, <3>2, <3>3
      DEF RollbackCheck, ShortCalls, Applying, RollingBack, InRecovery, Applied
  <2>3. CASE ~Untouched(call.entries)
    <3>1. call.task \in TaskRecords
      BY <2>1 DEF Calls
    <3>2. /\ call'.kind = "conflict" /\ call'.phase = "save"
          /\ call'.task = [call.task EXCEPT !.state = "conflict"]
          /\ call'.seen = call.seen
      BY <1>5, <2>1, <2>3 DEF RollbackCheck, Calls
    <3>3. call'.task.state = "conflict" /\ call'.task.checkpoint = call.task.checkpoint
      BY <3>1, <3>2 DEF TaskRecords
    <3> QED
      BY <1>5, <3>2, <3>3
      DEF RollbackCheck, ShortCalls, Applying, RollingBack, InRecovery
  <2> QED
    BY <2>2, <2>3
<1>6. ASSUME NEW f \in Files, RollbackWrite(f) PROVE CallsInv'
  <2>1. call \in Calls /\ f \in DOMAIN call.entries
    BY <1>2, <1>6 DEF RollbackWrite, RollingBack
  <2>2. /\ call'.kind = "rollback" /\ call'.phase = "write"
        /\ call'.task = call.task /\ call'.seen = call.seen
        /\ call'.entries = call.entries
        /\ call'.todo = call.todo \ {f} /\ call'.done = call.done \cup {f}
    BY <1>6, <2>1 DEF RollbackWrite, Calls
  <2>3. /\ project'[f] = call.entries[f].original
        /\ \A g \in Files \ {f} : project'[g] = project[g]
    BY <1>6, <2>1, EntryTyping, WriteTyping DEF RollbackWrite, Typing
  <2>4. call.todo \subseteq Files /\ call.done \subseteq Files
    BY <2>1 DEF Calls
  <2>5. UNCHANGED <<manifest, late>> /\ f \in call.todo
        /\ call.kind = "rollback" /\ call.phase = "write"
    BY <1>6 DEF RollbackWrite
  <2>6. RollingBack'
    BY <2>2, <2>3, <2>4, <2>5 DEF RollingBack, Restored, Applied
  <2> QED
    BY <2>2, <2>6 DEF ShortCalls, Applying, InRecovery
<1>7. ASSUME NEW f \in Files, RollbackUndo(f) PROVE CallsInv'
  <2>1. call \in Calls /\ f \in DOMAIN call.entries
    BY <1>2, <1>7 DEF RollbackUndo, RollingBack
  <2>2. /\ call'.kind = "rollback" /\ call'.phase = "undo"
        /\ call'.task = call.task /\ call'.seen = call.seen
        /\ call'.entries = call.entries
        /\ call'.todo = call.todo /\ call'.done = call.done \ {f}
    BY <1>7, <2>1 DEF RollbackUndo, Calls
  <2>3. \A g \in Files \ {f} : project'[g] = project[g]
    BY <1>7, <2>1, EntryTyping, WriteTyping DEF RollbackUndo, Typing
  <2>4. call.todo \subseteq Files /\ call.done \subseteq Files
    BY <2>1 DEF Calls
  <2>5. UNCHANGED <<manifest, late>> /\ call.kind = "rollback" /\ call.phase = "undo"
    BY <1>7 DEF RollbackUndo
  <2>6. RollingBack'
    BY <2>2, <2>3, <2>4, <2>5 DEF RollingBack, Restored
  <2> QED
    BY <2>2, <2>6 DEF ShortCalls, Applying, InRecovery
<1>8. CASE RollbackWriteFails
  <2>1. call \in Calls
    BY <1>2, <1>8 DEF RollbackWriteFails
  <2>2. /\ call'.kind = "rollback" /\ call'.phase = "undo"
        /\ call'.task = call.task /\ call'.seen = call.seen
        /\ call'.entries = call.entries /\ call'.todo = call.todo /\ call'.done = call.done
    BY <1>8, <2>1 DEF RollbackWriteFails, Calls
  <2> QED
    BY <1>8, <2>2
    DEF RollbackWriteFails, ShortCalls, Applying, RollingBack, InRecovery, Restored
<1>9. CASE RollbackFailed \/ RollbackDone
  BY <1>9, NoCall DEF RollbackFailed, RollbackDone
<1> QED
  BY <1>3, <1>4, <1>5, <1>6, <1>7, <1>8, <1>9 DEF Rollback

(* Start-up recovery works alone, on the record it found.                  *)
LEMMA RecoveryCalls ==
    ASSUME Typing, CallsInv, Recovery
    PROVE  CallsInv'
<1> USE DEF CallsInv
<1>1. task \in TaskRecords
  BY DEF Typing
<1>2. call.kind = "recover" => call \in Calls /\ call.task \in TaskRecords
  BY SomeCall DEF Typing, Kinds, Calls
<1>3. CASE RecoverTransaction
  <2>1. call \in Calls /\ call.task \in TaskRecords
    BY <1>2, <1>3 DEF RecoverTransaction, Recovering
  <2>2. CASE Recoverable
    <3>1. /\ call'.kind = "recover" /\ call'.phase = "write"
          /\ call'.task = call.task /\ call'.seen = call.seen
          /\ call'.entries = manifest /\ call'.done = call.done
          /\ call'.todo = Scope
      BY <1>3, <2>1, <2>2 DEF RecoverTransaction, Recovering, Calls, Scope
    <3>2. UNCHANGED <<task, manifest, project, background>>
      BY <1>3 DEF RecoverTransaction
    <3>3. Interrupted /\ call.task = task /\ call.done = {} /\ call.seen = task
      BY <1>3 DEF RecoverTransaction, Recovering, InRecovery
    <3>4. \A f \in Scope : project[f] \in {manifest[f].original, manifest[f].applied}
      BY <2>2 DEF Recoverable, Known, Scope, Selected
    <3>5. background = None
      BY <1>3 DEF RecoverTransaction, Recovering, InRecovery
    <3>6. InRecovery'
      BY <2>2, <3>1, <3>2, <3>3, <3>4, <3>5
      DEF InRecovery, Recoverable, Interrupted, Scope, Selected
    <3> QED
      BY <3>1, <3>6 DEF ShortCalls, Applying, RollingBack
  <2>3. CASE ~Recoverable
    <3>1. /\ call'.kind = "recover" /\ call'.phase = "save"
          /\ call'.task = [call.task EXCEPT !.state = "conflict"]
          /\ call'.seen = call.seen
      BY <1>3, <2>1, <2>3 DEF RecoverTransaction, Recovering, Calls
    <3>2. call'.task.state = "conflict" /\ call'.task.checkpoint = call.task.checkpoint
      BY <2>1, <3>1 DEF TaskRecords
    <3>3. /\ Interrupted /\ call.task = task /\ call.seen = task /\ background = None
          /\ UNCHANGED <<task, background>>
      BY <1>3 DEF RecoverTransaction, Recovering, InRecovery
    <3>4. InRecovery'
      BY <3>1, <3>2, <3>3 DEF InRecovery, Interrupted
    <3> QED
      BY <3>1, <3>4 DEF ShortCalls, Applying, RollingBack
  <2> QED
    BY <2>2, <2>3
<1>4. ASSUME NEW f \in Files, RecoverWrite(f) PROVE CallsInv'
  <2>1. call \in Calls /\ f \in DOMAIN call.entries
    BY <1>2, <1>4 DEF RecoverWrite, Recovering, InRecovery, Scope, Selected
  <2>2. /\ call'.kind = "recover" /\ call'.phase = "write"
        /\ call'.task = call.task /\ call'.seen = call.seen
        /\ call'.entries = call.entries
        /\ call'.todo = call.todo \ {f} /\ call'.done = call.done \cup {f}
    BY <1>4, <2>1 DEF RecoverWrite, Recovering, Calls
  <2>3. \A g \in Files \ {f} : project'[g] = project[g]
    BY <1>4, <2>1, EntryTyping, WriteTyping DEF RecoverWrite, Typing
  <2>4. call.todo \subseteq Files /\ call.done \subseteq Files
    BY <2>1 DEF Calls
  <2>5. /\ UNCHANGED <<task, manifest, late, background>> /\ f \in call.todo
        /\ call.kind = "recover" /\ call.phase = "write"
    BY <1>4 DEF RecoverWrite, Recovering
  <2>6. InRecovery'
    BY <2>2, <2>3, <2>4, <2>5 DEF InRecovery, Interrupted, Scope, Selected
  <2> QED
    BY <2>2, <2>6 DEF ShortCalls, Applying, RollingBack
<1>5. CASE RecoverWriteFails
  <2>1. call \in Calls /\ call.task \in TaskRecords
    BY <1>2, <1>5 DEF RecoverWriteFails, Recovering
  <2>2. /\ call'.kind = "recover" /\ call'.phase = "save"
        /\ call'.task = [call.task EXCEPT !.state = "conflict"]
        /\ call'.seen = call.seen
    BY <1>5, <2>1 DEF RecoverWriteFails, Recovering, Calls
  <2>3. call'.task.state = "conflict" /\ call'.task.checkpoint = call.task.checkpoint
    BY <2>1, <2>2 DEF TaskRecords
  <2>4. /\ Interrupted /\ call.task = task /\ call.seen = task /\ background = None
        /\ UNCHANGED <<task, background>>
    BY <1>5 DEF RecoverWriteFails, Recovering, InRecovery
  <2>5. InRecovery'
    BY <2>2, <2>3, <2>4 DEF InRecovery, Interrupted
  <2> QED
    BY <2>2, <2>5 DEF ShortCalls, Applying, RollingBack
<1>6. CASE RecoverManifest
  <2> DEFINE prior == Without(call.entries, call.done)
  <2>1. call \in Calls /\ call.task \in TaskRecords
    BY <1>2, <1>6 DEF RecoverManifest, Recovering
  <2>2. /\ Interrupted /\ call.task = task /\ call.seen = task /\ background = None
        /\ UNCHANGED <<task, background>> /\ call.entries = manifest
        /\ call.done = Scope
    BY <1>6 DEF RecoverManifest, Recovering, InRecovery
  <2>3. CASE task.state = "applying"
    <3>1. /\ call'.kind = "recover" /\ call'.phase = "save"
          /\ call'.task = [call.task EXCEPT !.state = "review", !.checkpoint = prior # <<>>]
          /\ call'.seen = call.seen /\ manifest' = prior
      BY <1>6, <2>1, <2>3 DEF RecoverManifest, Recovering, Calls
    <3>2. call'.task.state = "review" /\ call'.task.checkpoint = (prior # <<>>)
      BY <2>1, <3>1 DEF TaskRecords
    <3>3. DOMAIN prior \cap DOMAIN task.changes = {}
      BY <2>2, <2>3 DEF Without, Scope, Selected
    <3> HIDE DEF prior
    <3>4. InRecovery'
      BY <2>2, <2>3, <3>1, <3>2, <3>3 DEF InRecovery, Selected
    <3> QED
      BY <3>1, <3>4 DEF ShortCalls, Applying, RollingBack
  <2>4. CASE task.state # "applying"
    <3>1. /\ call'.kind = "recover" /\ call'.phase = "save"
          /\ call'.task = [call.task EXCEPT !.state = "rolled-back"]
          /\ call'.seen = call.seen
      BY <1>6, <2>1, <2>4 DEF RecoverManifest, Recovering, Calls
    <3>2. call'.task.state = "rolled-back" /\ call'.task.checkpoint = call.task.checkpoint
      BY <2>1, <3>1 DEF TaskRecords
    <3>3. InRecovery'
      BY <2>2, <2>4, <3>1, <3>2 DEF InRecovery, Interrupted
    <3> QED
      BY <3>1, <3>3 DEF ShortCalls, Applying, RollingBack
  <2> QED
    BY <2>3, <2>4
<1>7. CASE RecoverSaved
  BY <1>7, NoCall DEF RecoverSaved
<1>8. CASE RecoverActive
  <2>1. CASE task.state \in {"preparing", "ready", "running"}
    <3>1. call \in Calls /\ call.task \in TaskRecords
      BY <1>2, <1>8 DEF RecoverActive, Recovering
    <3>2. /\ call'.kind = "recover" /\ call'.phase = "save"
          /\ call'.task = [call.task EXCEPT !.state = "paused"]
          /\ call'.seen = call.seen
      BY <1>8, <2>1, <3>1 DEF RecoverActive, Recovering, Calls
    <3>3. call'.task.state = "paused" /\ call'.task.checkpoint = call.task.checkpoint
      BY <3>1, <3>2 DEF TaskRecords
    <3>4. /\ call.task = task /\ call.seen = task /\ background = None
          /\ UNCHANGED <<task, background>>
      BY <1>8 DEF RecoverActive, Recovering, InRecovery
    <3>5. InRecovery'
      BY <2>1, <3>2, <3>3, <3>4 DEF InRecovery
    <3> QED
      BY <3>2, <3>5 DEF ShortCalls, Applying, RollingBack
  <2>2. CASE task.state \notin {"preparing", "ready", "running"}
    BY <1>8, <2>2, NoCall DEF RecoverActive
  <2> QED
    BY <2>1, <2>2
<1> QED
  BY <1>3, <1>4, <1>5, <1>6, <1>7, <1>8 DEF Recovery

(* After a crash there is only the recovery.                               *)
LEMMA CrashCalls ==
    ASSUME Typing, Crash
    PROVE  CallsInv'
<1>1. "recover" \in Kinds /\ "start" \in Phases
  BY DEF Kinds, Phases
<1>2. /\ call'.kind = "recover" /\ call'.phase = "start" /\ call'.task = task
      /\ call'.seen = task /\ call'.done = {}
  BY <1>1, CallTyping DEF Crash, Typing
<1>3. InRecovery'
  BY <1>2 DEF Crash, InRecovery
<1> QED
  BY <1>2, <1>3 DEF CallsInv, ShortCalls, Applying, RollingBack

(* The agent and the clean-up leave the call alone.                        *)
LEMMA BesideCalls ==
    ASSUME Typing, CallsInv, Agent \/ Maintenance
    PROVE  CallsInv'
<1>1. CASE Agent
  <2>1. /\ UNCHANGED <<call, manifest, project, late>>
        /\ ~Recovering \/ background # None
    BY <1>1 DEF Agent, WriteProposal, ProposalSaved, None
  <2> QED
    BY <2>1, SameCall DEF CallsInv, InRecovery, Recovering
<1>2. CASE DropSandbox \/ SandboxDropped
  <2>1. /\ UNCHANGED <<call, manifest, project, late>>
        /\ ~Recovering \/ background # None
    BY <1>2 DEF DropSandbox, SandboxDropped, None
  <2> QED
    BY <2>1, SameCall DEF CallsInv, InRecovery, Recovering
<1>3. CASE DropCheckpoint
  BY <1>3, NoCall DEF DropCheckpoint, Free
<1> QED
  BY <1>1, <1>2, <1>3 DEF Maintenance

(* The first call is the one that starts the task.                         *)
LEMMA InitCalls == Init => CallsInv
<1> SUFFICES ASSUME Init PROVE CallsInv
  OBVIOUS
<1>1. call.kind = "start" /\ call.phase = "save" /\ call.task = task /\ call.seen = task
  BY DEF Init, Call
<1>2. task.state = "preparing"
  BY DEF Init
<1> QED
  BY <1>1, <1>2 DEF CallsInv, ShortCalls, Applying, RollingBack, InRecovery

(* The invariant that holds whatever a save overwrites.                    *)
LEMMA CallsStep ==
    ASSUME WorkInv, [Next]_vars
    PROVE  WorkInv'
<1>1. Typing /\ Storing /\ CallsInv
  BY DEF WorkInv, CallsInv
<1>2. Typing' /\ Storing'
  BY TypingStep
<1>3. CallsInv'
  <2>1. CASE UNCHANGED vars
    BY <1>1, <2>1 DEF vars, CallsInv, ShortCalls, Applying, RollingBack, InRecovery,
                      Unchanged, Applied, Restored, Interrupted, Scope, Selected
  <2>2. CASE Next
    BY <1>1, <2>2, HumanEditCalls, BesideCalls, OneSaveCalls, ApplyCalls, RollbackCalls,
       CrashCalls, RecoveryCalls DEF Next
  <2> QED
    BY <2>1, <2>2
<1> QED
  BY <1>2, <1>3 DEF WorkInv, CallsInv

(* The first state.                                                        *)
LEMMA CallsInit == Init => WorkInv
<1>1. Init => Storing
  BY DEF Init, Storing, None
<1> QED
  BY <1>1, InitTyping, InitCalls DEF WorkInv, CallsInv

(* The types follow.                                                       *)
LEMMA WorkInvTypes == WorkInv => TypeOK
<1> SUFFICES ASSUME WorkInv PROVE TypeOK
  OBVIOUS
<1>1. Typing
  BY DEF WorkInv
<1>2. call # None => /\ call.task \in TaskRecords /\ call.seen \in TaskRecords
                     /\ call.entries \in Entries
                     /\ call.todo \cup call.done \subseteq Files
  BY <1>1 DEF Typing, Calls
<1>3. background # None => background.seen \in TaskRecords
  BY <1>1 DEF Typing, Backgrounds
<1>4. \A b \in DOMAIN budget : budget[b] \in Nat
  BY <1>1, TextsAssumption DEF Typing, Budgets
<1> QED
  BY <1>1, <1>2, <1>3, <1>4 DEF Typing, TypeOK

(* The record, the manifest, the project and the calls are always of their *)
(* types: in particular a record the store saves is one the store can read.*)
THEOREM TypeCorrect == Spec => []TypeOK
<1>1. Init => WorkInv
  BY CallsInit
<1>2. WorkInv /\ [Next]_vars => WorkInv'
  BY CallsStep
<1>3. WorkInv => TypeOK
  BY WorkInvTypes
<1> QED
  BY <1>1, <1>2, <1>3, PTL DEF Spec

(* What the user typed is none of the texts an apply may write.            *)
LEMMA EditsAreNotAccepted ==
    ASSUME NEW c \in Calls, NEW f \in DOMAIN c.entries
    PROVE  c.entries[f].applied \notin Edits
BY EntryTyping, TextsAssumption

(* A step replaces the user's text only in a file it looked at, or late.   *)
LEMMA HumanStep ==
    ASSUME WorkInv, Next, NEW g \in Files, project[g] \in Edits, project'[g] # project[g]
    PROVE  budget'.edits < budget.edits \/ g \in late \/ Reviewed(g)
<1>1. Typing /\ Applying /\ RollingBack /\ InRecovery
  BY DEF WorkInv
<1>2. project \in [Files -> Texts]
  BY <1>1 DEF Typing
<1>3. call.kind \in {"apply", "rollback", "recover"} => call \in Calls
  BY <1>1, SomeCall DEF Typing, Kinds
<1>4. ASSUME NEW f \in Files, HumanEdit(f)
      PROVE  budget'.edits < budget.edits
  BY <1>1, <1>4 DEF HumanEdit, Spend, Typing, Budgets
<1>5. ASSUME NEW f \in Files, ApplyWrite(f)
      PROVE  g \in late \/ Reviewed(g)
  <2>1. /\ call.kind = "apply" /\ call.phase = "write" /\ f \in call.todo
        /\ project' = [project EXCEPT ![f] = call.entries[f].applied]
    BY <1>5 DEF ApplyWrite, WriteFile
  <2>2. f = g
    BY <1>2, <2>1
  <2>3. g \in late \/ Unchanged(g)
    BY <1>1, <2>1, <2>2 DEF Applying
  <2> QED
    BY <2>1, <2>3 DEF Reviewed, Unchanged, None
<1>6. ASSUME NEW f \in Files, ApplyUndo(f)
      PROVE  g \in late
  <2>1. /\ call.kind = "apply" /\ call.phase = "undo" /\ f \in call.done
        /\ project' = [project EXCEPT ![f] = call.task.changes[f].original]
    BY <1>6 DEF ApplyUndo, WriteFile
  <2>2. f = g
    BY <1>2, <2>1
  <2>3. g \in late \/ Applied(g)
    BY <1>1, <2>1, <2>2 DEF Applying
  <2>4. call \in Calls /\ g \in DOMAIN call.entries
    BY <1>1, <1>3, <2>1, <2>2 DEF Applying
  <2> QED
    BY <2>3, <2>4, EditsAreNotAccepted DEF Applied
<1>7. ASSUME NEW f \in Files, RollbackWrite(f)
      PROVE  g \in late
  <2>1. /\ call.kind = "rollback" /\ call.phase = "write" /\ f \in call.todo
        /\ project' = [project EXCEPT ![f] = call.entries[f].original]
    BY <1>7 DEF RollbackWrite, WriteFile
  <2>2. f = g
    BY <1>2, <2>1
  <2>3. g \in late \/ Applied(g)
    BY <1>1, <2>1, <2>2 DEF RollingBack
  <2>4. call \in Calls /\ g \in DOMAIN call.entries
    BY <1>1, <1>3, <2>1, <2>2 DEF RollingBack
  <2> QED
    BY <2>3, <2>4, EditsAreNotAccepted DEF Applied
<1>8. ASSUME NEW f \in Files, RollbackUndo(f)
      PROVE  g \in late \/ Reviewed(g)
  <2>1. /\ call.kind = "rollback" /\ call.phase = "undo" /\ f \in call.done
        /\ project' = [project EXCEPT ![f] = call.entries[f].applied]
    BY <1>8 DEF RollbackUndo, WriteFile
  <2>2. f = g
    BY <1>2, <2>1
  <2>3. g \in late \/ Restored(g)
    BY <1>1, <2>1, <2>2 DEF RollingBack
  <2> QED
    BY <2>1, <2>3 DEF Reviewed, Restored, None
<1>9. ASSUME NEW f \in Files, RecoverWrite(f)
      PROVE  g \in late
  <2>1. /\ call.kind = "recover" /\ call.phase = "write" /\ f \in call.todo
        /\ project' = [project EXCEPT ![f] = call.entries[f].original]
    BY <1>9 DEF RecoverWrite, WriteFile, Recovering
  <2>2. f = g
    BY <1>2, <2>1
  <2>3. \/ g \in late
        \/ project[g] \in {call.entries[g].original, call.entries[g].applied}
    BY <1>1, <2>1, <2>2 DEF InRecovery
  <2>4. call \in Calls /\ g \in DOMAIN call.entries
    BY <1>1, <1>3, <2>1, <2>2 DEF InRecovery, Scope, Selected
  <2>5. project'[g] = call.entries[g].original
    BY <1>2, <2>1, <2>2
  <2> QED
    BY <2>3, <2>4, <2>5, EditsAreNotAccepted
<1>10. CASE Agent
  BY <1>10 DEF Agent, WriteProposal, ProposalSaved
<1>11. CASE OneSave
  BY <1>11 DEF OneSave, StartSave, Pause, SaveRecord, Reject, Discard, DiscardSaved,
               DiscardDropped, Remove, RemoveDone, Saving
<1>12. CASE Apply
  <2>1. \/ \E f \in Files : ApplyWrite(f) \/ ApplyUndo(f)
        \/ UNCHANGED project
    BY <1>12 DEF Apply, ApplyConflict, ApplyStart, ApplySaved, ApplyManifest,
                 ApplyWriteFails, ApplyUndoFails, ApplyFailed, ApplyDone, Saving
  <2> QED
    BY <1>5, <1>6, <2>1
<1>13. CASE Rollback
  <2>1. \/ \E f \in Files : RollbackWrite(f) \/ RollbackUndo(f)
        \/ UNCHANGED project
    BY <1>13 DEF Rollback, RollbackStart, RollbackSaved, RollbackCheck,
                 RollbackWriteFails, RollbackFailed, RollbackDone
  <2> QED
    BY <1>7, <1>8, <2>1
<1>14. CASE Maintenance \/ Crash
  BY <1>14 DEF Maintenance, DropSandbox, SandboxDropped, DropCheckpoint, Crash
<1>15. CASE Recovery
  <2>1. \/ \E f \in Files : RecoverWrite(f)
        \/ UNCHANGED project
    BY <1>15 DEF Recovery, RecoverTransaction, RecoverManifest, RecoverSaved,
                 RecoverActive, RecoverWriteFails
  <2> QED
    BY <1>9, <2>1
<1> QED
  BY <1>4, <1>10, <1>11, <1>12, <1>13, <1>14, <1>15 DEF Next

(* Nothing the user typed is lost to the task unseen: a file's text is     *)
(* replaced only by a change reviewed against it, by a rollback that stops *)
(* half way, or when it was typed after the call in flight had looked.     *)
THEOREM HumanTextKept == Spec => HumanTextPreserved
<1>1. Init => WorkInv
  BY CallsInit
<1>2. WorkInv /\ [Next]_vars => WorkInv'
  BY CallsStep
<1>3. WorkInv /\ [Next]_vars =>
        [\A f \in Files : project[f] \in Edits /\ project'[f] # project[f] =>
            \/ budget'.edits < budget.edits
            \/ f \in late
            \/ Reviewed(f)]_vars
  BY HumanStep
<1> QED
  BY <1>1, <1>2, <1>3, PTL DEF Spec, HumanTextPreserved

(* What is on disk, and what the call in flight knows of it.               *)
OnDisk == OriginalsKept /\ NothingOwned /\ InManifest /\ CheckpointNamed
InHand == CallsSeeTheirRecord /\ Planned /\ PutBack

(* A save that loses nothing overwrites the very record that was read.     *)
LEMMA NothingLost ==
    ASSUME NEW t, NEW seen, Save(t, seen), ~lost'
    PROVE  task' = t /\ task = seen
BY DEF Save

(* A step that changes only the record, and keeps its checkpoint.          *)
LEMMA SameDisk ==
    ASSUME OnDisk, UNCHANGED <<manifest, project, pre>>,
           task.checkpoint => task'.checkpoint,
           task.state = "rolled-back" <=> task'.state = "rolled-back"
    PROVE  OnDisk'
BY DEF OnDisk, OriginalsKept, NothingOwned, InManifest, CheckpointNamed, TaskText

(* A step that changes only the project, and puts text of the task only in *)
(* files of the manifest.                                                  *)
LEMMA SameRecord ==
    ASSUME OnDisk, UNCHANGED <<manifest, task, pre>>, NEW f \in Files,
           \A g \in Files \ {f} : project'[g] = project[g],
           project'[f] \notin Accepted \/ f \in DOMAIN manifest
    PROVE  OnDisk'
BY DEF OnDisk, OriginalsKept, NothingOwned, InManifest, CheckpointNamed, TaskText

(* Calls of which nothing is said.                                         *)
LEMMA FreeHand ==
    ASSUME call'.kind \notin {"apply", "rollback", "recover"}
    PROVE  InHand'
BY DEF InHand, CallsSeeTheirRecord, InForce, Planned, PutBack

(* A call that goes on, while the record and the files stay.               *)
LEMMA SameHand ==
    ASSUME InHand, UNCHANGED <<call, manifest, pre>>,
           InForce => UNCHANGED task,
           \A f \in Files : TaskText(f)' => TaskText(f),
           call # None => call.done \subseteq Files
    PROVE  InHand'
BY DEF InHand, CallsSeeTheirRecord, InForce, Planned, PutBack, None

(* What the user types is no text of the task.                             *)
LEMMA HumanEditUndo ==
    ASSUME WorkInv, OnDisk, InHand, NEW f \in Files, HumanEdit(f)
    PROVE  OnDisk' /\ InHand'
<1>1. Typing
  BY DEF WorkInv
<1>2. /\ UNCHANGED <<task, manifest, call, pre>>
      /\ project'[f] \in Edits
      /\ \A g \in Files \ {f} : project'[g] = project[g]
  <2>1. Nth(Typed, "edits") \in Edits
    BY <1>1, NextText DEF HumanEdit, Spend, Typing
  <2>2. Nth(Typed, "edits") \in Texts
    BY <2>1 DEF Texts
  <2> QED
    BY <1>1, <2>1, <2>2, WriteTyping DEF HumanEdit, Typing
<1>3. project'[f] \notin Accepted
  BY <1>2, TextsAssumption
<1>4. OnDisk'
  BY <1>2, <1>3, SameRecord
<1>5. \A g \in Files : TaskText(g)' => TaskText(g)
  BY <1>2, <1>3 DEF TaskText
<1>6. call # None => call.done \subseteq Files
  BY <1>1 DEF Typing, Calls
<1>7. InHand'
  BY <1>2, <1>5, <1>6, SameHand
<1> QED
  BY <1>4, <1>7

(* Beside a transaction the agent and the clean-up save nothing: what they *)
(* read was not under way.                                                 *)
LEMMA BesideUndo ==
    ASSUME WorkInv, OnDisk, InHand, Agent \/ Maintenance, ~lost'
    PROVE  OnDisk' /\ InHand'
<1>1. Typing /\ Storing /\ Applying /\ RollingBack
  BY DEF WorkInv
<1>2. call # None => call.done \subseteq Files
  BY <1>1 DEF Typing, Calls
<1>3. CASE UNCHANGED <<task, manifest, project, call, pre>>
  <2>1. OnDisk'
    BY <1>3, SameDisk
  <2>2. \A f \in Files : TaskText(f)' => TaskText(f)
    BY <1>3 DEF TaskText
  <2> QED
    BY <1>2, <1>3, <2>1, <2>2, SameHand
<1>4. ASSUME UNCHANGED <<manifest, project, call, pre>>,
             task'.checkpoint = task.checkpoint,
             task.state \notin {"applying", "rolling-back"},
             task.state = "rolled-back" <=> task'.state = "rolled-back"
      PROVE  OnDisk' /\ InHand'
  <2>1. OnDisk'
    BY <1>4, SameDisk
  <2>2. ~InForce
    BY <1>1, <1>4 DEF InForce, Applying, RollingBack, InHand, CallsSeeTheirRecord
  <2>3. \A f \in Files : TaskText(f)' => TaskText(f)
    BY <1>4 DEF TaskText
  <2> QED
    BY <1>2, <1>4, <2>1, <2>2, <2>3, SameHand
<1>5. CASE ProposalSaved
  <2>1. CASE background.seen.state \notin AcceptsEdits
    BY <1>3, <1>5, <2>1 DEF ProposalSaved
  <2>2. CASE background.seen.state \in AcceptsEdits
    <3>1. task' = UpdateForReview /\ task = background.seen
      BY <1>5, <2>2, NothingLost DEF ProposalSaved
    <3>2. background.seen \in TaskRecords
      BY <1>1, <3>1 DEF Typing
    <3>3. task'.state = "review" /\ task'.checkpoint = task.checkpoint
      BY <3>1, <3>2 DEF UpdateForReview, TaskRecords
    <3>4. task.state \in AcceptsEdits
      BY <2>2, <3>1
    <3> QED
      BY <1>4, <1>5, <3>3, <3>4 DEF ProposalSaved, AcceptsEdits
  <2> QED
    BY <2>1, <2>2
<1>6. CASE SandboxDropped
  <2>1. /\ task' = [background.seen EXCEPT !.sandbox = FALSE]
        /\ task = background.seen
    BY <1>6, NothingLost DEF SandboxDropped
  <2>2. task'.state = task.state /\ task'.checkpoint = task.checkpoint
    BY <1>1, <2>1 DEF Typing, TaskRecords
  <2>3. task.state \in Terminal
    BY <1>1, <1>6, <2>1 DEF SandboxDropped, Storing
  <2> QED
    BY <1>4, <1>6, <2>2, <2>3 DEF SandboxDropped, Terminal
<1>7. CASE DropCheckpoint
  <2>1. /\ manifest' = <<>> /\ call' = None
        /\ \A f \in Files : pre'[f] = Unowned
    BY <1>7 DEF DropCheckpoint, Disowning, Free
  <2>2. DOMAIN manifest' = {}
    BY <2>1
  <2>3. OnDisk'
    BY <2>1, <2>2
    DEF OnDisk, OriginalsKept, NothingOwned, InManifest, CheckpointNamed, TaskText
  <2> QED
    BY <2>1, <2>3, FreeHand DEF None
<1>8. CASE DropSandbox \/ \E f \in Files, baseline \in {"human", "sandbox"} :
                             WriteProposal(f, baseline)
  BY <1>3, <1>8 DEF DropSandbox, WriteProposal
<1> QED
  BY <1>5, <1>6, <1>7, <1>8 DEF Agent, Maintenance

(* The calls that save once keep what they read.                           *)
LEMMA OneSaveUndo ==
    ASSUME WorkInv, OnDisk, InHand, OneSave, ~lost'
    PROVE  OnDisk' /\ InHand'
<1>1. Typing /\ ShortCalls
  BY DEF WorkInv
<1>2. call # None => call \in Calls
  BY <1>1 DEF Typing
<1>3. ASSUME UNCHANGED <<task, manifest, project, pre>>,
             call'.kind \notin {"apply", "rollback", "recover"}
      PROVE  OnDisk' /\ InHand'
  BY <1>3, SameDisk, FreeHand
<1>4. ASSUME UNCHANGED <<manifest, project, pre>>,
             call'.kind \notin {"apply", "rollback", "recover"},
             task.checkpoint => task'.checkpoint,
             task.state # "rolled-back", task'.state # "rolled-back"
      PROVE  OnDisk' /\ InHand'
  BY <1>4, SameDisk, FreeHand
<1>5. CASE StartSave
  <2>1. call \in Calls
    BY <1>2, <1>5 DEF StartSave, None
  <2>2. /\ task = call.seen
        /\ \/ task' = [call.task EXCEPT !.state = "ready", !.sandbox = TRUE]
           \/ task' = [call.task EXCEPT !.state = "failed"]
    BY <1>5, NothingLost DEF StartSave
  <2>3. call.task \in TaskRecords
    BY <2>1 DEF Calls
  <2>4. task'.checkpoint = call.task.checkpoint /\ task'.state # "rolled-back"
    BY <2>2, <2>3 DEF TaskRecords
  <2> QED
    BY <1>1, <1>4, <1>5, <2>2, <2>4 DEF StartSave, ShortCalls, None
<1>6. CASE SaveRecord
  <2>1. task = call.seen /\ task' = call.task
    BY <1>6, NothingLost DEF SaveRecord
  <2> QED
    BY <1>1, <1>4, <1>6, <2>1 DEF SaveRecord, ShortCalls, None
<1>7. CASE DiscardSaved
  <2>1. call \in Calls
    BY <1>2, <1>7 DEF DiscardSaved, None
  <2>2. task = call.seen /\ task' = call.task
    BY <1>7, NothingLost DEF DiscardSaved
  <2>3. call'.kind = "discard"
    BY <1>7, <2>1 DEF DiscardSaved, Calls
  <2> QED
    BY <1>1, <1>4, <1>7, <2>2, <2>3 DEF DiscardSaved, ShortCalls
<1>8. CASE DiscardDropped
  <2>1. call \in Calls
    BY <1>2, <1>8 DEF DiscardDropped, None
  <2>2. task = call.seen /\ task' = [call.task EXCEPT !.sandbox = FALSE]
    BY <1>8, NothingLost DEF DiscardDropped
  <2>3. call.task \in TaskRecords
    BY <2>1 DEF Calls
  <2>4. task'.checkpoint = call.task.checkpoint /\ task'.state = call.task.state
    BY <2>2, <2>3 DEF TaskRecords
  <2> QED
    BY <1>1, <1>4, <1>8, <2>2, <2>4 DEF DiscardDropped, ShortCalls, None
<1>9. CASE Pause \/ Discard \/ Remove \/ \E f \in Files : Reject(f)
  BY <1>3, <1>9 DEF Pause, Discard, Remove, Reject, Saving, Call
<1>10. CASE RemoveDone
  <2>1. /\ task' = Removed /\ task = call.seen /\ manifest' = <<>> /\ call' = None
        /\ UNCHANGED <<project, pre>>
    BY <1>10, NothingLost DEF RemoveDone
  <2>2. manifest = <<>>
    BY <1>1, <1>10, <2>1 DEF RemoveDone, ShortCalls, OnDisk, CheckpointNamed
  <2>3. DOMAIN manifest = {} /\ UNCHANGED manifest
    BY <2>1, <2>2
  <2>4. OnDisk'
    BY <2>1, <2>2, <2>3, RemovedTyping
    DEF OnDisk, OriginalsKept, NothingOwned, InManifest, CheckpointNamed, TaskText
  <2> QED
    BY <2>1, <2>4, FreeHand DEF None
<1> QED
  BY <1>5, <1>6, <1>7, <1>8, <1>9, <1>10 DEF OneSave

(* The manifest of an apply keeps the original of what was accepted before.*)
LEMMA PlannedOriginals ==
    ASSUME CheckpointNamed, NEW sel, NEW part
    PROVE  /\ DOMAIN ManifestFor(sel, part) = DOMAIN manifest \cup sel
           /\ \A f \in DOMAIN ManifestFor(sel, part) :
                 ManifestFor(sel, part)[f].original =
                    IF f \in DOMAIN manifest THEN manifest[f].original
                    ELSE task.changes[f].original
<1>1. (IF task.checkpoint THEN manifest ELSE <<>>) = manifest
  BY DEF CheckpointNamed
<1>2. ManifestFor(sel, part) =
        [f \in DOMAIN manifest \cup sel |->
            IF f \notin sel THEN manifest[f]
            ELSE [original |-> IF f \in DOMAIN manifest THEN manifest[f].original
                               ELSE task.changes[f].original,
                  applied  |-> Contents(f, part)]]
  BY <1>1 DEF ManifestFor
<1> QED
  BY <1>2

(* An apply checkpoints before it writes.                                  *)
LEMMA ApplyUndoable ==
    ASSUME WorkInv, OnDisk, InHand, Apply, ~lost'
    PROVE  OnDisk' /\ InHand'
<1>1. Typing /\ ShortCalls /\ Applying
  BY DEF WorkInv
<1>2. call.kind = "apply" => call \in Calls /\ call.task \in TaskRecords
  BY <1>1, SomeCall DEF Typing, Kinds, Calls
<1>3. ASSUME UNCHANGED <<manifest, project, pre>>,
             call' = None,
             task.checkpoint => task'.checkpoint,
             task.state # "rolled-back", task'.state # "rolled-back"
      PROVE  OnDisk' /\ InHand'
  BY <1>3, SameDisk, FreeHand DEF None
<1>4. ASSUME NEW sel \in SUBSET Files, ApplyConflict(sel)
      PROVE  OnDisk' /\ InHand'
  <2>1. UNCHANGED <<task, manifest, project, pre>> /\ call'.kind = "conflict"
    BY <1>4 DEF ApplyConflict, Saving, Call
  <2> QED
    BY <2>1, SameDisk, FreeHand
<1>5. ASSUME NEW sel \in SUBSET Files, NEW part \in SUBSET sel, ApplyStart(sel, part)
      PROVE  OnDisk' /\ InHand'
  <2>1. UNCHANGED <<task, manifest, project, pre>>
    BY <1>5 DEF ApplyStart
  <2>2. PICK t \in TaskRecords :
           t = [task EXCEPT !.state = "applying", !.checkpoint = TRUE]
    BY <1>1, RecordTyping DEF States, Typing
  <2>3. t.changes = task.changes
    BY <1>1, <2>2 DEF TaskRecords, Typing
  <2>4. PICK c \in Calls : c = Call("apply", "save", t)
    BY <1>1, CallTyping DEF Kinds, Phases, Typing
  <2>5. c.kind = "apply" /\ c.phase = "save" /\ c.task = t
    BY <2>4 DEF Call
  <2>6. call' = [c EXCEPT !.entries = ManifestFor(sel, part), !.todo = sel]
    BY <1>5, <2>2, <2>4 DEF ApplyStart
  <2>7. /\ call'.kind = "apply" /\ call'.phase = "save" /\ call'.task = t
        /\ call'.entries = ManifestFor(sel, part) /\ call'.todo = sel
    BY <2>5, <2>6 DEF Calls
  <2>8. Planned'
    <3> DEFINE m == ManifestFor(sel, part)
    <3>2. /\ DOMAIN m = DOMAIN manifest \cup sel
          /\ \A f \in DOMAIN m :
               m[f].original = IF f \in DOMAIN manifest THEN manifest[f].original
                               ELSE task.changes[f].original
      BY PlannedOriginals DEF OnDisk
    <3>3. call'.entries = m
      BY <2>7
    <3> HIDE DEF m
    <3> QED
      BY <2>1, <2>3, <2>7, <3>2, <3>3 DEF Planned
  <2> QED
    BY <2>1, <2>7, <2>8, SameDisk DEF InHand, CallsSeeTheirRecord, InForce, PutBack
<1>6. CASE ApplySaved
  <2>1. call \in Calls
    BY <1>2, <1>6 DEF ApplySaved
  <2>2. /\ call'.kind = "apply" /\ call'.phase = "manifest"
        /\ call'.task = call.task /\ call'.seen = call.task
        /\ call'.entries = call.entries /\ call'.todo = call.todo
    BY <1>6, <2>1 DEF ApplySaved, Calls
  <2>3. task' = call.task /\ task = call.seen
    BY <1>6, NothingLost DEF ApplySaved
  <2>4. OnDisk'
    BY <1>1, <1>6, <2>3, SameDisk DEF ApplySaved, Applying
  <2>5. InHand'
    BY <1>6, <2>2, <2>3 DEF ApplySaved, InHand, CallsSeeTheirRecord, Planned, PutBack
  <2> QED
    BY <2>4, <2>5
<1>7. CASE ApplyManifest
  <2>1. call \in Calls
    BY <1>2, <1>7 DEF ApplyManifest
  <2>2. /\ call'.kind = "apply" /\ call'.phase = "write"
        /\ call'.task = call.task /\ call'.seen = call.seen
        /\ manifest' = call.entries /\ UNCHANGED <<task, project>>
    BY <1>7, <2>1 DEF ApplyManifest, Calls
  <2>3. /\ call.task = task /\ call.seen = task
        /\ task.state = "applying" /\ task.checkpoint
    BY <1>1, <1>7 DEF ApplyManifest, InHand, CallsSeeTheirRecord, InForce, Applying
  <2>4. \A f \in Files : pre'[f] =
           IF f \in call.todo /\ (pre[f] = Unowned \/ f \notin DOMAIN manifest)
           THEN call.task.changes[f].original ELSE pre[f]
    BY <1>7 DEF ApplyManifest, Owning
  <2>5. /\ DOMAIN call.entries = DOMAIN manifest \cup call.todo
        /\ \A f \in DOMAIN call.entries :
             call.entries[f].original =
                IF f \in DOMAIN manifest THEN manifest[f].original
                ELSE call.task.changes[f].original
    BY <1>7 DEF ApplyManifest, InHand, Planned
  <2>6. DOMAIN call.entries \subseteq Files
    BY <2>1, EntryTyping
  <2>7. \A f \in DOMAIN manifest : pre[f] = manifest[f].original /\ pre[f] # Unowned
    <3>1. \A f \in DOMAIN manifest : manifest[f].original \in Texts
      <4>1. \A f \in DOMAIN manifest : manifest[f] \in Entry
        <5>1. manifest \in PartialOn(Files, Entry)
          BY <1>1 DEF Typing, Entries, Entry
        <5> QED
          BY <5>1, PartialFunctions
      <4> QED
        BY <4>1 DEF Entry
    <3> QED
      BY <2>3, <3>1, TextsAssumption DEF OnDisk, OriginalsKept
  <2>8. OriginalsKept'
    BY <2>2, <2>4, <2>5, <2>6, <2>7 DEF OriginalsKept
  <2>9. InManifest'
    BY <2>2, <2>4, <2>5 DEF OnDisk, InManifest, TaskText
  <2>10. OnDisk'
    BY <2>2, <2>3, <2>8, <2>9 DEF OnDisk, NothingOwned, CheckpointNamed
  <2>11. InHand'
    BY <2>2, <2>3 DEF InHand, CallsSeeTheirRecord, Planned, PutBack
  <2> QED
    BY <2>10, <2>11
<1>8. ASSUME NEW f \in Files, ApplyWrite(f) \/ ApplyUndo(f)
      PROVE  OnDisk' /\ InHand'
  <2>1. /\ call.kind = "apply" /\ call.phase \in {"write", "undo"}
        /\ f \in call.todo \cup call.done
        /\ UNCHANGED <<task, manifest, pre>>
    BY <1>8 DEF ApplyWrite, ApplyUndo
  <2>2. f \in DOMAIN manifest
    BY <1>1, <2>1 DEF Applying
  <2>3. \A g \in Files \ {f} : project'[g] = project[g]
    BY <1>1, <1>8 DEF ApplyWrite, ApplyUndo, WriteFile, Typing
  <2>4. OnDisk'
    BY <2>1, <2>2, <2>3, SameRecord
  <2>5. /\ call'.kind = "apply" /\ call'.phase = call.phase
        /\ call'.task = call.task /\ call'.seen = call.seen
    BY <1>2, <1>8 DEF ApplyWrite, ApplyUndo, Calls
  <2>6. InHand'
    BY <2>1, <2>5 DEF InHand, CallsSeeTheirRecord, InForce, Planned, PutBack
  <2> QED
    BY <2>4, <2>6
<1>9. CASE ApplyWriteFails
  <2>1. /\ call.kind = "apply" /\ call.phase = "write"
        /\ UNCHANGED <<task, manifest, project, pre>>
    BY <1>9 DEF ApplyWriteFails
  <2>2. /\ call'.kind = "apply" /\ call'.phase = "undo"
        /\ call'.task = call.task /\ call'.seen = call.seen
    BY <1>2, <1>9 DEF ApplyWriteFails, Calls
  <2>3. OnDisk'
    BY <2>1, SameDisk
  <2>4. InHand'
    BY <2>1, <2>2 DEF InHand, CallsSeeTheirRecord, InForce, Planned, PutBack
  <2> QED
    BY <2>3, <2>4
<1>10. CASE ApplyUndoFails
  BY <1>10, SameDisk, FreeHand DEF ApplyUndoFails, None
<1>11. ASSUME call.kind = "apply", call.phase \in {"write", "undo"}
       PROVE  task = call.task /\ task.state = "applying" /\ task \in TaskRecords
  BY <1>1, <1>11 DEF InHand, CallsSeeTheirRecord, InForce, Applying, Typing
<1>12. CASE ApplyFailed
  <2>1. /\ task' = [call.task EXCEPT !.state = "failed"]
        /\ call' = None /\ UNCHANGED <<manifest, project, pre>>
    BY <1>12, NothingLost DEF ApplyFailed
  <2>2. task'.state = "failed" /\ task'.checkpoint = task.checkpoint
    BY <1>11, <1>12, <2>1 DEF ApplyFailed, TaskRecords
  <2> QED
    BY <1>3, <1>11, <1>12, <2>1, <2>2 DEF ApplyFailed
<1>13. CASE ApplyDone
  <2>1. task' = AfterApply(call) /\ call' = None /\ UNCHANGED <<manifest, project, pre>>
    BY <1>13, NothingLost DEF ApplyDone
  <2>2. task'.state \in {"applied", "review"} /\ task'.checkpoint = task.checkpoint
    BY <1>11, <1>13, <2>1 DEF ApplyDone, AfterApply, TaskRecords
  <2> QED
    BY <1>3, <1>11, <1>13, <2>1, <2>2 DEF ApplyDone
<1> QED
  BY <1>4, <1>5, <1>6, <1>7, <1>8, <1>9, <1>10, <1>12, <1>13 DEF Apply

(* A rollback puts back the originals.                                     *)
LEMMA RollbackUndoable ==
    ASSUME WorkInv, OnDisk, InHand, Rollback, ~lost'
    PROVE  OnDisk' /\ InHand'
<1>1. Typing /\ RollingBack
  BY DEF WorkInv
<1>2. call.kind = "rollback" => call \in Calls /\ call.task \in TaskRecords
  BY <1>1, SomeCall DEF Typing, Kinds, Calls
<1>3. ASSUME call.kind = "rollback", call.phase \in {"check", "write", "undo"}
      PROVE  /\ task = call.task /\ call.seen = task /\ task.state = "rolling-back"
             /\ task \in TaskRecords /\ task.checkpoint /\ call.entries = manifest
  BY <1>1, <1>3 DEF InHand, CallsSeeTheirRecord, InForce, RollingBack, Typing
<1>4. CASE RollbackStart
  <2>1. UNCHANGED <<task, manifest, project, pre>>
    BY <1>4 DEF RollbackStart
  <2>2. PICK t \in TaskRecords : t = [task EXCEPT !.state = "rolling-back"]
    BY <1>1, RecordTyping DEF States, Typing
  <2>3. PICK c \in Calls : c = Call("rollback", "save", t)
    BY <1>1, CallTyping DEF Kinds, Phases, Typing
  <2>4. call'.kind = "rollback" /\ call'.phase = "save"
    <3>1. c.kind = "rollback" /\ c.phase = "save"
      BY <2>3 DEF Call
    <3>2. call' = [c EXCEPT !.entries = manifest]
      BY <1>4, <2>2, <2>3 DEF RollbackStart
    <3> QED
      BY <3>1, <3>2 DEF Calls
  <2>5. OnDisk'
    BY <2>1, SameDisk
  <2> QED
    BY <2>4, <2>5 DEF InHand, CallsSeeTheirRecord, InForce, Planned, PutBack
<1>5. CASE RollbackSaved
  <2>1. call \in Calls
    BY <1>2, <1>5 DEF RollbackSaved
  <2>2. /\ call'.kind = "rollback" /\ call'.phase = "check"
        /\ call'.task = call.task /\ call'.seen = call.task
    BY <1>5, <2>1 DEF RollbackSaved, Calls
  <2>3. task' = call.task /\ task = call.seen
    BY <1>5, NothingLost DEF RollbackSaved
  <2>4. OnDisk'
    BY <1>1, <1>5, <2>3, SameDisk DEF RollbackSaved, RollingBack
  <2>5. InHand'
    BY <2>2, <2>3 DEF InHand, CallsSeeTheirRecord, Planned, PutBack
  <2> QED
    BY <2>4, <2>5
<1>6. CASE RollbackCheck
  <2>1. call \in Calls
    BY <1>2, <1>6 DEF RollbackCheck
  <2>2. UNCHANGED <<task, manifest, project, pre>>
    BY <1>6 DEF RollbackCheck
  <2>3. OnDisk'
    BY <2>2, SameDisk
  <2>4. CASE Untouched(call.entries)
    <3>1. /\ call'.kind = "rollback" /\ call'.phase = "write"
          /\ call'.task = call.task /\ call'.seen = call.seen
          /\ call'.done = call.done
      BY <1>6, <2>1, <2>4 DEF RollbackCheck, Calls
    <3>2. call.done = {}
      BY <1>1, <1>6 DEF RollbackCheck, RollingBack
    <3>3. task = call.task /\ call.seen = task
      BY <1>3, <1>6 DEF RollbackCheck
    <3> QED
      BY <2>2, <2>3, <3>1, <3>2, <3>3
      DEF InHand, CallsSeeTheirRecord, Planned, PutBack
  <2>5. CASE ~Untouched(call.entries)
    <3>1. call'.kind = "conflict"
      BY <1>6, <2>1, <2>5 DEF RollbackCheck, Calls
    <3> QED
      BY <2>3, <3>1, FreeHand
  <2> QED
    BY <2>4, <2>5
<1>7. ASSUME NEW f \in Files, RollbackWrite(f) \/ RollbackUndo(f)
      PROVE  OnDisk' /\ InHand'
  <2>1. /\ call.kind = "rollback" /\ call.phase \in {"write", "undo"}
        /\ f \in call.todo \cup call.done
        /\ UNCHANGED <<task, manifest, pre>>
    BY <1>7 DEF RollbackWrite, RollbackUndo
  <2>2. f \in DOMAIN manifest /\ call.entries = manifest
    BY <1>1, <2>1 DEF RollingBack
  <2>3. \A g \in Files \ {f} : project'[g] = project[g]
    BY <1>1, <1>7 DEF RollbackWrite, RollbackUndo, WriteFile, Typing
  <2>4. OnDisk'
    BY <2>1, <2>2, <2>3, SameRecord
  <2>5. /\ call'.kind = "rollback" /\ call'.phase = call.phase
        /\ call'.task = call.task /\ call'.seen = call.seen
    BY <1>2, <1>7 DEF RollbackWrite, RollbackUndo, Calls
  <2>6. CallsSeeTheirRecord' /\ Planned'
    BY <2>1, <2>5 DEF InHand, CallsSeeTheirRecord, InForce, Planned
  <2>7. PutBack'
    <3>1. CASE RollbackUndo(f)
      BY <2>5, <3>1 DEF RollbackUndo, PutBack
    <3>2. CASE RollbackWrite(f)
      <4>1. call.phase = "write" /\ call'.done = call.done \cup {f}
        BY <1>2, <3>2 DEF RollbackWrite, Calls
      <4>2. project'[f] = manifest[f].original
        BY <1>1, <2>2, <3>2 DEF RollbackWrite, WriteFile, Typing
      <4>3. pre[f] = manifest[f].original
        BY <1>3, <2>1, <2>2 DEF OnDisk, OriginalsKept
      <4>4. ~TaskText(f)'
        BY <2>1, <4>2, <4>3 DEF TaskText
      <4>5. \A g \in call.done : ~TaskText(g)
        BY <2>1, <4>1 DEF InHand, PutBack
      <4>6. call.done \subseteq Files
        BY <1>2, <2>1 DEF Calls
      <4>7. \A g \in call.done \ {f} : ~TaskText(g)'
        BY <2>1, <2>3, <4>5, <4>6 DEF TaskText
      <4> QED
        BY <2>5, <4>1, <4>4, <4>7 DEF PutBack
    <3> QED
      BY <1>7, <3>1, <3>2
  <2> QED
    BY <2>4, <2>6, <2>7 DEF InHand
<1>8. CASE RollbackWriteFails
  <2>1. /\ call.kind = "rollback" /\ call.phase = "write"
        /\ UNCHANGED <<task, manifest, project, pre>>
    BY <1>8 DEF RollbackWriteFails
  <2>2. /\ call'.kind = "rollback" /\ call'.phase = "undo"
        /\ call'.task = call.task /\ call'.seen = call.seen
    BY <1>2, <1>8 DEF RollbackWriteFails, Calls
  <2>3. OnDisk'
    BY <2>1, SameDisk
  <2>4. InHand'
    BY <2>1, <2>2 DEF InHand, CallsSeeTheirRecord, InForce, Planned, PutBack
  <2> QED
    BY <2>3, <2>4
<1>9. CASE RollbackFailed
  <2>1. /\ task' = [call.task EXCEPT !.state = "failed"]
        /\ call' = None /\ UNCHANGED <<manifest, project, pre>>
    BY <1>9, NothingLost DEF RollbackFailed
  <2>2. task'.state = "failed" /\ task'.checkpoint = task.checkpoint
    BY <1>3, <1>9, <2>1 DEF RollbackFailed, TaskRecords
  <2>3. task.state = "rolling-back"
    BY <1>3, <1>9 DEF RollbackFailed
  <2> QED
    BY <2>1, <2>2, <2>3, SameDisk, FreeHand DEF None
<1>10. CASE RollbackDone
  <2>1. /\ task' = [call.task EXCEPT !.state = "rolled-back", !.changes = <<>>]
        /\ call' = None /\ UNCHANGED <<manifest, project>>
        /\ \A f \in Files : pre'[f] = Unowned
    BY <1>10, NothingLost DEF RollbackDone, Disowning
  <2>2. task'.state = "rolled-back" /\ task'.checkpoint
    BY <1>3, <1>10, <2>1 DEF RollbackDone, TaskRecords
  <2>3. OnDisk'
    BY <2>1, <2>2
    DEF OnDisk, OriginalsKept, NothingOwned, InManifest, CheckpointNamed, TaskText
  <2> QED
    BY <2>1, <2>3, FreeHand DEF None
<1> QED
  BY <1>4, <1>5, <1>6, <1>7, <1>8, <1>9, <1>10 DEF Rollback

(* Recovery puts back the originals, or leaves manifest and record alone.  *)
LEMMA RecoveryUndoable ==
    ASSUME WorkInv, OnDisk, InHand, Recovery, ~lost'
    PROVE  OnDisk' /\ InHand'
<1>1. Typing /\ InRecovery
  BY DEF WorkInv
<1>2. call.kind = "recover" => call \in Calls /\ call.task \in TaskRecords
  BY <1>1, SomeCall DEF Typing, Kinds, Calls
<1>3. ASSUME UNCHANGED <<task, manifest, project, pre>>,
             call'.kind = "recover", call'.phase = "save",
             call'.task.state \in {"conflict", "paused"}
      PROVE  OnDisk' /\ InHand'
  <2>1. OnDisk'
    BY <1>3, SameDisk
  <2> QED
    BY <1>3, <2>1 DEF InHand, CallsSeeTheirRecord, InForce, Planned, PutBack
<1>4. CASE RecoverTransaction
  <2>1. call \in Calls /\ call.task \in TaskRecords
    BY <1>2, <1>4 DEF RecoverTransaction, Recovering
  <2>2. UNCHANGED <<task, manifest, project, pre>>
    BY <1>4 DEF RecoverTransaction
  <2>3. CASE Recoverable
    <3>1. /\ call'.kind = "recover" /\ call'.phase = "write"
          /\ call'.done = call.done
      BY <1>4, <2>1, <2>3 DEF RecoverTransaction, Recovering, Calls
    <3>2. call.done = {}
      BY <1>1, <1>4 DEF RecoverTransaction, Recovering, InRecovery
    <3>3. OnDisk'
      BY <2>2, SameDisk
    <3> QED
      BY <3>1, <3>2, <3>3 DEF InHand, CallsSeeTheirRecord, InForce, Planned, PutBack
  <2>4. CASE ~Recoverable
    <3>1. /\ call'.kind = "recover" /\ call'.phase = "save"
          /\ call'.task = [call.task EXCEPT !.state = "conflict"]
      BY <1>4, <2>1, <2>4 DEF RecoverTransaction, Recovering, Calls
    <3>2. call'.task.state = "conflict"
      BY <2>1, <3>1 DEF TaskRecords
    <3> QED
      BY <1>3, <2>2, <3>1, <3>2
  <2> QED
    BY <2>3, <2>4
<1>5. ASSUME NEW f \in Files, RecoverWrite(f)
      PROVE  OnDisk' /\ InHand'
  <2>1. /\ call.kind = "recover" /\ call.phase = "write"
        /\ f \in call.todo /\ call \in Calls
        /\ UNCHANGED <<task, manifest, pre>>
    BY <1>2, <1>5 DEF RecoverWrite, Recovering
  <2>2. /\ f \in DOMAIN manifest /\ call.entries = manifest
        /\ task.state # "rolled-back"
    BY <1>1, <2>1 DEF InRecovery, Scope, Selected, Interrupted
  <2>3. /\ project'[f] = manifest[f].original
        /\ \A g \in Files \ {f} : project'[g] = project[g]
    BY <1>1, <1>5, <2>2 DEF RecoverWrite, WriteFile, Typing
  <2>4. OnDisk'
    BY <2>1, <2>2, <2>3, SameRecord
  <2>5. /\ call'.kind = "recover" /\ call'.phase = "write"
        /\ call'.done = call.done \cup {f}
    BY <1>5, <2>1 DEF RecoverWrite, Calls
  <2>6. pre[f] = manifest[f].original
    BY <2>2 DEF OnDisk, OriginalsKept
  <2>7. ~TaskText(f)'
    BY <2>1, <2>3, <2>6 DEF TaskText
  <2>8. \A g \in call.done : ~TaskText(g)
    BY <2>1 DEF InHand, PutBack
  <2>9. call.done \subseteq Files
    BY <2>1 DEF Calls
  <2>10. \A g \in call.done \ {f} : ~TaskText(g)'
    BY <2>1, <2>3, <2>8, <2>9 DEF TaskText
  <2>11. InHand'
    BY <2>5, <2>7, <2>10 DEF InHand, CallsSeeTheirRecord, InForce, Planned, PutBack
  <2> QED
    BY <2>4, <2>11
<1>6. CASE RecoverWriteFails
  <2>1. call \in Calls /\ call.task \in TaskRecords
    BY <1>2, <1>6 DEF RecoverWriteFails, Recovering
  <2>2. /\ call'.kind = "recover" /\ call'.phase = "save"
        /\ call'.task = [call.task EXCEPT !.state = "conflict"]
    BY <1>6, <2>1 DEF RecoverWriteFails, Recovering, Calls
  <2>3. call'.task.state = "conflict"
    BY <2>1, <2>2 DEF TaskRecords
  <2> QED
    BY <1>3, <1>6, <2>2, <2>3 DEF RecoverWriteFails
<1>7. CASE RecoverManifest
  <2> DEFINE prior == Without(call.entries, call.done)
  <2>1. call \in Calls /\ call.task \in TaskRecords
    BY <1>2, <1>7 DEF RecoverManifest, Recovering
  <2>2. /\ Interrupted /\ call.task = task /\ task.checkpoint
        /\ call.entries = manifest /\ call.done = Scope
        /\ UNCHANGED <<task, project, pre>>
    BY <1>1, <1>7 DEF RecoverManifest, Recovering, InRecovery
  <2>3. \A f \in call.done : ~TaskText(f)
    BY <1>7 DEF RecoverManifest, Recovering, InHand, PutBack
  <2>4. CASE task.state = "applying"
    <3>1. /\ call'.kind = "recover" /\ call'.phase = "save"
          /\ call'.task = [call.task EXCEPT !.state = "review", !.checkpoint = prior # <<>>]
          /\ manifest' = prior
      BY <1>7, <2>1, <2>4 DEF RecoverManifest, Recovering, Calls
    <3>2. call'.task.state = "review"
      BY <2>1, <3>1 DEF TaskRecords
    <3>3. /\ DOMAIN prior = DOMAIN manifest \ call.done
          /\ \A f \in DOMAIN manifest \ call.done : prior[f] = manifest[f]
      BY <2>2 DEF Without
    <3> HIDE DEF prior
    <3>4. OriginalsKept'
      BY <2>2, <2>4, <3>1, <3>3 DEF OnDisk, OriginalsKept
    <3>5. InManifest'
      BY <2>2, <2>3, <3>1, <3>3 DEF OnDisk, InManifest, TaskText
    <3>6. OnDisk'
      BY <2>2, <2>4, <3>4, <3>5 DEF OnDisk, NothingOwned, CheckpointNamed
    <3>7. InHand'
      BY <3>1, <3>2 DEF InHand, CallsSeeTheirRecord, InForce, Planned, PutBack
    <3> QED
      BY <3>6, <3>7
  <2>5. CASE task.state # "applying"
    <3>1. /\ call'.kind = "recover" /\ call'.phase = "save" /\ UNCHANGED manifest
      BY <1>7, <2>1, <2>5 DEF RecoverManifest, Recovering, Calls
    <3>2. OnDisk'
      BY <2>2, <3>1, SameDisk
    <3>3. \A f \in Files : ~TaskText(f)
      BY <2>2, <2>3, <2>5 DEF Scope, OnDisk, InManifest
    <3>4. \A f \in Files : ~TaskText(f)'
      BY <2>2, <3>3 DEF TaskText
    <3>5. InHand'
      BY <3>1, <3>4 DEF InHand, CallsSeeTheirRecord, InForce, Planned, PutBack
    <3> QED
      BY <3>2, <3>5
  <2> QED
    BY <2>4, <2>5
<1>8. CASE RecoverSaved
  <2>1. /\ call.kind = "recover" /\ call.phase = "save"
        /\ task' = call.task /\ call' = None
        /\ UNCHANGED <<manifest, project>>
    BY <1>8, NothingLost DEF RecoverSaved, Recovering
  <2>2. /\ task.state # "rolled-back"
        /\ call.task.state \in {"conflict", "review", "rolled-back", "paused"}
        /\ call.task.state = "review" => call.task.checkpoint = (manifest # <<>>)
        /\ call.task.state # "review" => call.task.checkpoint = task.checkpoint
    BY <1>1, <2>1 DEF InRecovery
  <2>3. DOMAIN manifest \subseteq Files
    BY <1>1, PartialFunctions DEF Typing, Entries
  <2>4. CASE call.task.state = "rolled-back"
    <3>1. \A f \in Files : pre'[f] = Unowned
      BY <1>8, <2>4 DEF RecoverSaved, Disowning
    <3>2. OnDisk'
      BY <2>1, <2>2, <2>4, <3>1
      DEF OnDisk, OriginalsKept, NothingOwned, InManifest, CheckpointNamed, TaskText
    <3> QED
      BY <2>1, <3>2, FreeHand DEF None
  <2>5. CASE call.task.state = "review"
    <3>1. \A f \in Files : pre'[f] = IF f \in DOMAIN manifest THEN pre[f] ELSE Unowned
      BY <1>8, <2>5 DEF RecoverSaved, Disowning
    <3>2. OnDisk'
      BY <2>1, <2>2, <2>3, <2>5, <3>1
      DEF OnDisk, OriginalsKept, NothingOwned, InManifest, CheckpointNamed, TaskText
    <3> QED
      BY <2>1, <3>2, FreeHand DEF None
  <2>6. CASE call.task.state \notin {"rolled-back", "review"}
    <3>1. Disowning({})
      BY <1>8, <2>6 DEF RecoverSaved
    <3>2. \A f \in Files : pre'[f] = pre[f]
      BY <3>1 DEF Disowning
    <3>3. OnDisk'
      BY <2>1, <2>2, <2>3, <2>6, <3>2
      DEF OnDisk, OriginalsKept, NothingOwned, InManifest, CheckpointNamed, TaskText
    <3> QED
      BY <2>1, <3>3, FreeHand DEF None
  <2> QED
    BY <2>4, <2>5, <2>6
<1>9. CASE RecoverActive
  <2>1. CASE task.state \in {"preparing", "ready", "running"}
    <3>1. call \in Calls /\ call.task \in TaskRecords
      BY <1>2, <1>9 DEF RecoverActive, Recovering
    <3>2. /\ call'.kind = "recover" /\ call'.phase = "save"
          /\ call'.task = [call.task EXCEPT !.state = "paused"]
      BY <1>9, <2>1, <3>1 DEF RecoverActive, Recovering, Calls
    <3>3. call'.task.state = "paused"
      BY <3>1, <3>2 DEF TaskRecords
    <3> QED
      BY <1>3, <1>9, <3>2, <3>3 DEF RecoverActive
  <2>2. CASE task.state \notin {"preparing", "ready", "running"}
    BY <1>9, <2>2, SameDisk, FreeHand DEF RecoverActive, None
  <2> QED
    BY <2>1, <2>2
<1> QED
  BY <1>4, <1>5, <1>6, <1>7, <1>8, <1>9 DEF Recovery

(* A newer record once overwritten is not there again.                     *)
LEMMA LostStays ==
    ASSUME WorkInv, [Next]_vars, ~lost'
    PROVE  ~lost
<1>1. lost \in BOOLEAN
    BY DEF WorkInv, Typing
<1>2. lost' = lost \/ \E t, seen : Save(t, seen)
    BY DEF Next, vars, HumanEdit, Agent, WriteProposal, ProposalSaved, OneSave, StartSave,
           Pause, SaveRecord, Reject, Discard, DiscardSaved, DiscardDropped, Remove,
           RemoveDone, Saving, Apply, ApplyConflict, ApplyStart, ApplySaved,
           ApplyManifest, ApplyWrite, ApplyUndo, ApplyWriteFails, ApplyUndoFails,
           ApplyFailed, ApplyDone, Rollback, RollbackStart, RollbackSaved,
           RollbackCheck, RollbackWrite, RollbackUndo, RollbackWriteFails,
           RollbackFailed, RollbackDone, Maintenance, DropSandbox, SandboxDropped,
           DropCheckpoint, Crash, Recovery, RecoverTransaction, RecoverManifest,
           RecoverSaved, RecoverActive, RecoverWrite, RecoverWriteFails
<1> QED
  BY <1>1, <1>2 DEF Save

(* As long as no save has overwritten a newer record, disk and call agree. *)
LEMMA UndoStep ==
    ASSUME WorkInv, UndoInv, [Next]_vars
    PROVE  UndoInv'
<1> SUFFICES ASSUME ~lost' PROVE OnDisk' /\ InHand'
  BY DEF UndoInv, OnDisk, InHand
<1>1. ~lost
  BY LostStays
<1>2. OnDisk /\ InHand
  BY <1>1 DEF UndoInv, OnDisk, InHand
<1>3. CASE UNCHANGED vars
  <2>1. OnDisk'
    BY <1>2, <1>3, SameDisk DEF vars
  <2>2. InHand'
    BY <1>2, <1>3 DEF vars, InHand, CallsSeeTheirRecord, InForce, Planned, PutBack, TaskText
  <2> QED
    BY <2>1, <2>2
<1>4. CASE Crash
  <2>1. call'.kind = "recover" /\ call'.phase = "start"
    BY <1>4 DEF Crash, Call
  <2>2. OnDisk'
    BY <1>2, <1>4, SameDisk DEF Crash
  <2> QED
    BY <2>1, <2>2 DEF InHand, CallsSeeTheirRecord, InForce, Planned, PutBack
<1> QED
  BY <1>2, <1>3, <1>4, HumanEditUndo, BesideUndo, OneSaveUndo, ApplyUndoable,
     RollbackUndoable, RecoveryUndoable DEF Next

(* The first state.                                                        *)
LEMMA UndoFirst == Init => UndoInv
<1> SUFFICES ASSUME Init PROVE UndoInv
  OBVIOUS
<1>1. /\ task.state = "preparing" /\ manifest = <<>> /\ DOMAIN manifest = {}
      /\ \A f \in Files : pre[f] = Unowned
      /\ call.kind = "start"
  <2>1. manifest = <<>>
    BY DEF Init
  <2>2. DOMAIN manifest = {}
    BY <2>1
  <2> QED
    BY <2>1, <2>2 DEF Init, Call
<1> QED
  BY <1>1 DEF UndoInv, OriginalsKept, NothingOwned, InManifest, CheckpointNamed, TaskText,
              CallsSeeTheirRecord, InForce, Planned, PutBack

(* Wherever the project holds text of the task, its undo is on disk: at    *)
(* every instant, so at every crash, as long as no save overwrote a newer  *)
(* record (apply, writeManifest, recoverTransaction).                      *)
THEOREM UndoOnDisk == Spec => []AppliedHasUndo
<1>1. Init => WorkInv /\ UndoInv
  BY CallsInit, UndoFirst
<1>2. WorkInv /\ UndoInv /\ [Next]_vars => (WorkInv /\ UndoInv)'
  BY CallsStep, UndoStep
<1>3. UndoInv => AppliedHasUndo
  <2> SUFFICES ASSUME UndoInv, ~lost, NEW f \in Files, TaskText(f)
               PROVE  /\ task.checkpoint
                      /\ f \in DOMAIN manifest
                      /\ manifest[f].original = pre[f]
    BY DEF AppliedHasUndo
  <2>1. f \in DOMAIN manifest
    BY DEF UndoInv, InManifest
  <2>2. task.checkpoint
    <3>1. manifest = <<>> => DOMAIN manifest = {}
      OBVIOUS
    <3> QED
      BY <2>1, <3>1 DEF UndoInv, CheckpointNamed
  <2>3. manifest[f].original = pre[f]
    BY <2>1 DEF UndoInv, OriginalsKept, NothingOwned, TaskText
  <2> QED
    BY <2>1, <2>2, <2>3
<1> QED
  BY <1>1, <1>2, <1>3, PTL DEF Spec

(* What a step that loses nothing can make of the state of the task.       *)
LEMMA NextState ==
    ASSUME WorkInv, Next, ~lost'
    PROVE  \/ task'.state = task.state
           \/ task'.state \in {"ready", "failed", "paused", "conflict", "discarded",
                               "removed", "applying", "rolling-back"}
           \/ task.state \in AcceptsEdits /\ task'.state \in {"review", "applied"}
           \/ ApplyDone /\ task'.state \in {"review", "applied"}
           \/ RollbackDone \/ RecoverSaved
<1> DEFINE Goal == \/ task'.state = task.state
                   \/ task'.state \in {"ready", "failed", "paused", "conflict",
                                       "discarded", "removed", "applying", "rolling-back"}
                   \/ task.state \in AcceptsEdits /\ task'.state \in {"review", "applied"}
                   \/ ApplyDone /\ task'.state \in {"review", "applied"}
                   \/ RollbackDone \/ RecoverSaved
<1>1. /\ Typing /\ Storing /\ ShortCalls /\ Applying /\ RollingBack
      /\ call # None => call \in Calls /\ call.task \in TaskRecords
  BY DEF WorkInv, Typing, Calls
<1>2. CASE UNCHANGED task
  BY <1>2
<1>3. CASE StartSave
  <2>1. \/ task' = [call.task EXCEPT !.state = "ready", !.sandbox = TRUE]
        \/ task' = [call.task EXCEPT !.state = "failed"]
    BY <1>3, NothingLost DEF StartSave
  <2>2. call.task \in TaskRecords
    BY <1>1, <1>3 DEF StartSave, None
  <2>3. task'.state \in {"ready", "failed"}
    BY <2>1, <2>2 DEF TaskRecords
  <2> QED
    BY <2>3
<1>4. CASE ProposalSaved
  <2>1. CASE background.seen.state \notin AcceptsEdits
    BY <1>2, <1>4, <2>1 DEF ProposalSaved
  <2>2. CASE background.seen.state \in AcceptsEdits
    <3>1. task' = UpdateForReview /\ task = background.seen
      BY <1>4, <2>2, NothingLost DEF ProposalSaved
    <3>2. task'.state = "review"
      BY <1>1, <3>1 DEF UpdateForReview, TaskRecords, Typing
    <3> QED
      BY <2>2, <3>1, <3>2
  <2> QED
    BY <2>1, <2>2
<1>5. CASE SaveRecord
  <2>1. /\ task' = call.task /\ task = call.seen /\ call.task \in TaskRecords
        /\ call.kind \in {"pause", "reject", "conflict"}
    BY <1>1, <1>5, NothingLost DEF SaveRecord
  <2>2. CASE call.kind \in {"pause", "conflict"}
    BY <1>1, <2>1, <2>2 DEF ShortCalls
  <2>3. CASE call.kind = "reject"
    <3>1. task.state = "review" /\ task'.state \in {"review", "applied", "paused"}
      BY <1>1, <2>1, <2>3 DEF ShortCalls
    <3> QED
      BY <3>1 DEF AcceptsEdits
  <2> QED
    BY <2>1, <2>2, <2>3
<1>6. CASE DiscardSaved \/ DiscardDropped
  <2>1. call.kind = "discard" /\ call.task \in TaskRecords /\ call.task.state = "discarded"
    BY <1>1, <1>6 DEF DiscardSaved, DiscardDropped, ShortCalls, None
  <2>2. task' = call.task \/ task' = [call.task EXCEPT !.sandbox = FALSE]
    BY <1>6, NothingLost DEF DiscardSaved, DiscardDropped
  <2>3. task'.state = "discarded"
    BY <2>1, <2>2 DEF TaskRecords
  <2> QED
    BY <2>3
<1>7. CASE RemoveDone
  <2>1. task' = Removed
    BY <1>7, NothingLost DEF RemoveDone
  <2> QED
    BY <2>1, RemovedTyping
<1>8. CASE ApplySaved
  <2>1. task' = call.task
    BY <1>8, NothingLost DEF ApplySaved
  <2> QED
    BY <1>1, <1>8, <2>1 DEF ApplySaved, Applying
<1>9. CASE RollbackSaved
  <2>1. task' = call.task
    BY <1>9, NothingLost DEF RollbackSaved
  <2> QED
    BY <1>1, <1>9, <2>1 DEF RollbackSaved, RollingBack
<1>10. CASE ApplyFailed \/ RollbackFailed
  <2>1. task' = [call.task EXCEPT !.state = "failed"] /\ call.task \in TaskRecords
    BY <1>1, <1>10, NothingLost DEF ApplyFailed, RollbackFailed, None
  <2>2. task'.state = "failed"
    BY <2>1 DEF TaskRecords
  <2> QED
    BY <2>2
<1>11. CASE ApplyDone
  <2>1. task' = AfterApply(call) /\ call.task \in TaskRecords
    BY <1>1, <1>11, NothingLost DEF ApplyDone, None
  <2>2. task'.state \in {"review", "applied"}
    BY <2>1 DEF AfterApply, TaskRecords
  <2> QED
    BY <1>11, <2>2
<1>12. CASE SandboxDropped
  <2>1. task' = [background.seen EXCEPT !.sandbox = FALSE] /\ task = background.seen
    BY <1>12, NothingLost DEF SandboxDropped
  <2>2. task'.state = task.state
    BY <1>1, <2>1 DEF TaskRecords, Typing
  <2> QED
    BY <2>2
<1>13. CASE DropCheckpoint
  <2>1. task'.state = task.state
    BY <1>1, <1>13 DEF DropCheckpoint, TaskRecords, Typing
  <2> QED
    BY <2>1
<1>14. CASE RollbackDone \/ RecoverSaved
  BY <1>14
<1>15. \/ UNCHANGED task \/ StartSave \/ ProposalSaved \/ SaveRecord \/ DiscardSaved
       \/ DiscardDropped \/ RemoveDone \/ ApplySaved \/ RollbackSaved \/ ApplyFailed
       \/ RollbackFailed \/ ApplyDone \/ SandboxDropped \/ DropCheckpoint
       \/ RollbackDone \/ RecoverSaved
  BY DEF Next, HumanEdit, Agent, WriteProposal, OneSave, Pause, Reject, Discard, Remove,
         Saving, Apply, ApplyConflict, ApplyStart, ApplyManifest, ApplyWrite, ApplyUndo,
         ApplyWriteFails, ApplyUndoFails, Rollback, RollbackStart, RollbackCheck,
         RollbackWrite, RollbackUndo, RollbackWriteFails, Maintenance, DropSandbox, Crash,
         Recovery, RecoverTransaction, RecoverManifest, RecoverActive, RecoverWrite,
         RecoverWriteFails
<1> QED
  BY <1>2, <1>3, <1>4, <1>5, <1>6, <1>7, <1>8, <1>9, <1>10, <1>11, <1>12, <1>13, <1>14,
     <1>15

(* An apply that ends well is in the project with every accepted change; an*)
(* interrupted one is out of it with every change still in review.         *)
LEMMA ApplyEndsWhole ==
    ASSUME WorkInv, OnDisk, InHand, Next, ~lost',
           task.state = "applying", task'.state \in {"review", "applied"}
    PROVE  IF Recovering THEN RecoveredWhole ELSE AppliedWhole
<1>1. Typing /\ Applying /\ InRecovery /\ RollingBack
  BY DEF WorkInv
<1>2. \/ ApplyDone \/ RecoverSaved
  <2>1. ~RollbackDone
    <3> SUFFICES ASSUME RollbackDone PROVE FALSE
      OBVIOUS
    <3>1. call.kind = "rollback" /\ call.phase = "write"
      BY DEF RollbackDone
    <3> QED
      BY <1>1, <3>1 DEF InHand, CallsSeeTheirRecord, InForce, RollingBack
  <2> QED
    BY <2>1, NextState DEF AcceptsEdits
<1>3. CASE ApplyDone
  <2>1. /\ call.kind = "apply" /\ call.phase = "write" /\ call.todo = {}
        /\ task' = AfterApply(call)
    BY <1>3, NothingLost DEF ApplyDone
  <2>2. call.task = task /\ task \in TaskRecords
    BY <1>1, <2>1 DEF InHand, CallsSeeTheirRecord, InForce, Typing
  <2>3. task'.changes = Without(task.changes, call.done)
    BY <2>1, <2>2 DEF AfterApply, TaskRecords
  <2>4. DOMAIN task'.changes = DOMAIN task.changes \ call.done
    BY <2>3 DEF Without
  <2>5. AppliedWhole
    BY <1>1, <2>1, <2>2, <2>4 DEF AppliedWhole, Applying, Applied
  <2> QED
    BY <2>1, <2>5 DEF Recovering
<1>4. CASE RecoverSaved
  <2>1. call.kind = "recover" /\ call.phase = "save" /\ task' = call.task
    BY <1>4, NothingLost DEF RecoverSaved, Recovering
  <2>2. call.task.state = "review"
    BY <1>1, <2>1 DEF InRecovery
  <2>3. Selected = {}
    BY <1>1, <2>1, <2>2 DEF InRecovery
  <2>4. DOMAIN task.changes \subseteq Files
    <3>1. task.changes \in PartialOn(Files, Changes)
      BY <1>1, TaskFields DEF Typing
    <3> QED
      BY <3>1, PartialFunctions
  <2>5. RecoveredWhole
    BY <2>3, <2>4 DEF RecoveredWhole, Selected, OnDisk, InManifest
  <2> QED
    BY <2>1, <2>5 DEF Recovering
<1> QED
  BY <1>2, <1>3, <1>4

(* After a rollback no file holds text of the task.                        *)
LEMMA RollbackEndsWhole ==
    ASSUME WorkInv, OnDisk, InHand, Next, ~lost',
           task.state = "rolling-back", task'.state = "rolled-back"
    PROVE  \A f \in Files : ~TaskText(f)
<1>1. RollingBack /\ InRecovery
  BY DEF WorkInv
<1>2. RollbackDone \/ RecoverSaved
  BY NextState
<1>3. CASE RollbackDone
  <2>1. call.kind = "rollback" /\ call.phase = "write" /\ call.todo = {}
    BY <1>3 DEF RollbackDone
  <2>2. call.done = DOMAIN manifest
    BY <1>1, <2>1 DEF RollingBack
  <2> QED
    BY <2>1, <2>2 DEF InHand, PutBack, OnDisk, InManifest
<1>4. CASE RecoverSaved
  <2>1. call.kind = "recover" /\ call.phase = "save" /\ task' = call.task
    BY <1>4, NothingLost DEF RecoverSaved, Recovering
  <2> QED
    BY <2>1 DEF InHand, PutBack
<1> QED
  BY <1>2, <1>3, <1>4

(* Recovery leaves no transaction open.                                    *)
LEMMA RecoveryCloses ==
    ASSUME WorkInv, Next, ~lost', Recovering, call' = None
    PROVE  ~Interrupted'
<1>1. Typing /\ InRecovery
  BY DEF WorkInv
<1>2. call \in Calls /\ call.kind = "recover" /\ call # None
  BY <1>1, SomeCall DEF Recovering, Typing, Kinds, None
<1>3. ~(Agent \/ OneSave \/ Apply \/ Rollback \/ Maintenance \/ Crash
        \/ \E f \in Files : HumanEdit(f))
  BY <1>2 DEF Agent, WriteProposal, ProposalSaved, OneSave, StartSave, Pause, SaveRecord,
              Reject, Discard, DiscardSaved, DiscardDropped, Remove, RemoveDone, Saving,
              Free, Apply, ApplyConflict, ApplyStart, CanApply, ApplySaved, ApplyManifest,
              ApplyWrite, ApplyUndo, ApplyWriteFails, ApplyUndoFails, ApplyFailed,
              ApplyDone, Rollback, RollbackStart, RollbackSaved, RollbackCheck,
              RollbackWrite, RollbackUndo, RollbackWriteFails, RollbackFailed,
              RollbackDone, Maintenance, DropSandbox, SandboxDropped, DropCheckpoint,
              Crash, Call, HumanEdit, Recovering, None
<1>4. CASE RecoverSaved
  <2>1. call.phase = "save" /\ task' = call.task
    BY <1>4, NothingLost DEF RecoverSaved
  <2> QED
    BY <1>1, <1>2, <2>1 DEF InRecovery, Interrupted
<1>5. CASE RecoverActive
  BY <1>5 DEF RecoverActive, Interrupted
<1>6. CASE \/ RecoverTransaction \/ RecoverManifest \/ RecoverWriteFails
           \/ \E f \in Files : RecoverWrite(f)
  <2>1. call'.kind = "recover"
    BY <1>2, <1>6 DEF RecoverTransaction, RecoverManifest, RecoverWriteFails, RecoverWrite,
                      Calls
  <2> QED
    BY <2>1 DEF None
<1> QED
  BY <1>3, <1>4, <1>5, <1>6 DEF Next, Recovery

(* An apply or a rollback that ends well ended for every file, and the     *)
(* recovery at start-up leaves none open, as long as no save overwrote a   *)
(* newer record (apply, rollback, recoverTransaction).                     *)
THEOREM WholeTransactions == Spec => TransactionsAreWhole
<1> DEFINE Whole ==
      ~lost' =>
        /\ task.state = "applying" /\ task'.state \in {"review", "applied"} =>
              IF Recovering THEN RecoveredWhole ELSE AppliedWhole
        /\ task.state = "rolling-back" /\ task'.state = "rolled-back" =>
              \A f \in Files : ~TaskText(f)
        /\ Recovering /\ call' = None => ~Interrupted'
<1>1. Init => WorkInv /\ UndoInv
  BY CallsInit, UndoFirst
<1>2. WorkInv /\ UndoInv /\ [Next]_vars => (WorkInv /\ UndoInv)'
  BY CallsStep, UndoStep
<1>3. WorkInv /\ UndoInv /\ [Next]_vars => [Whole]_vars
  <2> SUFFICES ASSUME WorkInv, UndoInv, Next, ~lost' PROVE Whole
    OBVIOUS
  <2>1. ~lost
    BY LostStays
  <2>2. OnDisk /\ InHand
    BY <2>1 DEF UndoInv, OnDisk, InHand
  <2> QED
    BY <2>2, ApplyEndsWhole, RollbackEndsWhole, RecoveryCloses
<1> QED
  BY <1>1, <1>2, <1>3, PTL DEF Spec, TransactionsAreWhole
=============================================================================
