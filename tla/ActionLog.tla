------------------------------ MODULE ActionLog ------------------------------
(***************************************************************************)
(* The action log (crates/action_log): which of the agent's edits of one    *)
(* buffer the user has not reviewed yet, and what keeping and rejecting     *)
(* them does.                                                               *)
(*                                                                         *)
(* A tracked buffer has a diff base; its unreviewed edits are the places    *)
(* where the text differs from the base.  A background task takes the       *)
(* changes of the buffer from a queue, one at a time: it moves the user's   *)
(* changes into the base, recomputes the diff and stores the outcome, with  *)
(* awaits between reading the tracked buffer, showing the hunks and         *)
(* storing.  Meanwhile the agent and the user go on.                        *)
(*                                                                         *)
(* The text is a value for each of a few lines that do not touch, so that a *)
(* hunk is a line, or the whole text where base or text is empty.  Every    *)
(* edit count a new value, which says who wrote it.                        *)
(***************************************************************************)
EXTENDS Integers, FiniteSets, Sequences

CONSTANTS
    Lines,       \* the lines of the buffer
    MaxAgent,    \* edits the agent makes
    MaxUser,     \* edits the user makes
    MaxSessions, \* sessions the agent opens, to edit, write or delete
    MaxCommits,  \* commits the user makes
    MaxDisk,     \* times the file disappears or comes back by itself
    MaxOthers,   \* all of the last three together
    MaxQueue,    \* changes queued for the task when another is scheduled
    AllowUndo    \* whether the user undoes a reject

ASSUME ActionLogAssumption ==
    /\ Lines # {} /\ IsFiniteSet(Lines)
    /\ {MaxAgent, MaxUser, MaxSessions, MaxCommits, MaxDisk, MaxOthers,
        MaxQueue} \subseteq Nat
    /\ AllowUndo \in BOOLEAN

VARIABLES
    text,      \* of the buffer
    on_disk,   \* whether the file exists
    session,   \* the agent's: "none", "edit", "write" or "delete"
    tracked,   \* the TrackedBuffer, its status "none" if there is none
    queue,     \* diff_update: <<author, snapshot>>
    job,       \* what the task is busy with
    last_reject_undo, \* text to bring back, line by line
    git,       \* the text at HEAD
    count,    \* edits, sessions, commits and disk changes so far
    agentLines, \* lines the agent may have changed since tracking began
    reviewed,  \* agent's values the user kept, committed, or let go
    excused    \* agent's values `kept` while the task was at work on a diff,
               \* what a reject put `back` where it had changes to see,
               \* and whether a reject has been `undone`

fileVars == <<text, on_disk>>
logVars == <<tracked, queue, job>>
historyVars == <<agentLines, reviewed>>
vars == <<fileVars, session, logVars, last_reject_undo, git, count, historyVars, excused>>

-----------------------------------------------------------------------------
(* Texts                                                                    *)

NoText == [by |-> "none", n |-> 0]
Original == [by |-> "disk", n |-> 0]
By(author) == [by |-> author, n |-> count[author] + 1]

Text(value) == [l \in Lines |-> value]
Empty == Text(NoText)
Absent == Text([by |-> "absent", n |-> 0]) \* of a file that did not exist

\* The lines at which two texts differ; one edit of everything if one is empty.
Differing(old, new) ==
    IF old = new THEN {}
    ELSE IF Empty \in {old, new} THEN Lines
    ELSE {l \in Lines : old[l] # new[l]}

\* The unreviewed lines that share a hunk with one of ls.
Hunks(ls) ==
    IF Empty \in {tracked.base, tracked.snapshot} /\ ls \cap tracked.unreviewed # {}
    THEN tracked.unreviewed ELSE ls \cap tracked.unreviewed

Patched(old, ls, new) == [l \in Lines |-> IF l \in ls THEN new[l] ELSE old[l]]

AgentValues(t, ls) == {<<l, t[l].n>> : l \in {k \in ls : t[k].by = "agent"}}

-----------------------------------------------------------------------------
(* Tracking                                                                 *)

\* unreviewed: lines that differ from the base; shown: hunks of the diff;
\* current: whether version is the buffer's; committed: whether HEAD has
\* changed and the task has not looked at it.
Untracked == [status |-> "none", existing |-> Absent, base |-> Empty,
              snapshot |-> Empty, unreviewed |-> {}, shown |-> {},
              current |-> FALSE, committed |-> FALSE]
NoJob == [phase |-> "none", base |-> Empty, snapshot |-> Empty]
NoUndo == [lines |-> {}, text |-> Empty]

Tracks == tracked.status # "none"

Init ==
    /\ on_disk \in BOOLEAN
    /\ text = IF on_disk THEN Text(Original) ELSE Empty
    /\ session = "none"
    /\ tracked = Untracked /\ queue = <<>> /\ job = NoJob
    /\ last_reject_undo = NoUndo
    /\ git = text
    /\ count = [agent |-> 0, user |-> 0, session |-> 0, git |-> 0,
                disk |-> 0]
    /\ agentLines = {} /\ reviewed = {} /\ excused = [kept |-> {}, back |-> {}, undone |-> FALSE]

\* A buffer seen for the first time: what it says now is the base.
Fresh(t) == [Untracked EXCEPT !.status = "modified", !.base = t,
                              !.snapshot = t, !.current = TRUE]

\* A buffer the agent is about to fill: everything in it will be the agent's.
Created(t) ==
    [Untracked EXCEPT
        !.status = "created",
        !.existing = CASE tracked.status = "created" -> tracked.existing
                       [] tracked.status \in {"modified", "deleted"} -> tracked.base
                       [] OTHER -> IF on_disk THEN t ELSE Absent,
        !.snapshot = t, !.unreviewed = Lines, !.current = TRUE]

\* A new TrackedBuffer has a new task and a new channel.
StartTracking(record, ls) ==
    /\ tracked' = record /\ queue' = <<>> /\ job' = NoJob
    /\ agentLines' = ls
    /\ reviewed' = reviewed \cup AgentValues(text, Lines \ ls)

\* The log lets go of a buffer that says new: its task is dropped with it.
Forget(new) ==
    /\ tracked' = Untracked /\ queue' = <<>> /\ job' = NoJob
    /\ agentLines' = {}
    /\ reviewed' = reviewed \cup AgentValues(text, Lines) \cup AgentValues(new, Lines)

TrackRead ==
    IF Tracks THEN /\ tracked' = [tracked EXCEPT !.current = TRUE]
                   /\ UNCHANGED <<queue, job, historyVars>>
    ELSE StartTracking(Fresh(text), {})

-----------------------------------------------------------------------------
(* The agent                                                                *)

Schedule(author, t) ==
    /\ Len(queue) < MaxQueue
    /\ queue' = Append(queue, <<author, t>>)

\* A session of the agent begins.
Open(mode) ==
    /\ session = "none" /\ count.session < MaxSessions
    /\ session' = mode
    /\ count' = [count EXCEPT !.session = @ + 1]

OpenToEdit ==
    /\ on_disk
    /\ Open("edit")
    /\ TrackRead
    /\ UNCHANGED <<fileVars, last_reject_undo, excused, git>>

OpenToWrite ==
    /\ Open("write")
    /\ StartTracking(Created(text), Lines)
    /\ UNCHANGED <<fileVars, last_reject_undo, excused, git>>

\* Mutant: the agent's edit goes to the task as the user's.
BufferEditedByUser(t, ls) ==
    IF Tracks
    THEN /\ tracked' = [tracked EXCEPT !.current = TRUE]
         /\ Schedule("user", t) /\ UNCHANGED <<job, reviewed>>
         /\ agentLines' = agentLines \cup ls
    ELSE StartTracking(Fresh(t), {})

BufferEdited(t, ls) ==
    /\ IF Tracks
       THEN /\ tracked' = [tracked EXCEPT
                  !.current = TRUE,
                  !.status = IF @ = "deleted" THEN "modified" ELSE @]
            /\ Schedule("agent", t) /\ UNCHANGED <<job, reviewed>>
            /\ agentLines' = agentLines \cup ls
       ELSE /\ tracked' = Fresh(t) /\ job' = NoJob
            /\ queue' = <<<<"agent", t>>>>
            /\ agentLines' = {}
            /\ reviewed' = reviewed \cup AgentValues(t, Lines)

AgentEdit(ls) ==
    /\ \/ session = "edit" /\ text # Empty /\ Cardinality(ls) = 1
       \/ session = "write" /\ ls = Lines
    /\ count.agent < MaxAgent
    /\ count' = [count EXCEPT !.agent = @ + 1]
    /\ text' = Patched(text, ls, Text(By("agent")))
    /\ BufferEdited(text', ls)
    /\ UNCHANGED <<on_disk, session, last_reject_undo, excused, git>>

\* The session saves the buffer and reports it once more.
CloseSession ==
    /\ session \in {"edit", "write"}
    /\ session' = "none" /\ on_disk' = TRUE
    /\ BufferEdited(text, {})
    /\ UNCHANGED <<text, last_reject_undo, excused, git, count>>

WillDelete ==
    /\ on_disk /\ Open("delete")
    /\ CASE tracked.status = "created" -> UNCHANGED text /\ Forget(text)
         [] tracked.status = "deleted" ->
               /\ tracked' = [tracked EXCEPT !.current = TRUE]
               /\ UNCHANGED <<text, queue, job, historyVars>>
         [] OTHER ->
               /\ text' = Empty
               /\ tracked' = [(IF Tracks THEN tracked ELSE Fresh(text)) EXCEPT
                                 !.status = "deleted", !.current = (text = Empty)]
               /\ queue' = IF text = Empty THEN Append(queue, <<"agent", Empty>>)
                           ELSE queue \o <<<<"agent", Empty>>, <<"user", Empty>>>>
               /\ agentLines' = Lines
               /\ UNCHANGED <<job, reviewed>>
    /\ UNCHANGED <<on_disk, last_reject_undo, excused, git>>

\* What the log does when it hears that the file is gone.
FileGone ==
    /\ on_disk' = FALSE
    /\ IF tracked.status \in {"created", "modified"} THEN Forget(text)
       ELSE UNCHANGED <<logVars, historyVars>>

DeleteFile ==
    /\ session = "delete" /\ session' = "none"
    /\ on_disk /\ FileGone
    /\ UNCHANGED <<text, last_reject_undo, excused, git, count>>

CancelDelete ==
    /\ session = "delete" /\ session' = "none"
    /\ UNCHANGED <<fileVars, logVars, last_reject_undo, excused, git, count, historyVars>>

Agent ==
    \/ OpenToEdit \/ OpenToWrite \/ CloseSession
    \/ WillDelete \/ DeleteFile \/ CancelDelete
    \/ AgentEdit(Lines) \/ \E l \in Lines : AgentEdit({l})

-----------------------------------------------------------------------------
(* The user and the disk                                                    *)

MayAct == count.user + count.git + count.disk < MaxOthers

\* An edit the log did not make known to itself is taken for the user's.
EditedEvent(t) ==
    IF Tracks /\ t # text
    THEN Schedule("user", t) /\ tracked' = [tracked EXCEPT !.current = FALSE]
    ELSE UNCHANGED <<queue, tracked>>

UserEdit(l) ==
    /\ count.user < MaxUser /\ MayAct /\ text[l] # NoText
    /\ count' = [count EXCEPT !.user = @ + 1]
    /\ text' = [text EXCEPT ![l] = By("user")]
    /\ EditedEvent(text')
    /\ UNCHANGED <<on_disk, session, job, last_reject_undo, excused, git, historyVars>>

FileDeleted ==
    /\ on_disk /\ session # "delete" /\ count.disk < MaxDisk /\ MayAct
    /\ count' = [count EXCEPT !.disk = @ + 1]
    /\ FileGone
    /\ UNCHANGED <<text, session, last_reject_undo, excused, git>>

FileRestored ==
    /\ ~on_disk /\ on_disk' = TRUE /\ count.disk < MaxDisk /\ MayAct
    /\ count' = [count EXCEPT !.disk = @ + 1]
    /\ IF tracked.status = "deleted" THEN StartTracking(Fresh(text), {})
       ELSE UNCHANGED <<logVars, historyVars>>
    /\ UNCHANGED <<text, session, last_reject_undo, excused, git>>

\* The lines ls of the buffer are committed.
Commit(ls) ==
    /\ on_disk /\ count.git < MaxCommits /\ MayAct
    /\ count' = [count EXCEPT !.git = @ + 1]
    /\ git' = Patched(git, ls, text)
    /\ git' # git
    /\ tracked' = [tracked EXCEPT !.committed = Tracks]
    /\ reviewed' = reviewed \cup AgentValues(text, ls)
    /\ UNCHANGED <<fileVars, session, queue, job, last_reject_undo, excused, agentLines>>

Disk ==
    \/ FileDeleted \/ FileRestored
    \/ \E ls \in SUBSET Lines : Commit(ls)

-----------------------------------------------------------------------------
(* The review                                                               *)

\* A keep made while the task is at work.  Once a reject has been undone nothing
\* more needs remembering: that alone excuses.
KeptEarly == IF job = NoJob \/ excused.undone THEN excused
             ELSE [excused EXCEPT !.kept = @ \cup AgentValues(tracked.snapshot, Lines)]

\* Mutant: the diff is not computed again.
KeepUnscheduled(l) ==
    /\ Tracks /\ l \in tracked.shown
    /\ IF tracked.status = "deleted" THEN Forget(text)
       ELSE /\ tracked' = [tracked EXCEPT
                  !.base = Patched(@, Hunks({l}), tracked.snapshot),
                  !.unreviewed = @ \ Hunks({l})]
            /\ reviewed' = reviewed \cup AgentValues(tracked.snapshot, Hunks({l}))
            /\ UNCHANGED <<queue, job, agentLines>>
    /\ excused' = KeptEarly
    /\ UNCHANGED <<fileVars, session, last_reject_undo, git, count>>

\* Mutant: the base keeps the text the hunk replaced.
KeepLeavingBase(l) ==
    /\ Tracks /\ l \in tracked.shown
    /\ IF tracked.status = "deleted" THEN Forget(text)
       ELSE /\ tracked' = [tracked EXCEPT !.unreviewed = @ \ Hunks({l})]
            /\ reviewed' = reviewed \cup AgentValues(tracked.snapshot, Hunks({l}))
            /\ Schedule("user", text)
            /\ UNCHANGED <<job, agentLines>>
    /\ excused' = KeptEarly
    /\ UNCHANGED <<fileVars, session, last_reject_undo, git, count>>

\* keep_edits_in_range: the base takes the text of the hunk.
Keep(l) ==
    /\ Tracks /\ l \in tracked.shown
    /\ IF tracked.status = "deleted" THEN Forget(text)
       ELSE LET ls == Hunks({l}) IN
            /\ tracked' = [tracked EXCEPT
                  !.base = Patched(@, ls, tracked.snapshot),
                  !.unreviewed = @ \ ls,
                  !.status = IF tracked.unreviewed \subseteq ls THEN "modified" ELSE @]
            /\ reviewed' = reviewed \cup AgentValues(tracked.snapshot, ls)
            /\ Schedule("user", text)
            /\ UNCHANGED <<job, agentLines>>
    /\ excused' = KeptEarly
    /\ UNCHANGED <<fileVars, session, last_reject_undo, git, count>>

KeepAll ==
    /\ Tracks
    /\ IF tracked.status = "deleted" THEN Forget(text)
       ELSE /\ tracked' = [tracked EXCEPT !.base = tracked.snapshot,
                             !.unreviewed = {}, !.status = "modified"]
            /\ reviewed' = reviewed \cup AgentValues(tracked.snapshot, Lines)
            /\ Schedule("user", text)
            /\ UNCHANGED <<job, agentLines>>
    /\ excused' = KeptEarly
    /\ UNCHANGED <<fileVars, session, last_reject_undo, git, count>>

\* The file held nothing before the agent created it, and as far as the log
\* can tell nobody else wrote to it.
AiOnlyContent == tracked.current /\ text = tracked.snapshot

RejectCreated ==
    /\ tracked.status = "created"
    /\ IF tracked.existing # Absent
       THEN text' = tracked.existing /\ on_disk' = TRUE
       ELSE text' = text /\ on_disk' = (on_disk /\ ~AiOnlyContent)
    /\ Forget(text') /\ UNCHANGED excused

RejectDeleted ==
    /\ tracked.status = "deleted"
    /\ text' = tracked.base /\ on_disk' = TRUE
    /\ tracked' = Fresh(text') /\ queue' = <<>> /\ job' = NoJob
    /\ agentLines' = {} /\ UNCHANGED <<reviewed, excused>>

\* Mutant: the whole base is put back.
RejectWholeText(ls) ==
    /\ tracked.status = "modified"
    /\ text' = tracked.base /\ on_disk' = TRUE
    /\ EditedEvent(text')
    /\ UNCHANGED <<job, historyVars, excused>>

\* The texts the task goes through from the diff in hand to the buffer's.
Ahead == {IF job = NoJob THEN tracked.snapshot ELSE job.snapshot}
         \cup {queue[i][2] : i \in DOMAIN queue}

\* What a reject puts where the task has yet to see a change, or into nothing.
PutBack(ls) ==
    LET unseen == {k \in Hunks(ls) : text[k] = NoText \/ \E t \in Ahead : t[k] # text[k]}
        back   == {k \in unseen : tracked.base[k] \notin {text[k], NoText}}
    IN  {<<l, tracked.base[l]>> : l \in back}

\* Goes through the buffer, so that the task takes the restored text for the
\* user's.
RejectModified(ls) ==
    /\ tracked.status = "modified"
    /\ text' = Patched(text, Hunks(ls), tracked.base) /\ on_disk' = TRUE
    /\ EditedEvent(text')
    /\ UNCHANGED <<job, historyVars>>
    /\ excused' = IF excused.undone THEN excused
                  ELSE [excused EXCEPT !.back = @ \cup PutBack(ls)]

\* What a reject of the lines ls takes away and an undo would bring back.
UndoInfo(ls) ==
    LET lost == CASE tracked.status = "created" ->
                       IF tracked.existing # Absent THEN Lines ELSE {}
                  [] tracked.status = "modified" -> Hunks(ls)
                  [] OTHER -> {}
    IN IF lost = {} THEN NoUndo ELSE [lines |-> lost, text |-> text]

RejectEdits(ls) == RejectCreated \/ RejectDeleted \/ RejectModified(ls)

Reject(l) ==
    /\ l \in tracked.shown
    /\ RejectEdits({l})
    /\ last_reject_undo' = IF UndoInfo({l}) = NoUndo THEN last_reject_undo
                           ELSE UndoInfo({l})
    /\ UNCHANGED <<session, git, count>>

RejectAll ==
    /\ tracked.shown # {}
    /\ RejectEdits(Lines)
    /\ last_reject_undo' = UndoInfo(Lines)
    /\ UNCHANGED <<session, git, count>>

UndoReject ==
    /\ AllowUndo /\ last_reject_undo # NoUndo
    /\ last_reject_undo' = NoUndo
    /\ text' = Patched(text, last_reject_undo.lines, last_reject_undo.text)
    /\ on_disk' = TRUE
    /\ IF Tracks THEN EditedEvent(text') /\ UNCHANGED <<job, historyVars>>
       ELSE BufferEdited(text', {})
    /\ excused' = [kept |-> {}, back |-> {}, undone |-> TRUE]
    /\ UNCHANGED <<session, git, count>>

AnyReject == RejectAll \/ \E l \in Lines : Reject(l)

User ==
    \/ \E l \in Lines : UserEdit(l) \/ Keep(l)
    \/ KeepAll \/ AnyReject \/ UndoReject

-----------------------------------------------------------------------------
(* The task: maintain_diff                                                  *)

\* Mutant: the user's changes stay out of the base.
RebasedNever(new) == tracked.base

\* The base with the user's changes that touch no unreviewed edit.
Rebased(new) ==
    LET edits == Differing(tracked.snapshot, new)
        oneEdit == Empty \in {tracked.snapshot, new}
    IN IF oneEdit /\ tracked.unreviewed # {} THEN tracked.base
       ELSE Patched(tracked.base, edits \ tracked.unreviewed, new)

TrackEdits ==
    /\ job = NoJob /\ queue # <<>>
    /\ queue' = Tail(queue)
    /\ LET author == Head(queue)[1] new == Head(queue)[2] IN
       job' = [phase |-> "rebased", snapshot |-> new,
               base |-> IF author = "user" THEN Rebased(new) ELSE tracked.base]
    /\ UNCHANGED <<fileVars, session, tracked, last_reject_undo, excused, git, count, historyVars>>

\* The base with the unreviewed edits that have been committed as they are.
WithCommitted ==
    IF tracked.snapshot = git THEN git
    ELSE IF Empty \in {tracked.base, tracked.snapshot} THEN tracked.base
    ELSE Patched(tracked.base, {l \in tracked.unreviewed : git[l] = tracked.snapshot[l]},
                 tracked.snapshot)

\* Mutant: the commit is looked at while changes are queued.
KeepCommittedUnbiased ==
    /\ job = NoJob /\ tracked.committed
    /\ tracked' = [tracked EXCEPT !.committed = FALSE]
    /\ job' = [phase |-> "rebased", snapshot |-> tracked.snapshot,
               base |-> WithCommitted]
    /\ UNCHANGED <<fileVars, session, queue, last_reject_undo, excused, git, count, historyVars>>

\* select_biased: only when the queue is empty.
KeepCommitted ==
    /\ job = NoJob /\ queue = <<>> /\ tracked.committed
    /\ tracked' = [tracked EXCEPT !.committed = FALSE]
    /\ job' = [phase |-> "rebased", snapshot |-> tracked.snapshot,
               base |-> WithCommitted]
    /\ UNCHANGED <<fileVars, session, queue, last_reject_undo, excused, git, count, historyVars>>

\* The diff has been computed, and the editors show it.
ShowDiff ==
    /\ job.phase = "rebased"
    /\ job' = [job EXCEPT !.phase = "shown"]
    /\ tracked' = [tracked EXCEPT !.shown = Differing(job.base, job.snapshot)]
    /\ UNCHANGED <<fileVars, session, queue, last_reject_undo, excused, git, count, historyVars>>

StoreDiff ==
    /\ job.phase = "shown"
    /\ job' = NoJob
    /\ tracked' = [tracked EXCEPT !.base = job.base, !.snapshot = job.snapshot,
                      !.unreviewed = Differing(job.base, job.snapshot)]
    /\ UNCHANGED <<fileVars, session, queue, last_reject_undo, excused, git, count, historyVars>>

Task == TrackEdits \/ KeepCommitted \/ ShowDiff \/ StoreDiff

Next == Agent \/ User \/ Disk \/ Task

Spec == Init /\ [][Next]_vars

-----------------------------------------------------------------------------
(* Properties                                                               *)

Value == {NoText, Original}
         \cup [by : {"agent"}, n : 1 .. MaxAgent] \cup [by : {"user"}, n : 1 .. MaxUser]
TextType == [Lines -> Value]

\* Type correctness, and that nothing is left to do for a buffer that the log
\* does not track.
TypeOK ==
    /\ text \in TextType /\ git \in TextType
    /\ on_disk \in BOOLEAN
    /\ session \in {"none", "edit", "write", "delete"}
    /\ tracked.status \in {"none", "created", "modified", "deleted"}
    /\ tracked.existing \in TextType \cup {Absent}
    /\ tracked.base \in TextType /\ tracked.snapshot \in TextType
    /\ tracked.unreviewed \cup tracked.shown \cup agentLines \subseteq Lines
    /\ ~Tracks => queue = <<>> /\ job = NoJob /\ tracked = Untracked

Quiet ==
    /\ Tracks /\ queue = <<>> /\ job = NoJob
    /\ ~tracked.committed /\ session = "none"

\* What the random test of the log asks when everything is at rest: the base
\* and the unreviewed edits make up the text.  The editors show these edits.
QuietAgrees ==
    Quiet => /\ tracked.snapshot = text
             /\ tracked.unreviewed = Differing(tracked.base, text)
             /\ tracked.shown = tracked.unreviewed

\* The user is asked to review no line that only he has changed, whatever the
\* order in which his and the agent's edits reach the task.  The undo of a
\* reject may bring back that the agent had emptied the file, and the log takes
\* it for the user's edit of every line.
OnlyAgentLines ==
    ~excused.undone => tracked.unreviewed \cup tracked.shown \subseteq agentLines

\* Types, no work for a buffer the log has let go of, and whose the edits are.
ReviewSound == TypeOK /\ OnlyAgentLines

\* A reject, also one in the middle of an update of the diff, changes no line
\* the agent has not changed, as long as nothing has been undone.
RejectSparesUser ==
    [][AnyReject /\ ~excused.undone =>
         \A l \in Lines : text'[l] # text[l] => l \in agentLines]_vars

\* Once the task has seen a commit, no edit that it contains as it stands in
\* the buffer is left to review (every edit count a new value here; a file
\* the agent has just created is reviewed as a whole).  The undo of a reject
\* may bring a committed line back afterwards, and so may a reject of a line
\* that changes before the task has caught up with it.
CommitSettles ==
    Quiet /\ Empty \notin {tracked.base, text} /\ ~excused.undone =>
        \A l \in tracked.unreviewed :
            git[l] = text[l] => text[l] = NoText \/ <<l, text[l]>> \in excused.back

\* What the agent wrote into a tracked buffer is shown for review, as long as
\* the user has not kept or committed it and the log has not let go of it.
\* What the undo of a reject brings back may be missing.
AgentChangesReviewable ==
    Quiet /\ ~excused.undone => \A l \in Lines : text[l].by = "agent" =>
                <<l, text[l].n>> \in reviewed \/ l \in tracked.shown

\* "You can accept or reject each individual change hunk": so may what the undo
\* of a reject has brought back.
UndoneChangesReviewable ==
    Quiet => \A l \in Lines : text[l].by = "agent" =>
                <<l, text[l].n>> \in reviewed \/ l \in tracked.shown

\* What the user has kept or committed is not shown for review again, unless
\* he kept it while the task was at work on a diff, which then overwrites it,
\* or a reject put it back before the task had seen what it replaced.  (A text
\* that is one hunk is kept or shown as a whole.)
KeepSticks ==
    Quiet /\ tracked.status = "modified" /\ Empty \notin {tracked.base, text} =>
        \A l \in tracked.shown :
            text[l].by = "agent" /\ <<l, text[l].n>> \in reviewed =>
                \/ excused.undone
                \/ <<l, text[l].n>> \in excused.kept \/ <<l, text[l]>> \in excused.back

\* A reject deletes a file the agent created only if the user wrote nothing
\* into it.
RejectKeepsUserText ==
    [][AnyReject /\ on_disk /\ ~on_disk' =>
         \A l \in Lines : text[l].by # "user"]_vars
=============================================================================
