--------------------------- MODULE ActionLogProofs ---------------------------
(***************************************************************************)
(* Proofs about ActionLog: for any number of lines, edits, sessions,       *)
(* commits and queued changes, whose the reviewed edits are, that base,    *)
(* edits and text agree at rest, that everything the agent wrote is up for *)
(* review until it was settled, and that what was settled stays so.        *)
(***************************************************************************)
EXTENDS ActionLog, SequenceTheorems, TLAPS

(***************************************************************************)
(* The inductive invariant                                                 *)
(***************************************************************************)

\* The values written so far, and the texts made of them.
Written == {NoText, Original} \cup [by : {"agent"}, n : 1 .. count.agent]
                              \cup [by : {"user"}, n : 1 .. count.user]
WrittenText == [Lines -> Written]

Entry == {"agent", "user"} \X WrittenText

TrackedType ==
    [status : {"none", "created", "modified", "deleted"},
     existing : WrittenText \cup {Absent}, base : WrittenText, snapshot : WrittenText,
     unreviewed : SUBSET Lines, shown : SUBSET Lines,
     current : BOOLEAN, committed : BOOLEAN]
JobType == [phase : {"none", "rebased", "shown"}, base : WrittenText, snapshot : WrittenText]
UndoType == [lines : SUBSET Lines, text : WrittenText]
Settled == Lines \X (1 .. count.agent)

LogTypes ==
    /\ text \in WrittenText /\ git \in WrittenText
    /\ on_disk \in BOOLEAN
    /\ session \in {"none", "edit", "write", "delete"}
    /\ tracked \in TrackedType /\ queue \in Seq(Entry) /\ job \in JobType
    /\ job.phase = "none" => job = NoJob
    /\ last_reject_undo \in UndoType
    /\ count \in [agent : 0 .. MaxAgent, user : 0 .. MaxUser,
                  session : Nat, git : Nat, disk : Nat]
    /\ agentLines \subseteq Lines /\ reviewed \subseteq Settled
    /\ excused \in [kept : SUBSET Settled, back : SUBSET (Lines \X Written),
                    undone : BOOLEAN]
    /\ Tracks \/ (queue = <<>> /\ job = NoJob /\ tracked = Untracked)

\* The texts the task goes through: stage 0 is the one it has last seen or has
\* in hand, stage Len(queue) the last one it will see.
Stage(i) == IF i # 0 THEN queue[i][2]
            ELSE IF job = NoJob THEN tracked.snapshot ELSE job.snapshot
Stages == 0 .. Len(queue)

\* What the base is at stage 0, and the edits that are left to review there.
StageBase == IF job = NoJob THEN tracked.base ELSE job.base
StageEdits == IF job = NoJob THEN tracked.unreviewed
              ELSE Differing(job.base, job.snapshot)

\* The lines at which two texts differ.
Delta(s, t) == {l \in Lines : s[l] # t[l]}

\* The task ends with what the buffer says.
EndsWithText == Tracks => text = Stage(Len(queue))

\* Everything in a file that was created or deleted is the agent's.
WholeIsAgents == tracked.status \in {"created", "deleted"} => agentLines = Lines

\* At rest the edits are those between base and text, and they are on view; a
\* new file waits for the agent's session to report it.
Agree == /\ tracked.unreviewed = Differing(tracked.base, tracked.snapshot)
         /\ tracked.shown = tracked.unreviewed
AtRestAgree ==
    /\ Tracks /\ queue = <<>> /\ job = NoJob => Agree \/ session = "write"
    /\ job.phase = "shown" => tracked.shown = Differing(job.base, job.snapshot)

\* No edit is forgotten.
EditsCovered == Delta(tracked.base, tracked.snapshot) \subseteq tracked.unreviewed

\* What the task computes from is what was there when it began, wherever the
\* edits have not been kept since.
BaseOfJob ==
    job # NoJob => \A l \in tracked.unreviewed :
                      job.base[l] \in {tracked.base[l], job.snapshot[l]}

\* While a line is the user's alone there is one that nobody emptied, or
\* everything is empty, so that texts differ line by line.
StageTexts == {Stage(i) : i \in Stages}
Texts == {tracked.base, StageBase, tracked.snapshot} \cup StageTexts
Grounded(S) == (\A t \in S : t = Empty) \/ \E l \in Lines : \A t \in S : t[l] # NoText

\* Wherever a line is the user's alone, the base has followed the text, and no
\* change that is the agent's waits.
Attributed ==
    /\ Grounded(Texts)
    /\ Delta(tracked.base, tracked.snapshot) \subseteq agentLines
    /\ Delta(StageBase, Stage(0)) \subseteq agentLines
    /\ \A i \in 1 .. Len(queue) :
          queue[i][1] = "agent" => Delta(Stage(i - 1), Stage(i)) \subseteq agentLines

Whose ==
    ~excused.undone =>
        /\ OnlyAgentLines
        /\ Tracks /\ agentLines # Lines => Attributed

\* What the base says, and what the user's changes bring back, was reviewed.
ReviewedAt(t, l) == t[l].by = "agent" => <<l, t[l].n>> \in reviewed
BaseReviewed ==
    ~excused.undone => \A l \in Lines :
        /\ ReviewedAt(git, l) /\ ReviewedAt(tracked.base, l) /\ ReviewedAt(StageBase, l)
        /\ Tracks \/ ReviewedAt(text, l)
        /\ \A i \in 1 .. Len(queue) :
              queue[i][1] = "user" /\ Stage(i)[l] # Stage(i - 1)[l]
                  => ReviewedAt(Stage(i), l)

\* What the agent wrote and nobody reviewed stands there until it is replaced.
OneRun ==
    Tracks /\ ~excused.undone =>
        \A l \in Lines : text[l].by = "agent" /\ ~ReviewedAt(text, l) =>
            \A i, j \in Stages : i <= j /\ Stage(i)[l] = text[l] => Stage(j)[l] = text[l]

\* How the base comes to say of a line what the text says: it does and nothing
\* is about to change that; or the user has put it back into the text in the
\* place of a value that all earlier stages have, and the base has one of the
\* two; or it has been committed and the task is about to take it.
Steady(l) ==
    /\ \A i \in Stages : Stage(i)[l] = text[l]
    /\ StageBase[l] = text[l] \/ (StageBase = Empty /\ StageEdits = Lines)
Returns(l) ==
    \E i \in 1 .. Len(queue) :
        /\ queue[i][1] = "user"
        /\ \A j \in Stages : Stage(j)[l] = IF j < i THEN Stage(0)[l] ELSE text[l]
        /\ Stage(0)[l] # NoText
        /\ StageBase[l] = text[l] \/ (StageBase[l] = Stage(0)[l] /\ l \notin StageEdits)
AwaitsTask(l) == tracked.committed /\ git[l] = text[l]

Final(l) ==
    /\ text[l] # NoText /\ <<l, text[l]>> \notin excused.back
    /\ \/ git[l] = text[l]
       \/ /\ text[l].by = "agent" /\ <<l, text[l].n>> \in reviewed
          /\ <<l, text[l].n>> \notin excused.kept

FinalSettles ==
    Tracks /\ ~excused.undone =>
        \A l \in Lines : Final(l) => Steady(l) \/ Returns(l) \/ AwaitsTask(l)

LogInv ==
    /\ LogTypes
    /\ EndsWithText /\ WholeIsAgents /\ AtRestAgree
    /\ EditsCovered /\ BaseOfJob
    /\ Whose
    /\ BaseReviewed /\ OneRun /\ FinalSettles

(***************************************************************************)
(* Texts                                                                   *)
(***************************************************************************)

LEMMA WrittenValues ==
    ASSUME LogTypes
    PROVE  /\ NoText \in Written /\ Original \in Written
           /\ Text(NoText) \in WrittenText /\ Empty \in WrittenText
           /\ Text(Original) \in WrittenText
           /\ \A l \in Lines : Empty[l] = NoText
BY DEF Written, WrittenText, Text, Empty

LEMMA WrittenIsValue ==
    ASSUME LogTypes
    PROVE  Written \subseteq Value /\ WrittenText \subseteq TextType
<1>1. count.agent \in 0 .. MaxAgent /\ count.user \in 0 .. MaxUser
  BY DEF LogTypes
<1>2. MaxAgent \in Nat /\ MaxUser \in Nat
  BY ActionLogAssumption
<1>3. 1 .. count.agent \subseteq 1 .. MaxAgent /\ 1 .. count.user \subseteq 1 .. MaxUser
  BY <1>1, <1>2
<1>4. Written \subseteq Value
  BY <1>3 DEF Written, Value
<1> QED
  BY <1>4 DEF WrittenText, TextType

LEMMA AgentsNumber ==
    ASSUME LogTypes, NEW v \in Written, v.by = "agent"
    PROVE  v.n \in 1 .. count.agent /\ v = [by |-> "agent", n |-> v.n]
BY DEF Written, NoText, Original

LEMMA UsersNumber ==
    ASSUME LogTypes, NEW v \in Written, v.by = "user"
    PROVE  v.n \in 1 .. count.user
BY DEF Written, NoText, Original

LEMMA PatchedFacts ==
    ASSUME NEW V, NEW old \in [Lines -> V], NEW new \in [Lines -> V], NEW ls
    PROVE  /\ Patched(old, ls, new) \in [Lines -> V]
           /\ \A l \in Lines : Patched(old, ls, new)[l] = IF l \in ls THEN new[l] ELSE old[l]
BY DEF Patched

LEMMA PatchedNow ==
    ASSUME NEW old \in WrittenText, NEW new \in WrittenText, NEW ls
    PROVE  Patched(old, ls, new) \in WrittenText
<1>1. WrittenText = [Lines -> Written]
  BY DEF WrittenText
<1> QED
  BY <1>1, PatchedFacts

LEMMA DifferingFacts ==
    ASSUME NEW V, NEW s \in [Lines -> V], NEW t \in [Lines -> V]
    PROVE  /\ Differing(s, t) \subseteq Lines
           /\ Delta(s, t) \subseteq Differing(s, t)
           /\ s = t => Differing(s, t) = {}
           /\ Differing(s, t) = Delta(s, t) \/ (Differing(s, t) = Lines /\ s # t /\ Empty \in {s, t})
           /\ Delta(s, t) = {} => s = t
BY DEF Differing, Delta

LEMMA AgentValuesTyped ==
    ASSUME LogTypes, NEW t \in WrittenText, NEW ls \in SUBSET Lines
    PROVE  AgentValues(t, ls) \subseteq Settled
<1>1. ASSUME NEW l \in ls, t[l].by = "agent" PROVE t[l].n \in 1 .. count.agent
  BY <1>1, AgentsNumber DEF WrittenText
<1> QED
  BY <1>1 DEF AgentValues, Settled

LEMMA AgentValuesIn ==
    ASSUME NEW t, NEW ls, NEW l \in ls, t[l].by = "agent"
    PROVE  <<l, t[l].n>> \in AgentValues(t, ls)
BY DEF AgentValues

\* Nothing new is written when neither count of edits grows.
LEMMA SameWritten ==
    ASSUME count'.agent = count.agent, count'.user = count.user
    PROVE  /\ Written' = Written /\ WrittenText' = WrittenText /\ Entry' = Entry
           /\ TrackedType' = TrackedType /\ JobType' = JobType /\ UndoType' = UndoType
           /\ Settled' = Settled
<1>1. Written' = Written
  BY DEF Written
<1>2. WrittenText' = WrittenText
  BY <1>1 DEF WrittenText
<1> QED
  BY <1>1, <1>2 DEF Entry, TrackedType, JobType, UndoType, Settled

LEMMA MoreWritten ==
    ASSUME LogTypes, count'.agent \in Nat, count'.user \in Nat,
           count'.agent >= count.agent, count'.user >= count.user
    PROVE  /\ Written \subseteq Written' /\ WrittenText \subseteq WrittenText'
           /\ Entry \subseteq Entry' /\ Seq(Entry) \subseteq Seq(Entry')
           /\ TrackedType \subseteq TrackedType' /\ JobType \subseteq JobType'
           /\ UndoType \subseteq UndoType' /\ Settled \subseteq Settled'
<1>0. count.agent \in Nat /\ count.user \in Nat
  BY DEF LogTypes
<1>1. 1 .. count.agent \subseteq 1 .. count'.agent /\ 1 .. count.user \subseteq 1 .. count'.user
  BY <1>0
<1>2. Written \subseteq Written'
  BY <1>1 DEF Written
<1>3. WrittenText \subseteq WrittenText'
  BY <1>2 DEF WrittenText
<1>4. Entry \subseteq Entry'
  BY <1>3 DEF Entry
<1>5. Seq(Entry) \subseteq Seq(Entry')
  BY <1>4, SeqMonotonic
<1>6. TrackedType \subseteq TrackedType' /\ JobType \subseteq JobType' /\ UndoType \subseteq UndoType'
  BY <1>3 DEF TrackedType, JobType, UndoType
<1> QED
  BY <1>1, <1>2, <1>3, <1>4, <1>5, <1>6 DEF Settled

LEMMA RecordsTyped ==
    ASSUME LogTypes
    PROVE  /\ Untracked \in TrackedType /\ NoJob \in JobType /\ NoUndo \in UndoType
           /\ \A t \in WrittenText : Fresh(t) \in TrackedType /\ Created(t) \in TrackedType
<1> USE WrittenValues
<1>1. Empty \in WrittenText
  OBVIOUS
<1>2. Untracked \in TrackedType /\ NoJob \in JobType /\ NoUndo \in UndoType
  BY <1>1 DEF Untracked, NoJob, NoUndo, TrackedType, JobType, UndoType
<1>3. ASSUME NEW t \in WrittenText PROVE Fresh(t) \in TrackedType
  BY <1>1, <1>2 DEF Fresh, Untracked, TrackedType
<1>4. ASSUME NEW t \in WrittenText PROVE Created(t) \in TrackedType
  <2>1. tracked.base \in WrittenText /\ tracked.existing \in WrittenText \cup {Absent}
    BY DEF LogTypes, TrackedType
  <2>2. Created(t).existing \in WrittenText \cup {Absent}
    BY <2>1, <1>4 DEF Created, Untracked
  <2>3. Created(t) = [Untracked EXCEPT !.status = "created", !.existing = Created(t).existing,
                          !.snapshot = t, !.unreviewed = Lines, !.current = TRUE]
    BY DEF Created, Untracked
  <2>. HIDE DEF Created
  <2>. QED
    BY <2>2, <2>3, <1>1, <1>4 DEF Untracked, TrackedType
<1> QED
  BY <1>2, <1>3, <1>4

(***************************************************************************)
(* Types                                                                   *)
(***************************************************************************)

CountType == [agent : 0 .. MaxAgent, user : 0 .. MaxUser, session : Nat, git : Nat, disk : Nat]

\* What a step may do to the counts of edits.
Grows == count' \in CountType /\ count'.agent >= count.agent /\ count'.user >= count.user

LEMMA GrowsWritten ==
    ASSUME LogTypes, Grows
    PROVE  /\ Written \subseteq Written' /\ WrittenText \subseteq WrittenText'
           /\ Entry \subseteq Entry' /\ Seq(Entry) \subseteq Seq(Entry')
           /\ TrackedType \subseteq TrackedType' /\ JobType \subseteq JobType'
           /\ UndoType \subseteq UndoType' /\ Settled \subseteq Settled'
<1>1. count'.agent \in Nat /\ count'.user \in Nat
  BY ActionLogAssumption DEF Grows, CountType
<1> QED
  BY <1>1, MoreWritten DEF Grows

LEMMA CountStays ==
    ASSUME LogTypes, count' = count
    PROVE  Grows
<1>1. count.agent \in Nat /\ count.user \in Nat
  BY DEF LogTypes
<1> QED
  BY <1>1 DEF LogTypes, Grows, CountType

\* The counts of sessions, commits and disk changes have no edits.
LEMMA CountOthers ==
    ASSUME LogTypes,
           \/ count' = [count EXCEPT !.session = @ + 1]
           \/ count' = [count EXCEPT !.git = @ + 1]
           \/ count' = [count EXCEPT !.disk = @ + 1]
    PROVE  Grows
<1>1. count \in CountType /\ count.agent \in Nat /\ count.user \in Nat
  <2>1. count \in CountType
    BY DEF LogTypes, CountType
  <2> QED
    BY <2>1 DEF CountType
<1> DEFINE Good == /\ count' \in CountType
                   /\ count'.agent = count.agent /\ count'.user = count.user
<1>2. ASSUME count' = [count EXCEPT !.session = @ + 1] PROVE Good
  BY <1>1, <1>2, SMTT(30) DEF CountType
<1>3. ASSUME count' = [count EXCEPT !.git = @ + 1] PROVE Good
  BY <1>1, <1>3, SMTT(30) DEF CountType
<1>4. ASSUME count' = [count EXCEPT !.disk = @ + 1] PROVE Good
  BY <1>1, <1>4, SMTT(30) DEF CountType
<1>5. Good
  BY <1>2, <1>3, <1>4
<1> QED
  BY <1>1, <1>5 DEF Grows

LEMMA SettledValues ==
    ASSUME NEW k, NEW m, NEW ls \in SUBSET Lines,
           NEW t \in [Lines -> {NoText, Original} \cup [by : {"agent"}, n : 1 .. k]
                                                  \cup [by : {"user"}, n : 1 .. m]]
    PROVE  AgentValues(t, ls) \subseteq Lines \X (1 .. k)
<1>1. ASSUME NEW l \in ls, t[l].by = "agent" PROVE t[l].n \in 1 .. k
  <2>1. t[l] \in {NoText, Original} \cup [by : {"agent"}, n : 1 .. k]
                                    \cup [by : {"user"}, n : 1 .. m]
    OBVIOUS
  <2> QED
    BY <1>1, <2>1 DEF NoText, Original
<1> QED
  BY <1>1 DEF AgentValues

LEMMA NewSettled ==
    ASSUME NEW ls \in SUBSET Lines, NEW t \in WrittenText'
    PROVE  AgentValues(t, ls) \subseteq Settled'
BY SettledValues DEF WrittenText, Written, Settled

\* The part of the types that the log keeps.
TypesOfLog ==
    /\ tracked \in TrackedType /\ queue \in Seq(Entry) /\ job \in JobType
    /\ job.phase = "none" => job = NoJob
    /\ agentLines \subseteq Lines /\ reviewed \subseteq Settled
    /\ Tracks \/ (queue = <<>> /\ job = NoJob /\ tracked = Untracked)

LEMMA LogKept ==
    ASSUME LogTypes, Grows, UNCHANGED <<tracked, queue, job, agentLines, reviewed>>
    PROVE  TypesOfLog'
BY GrowsWritten DEF LogTypes, TypesOfLog, Tracks

LEMMA StartTyped ==
    ASSUME LogTypes, Grows, NEW rec \in TrackedType', rec.status # "none",
           NEW ls \in SUBSET Lines, StartTracking(rec, ls)
    PROVE  TypesOfLog'
<1>1. text \in WrittenText' /\ reviewed \subseteq Settled'
  BY GrowsWritten DEF LogTypes
<1>2. NoJob \in JobType'
  BY RecordsTyped, GrowsWritten
<1>3. AgentValues(text, Lines \ ls) \subseteq Settled'
  BY <1>1, NewSettled
<1>4. /\ tracked' = rec /\ queue' = <<>> /\ job' = NoJob /\ agentLines' = ls
      /\ reviewed' = reviewed \cup AgentValues(text, Lines \ ls)
  BY DEF StartTracking
<1>5. Tracks'
  BY <1>4 DEF Tracks
<1>6. queue' \in Seq(Entry')
  BY <1>4
<1> QED
  BY <1>1, <1>2, <1>3, <1>4, <1>5, <1>6 DEF TypesOfLog

LEMMA ForgetTyped ==
    ASSUME LogTypes, Grows, NEW new \in WrittenText', Forget(new)
    PROVE  TypesOfLog'
<1>1. text \in WrittenText' /\ reviewed \subseteq Settled'
  BY GrowsWritten DEF LogTypes
<1>2. NoJob \in JobType' /\ Untracked \in TrackedType'
  BY RecordsTyped, GrowsWritten
<1>3. AgentValues(text, Lines) \subseteq Settled' /\ AgentValues(new, Lines) \subseteq Settled'
  BY <1>1, NewSettled
<1> QED
  BY <1>1, <1>2, <1>3 DEF Forget, TypesOfLog, Tracks

LEMMA StatusOfNew ==
    ASSUME NEW t
    PROVE  Fresh(t).status = "modified" /\ Created(t).status = "created"
BY DEF Fresh, Created, Untracked

LEMMA BufferEditedTyped ==
    ASSUME LogTypes, Grows, NEW t \in WrittenText', NEW ls \in SUBSET Lines,
           Fresh(t) \in TrackedType', BufferEdited(t, ls)
    PROVE  TypesOfLog'
<1>1. reviewed \subseteq Settled' /\ queue \in Seq(Entry')
  BY GrowsWritten DEF LogTypes
<1>2. NoJob \in JobType'
  BY RecordsTyped, GrowsWritten
<1>3. AgentValues(t, Lines) \subseteq Settled'
  BY NewSettled
<1>4. <<"agent", t>> \in Entry'
  BY DEF Entry
<1>5. CASE Tracks
  <2>1. tracked \in TrackedType' /\ job \in JobType' /\ (job.phase = "none" => job = NoJob)
    BY GrowsWritten DEF LogTypes
  <2>2. tracked' = [tracked EXCEPT !.current = TRUE,
                       !.status = IF @ = "deleted" THEN "modified" ELSE @]
    BY <1>5 DEF BufferEdited
  <2>3. tracked' \in TrackedType' /\ tracked'.status # "none"
    BY <2>1, <2>2, <1>5 DEF TrackedType, Tracks
  <2>4. queue' = Append(queue, <<"agent", t>>) /\ agentLines' = agentLines \cup ls
        /\ UNCHANGED <<job, reviewed>>
    BY <1>5 DEF BufferEdited, Schedule
  <2>5. queue' \in Seq(Entry')
    BY <1>1, <1>4, <2>4
  <2> QED
    BY <1>1, <2>1, <2>3, <2>4, <2>5 DEF TypesOfLog, Tracks, LogTypes
<1>6. CASE ~Tracks
  <2>1. /\ tracked' = Fresh(t) /\ job' = NoJob /\ queue' = <<<<"agent", t>>>>
        /\ agentLines' = {} /\ reviewed' = reviewed \cup AgentValues(t, Lines)
    BY <1>6 DEF BufferEdited
  <2>2. queue' \in Seq(Entry')
    BY <1>4, <2>1
  <2>3. NoJob.phase = "none" => NoJob = NoJob
    OBVIOUS
  <2> QED
    BY <1>1, <1>2, <1>3, <2>1, <2>2, StatusOfNew DEF TypesOfLog, Tracks
<1> QED
  BY <1>5, <1>6

LEMMA EventTyped ==
    ASSUME LogTypes, Grows, NEW t \in WrittenText', EditedEvent(t),
           UNCHANGED <<job, agentLines, reviewed>>
    PROVE  TypesOfLog'
<1>1. CASE Tracks /\ t # text
  <2>1. tracked' = [tracked EXCEPT !.current = FALSE] /\ queue' = Append(queue, <<"user", t>>)
    BY <1>1 DEF EditedEvent, Schedule
  <2>2. tracked \in TrackedType' /\ queue \in Seq(Entry')
    BY GrowsWritten DEF LogTypes
  <2>3. tracked' \in TrackedType' /\ tracked'.status # "none"
    BY <2>1, <2>2, <1>1 DEF TrackedType, Tracks
  <2>4. <<"user", t>> \in Entry'
    BY DEF Entry
  <2>5. queue' \in Seq(Entry')
    BY <2>1, <2>2, <2>4
  <2> QED
    BY <2>3, <2>5, GrowsWritten DEF TypesOfLog, Tracks, LogTypes
<1>2. CASE ~(Tracks /\ t # text)
  BY <1>2, LogKept DEF EditedEvent
<1> QED
  BY <1>1, <1>2

\* The rest of the types.
TypesOfRest ==
    /\ text \in WrittenText /\ git \in WrittenText
    /\ on_disk \in BOOLEAN
    /\ session \in {"none", "edit", "write", "delete"}
    /\ last_reject_undo \in UndoType
    /\ count \in CountType
    /\ excused \in [kept : SUBSET Settled, back : SUBSET (Lines \X Written),
                    undone : BOOLEAN]

LEMMA ExcusedKept ==
    ASSUME LogTypes, Grows
    PROVE  excused \in [kept : SUBSET Settled', back : SUBSET (Lines \X Written'),
                        undone : BOOLEAN]
BY GrowsWritten DEF LogTypes

LEMMA RestKept ==
    ASSUME LogTypes, Grows, text' \in WrittenText', git' \in WrittenText',
           on_disk' \in BOOLEAN, session' \in {"none", "edit", "write", "delete"},
           last_reject_undo' = last_reject_undo, excused' = excused
    PROVE  TypesOfRest'
<1>1. last_reject_undo \in UndoType'
  BY GrowsWritten DEF LogTypes
<1> QED
  BY <1>1, ExcusedKept DEF TypesOfRest, Grows

LEMMA TypesJoin ==
    ASSUME TypesOfLog', TypesOfRest'
    PROVE  LogTypes'
BY DEF LogTypes, TypesOfLog, TypesOfRest, CountType

LEMMA PatchedTyped ==
    ASSUME NEW old \in WrittenText', NEW new \in WrittenText', NEW ls
    PROVE  Patched(old, ls, new) \in WrittenText'
<1>1. WrittenText' = [Lines -> Written']
  BY DEF WrittenText
<1> QED
  BY <1>1, PatchedFacts

LEMMA TrackReadTyped ==
    ASSUME LogTypes, Grows, TrackRead
    PROVE  TypesOfLog'
<1>1. CASE Tracks
  <2>1. tracked' = [tracked EXCEPT !.current = TRUE]
        /\ UNCHANGED <<queue, job, agentLines, reviewed>>
    BY <1>1 DEF TrackRead, historyVars
  <2>2. tracked \in TrackedType' /\ queue \in Seq(Entry') /\ job \in JobType'
        /\ reviewed \subseteq Settled'
    BY GrowsWritten DEF LogTypes
  <2>3. tracked' \in TrackedType' /\ Tracks'
    BY <1>1, <2>1, <2>2 DEF TrackedType, Tracks
  <2> QED
    BY <2>1, <2>2, <2>3 DEF TypesOfLog, LogTypes
<1>2. CASE ~Tracks
  <2>1. StartTracking(Fresh(text), {})
    BY <1>2 DEF TrackRead
  <2>2. Fresh(text) \in TrackedType'
    BY RecordsTyped, GrowsWritten DEF LogTypes
  <2> QED
    BY <2>1, <2>2, StatusOfNew, StartTyped
<1> QED
  BY <1>1, <1>2

LEMMA OpenToEditTyped ==
    ASSUME LogTypes, OpenToEdit
    PROVE  LogTypes'
<1>1. /\ session' = "edit" /\ count' = [count EXCEPT !.session = @ + 1] /\ TrackRead
      /\ UNCHANGED <<text, on_disk, last_reject_undo, excused, git>>
  BY DEF OpenToEdit, Open, fileVars
<1>2. Grows
  BY <1>1, CountOthers
<1>3. TypesOfLog'
  BY <1>1, <1>2, TrackReadTyped
<1>4. text' \in WrittenText' /\ git' \in WrittenText' /\ on_disk' \in BOOLEAN
  BY <1>1, <1>2, GrowsWritten DEF LogTypes
<1>5. TypesOfRest'
  BY <1>1, <1>2, <1>4, RestKept
<1> QED
  BY <1>3, <1>5, TypesJoin

LEMMA OpenToWriteTyped ==
    ASSUME LogTypes, OpenToWrite
    PROVE  LogTypes'
<1>1. /\ session' = "write" /\ count' = [count EXCEPT !.session = @ + 1]
      /\ StartTracking(Created(text), Lines)
      /\ UNCHANGED <<text, on_disk, last_reject_undo, excused, git>>
  BY DEF OpenToWrite, Open, fileVars
<1>2. Grows
  BY <1>1, CountOthers
<1>3. Created(text) \in TrackedType'
  BY <1>2, RecordsTyped, GrowsWritten DEF LogTypes
<1>4. TypesOfLog'
  BY <1>1, <1>2, <1>3, StatusOfNew, StartTyped
<1>5. text' \in WrittenText' /\ git' \in WrittenText' /\ on_disk' \in BOOLEAN
  BY <1>1, <1>2, GrowsWritten DEF LogTypes
<1>6. TypesOfRest'
  BY <1>1, <1>2, <1>5, RestKept
<1> QED
  BY <1>4, <1>6, TypesJoin

\* A new value of the agent or of the user.
LEMMA NewValue ==
    ASSUME LogTypes, NEW author \in {"agent", "user"},
           author = "agent" => count.agent < MaxAgent,
           author = "user" => count.user < MaxUser,
           count' = [count EXCEPT ![author] = @ + 1]
    PROVE  Grows /\ By(author) \in Written' /\ By(author) # NoText
<1>1. count \in CountType /\ MaxAgent \in Nat /\ MaxUser \in Nat
  BY ActionLogAssumption DEF LogTypes, CountType
<1>2. CASE author = "agent"
  <2>1. count' = [count EXCEPT !.agent = @ + 1] /\ count.agent < MaxAgent
    BY <1>2
  <2>2. Grows /\ count'.agent = count.agent + 1 /\ count.agent \in Nat
    BY <1>1, <2>1 DEF Grows, CountType
  <2>3. By(author) = [by |-> "agent", n |-> count.agent + 1]
    BY <1>2 DEF By
  <2> QED
    BY <2>2, <2>3 DEF Written, NoText
<1>3. CASE author = "user"
  <2>1. count' = [count EXCEPT !.user = @ + 1] /\ count.user < MaxUser
    BY <1>3
  <2>2. Grows /\ count'.user = count.user + 1 /\ count.user \in Nat
    BY <1>1, <2>1 DEF Grows, CountType
  <2>3. By(author) = [by |-> "user", n |-> count.user + 1]
    BY <1>3 DEF By
  <2> QED
    BY <2>2, <2>3 DEF Written, NoText
<1> QED
  BY <1>2, <1>3

LEMMA NewFresh ==
    ASSUME LogTypes, Grows, NEW t \in WrittenText'
    PROVE  Fresh(t) \in TrackedType'
<1>1. Empty \in WrittenText'
  BY WrittenValues, GrowsWritten
<1> QED
  BY <1>1 DEF Fresh, Untracked, TrackedType

LEMMA AgentEditTyped ==
    ASSUME LogTypes, NEW ls \in SUBSET Lines, AgentEdit(ls)
    PROVE  LogTypes'
<1>1. /\ count.agent < MaxAgent /\ count' = [count EXCEPT !["agent"] = @ + 1]
      /\ text' = Patched(text, ls, Text(By("agent"))) /\ BufferEdited(text', ls)
      /\ UNCHANGED <<on_disk, session, last_reject_undo, excused, git>>
  BY DEF AgentEdit
<1>2. Grows /\ By("agent") \in Written'
  BY <1>1, NewValue
<1>3. text \in WrittenText' /\ git \in WrittenText'
  BY <1>2, GrowsWritten DEF LogTypes
<1>4. Text(By("agent")) \in WrittenText'
  BY <1>2 DEF WrittenText, Text
<1>5. text' \in WrittenText'
  BY <1>1, <1>3, <1>4, PatchedTyped
<1>6. TypesOfLog'
  BY <1>1, <1>2, <1>5, NewFresh, BufferEditedTyped
<1>7. TypesOfRest'
  BY <1>1, <1>2, <1>3, <1>5, RestKept DEF LogTypes
<1> QED
  BY <1>6, <1>7, TypesJoin

LEMMA CloseSessionTyped ==
    ASSUME LogTypes, CloseSession
    PROVE  LogTypes'
<1>1. /\ session' = "none" /\ on_disk' = TRUE /\ BufferEdited(text, {})
      /\ UNCHANGED <<text, last_reject_undo, excused, git, count>>
  BY DEF CloseSession
<1>2. Grows
  BY <1>1, CountStays
<1>3. text \in WrittenText' /\ git \in WrittenText'
  BY <1>2, GrowsWritten DEF LogTypes
<1>4. TypesOfLog'
  BY <1>1, <1>2, <1>3, NewFresh, BufferEditedTyped
<1>5. TypesOfRest'
  BY <1>1, <1>2, <1>3, RestKept
<1> QED
  BY <1>4, <1>5, TypesJoin

\* The deletion announced, by the case of the buffer's status.
LEMMA WillDeleteCases ==
    ASSUME WillDelete
    PROVE  /\ on_disk /\ session' = "delete" /\ count' = [count EXCEPT !.session = @ + 1]
           /\ UNCHANGED <<on_disk, last_reject_undo, excused, git>>
           /\ \/ tracked.status = "created" /\ UNCHANGED text /\ Forget(text)
              \/ /\ tracked.status = "deleted"
                 /\ tracked' = [tracked EXCEPT !.current = TRUE]
                 /\ UNCHANGED <<text, queue, job, agentLines, reviewed>>
              \/ /\ tracked.status \notin {"created", "deleted"}
                 /\ text' = Empty
                 /\ tracked' = [(IF Tracks THEN tracked ELSE Fresh(text)) EXCEPT
                                   !.status = "deleted", !.current = (text = Empty)]
                 /\ queue' = IF text = Empty THEN Append(queue, <<"agent", Empty>>)
                             ELSE queue \o <<<<"agent", Empty>>, <<"user", Empty>>>>
                 /\ agentLines' = Lines
                 /\ UNCHANGED <<job, reviewed>>
BY DEF WillDelete, Open, historyVars

LEMMA TwoMore ==
    ASSUME NEW S, NEW q \in Seq(S), NEW a \in S, NEW b \in S
    PROVE  q \o <<a, b>> = Append(Append(q, a), b)
OBVIOUS

LEMMA WillDeleteTyped ==
    ASSUME LogTypes, WillDelete
    PROVE  LogTypes'
<1>1. Grows
  BY WillDeleteCases, CountOthers
<1>2. text \in WrittenText' /\ git \in WrittenText' /\ Empty \in WrittenText'
  BY <1>1, WrittenValues, GrowsWritten DEF LogTypes
<1>3. CASE tracked.status = "created" /\ UNCHANGED text /\ Forget(text)
  <2>1. TypesOfLog'
    BY <1>1, <1>2, <1>3, ForgetTyped
  <2>2. TypesOfRest'
    BY <1>1, <1>2, <1>3, WillDeleteCases, RestKept DEF LogTypes
  <2> QED
    BY <2>1, <2>2, TypesJoin
<1>4. CASE /\ tracked.status = "deleted"
           /\ tracked' = [tracked EXCEPT !.current = TRUE]
           /\ UNCHANGED <<text, queue, job, agentLines, reviewed>>
  <2>1. TrackRead
    BY <1>4 DEF TrackRead, Tracks, historyVars
  <2>2. TypesOfLog'
    BY <1>1, <2>1, TrackReadTyped
  <2>3. TypesOfRest'
    BY <1>1, <1>2, <1>4, WillDeleteCases, RestKept DEF LogTypes
  <2> QED
    BY <2>2, <2>3, TypesJoin
<1>5. CASE /\ tracked.status \notin {"created", "deleted"}
           /\ text' = Empty
           /\ tracked' = [(IF Tracks THEN tracked ELSE Fresh(text)) EXCEPT
                             !.status = "deleted", !.current = (text = Empty)]
           /\ queue' = IF text = Empty THEN Append(queue, <<"agent", Empty>>)
                       ELSE queue \o <<<<"agent", Empty>>, <<"user", Empty>>>>
           /\ agentLines' = Lines
           /\ UNCHANGED <<job, reviewed>>
  <2>1. tracked \in TrackedType' /\ Fresh(text) \in TrackedType'
    BY <1>1, <1>2, NewFresh, GrowsWritten DEF LogTypes
  <2>2. (IF Tracks THEN tracked ELSE Fresh(text)) \in TrackedType'
    BY <2>1
  <2>3. (text = Empty) \in BOOLEAN
    OBVIOUS
  <2>4. tracked' \in TrackedType' /\ tracked'.status # "none"
    BY <1>5, <2>2, <2>3 DEF TrackedType
  <2>5. queue \in Seq(Entry') /\ <<"agent", Empty>> \in Entry' /\ <<"user", Empty>> \in Entry'
    BY <1>1, <1>2, GrowsWritten DEF LogTypes, Entry
  <2>6. queue' \in Seq(Entry')
    BY <1>5, <2>5, TwoMore
  <2>7. TypesOfLog'
    BY <1>1, <1>5, <2>4, <2>6, GrowsWritten DEF TypesOfLog, Tracks, LogTypes
  <2>8. TypesOfRest'
    BY <1>1, <1>2, <1>5, WillDeleteCases, RestKept DEF LogTypes
  <2> QED
    BY <2>7, <2>8, TypesJoin
<1> QED
  BY <1>3, <1>4, <1>5, WillDeleteCases

LEMMA FileGoneTyped ==
    ASSUME LogTypes, Grows, FileGone
    PROVE  TypesOfLog' /\ on_disk' = FALSE
<1>1. text \in WrittenText'
  BY GrowsWritten DEF LogTypes
<1>2. CASE tracked.status \in {"created", "modified"}
  BY <1>1, <1>2, ForgetTyped DEF FileGone
<1>3. CASE tracked.status \notin {"created", "modified"}
  BY <1>3, LogKept DEF FileGone, logVars, historyVars
<1> QED
  BY <1>2, <1>3 DEF FileGone

LEMMA DeletionTyped ==
    ASSUME LogTypes, DeleteFile \/ CancelDelete
    PROVE  LogTypes'
<1>1. UNCHANGED <<text, last_reject_undo, excused, git, count>> /\ session' = "none"
  BY DEF DeleteFile, CancelDelete, fileVars
<1>2. Grows
  BY <1>1, CountStays
<1>3. text' \in WrittenText' /\ git' \in WrittenText'
  BY <1>1, <1>2, GrowsWritten DEF LogTypes
<1>4. TypesOfLog' /\ on_disk' \in BOOLEAN
  <2>1. CASE DeleteFile
    BY <1>2, <2>1, FileGoneTyped DEF DeleteFile
  <2>2. CASE CancelDelete
    BY <1>2, <2>2, LogKept DEF CancelDelete, fileVars, logVars, historyVars, LogTypes
  <2> QED
    BY <2>1, <2>2
<1>5. TypesOfRest'
  BY <1>1, <1>2, <1>3, <1>4, RestKept
<1> QED
  BY <1>4, <1>5, TypesJoin

LEMMA UserEditTyped ==
    ASSUME LogTypes, NEW l \in Lines, UserEdit(l)
    PROVE  LogTypes'
<1>1. /\ count.user < MaxUser /\ count' = [count EXCEPT !["user"] = @ + 1]
      /\ text' = [text EXCEPT ![l] = By("user")] /\ EditedEvent(text')
      /\ UNCHANGED <<on_disk, session, job, last_reject_undo, excused, git, agentLines, reviewed>>
  BY DEF UserEdit, historyVars
<1>2. Grows /\ By("user") \in Written'
  BY <1>1, NewValue
<1>3. text \in WrittenText' /\ git \in WrittenText'
  BY <1>2, GrowsWritten DEF LogTypes
<1>4. text' \in WrittenText'
  BY <1>1, <1>2, <1>3 DEF WrittenText
<1>5. TypesOfLog'
  BY <1>1, <1>2, <1>4, EventTyped
<1>6. TypesOfRest'
  BY <1>1, <1>2, <1>3, <1>4, RestKept DEF LogTypes
<1> QED
  BY <1>5, <1>6, TypesJoin

LEMMA DiskTyped ==
    ASSUME LogTypes, FileDeleted \/ FileRestored
    PROVE  LogTypes'
<1>1. /\ count' = [count EXCEPT !.disk = @ + 1]
      /\ UNCHANGED <<text, session, last_reject_undo, excused, git>>
  BY DEF FileDeleted, FileRestored
<1>2. Grows
  BY <1>1, CountOthers
<1>3. text \in WrittenText' /\ git \in WrittenText'
  BY <1>2, GrowsWritten DEF LogTypes
<1>4. TypesOfLog' /\ on_disk' \in BOOLEAN
  <2>1. CASE FileDeleted
    BY <1>2, <2>1, FileGoneTyped DEF FileDeleted
  <2>2. CASE FileRestored /\ tracked.status = "deleted"
    <3>1. StartTracking(Fresh(text), {}) /\ on_disk' = TRUE
      BY <2>2 DEF FileRestored
    <3>2. Fresh(text) \in TrackedType'
      BY <1>2, <1>3, NewFresh
    <3> QED
      BY <1>2, <3>1, <3>2, StatusOfNew, StartTyped
  <2>3. CASE FileRestored /\ tracked.status # "deleted"
    BY <1>2, <2>3, LogKept DEF FileRestored, logVars, historyVars
  <2> QED
    BY <2>1, <2>2, <2>3
<1>5. TypesOfRest'
  BY <1>1, <1>2, <1>3, <1>4, RestKept DEF LogTypes
<1> QED
  BY <1>4, <1>5, TypesJoin

LEMMA Uncommitted ==
    ASSUME NEW r \in TrackedType, r.committed = FALSE
    PROVE  [r EXCEPT !.committed = FALSE] = r
BY DEF TrackedType

LEMMA CommitTyped ==
    ASSUME LogTypes, NEW ls \in SUBSET Lines, Commit(ls)
    PROVE  LogTypes'
<1>1. /\ count' = [count EXCEPT !.git = @ + 1]
      /\ git' = Patched(git, ls, text)
      /\ tracked' = [tracked EXCEPT !.committed = Tracks]
      /\ reviewed' = reviewed \cup AgentValues(text, ls)
      /\ UNCHANGED <<text, on_disk, session, queue, job, last_reject_undo, excused, agentLines>>
  BY DEF Commit, fileVars
<1>2. Grows
  BY <1>1, CountOthers
<1>3. text \in WrittenText' /\ git \in WrittenText'
  BY <1>2, GrowsWritten DEF LogTypes
<1>4. git' \in WrittenText'
  BY <1>1, <1>3, PatchedTyped
<1>5. tracked \in TrackedType' /\ queue \in Seq(Entry') /\ job \in JobType' /\ reviewed \subseteq Settled'
  BY <1>2, GrowsWritten DEF LogTypes
<1>6. Tracks \in BOOLEAN
  BY DEF Tracks
<1>7. tracked' \in TrackedType' /\ tracked'.status = tracked.status
      /\ (~Tracks => tracked' = Untracked)
  <2>1. ~Tracks => tracked = Untracked /\ Tracks = FALSE
    BY <1>6 DEF LogTypes
  <2>2. ~Tracks => tracked' = tracked
    <3>1. [Untracked EXCEPT !.committed = FALSE] = Untracked
      BY RecordsTyped, Uncommitted DEF Untracked
    <3>2. ASSUME ~Tracks PROVE tracked' = tracked
      <4>1. tracked = Untracked /\ Tracks = FALSE
        BY <2>1, <3>2
      <4>2. tracked' = [Untracked EXCEPT !.committed = FALSE]
        BY <1>1, <4>1
      <4> QED
        BY <3>1, <4>1, <4>2
    <3> QED
      BY <3>2
  <2> QED
    BY <1>1, <1>5, <1>6, <2>1, <2>2 DEF TrackedType
<1>8. AgentValues(text, ls) \subseteq Settled'
  BY <1>3, NewSettled
<1>9. TypesOfLog'
  BY <1>1, <1>5, <1>7, <1>8 DEF TypesOfLog, LogTypes, Tracks
<1>10. TypesOfRest'
  BY <1>1, <1>2, <1>3, <1>4, RestKept DEF LogTypes
<1> QED
  BY <1>9, <1>10, TypesJoin

\* What a keep of the lines ls of the diff does, whole or in part.
KeepLines(ls) ==
    /\ tracked' = [tracked EXCEPT
          !.base = Patched(@, ls, tracked.snapshot),
          !.unreviewed = @ \ ls,
          !.status = IF tracked.unreviewed \subseteq ls THEN "modified" ELSE @]
    /\ reviewed' = reviewed \cup AgentValues(tracked.snapshot, ls)
    /\ queue' = Append(queue, <<"user", text>>)
    /\ UNCHANGED <<job, agentLines>>

\* The excuses of a keep.
ExcuseKept == excused' = KeptEarly

LEMMA WholePatch ==
    ASSUME NEW V, NEW old \in [Lines -> V], NEW new \in [Lines -> V]
    PROVE  Patched(old, Lines, new) = new
BY DEF Patched

LEMMA HunksWithin ==
    ASSUME NEW ls
    PROVE  Hunks(ls) \subseteq tracked.unreviewed
BY DEF Hunks

LEMMA KeepCases ==
    ASSUME LogTypes, NEW l \in Lines, Keep(l) \/ KeepAll
    PROVE  /\ Tracks /\ ExcuseKept
           /\ UNCHANGED <<text, on_disk, session, last_reject_undo, git, count>>
           /\ \/ tracked.status = "deleted" /\ Forget(text)
              \/ tracked.status # "deleted" /\ \E ls \in SUBSET Lines :
                    (ls = Lines \/ ls = Hunks({l})) /\ KeepLines(ls)
<1>1. CASE Keep(l)
  <2>1. CASE tracked.status = "deleted"
    BY <1>1, <2>1 DEF Keep, ExcuseKept, fileVars
  <2>2. CASE tracked.status # "deleted"
    <3>1. KeepLines(Hunks({l}))
      BY <1>1, <2>2 DEF Keep, KeepLines, Schedule
    <3>2. Hunks({l}) \in SUBSET Lines
      BY HunksWithin DEF LogTypes, TrackedType
    <3> QED
      BY <1>1, <2>2, <3>1, <3>2 DEF Keep, ExcuseKept, fileVars
  <2> QED
    BY <2>1, <2>2
<1>2. CASE KeepAll
  <2>1. CASE tracked.status = "deleted"
    BY <1>2, <2>1 DEF KeepAll, ExcuseKept, fileVars
  <2>2. CASE tracked.status # "deleted"
    <3>1. /\ tracked' = [tracked EXCEPT !.base = tracked.snapshot,
                             !.unreviewed = {}, !.status = "modified"]
          /\ reviewed' = reviewed \cup AgentValues(tracked.snapshot, Lines)
          /\ queue' = Append(queue, <<"user", text>>)
          /\ UNCHANGED <<job, agentLines>>
      BY <1>2, <2>2 DEF KeepAll, Schedule
    <3>2. Patched(tracked.base, Lines, tracked.snapshot) = tracked.snapshot
      BY WholePatch DEF LogTypes, TrackedType, WrittenText
    <3>3. tracked.unreviewed \subseteq Lines /\ tracked.unreviewed \ Lines = {}
      BY DEF LogTypes, TrackedType
    <3>4. KeepLines(Lines)
      BY <3>1, <3>2, <3>3 DEF KeepLines
    <3> QED
      BY <1>2, <2>2, <3>4 DEF KeepAll, ExcuseKept, fileVars
  <2> QED
    BY <2>1, <2>2
<1> QED
  BY <1>1, <1>2

LEMMA KeepTyped ==
    ASSUME LogTypes, NEW l \in Lines, Keep(l) \/ KeepAll
    PROVE  LogTypes'
<1>0. /\ Tracks /\ ExcuseKept
      /\ UNCHANGED <<text, on_disk, session, last_reject_undo, git, count>>
  BY KeepCases
<1>1. Grows
  BY <1>0, CountStays
<1>2. text \in WrittenText' /\ git \in WrittenText' /\ last_reject_undo \in UndoType'
      /\ tracked \in TrackedType' /\ queue \in Seq(Entry') /\ reviewed \subseteq Settled'
  BY <1>1, GrowsWritten DEF LogTypes
<1>3. tracked.base \in WrittenText' /\ tracked.snapshot \in WrittenText'
  BY <1>2 DEF TrackedType
<1>4. AgentValues(tracked.snapshot, Lines) \subseteq Settled'
  BY <1>3, NewSettled
<1>5. TypesOfRest'
  <2>1. excused' \in [kept : SUBSET Settled', back : SUBSET (Lines \X Written'), undone : BOOLEAN]
    BY <1>0, <1>1, <1>4, ExcusedKept DEF ExcuseKept, KeptEarly
  <2> QED
    BY <1>0, <1>1, <1>2, <2>1 DEF TypesOfRest, Grows, LogTypes
<1>6. TypesOfLog'
  <2>1. CASE Forget(text)
    BY <1>1, <1>2, <2>1, ForgetTyped
  <2>2. ASSUME NEW ls \in SUBSET Lines, KeepLines(ls) PROVE TypesOfLog'
    <3>1. Patched(tracked.base, ls, tracked.snapshot) \in WrittenText'
      BY <1>3, PatchedTyped
    <3>2. tracked' \in TrackedType' /\ tracked'.status # "none"
      BY <1>0, <1>2, <2>2, <3>1 DEF KeepLines, TrackedType, Tracks
    <3>3. <<"user", text>> \in Entry'
      BY <1>2 DEF Entry
    <3>4. queue' \in Seq(Entry')
      BY <1>2, <2>2, <3>3 DEF KeepLines
    <3>5. AgentValues(tracked.snapshot, ls) \subseteq Settled'
      BY <1>3, NewSettled
    <3> QED
      BY <1>1, <1>2, <2>2, <3>2, <3>4, <3>5, GrowsWritten
      DEF KeepLines, TypesOfLog, Tracks, LogTypes
  <2> QED
    BY <2>1, <2>2, KeepCases
<1> QED
  BY <1>5, <1>6, TypesJoin

\* A reject or its undo changes neither session nor commits nor counts.
LEMMA RejectCases ==
    ASSUME LogTypes, AnyReject
    PROVE  /\ UNCHANGED <<session, git, count>> /\ tracked.shown # {}
           /\ \E ls \in SUBSET Lines :
                 /\ RejectEdits(ls)
                 /\ last_reject_undo' \in {last_reject_undo, UndoInfo(ls)}
<1>1. tracked.shown \subseteq Lines
  BY DEF LogTypes, TrackedType
<1>2. ASSUME NEW l \in Lines, Reject(l)
      PROVE  /\ UNCHANGED <<session, git, count>> /\ tracked.shown # {}
             /\ RejectEdits({l}) /\ last_reject_undo' \in {last_reject_undo, UndoInfo({l})}
  BY <1>2 DEF Reject
<1> QED
  BY <1>1, <1>2 DEF AnyReject, RejectAll

LEMMA PutBackTyped ==
    ASSUME LogTypes, NEW ls
    PROVE  PutBack(ls) \subseteq Lines \X Written
<1>1. Hunks(ls) \subseteq Lines
  BY HunksWithin DEF LogTypes, TrackedType
<1>2. \A l \in Lines : tracked.base[l] \in Written
  BY DEF LogTypes, TrackedType, WrittenText
<1> QED
  BY <1>1, <1>2 DEF PutBack

LEMMA RejectTyped ==
    ASSUME LogTypes, AnyReject
    PROVE  LogTypes'
<1>1. PICK ls \in SUBSET Lines :
         /\ RejectEdits(ls)
         /\ last_reject_undo' \in {last_reject_undo, UndoInfo(ls)}
  BY RejectCases
<1>2. UNCHANGED <<session, git, count>>
  BY RejectCases
<1>3. Grows
  BY <1>2, CountStays
<1>4. text \in WrittenText' /\ git \in WrittenText' /\ last_reject_undo \in UndoType'
      /\ tracked \in TrackedType' /\ NoUndo \in UndoType'
  BY <1>3, RecordsTyped, GrowsWritten DEF LogTypes
<1>5. tracked.base \in WrittenText' /\ tracked.existing \in WrittenText' \cup {Absent}
      /\ tracked.unreviewed \subseteq Lines
  BY <1>4 DEF TrackedType
<1>6. UndoInfo(ls) \in UndoType'
  <2>1. Hunks(ls) \subseteq Lines
    BY <1>5, HunksWithin
  <2> QED
    BY <1>4, <2>1 DEF UndoInfo, UndoType
<1>7. last_reject_undo' \in UndoType'
  BY <1>1, <1>4, <1>6
<1>8. excused' \in [kept : SUBSET Settled', back : SUBSET (Lines \X Written'), undone : BOOLEAN]
      /\ TypesOfLog' /\ text' \in WrittenText' /\ on_disk' \in BOOLEAN
  <2>1. CASE RejectCreated
    <3>1. text' \in WrittenText' /\ on_disk' \in BOOLEAN /\ Forget(text') /\ excused' = excused
      BY <1>4, <1>5, <2>1 DEF RejectCreated, LogTypes
    <3> QED
      BY <1>3, <3>1, ForgetTyped, ExcusedKept
  <2>2. CASE RejectDeleted
    <3>1. /\ text' = tracked.base /\ on_disk' = TRUE /\ excused' = excused
          /\ tracked' = Fresh(text') /\ queue' = <<>> /\ job' = NoJob
          /\ agentLines' = {} /\ reviewed' = reviewed
      BY <2>2 DEF RejectDeleted
    <3>2. Fresh(text') \in TrackedType' /\ NoJob \in JobType' /\ reviewed \subseteq Settled'
      BY <1>3, <1>5, <3>1, NewFresh, RecordsTyped, GrowsWritten DEF LogTypes
    <3>3. queue' \in Seq(Entry')
      BY <3>1
    <3>4. TypesOfLog'
      BY <3>1, <3>2, <3>3, StatusOfNew DEF TypesOfLog, Tracks
    <3> QED
      BY <1>3, <1>5, <3>1, <3>4, ExcusedKept
  <2>3. CASE RejectModified(ls)
    <3>1. /\ text' = Patched(text, Hunks(ls), tracked.base) /\ on_disk' = TRUE
          /\ EditedEvent(text') /\ UNCHANGED <<job, agentLines, reviewed>>
          /\ excused' = IF excused.undone THEN excused
                        ELSE [excused EXCEPT !.back = @ \cup PutBack(ls)]
      BY <2>3 DEF RejectModified, historyVars
    <3>2. text' \in WrittenText'
      BY <1>4, <1>5, <3>1, PatchedTyped
    <3>3. PutBack(ls) \subseteq Lines \X Written'
      BY <1>3, PutBackTyped, GrowsWritten
    <3> QED
      BY <1>3, <3>1, <3>2, <3>3, EventTyped, ExcusedKept
  <2> QED
    BY <1>1, <2>1, <2>2, <2>3 DEF RejectEdits
<1>9. TypesOfRest'
  BY <1>2, <1>3, <1>4, <1>7, <1>8 DEF TypesOfRest, Grows, LogTypes
<1> QED
  BY <1>8, <1>9, TypesJoin

LEMMA UndoRejectTyped ==
    ASSUME LogTypes, UndoReject
    PROVE  LogTypes'
<1>1. /\ text' = Patched(text, last_reject_undo.lines, last_reject_undo.text)
      /\ last_reject_undo' = NoUndo /\ on_disk' = TRUE
      /\ excused' = [kept |-> {}, back |-> {}, undone |-> TRUE]
      /\ UNCHANGED <<session, git, count>>
      /\ IF Tracks THEN EditedEvent(text') /\ UNCHANGED <<job, agentLines, reviewed>>
         ELSE BufferEdited(text', {})
  BY DEF UndoReject, historyVars
<1>2. Grows
  BY <1>1, CountStays
<1>3. text \in WrittenText' /\ git \in WrittenText' /\ NoUndo \in UndoType'
      /\ last_reject_undo \in UndoType'
  BY <1>2, RecordsTyped, GrowsWritten DEF LogTypes
<1>4. text' \in WrittenText'
  BY <1>1, <1>3, PatchedTyped DEF UndoType
<1>5. TypesOfLog'
  BY <1>1, <1>2, <1>4, NewFresh, EventTyped, BufferEditedTyped
<1>6. TypesOfRest'
  BY <1>1, <1>2, <1>3, <1>4, ExcusedKept DEF TypesOfRest, Grows, LogTypes
<1> QED
  BY <1>5, <1>6, TypesJoin

LEMMA QueueHead ==
    ASSUME LogTypes, queue # <<>>
    PROVE  /\ Len(queue) \in Nat \ {0} /\ queue[1] = Head(queue)
           /\ queue[1][1] \in {"agent", "user"} /\ queue[1][2] \in WrittenText
<1>1. queue \in Seq(Entry)
  BY DEF LogTypes
<1>2. Len(queue) \in Nat \ {0} /\ queue[1] = Head(queue) /\ queue[1] \in Entry
  BY <1>1
<1> QED
  BY <1>2 DEF Entry

\* The new base that the task computes.
NextBase ==
    IF queue[1][1] = "user" THEN Rebased(queue[1][2]) ELSE tracked.base

LEMMA RebasedCases ==
    ASSUME NEW new
    PROVE  Rebased(new) =
             IF Empty \in {tracked.snapshot, new} /\ tracked.unreviewed # {} THEN tracked.base
             ELSE Patched(tracked.base, Differing(tracked.snapshot, new) \ tracked.unreviewed, new)
BY DEF Rebased

LEMMA NextBaseTyped ==
    ASSUME LogTypes, queue # <<>>
    PROVE  NextBase \in WrittenText
<1>1. tracked.base \in WrittenText /\ queue[1][2] \in WrittenText
  BY QueueHead DEF LogTypes, TrackedType
<1>2. ASSUME NEW ls PROVE Patched(tracked.base, ls, queue[1][2]) \in WrittenText
  BY <1>1, PatchedNow
<1>3. Rebased(queue[1][2]) \in WrittenText
  BY <1>1, <1>2, RebasedCases
<1> QED
  BY <1>1, <1>3 DEF NextBase

LEMMA TrackEditsFacts ==
    ASSUME LogTypes, TrackEdits
    PROVE  /\ job = NoJob /\ queue # <<>> /\ queue' = Tail(queue)
           /\ job' = [phase |-> "rebased", snapshot |-> queue[1][2], base |-> NextBase]
           /\ UNCHANGED <<text, on_disk, session, tracked, last_reject_undo, excused, git,
                          count, agentLines, reviewed>>
<1>1. queue # <<>> /\ Head(queue) = queue[1]
  BY QueueHead DEF TrackEdits
<1> QED
  BY <1>1 DEF TrackEdits, NextBase, fileVars, historyVars

LEMMA WithCommittedTyped ==
    ASSUME LogTypes
    PROVE  WithCommitted \in WrittenText
<1>1. tracked.base \in WrittenText /\ tracked.snapshot \in WrittenText /\ git \in WrittenText
  BY DEF LogTypes, TrackedType
<1>2. ASSUME NEW ls PROVE Patched(tracked.base, ls, tracked.snapshot) \in WrittenText
  BY <1>1, PatchedNow
<1> QED
  BY <1>1, <1>2 DEF WithCommitted

LEMMA TaskTyped ==
    ASSUME LogTypes, Task
    PROVE  LogTypes'
<1>1. UNCHANGED <<text, on_disk, session, last_reject_undo, excused, git, count, agentLines, reviewed>>
  BY DEF Task, TrackEdits, KeepCommitted, ShowDiff, StoreDiff, fileVars, historyVars
<1>2. Grows
  BY <1>1, CountStays
<1>3. text' \in WrittenText' /\ git' \in WrittenText' /\ reviewed \subseteq Settled'
      /\ job \in JobType' /\ tracked \in TrackedType' /\ queue \in Seq(Entry')
  BY <1>1, <1>2, GrowsWritten DEF LogTypes
<1>4. TypesOfRest'
  BY <1>1, <1>2, <1>3, RestKept DEF LogTypes
<1>5. Tracks
  BY DEF Task, TrackEdits, KeepCommitted, ShowDiff, StoreDiff, LogTypes, NoJob, Untracked
<1>6. tracked' \in TrackedType' /\ queue' \in Seq(Entry') /\ job' \in JobType'
      /\ (job'.phase = "none" => job' = NoJob) /\ tracked'.status = tracked.status
  <2>1. CASE TrackEdits
    <3>1. NextBase \in WrittenText' /\ queue[1][2] \in WrittenText'
      BY <1>2, <2>1, TrackEditsFacts, NextBaseTyped, QueueHead, GrowsWritten
    <3>2. job' = [phase |-> "rebased", snapshot |-> queue[1][2], base |-> NextBase]
          /\ queue' = Tail(queue) /\ queue # <<>> /\ tracked' = tracked
      BY <2>1, TrackEditsFacts
    <3>3. queue' \in Seq(Entry')
      BY <1>3, <3>2
    <3>4. job' \in JobType' /\ job'.phase = "rebased"
      BY <3>1, <3>2 DEF JobType
    <3> QED
      BY <1>3, <3>2, <3>3, <3>4
  <2>2. CASE KeepCommitted
    <3>1. /\ tracked' = [tracked EXCEPT !.committed = FALSE] /\ queue' = queue
          /\ job' = [phase |-> "rebased", snapshot |-> tracked.snapshot, base |-> WithCommitted]
      BY <2>2 DEF KeepCommitted
    <3>2. WithCommitted \in WrittenText' /\ tracked.snapshot \in WrittenText'
      BY <1>2, <1>3, WithCommittedTyped, GrowsWritten DEF TrackedType
    <3>3. job' \in JobType' /\ job'.phase = "rebased"
      BY <3>1, <3>2 DEF JobType
    <3>4. tracked' \in TrackedType' /\ tracked'.status = tracked.status
      BY <1>3, <3>1 DEF TrackedType
    <3> QED
      BY <1>3, <3>1, <3>3, <3>4
  <2>3. CASE ShowDiff
    <3>1. /\ job' = [job EXCEPT !.phase = "shown"] /\ queue' = queue
          /\ tracked' = [tracked EXCEPT !.shown = Differing(job.base, job.snapshot)]
      BY <2>3 DEF ShowDiff
    <3>2. job' \in JobType' /\ job'.phase = "shown"
      BY <1>3, <3>1 DEF JobType
    <3>3. Differing(job.base, job.snapshot) \subseteq Lines
      BY <1>3, DifferingFacts DEF JobType, WrittenText
    <3>4. tracked' \in TrackedType' /\ tracked'.status = tracked.status
      BY <1>3, <3>1, <3>3 DEF TrackedType
    <3> QED
      BY <1>3, <3>1, <3>2, <3>4
  <2>4. CASE StoreDiff
    <3>1. /\ job' = NoJob /\ queue' = queue
          /\ tracked' = [tracked EXCEPT !.base = job.base, !.snapshot = job.snapshot,
                            !.unreviewed = Differing(job.base, job.snapshot)]
      BY <2>4 DEF StoreDiff
    <3>2. NoJob \in JobType'
      BY <1>2, RecordsTyped, GrowsWritten
    <3>3. Differing(job.base, job.snapshot) \subseteq Lines
      BY <1>3, DifferingFacts DEF JobType, WrittenText
    <3>4. job.base \in WrittenText' /\ job.snapshot \in WrittenText'
      BY <1>3 DEF JobType
    <3>5. tracked' \in TrackedType' /\ tracked'.status = tracked.status
      BY <1>3, <3>1, <3>3, <3>4 DEF TrackedType
    <3> QED
      BY <1>3, <3>1, <3>2, <3>5
  <2> QED
    BY <2>1, <2>2, <2>3, <2>4 DEF Task
<1>7. TypesOfLog'
  BY <1>1, <1>3, <1>5, <1>6 DEF TypesOfLog, Tracks, LogTypes
<1> QED
  BY <1>4, <1>7, TypesJoin

LEMMA TypesStart ==
    ASSUME Init
    PROVE  LogTypes
<1>1. count = [agent |-> 0, user |-> 0, session |-> 0, git |-> 0, disk |-> 0]
  BY DEF Init
<1>2. Text(Original) \in WrittenText /\ Empty \in WrittenText
  BY DEF WrittenText, Written, Text, Empty
<1>3. Untracked \in TrackedType /\ NoJob \in JobType /\ NoUndo \in UndoType
  BY <1>2 DEF Untracked, NoJob, NoUndo, TrackedType, JobType, UndoType
<1>4. text \in WrittenText /\ git \in WrittenText
  BY <1>2 DEF Init
<1>5. queue \in Seq(Entry)
  BY DEF Init
<1>6. TypesOfRest
  BY <1>1, <1>3, <1>4, ActionLogAssumption DEF Init, TypesOfRest, CountType
<1> QED
  BY <1>3, <1>5, <1>6 DEF Init, LogTypes, TypesOfRest, CountType

LEMMA TypesKept ==
    ASSUME LogTypes, [Next]_vars
    PROVE  LogTypes'
<1>1. ASSUME Agent PROVE LogTypes'
  BY <1>1, OpenToEditTyped, OpenToWriteTyped, CloseSessionTyped, WillDeleteTyped,
     DeletionTyped, AgentEditTyped DEF Agent
<1>2. ASSUME User PROVE LogTypes'
  <2>1. ASSUME KeepAll PROVE LogTypes'
    BY <2>1, KeepTyped, ActionLogAssumption
  <2> QED
    BY <1>2, <2>1, UserEditTyped, KeepTyped, RejectTyped, UndoRejectTyped DEF User
<1>3. ASSUME Disk PROVE LogTypes'
  BY <1>3, DiskTyped, CommitTyped DEF Disk
<1>4. ASSUME Task PROVE LogTypes'
  BY <1>4, TaskTyped
<1>5. ASSUME UNCHANGED vars PROVE LogTypes'
  <2>1. Grows
    BY <1>5, CountStays DEF vars
  <2>2. TypesOfLog'
    BY <1>5, <2>1, LogKept DEF vars, logVars, historyVars
  <2>3. TypesOfRest'
    BY <1>5, <2>1, RestKept, GrowsWritten DEF vars, fileVars, LogTypes
  <2> QED
    BY <2>2, <2>3, TypesJoin
<1> QED
  BY <1>1, <1>2, <1>3, <1>4, <1>5 DEF Next

(***************************************************************************)
(* The texts the task goes through                                         *)
(***************************************************************************)

LEMMA StageTyped ==
    ASSUME LogTypes
    PROVE  /\ Len(queue) \in Nat /\ 0 \in Stages /\ Len(queue) \in Stages
           /\ \A i \in Stages : Stage(i) \in WrittenText
           /\ StageBase \in WrittenText /\ StageEdits \subseteq Lines
           /\ tracked.base \in WrittenText /\ tracked.snapshot \in WrittenText
           /\ tracked.unreviewed \subseteq Lines /\ tracked.shown \subseteq Lines
<1>1. queue \in Seq(Entry) /\ tracked \in TrackedType /\ job \in JobType
  BY DEF LogTypes
<1>2. Len(queue) \in Nat /\ \A i \in 1 .. Len(queue) : queue[i] \in Entry
  BY <1>1
<1>3. \A i \in 1 .. Len(queue) : queue[i][2] \in WrittenText
  BY <1>2 DEF Entry
<1>4. 0 \in Stages /\ Len(queue) \in Stages
  BY <1>2 DEF Stages
<1>5. /\ tracked.base \in WrittenText /\ tracked.snapshot \in WrittenText
      /\ tracked.unreviewed \subseteq Lines /\ tracked.shown \subseteq Lines
      /\ job.base \in WrittenText /\ job.snapshot \in WrittenText
  BY <1>1 DEF TrackedType, JobType
<1>6. \A i \in Stages : Stage(i) \in WrittenText
  BY <1>2, <1>3, <1>5 DEF Stages, Stage
<1>7. Differing(job.base, job.snapshot) \subseteq Lines
  BY <1>5, DifferingFacts DEF WrittenText
<1> QED
  BY <1>2, <1>4, <1>5, <1>6, <1>7 DEF StageBase, StageEdits

\* The invariant without the types.
RestInv ==
    /\ EndsWithText /\ WholeIsAgents /\ AtRestAgree
    /\ EditsCovered /\ BaseOfJob
    /\ Whose
    /\ BaseReviewed /\ OneRun /\ FinalSettles

LEMMA InvParts == LogInv <=> LogTypes /\ RestInv
BY DEF LogInv, RestInv

\* A single text is empty or says something in some line.
LEMMA OneText ==
    ASSUME NEW t, DOMAIN t = Lines, t = [l \in Lines |-> t[l]]
    PROVE  Grounded({t})
<1>1. CASE \A l \in Lines : t[l] = NoText
  <2>1. t = [l \in Lines |-> NoText]
    BY <1>1
  <2> QED
    BY <2>1 DEF Grounded, Empty, Text
<1>2. CASE \E l \in Lines : t[l] # NoText
  BY <1>2 DEF Grounded
<1> QED
  BY <1>1, <1>2

LEMMA DeltaSame ==
    ASSUME NEW t
    PROVE  Delta(t, t) = {} /\ Differing(t, t) = {}
BY DEF Delta, Differing

\* What the head, and what head and buffer say, was reviewed.
HeadReviewed == ~excused.undone => \A l \in Lines : ReviewedAt(git, l)
AllReviewed == ~excused.undone => \A l \in Lines : ReviewedAt(git, l) /\ ReviewedAt(text, l)

\* The state of a buffer the log has just begun to track.
Begun == tracked.base = text /\ tracked.snapshot = text /\ tracked.unreviewed = {}
         /\ tracked.shown = {} /\ queue = <<>> /\ job = NoJob /\ tracked.status = "modified"
         /\ text \in WrittenText

LEMMA BegunFresh ==
    ASSUME tracked' = Fresh(text'), queue' = <<>>, job' = NoJob, text' \in WrittenText'
    PROVE  Begun'
BY DEF Begun, Fresh, Untracked

LEMMA BegunStages ==
    ASSUME Begun
    PROVE  /\ Len(queue) = 0 /\ Stages = {0} /\ Stage(0) = text
           /\ StageBase = text /\ StageEdits = {} /\ Texts = {text}
           /\ Tracks /\ job.phase # "shown" /\ 1 .. Len(queue) = {}
<1>1. Len(queue) = 0 /\ Stages = {0}
  BY DEF Begun, Stages
<1>2. Stage(0) = text /\ StageBase = text /\ StageEdits = {} /\ Tracks /\ job.phase # "shown"
  BY DEF Begun, Stage, StageBase, StageEdits, Tracks, NoJob
<1>3. Texts = {text}
  BY <1>1, <1>2 DEF Texts, StageTexts, Begun
<1> QED
  BY <1>1, <1>2, <1>3

LEMMA BegunSound ==
    ASSUME Begun, AllReviewed
    PROVE  RestInv
<1> USE BegunStages DEF AllReviewed
<1>1. EndsWithText /\ WholeIsAgents /\ EditsCovered /\ BaseOfJob
  <2>1. EditsCovered
    BY DeltaSame DEF EditsCovered, Begun
  <2> QED
    BY <2>1 DEF EndsWithText, WholeIsAgents, BaseOfJob, Begun
<1>2. AtRestAgree
  BY DeltaSame DEF AtRestAgree, Agree, Begun
<1>3. Whose
  <2>1. OnlyAgentLines
    BY DEF OnlyAgentLines, Begun
  <2>2. Grounded({text})
    BY OneText DEF Begun, WrittenText
  <2>3. Attributed
    BY <2>2, DeltaSame DEF Attributed, Begun
  <2> QED
    BY <2>1, <2>3 DEF Whose
<1>4. BaseReviewed
  BY DEF BaseReviewed, Begun
<1>5. OneRun
  BY DEF OneRun
<1>6. FinalSettles
  BY DEF FinalSettles, Steady
<1> QED
  BY <1>1, <1>2, <1>3, <1>4, <1>5, <1>6 DEF RestInv

\* The state when the log does not know the buffer.
Dropped == queue = <<>> /\ job = NoJob /\ tracked = Untracked

LEMMA UntrackedStages ==
    ASSUME Dropped
    PROVE  /\ Len(queue) = 0 /\ Stages = {0} /\ Stage(0) = Empty /\ StageBase = Empty
           /\ ~Tracks /\ job.phase # "shown" /\ 1 .. Len(queue) = {}
           /\ tracked.base = Empty /\ tracked.snapshot = Empty /\ tracked.unreviewed = {}
           /\ tracked.shown = {} /\ tracked.status = "none"
BY DEF Dropped, Stages, Stage, StageBase, Tracks, NoJob, Untracked

LEMMA UntrackedSound ==
    ASSUME Dropped, AllReviewed
    PROVE  RestInv
<1> USE UntrackedStages DEF AllReviewed
<1>1. EndsWithText /\ WholeIsAgents /\ EditsCovered /\ BaseOfJob /\ AtRestAgree
  <2>1. EditsCovered
    BY DeltaSame DEF EditsCovered
  <2> QED
    BY <2>1 DEF EndsWithText, WholeIsAgents, BaseOfJob, AtRestAgree, Dropped
<1>2. Whose
  BY DEF Whose, OnlyAgentLines, Dropped
<1>3. \A l \in Lines : ReviewedAt(Empty, l)
  BY DEF ReviewedAt, Empty, Text, NoText
<1>4. BaseReviewed
  BY <1>3 DEF BaseReviewed, Dropped
<1>5. OneRun /\ FinalSettles
  BY DEF OneRun, FinalSettles
<1> QED
  BY <1>1, <1>2, <1>4, <1>5 DEF RestInv

\* The state of a buffer the agent is about to fill.
Filling == tracked.base = Empty /\ tracked.snapshot = text /\ tracked.unreviewed = Lines
           /\ tracked.shown = {} /\ queue = <<>> /\ job = NoJob /\ Tracks
           /\ session = "write" /\ agentLines = Lines

LEMMA FillingSound ==
    ASSUME Filling, HeadReviewed
    PROVE  RestInv
<1> USE DEF HeadReviewed
<1>0. /\ Len(queue) = 0 /\ Stages = {0} /\ 1 .. Len(queue) = {}
      /\ Stage(0) = text /\ StageBase = Empty /\ StageEdits = Lines /\ job.phase # "shown"
  BY DEF Filling, Stages, Stage, StageBase, StageEdits, NoJob
<1>1. EndsWithText /\ WholeIsAgents /\ EditsCovered /\ BaseOfJob /\ AtRestAgree
  BY <1>0 DEF EndsWithText, WholeIsAgents, BaseOfJob, AtRestAgree, EditsCovered, Delta, Filling
<1>2. Whose
  BY DEF Whose, OnlyAgentLines, Filling
<1>3. \A l \in Lines : ReviewedAt(Empty, l)
  BY DEF ReviewedAt, Empty, Text, NoText
<1>4. BaseReviewed
  BY <1>0, <1>3 DEF BaseReviewed, Filling
<1>5. OneRun /\ FinalSettles
  BY <1>0 DEF OneRun, FinalSettles, Steady
<1> QED
  BY <1>1, <1>2, <1>4, <1>5 DEF RestInv

\* The state of a buffer the log learns of by an edit of the agent.
Reported == tracked.base = text /\ tracked.snapshot = text /\ tracked.unreviewed = {}
            /\ tracked.shown = {} /\ queue = <<<<"agent", text>>>> /\ job = NoJob
            /\ tracked.status = "modified" /\ text \in WrittenText

LEMMA ReportedSound ==
    ASSUME Reported, AllReviewed
    PROVE  RestInv
<1> USE DEF AllReviewed
<1>0. /\ Len(queue) = 1 /\ Stages = {0, 1} /\ 1 .. Len(queue) = {1}
      /\ queue # <<>> /\ queue[1] = <<"agent", text>> /\ queue[1][1] = "agent"
  BY DEF Reported, Stages
<1>1. /\ Stage(0) = text /\ Stage(1) = text /\ StageBase = text /\ StageEdits = {}
      /\ job.phase # "shown" /\ Tracks
  BY <1>0 DEF Reported, Stage, StageBase, StageEdits, NoJob, Tracks
<1>2. \A i \in Stages : Stage(i) = text
  BY <1>0, <1>1
<1>3. EndsWithText /\ WholeIsAgents /\ EditsCovered /\ BaseOfJob /\ AtRestAgree
  <2>1. EditsCovered
    BY DeltaSame DEF EditsCovered, Reported
  <2> QED
    BY <1>0, <1>1, <2>1 DEF EndsWithText, WholeIsAgents, BaseOfJob, AtRestAgree, Reported
<1>4. Whose
  <2>1. OnlyAgentLines
    BY DEF OnlyAgentLines, Reported
  <2>2. Grounded({text})
    BY OneText DEF Reported, WrittenText
  <2>3. Texts = {text}
    BY <1>0, <1>1, <1>2 DEF Texts, StageTexts, Reported
  <2>4. \A i \in 1 .. Len(queue) : Delta(Stage(i - 1), Stage(i)) = {}
    BY <1>0, <1>1, DeltaSame
  <2>5. Attributed
    BY <1>1, <2>2, <2>3, <2>4, DeltaSame DEF Attributed, Reported
  <2> QED
    BY <2>1, <2>5 DEF Whose
<1>5. BaseReviewed
  BY <1>0, <1>1 DEF BaseReviewed, Reported
<1>6. OneRun
  BY <1>2 DEF OneRun
<1>7. FinalSettles
  BY <1>1, <1>2 DEF FinalSettles, Steady
<1> QED
  BY <1>3, <1>4, <1>5, <1>6, <1>7 DEF RestInv

(***************************************************************************)
(* Steps that begin anew                                                   *)
(***************************************************************************)

LEMMA BeginsSound ==
    ASSUME \/ (Begun \/ Dropped \/ Reported)' /\ AllReviewed'
           \/ Filling' /\ HeadReviewed'
    PROVE  RestInv'
<1>1. ASSUME Begun', AllReviewed' PROVE RestInv'
  BY <1>1, BegunSound, PTL
<1>2. ASSUME Dropped', AllReviewed' PROVE RestInv'
  BY <1>2, UntrackedSound, PTL
<1>3. ASSUME Filling', HeadReviewed' PROVE RestInv'
  BY <1>3, FillingSound, PTL
<1>4. ASSUME Reported', AllReviewed' PROVE RestInv'
  BY <1>4, ReportedSound, PTL
<1> QED
  BY <1>1, <1>2, <1>3, <1>4

LEMMA SettledIsReviewed ==
    ASSUME NEW t, NEW ls, NEW l \in ls, AgentValues(t, ls) \subseteq reviewed
    PROVE  ReviewedAt(t, l)
BY AgentValuesIn DEF ReviewedAt

LEMMA SettledWillBeReviewed ==
    ASSUME NEW t, NEW ls, NEW l \in ls, AgentValues(t, ls) \subseteq reviewed'
    PROVE  t[l].by = "agent" => <<l, t[l].n>> \in reviewed'
BY AgentValuesIn

\* What was reviewed once stays reviewed.
LEMMA StaysReviewed ==
    ASSUME LogInv, git' = git, reviewed \subseteq reviewed', excused.undone => excused'.undone
    PROVE  HeadReviewed'
BY DEF LogInv, BaseReviewed, HeadReviewed, ReviewedAt

LEMMA ForgetSound ==
    ASSUME LogInv, git' = git, excused.undone => excused'.undone, Forget(text')
    PROVE  RestInv'
<1>1. reviewed \subseteq reviewed' /\ AgentValues(text', Lines) \subseteq reviewed' /\ Dropped'
  BY DEF Forget, Dropped
<1>2. HeadReviewed'
  BY <1>1, StaysReviewed
<1>3. \A l \in Lines : text'[l].by = "agent" => <<l, text'[l].n>> \in reviewed'
  BY <1>1, SettledWillBeReviewed
<1>4. AllReviewed'
  BY <1>2, <1>3 DEF HeadReviewed, AllReviewed, ReviewedAt
<1> QED
  BY <1>1, <1>4, BeginsSound

LEMMA FreshSound ==
    ASSUME LogInv, LogTypes', git' = git, excused.undone => excused'.undone, text' = text,
           StartTracking(Fresh(text), {})
    PROVE  RestInv'
<1>1. /\ reviewed \subseteq reviewed' /\ AgentValues(text, Lines) \subseteq reviewed'
      /\ tracked' = Fresh(text') /\ queue' = <<>> /\ job' = NoJob /\ text' \in WrittenText'
  BY DEF StartTracking, LogTypes
<1>2. HeadReviewed'
  BY <1>1, StaysReviewed
<1>3. \A l \in Lines : text[l].by = "agent" => <<l, text[l].n>> \in reviewed'
  BY <1>1, SettledWillBeReviewed
<1>4. AllReviewed'
  BY <1>2, <1>3 DEF HeadReviewed, AllReviewed, ReviewedAt
<1> QED
  BY <1>1, <1>4, BegunFresh, BeginsSound

LEMMA ReportedAnew ==
    ASSUME LogInv, LogTypes', ~Tracks, git' = git, excused.undone => excused'.undone,
           NEW ls, BufferEdited(text', ls)
    PROVE  RestInv'
<1>1. /\ reviewed \subseteq reviewed' /\ AgentValues(text', Lines) \subseteq reviewed'
      /\ tracked' = Fresh(text') /\ queue' = <<<<"agent", text'>>>> /\ job' = NoJob
      /\ text' \in WrittenText'
  BY DEF BufferEdited, LogTypes
<1>2. HeadReviewed'
  BY <1>1, StaysReviewed
<1>3. \A l \in Lines : text'[l].by = "agent" => <<l, text'[l].n>> \in reviewed'
  BY <1>1, SettledWillBeReviewed
<1>4. AllReviewed'
  BY <1>2, <1>3 DEF HeadReviewed, AllReviewed, ReviewedAt
<1>5. Reported'
  BY <1>1 DEF Reported, Fresh, Untracked
<1> QED
  BY <1>4, <1>5, BeginsSound

(***************************************************************************)
(* Steps of the pipeline                                                   *)
(***************************************************************************)

\* The parts that do not depend on what an undo does, and those that do.
Basics == EndsWithText /\ WholeIsAgents /\ AtRestAgree /\ EditsCovered /\ BaseOfJob
Judged == Whose /\ BaseReviewed /\ OneRun /\ FinalSettles

LEMMA RestParts == RestInv <=> Basics /\ Judged
BY DEF RestInv, Basics, Judged

\* The fields that nearly all steps of the log leave alone.
DiffKept ==
    /\ tracked'.base = tracked.base /\ tracked'.snapshot = tracked.snapshot
    /\ tracked'.unreviewed = tracked.unreviewed /\ tracked'.shown = tracked.shown

LEMMA SameStages ==
    ASSUME queue' = queue, job' = job, tracked'.base = tracked.base,
           tracked'.snapshot = tracked.snapshot, tracked'.unreviewed = tracked.unreviewed
    PROVE  /\ Stages' = Stages /\ StageBase' = StageBase /\ StageEdits' = StageEdits
           /\ \A i : Stage(i)' = Stage(i)
           /\ Texts' = Texts
<1>1. Stages' = Stages /\ StageBase' = StageBase /\ StageEdits' = StageEdits
  BY DEF Stages, StageBase, StageEdits, Differing, Empty, Text, NoText
<1>2. \A i : Stage(i)' = Stage(i)
  BY DEF Stage
<1>3. Texts' = Texts
  BY <1>1, <1>2 DEF Texts, StageTexts
<1> QED
  BY <1>1, <1>2, <1>3

LEMMA SameBasics ==
    ASSUME Basics, DiffKept, text' = text, queue' = queue, job' = job,
           tracked'.status = tracked.status, agentLines' = agentLines,
           session' = session \/ session # "write"
    PROVE  Basics'
<1> USE SameStages DEF DiffKept
<1>1. Differing(tracked.base, tracked.snapshot)' = Differing(tracked.base, tracked.snapshot)
      /\ Differing(job.base, job.snapshot)' = Differing(job.base, job.snapshot)
  BY DEF Differing, Empty, Text, NoText
<1>2. EndsWithText' /\ WholeIsAgents'
  BY DEF Basics, EndsWithText, WholeIsAgents, Tracks
<1>3. AtRestAgree'
  BY <1>1 DEF Basics, AtRestAgree, Agree, Tracks, NoJob, Empty, Text, NoText
<1>4. EditsCovered'
  BY DEF Basics, EditsCovered, Delta
<1>5. BaseOfJob'
  BY DEF Basics, BaseOfJob, NoJob, Empty, Text, NoText
<1> QED
  BY <1>2, <1>3, <1>4, <1>5 DEF Basics

LEMMA SameWhose ==
    ASSUME Whose, DiffKept, queue' = queue, job' = job,
           tracked'.status = tracked.status, agentLines' = agentLines,
           excused'.undone = excused.undone
    PROVE  Whose'
<1> USE SameStages DEF DiffKept
<1>1. OnlyAgentLines => OnlyAgentLines'
  BY DEF OnlyAgentLines
<1>2. ASSUME Attributed PROVE Attributed'
  <2>1. Grounded(Texts)'
    BY <1>2 DEF Attributed, Grounded, Empty, Text, NoText
  <2>2. Delta(tracked.base, tracked.snapshot)' \subseteq agentLines'
        /\ Delta(StageBase, Stage(0))' \subseteq agentLines'
    BY <1>2 DEF Attributed, Delta
  <2>3. \A i \in 1 .. Len(queue') : queue'[i][1] = "agent" =>
            Delta(Stage(i - 1), Stage(i))' \subseteq agentLines'
    BY <1>2 DEF Attributed, Delta
  <2> QED
    BY <2>1, <2>2, <2>3 DEF Attributed
<1> QED
  BY <1>1, <1>2 DEF Whose, Tracks

LEMMA SameReviewed ==
    ASSUME BaseReviewed, DiffKept, queue' = queue, job' = job, text' = text,
           tracked'.status = tracked.status, reviewed \subseteq reviewed',
           excused'.undone = excused.undone, HeadReviewed'
    PROVE  BaseReviewed'
<1> USE SameStages DEF DiffKept
<1> QED
  BY DEF BaseReviewed, HeadReviewed, ReviewedAt, Tracks

LEMMA SameRun ==
    ASSUME OneRun, DiffKept, queue' = queue, job' = job, text' = text,
           tracked'.status = tracked.status, reviewed \subseteq reviewed',
           excused'.undone = excused.undone
    PROVE  OneRun'
<1> USE SameStages DEF DiffKept
<1> QED
  BY DEF OneRun, ReviewedAt, Tracks

LEMMA SameSettles ==
    ASSUME FinalSettles, DiffKept, queue' = queue, job' = job, text' = text,
           tracked'.status = tracked.status, tracked'.committed = tracked.committed,
           git' = git, reviewed' = reviewed, excused'.undone = excused.undone,
           excused.kept \subseteq excused'.kept, excused.back \subseteq excused'.back
    PROVE  FinalSettles'
<1> USE SameStages DEF DiffKept
<1>1. Tracks' = Tracks
  BY DEF Tracks
<1>2. ASSUME NEW l \in Lines PROVE
         /\ Final(l)' => Final(l)
         /\ Steady(l) => Steady(l)'
         /\ Returns(l) => Returns(l)'
         /\ AwaitsTask(l) => AwaitsTask(l)'
  <2>1. Final(l)' => Final(l)
    BY DEF Final, NoText
  <2>2. Steady(l) => Steady(l)'
    BY DEF Steady, Empty, Text, NoText
  <2>3. Returns(l) => Returns(l)'
    BY DEF Returns, NoText
  <2>4. AwaitsTask(l) => AwaitsTask(l)'
    BY DEF AwaitsTask
  <2> QED
    BY <2>1, <2>2, <2>3, <2>4
<1> QED
  BY <1>1, <1>2 DEF FinalSettles

(***************************************************************************)
(* One more change for the task                                            *)
(***************************************************************************)

\* The buffer says text' and the task will hear of it.
Hears(author) ==
    /\ LogTypes /\ LogTypes' /\ Tracks /\ tracked'.status # "none"
    /\ job' = job /\ queue' = Append(queue, <<author, text'>>)

LEMMA LongerQueue ==
    ASSUME NEW author, Hears(author)
    PROVE  /\ Len(queue) \in Nat /\ Len(queue') = Len(queue) + 1 /\ queue' # <<>>
           /\ \A i \in 1 .. Len(queue) : queue'[i] = queue[i]
           /\ queue'[Len(queue) + 1] = <<author, text'>>
           /\ 1 .. Len(queue') = 1 .. Len(queue) \cup {Len(queue) + 1}
           /\ Stages' = Stages \cup {Len(queue) + 1}
           /\ Tracks /\ Tracks'
<1>1. queue \in Seq(Entry) /\ Len(queue) \in Nat
  BY DEF Hears, LogTypes
<1>2. queue' = Append(queue, <<author, text'>>)
  BY DEF Hears
<1>3. /\ Len(queue') = Len(queue) + 1 /\ queue'[Len(queue) + 1] = <<author, text'>>
      /\ \A i \in 1 .. Len(queue) : queue'[i] = queue[i]
  BY <1>1, <1>2
<1>4. 0 .. (Len(queue) + 1) = 0 .. Len(queue) \cup {Len(queue) + 1}
      /\ 1 .. (Len(queue) + 1) = 1 .. Len(queue) \cup {Len(queue) + 1}
  BY <1>1
<1>5. queue' # <<>>
  BY <1>1, <1>3
<1> QED
  BY <1>1, <1>3, <1>4, <1>5 DEF Stages, Hears, Tracks

LEMMA LongerStages ==
    ASSUME NEW author, Hears(author), tracked'.snapshot = tracked.snapshot
    PROVE  /\ Len(queue) + 1 \notin Stages /\ Len(queue) \in Stages /\ 0 \in Stages
           /\ \A i \in Stages : i \in Int /\ i <= Len(queue) /\ 0 <= i
           /\ \A i \in Stages : Stage(i)' = Stage(i)
           /\ \A i \in Stages' \ Stages : Stage(i)' = text'
           /\ Stage(Len(queue))' = text'
           /\ Stage(0)' = Stage(0)
<1>1. Len(queue) \in Nat /\ job' = job
  BY LongerQueue DEF Hears
<1>2. \A i \in 1 .. Len(queue) : queue'[i] = queue[i]
  BY LongerQueue
<1>3. queue'[Len(queue) + 1][2] = text'
  BY LongerQueue
<1>4. ASSUME NEW i \in 0 .. Len(queue) PROVE Stage(i)' = Stage(i)
  <2>1. CASE i = 0
    BY <1>1, <2>1 DEF Stage, NoJob, Empty, Text, NoText
  <2>2. CASE i # 0
    <3>1. i \in 1 .. Len(queue)
      BY <1>1, <2>2
    <3> QED
      BY <1>2, <2>2, <3>1 DEF Stage
  <2> QED
    BY <2>1, <2>2
<1>5. ASSUME NEW i, i = Len(queue) + 1 PROVE Stage(i)' = text'
  BY <1>1, <1>3, <1>5 DEF Stage
<1>6. Stage(Len(queue))' = text'
  BY <1>1, <1>3, LongerQueue DEF Stage
<1>7. Stages' = Stages \cup {Len(queue) + 1} /\ Len(queue) + 1 \notin Stages
  BY <1>1, LongerQueue DEF Stages
<1>8. Stage(0)' = Stage(0)
  BY <1>1, <1>4
<1>9. \A i \in Stages' \ Stages : Stage(i)' = text'
  BY <1>5, <1>7
<1> QED
  BY <1>1, <1>4, <1>6, <1>7, <1>8, <1>9 DEF Stages

LEMMA SameBase ==
    ASSUME job' = job, tracked'.base = tracked.base, tracked'.unreviewed = tracked.unreviewed
    PROVE  StageBase' = StageBase /\ StageEdits' = StageEdits
BY DEF StageBase, StageEdits, NoJob, Differing, Empty, Text, NoText

LEMMA HeardBasics ==
    ASSUME NEW author, Hears(author), Basics, DiffKept, agentLines \subseteq agentLines',
           \/ tracked'.status = tracked.status
           \/ tracked.status = "deleted" /\ tracked'.status = "modified"
    PROVE  Basics'
<1> USE LongerQueue DEF DiffKept
<1>1. EndsWithText'
  BY LongerStages DEF EndsWithText
<1>2. WholeIsAgents'
  <2>1. agentLines' \subseteq Lines
    BY DEF Hears, LogTypes
  <2> QED
    BY <2>1 DEF WholeIsAgents, Basics
<1>3. AtRestAgree'
  <2>1. job' = job
    BY DEF Hears
  <2>2. Differing(job.base, job.snapshot)' = Differing(job.base, job.snapshot)
    BY <2>1 DEF Differing, Empty, Text, NoText
  <2> QED
    BY <2>1, <2>2 DEF AtRestAgree, Basics
<1>4. EditsCovered'
  BY DEF Basics, EditsCovered, Delta
<1>5. BaseOfJob'
  BY DEF Basics, BaseOfJob, Hears, NoJob, Empty, Text, NoText
<1> QED
  BY <1>1, <1>2, <1>3, <1>4, <1>5 DEF Basics

LEMMA HeardWhose ==
    ASSUME NEW author, Hears(author), EndsWithText, Whose, DiffKept, agentLines \subseteq agentLines',
           excused.undone => excused'.undone,
           author = "agent" => Delta(text, text') \subseteq agentLines',
           \/ agentLines' = Lines
           \/ \A l \in Lines : \/ text'[l] \in {text[l], tracked.base[l]}
                               \/ text'[l] # NoText /\ text # Empty
    PROVE  Whose'
<1> USE LongerQueue, LongerStages, SameBase DEF DiffKept
<1>1. SUFFICES ASSUME ~excused'.undone PROVE OnlyAgentLines' /\ (Tracks' /\ agentLines' # Lines => Attributed')
  BY DEF Whose
<1>2. OnlyAgentLines'
  BY <1>1 DEF Whose, OnlyAgentLines
<1>3. ASSUME agentLines' # Lines PROVE Attributed'
  <2>1. Attributed
    BY <1>1, <1>3 DEF Whose, Hears, LogTypes
  <2>2. job' = job /\ Stage(Len(queue)) = text
    BY DEF Hears, EndsWithText
  <2>3. Texts' = Texts \cup {text'}
    <3>1. StageTexts' = StageTexts \cup {text'}
      BY DEF StageTexts
    <3> QED
      BY <2>2, <3>1 DEF Texts
  <2>4. text \in Texts /\ tracked.base \in Texts
    BY <2>2 DEF Texts, StageTexts
  <2>5. Grounded(Texts)'
    <3>1. CASE \A t \in Texts : t = Empty
      <4>1. text = Empty /\ tracked.base = Empty
        BY <2>4, <3>1
      <4>2. \A l \in Lines : text'[l] = NoText
        BY <1>3, <4>1 DEF Empty, Text
      <4>3. text' = [l \in Lines |-> text'[l]]
        BY DEF Hears, LogTypes, WrittenText
      <4>4. text' = Empty
        BY <4>2, <4>3 DEF Empty, Text
      <4> QED
        BY <2>3, <3>1, <4>4 DEF Grounded, Empty, Text, NoText
    <3>2. ASSUME NEW l \in Lines, \A t \in Texts : t[l] # NoText PROVE Grounded(Texts)'
      <4>1. text'[l] # NoText
        BY <1>3, <2>4, <3>2
      <4> QED
        BY <2>3, <3>2, <4>1 DEF Grounded, NoText
    <3> QED
      BY <2>1, <3>1, <3>2 DEF Attributed, Grounded
  <2>6. Delta(tracked.base, tracked.snapshot)' \subseteq agentLines'
        /\ Delta(StageBase, Stage(0))' \subseteq agentLines'
    BY <2>1, <2>2 DEF Attributed, Delta
  <2>7. ASSUME NEW i \in 1 .. Len(queue'), queue'[i][1] = "agent"
        PROVE  Delta(Stage(i - 1), Stage(i))' \subseteq agentLines'
    <3>1. CASE i \in 1 .. Len(queue)
      <4>1. i \in Stages /\ i - 1 \in Stages
        BY <3>1 DEF Stages
      <4>2. Stage(i)' = Stage(i) /\ Stage(i - 1)' = Stage(i - 1) /\ queue[i][1] = "agent"
        BY <2>7, <3>1, <4>1
      <4> QED
        BY <2>1, <3>1, <4>2 DEF Attributed, Delta
    <3>2. CASE i = Len(queue) + 1
      <4>0. i - 1 = Len(queue) /\ i \in Stages' \ Stages /\ i - 1 \in Stages
        BY <3>2
      <4>1. Stage(i)' = text' /\ Stage(i - 1)' = text /\ author = "agent"
        BY <2>2, <2>7, <3>2, <4>0
      <4> QED
        BY <4>1 DEF Delta
    <3> QED
      BY <3>1, <3>2
  <2> QED
    BY <2>5, <2>6, <2>7 DEF Attributed
<1> QED
  BY <1>2, <1>3

LEMMA HeardReviewed ==
    ASSUME NEW author, Hears(author), EndsWithText, BaseReviewed, DiffKept,
           reviewed \subseteq reviewed', git' = git, excused.undone => excused'.undone,
           author = "user" /\ ~excused'.undone =>
              \A l \in Lines : text'[l] # text[l] => ReviewedAt(text, l)'
    PROVE  BaseReviewed'
<1> USE LongerQueue, LongerStages DEF DiffKept
<1>0. job' = job /\ Stage(Len(queue)) = text
  BY DEF Hears, EndsWithText
<1>1. StageBase' = StageBase
  BY <1>0, SameBase
<1>2. SUFFICES ASSUME NEW l \in Lines, ~excused'.undone
      PROVE  /\ ReviewedAt(git, l)' /\ ReviewedAt(tracked.base, l)' /\ ReviewedAt(StageBase, l)'
             /\ \A i \in 1 .. Len(queue') :
                   queue'[i][1] = "user" /\ Stage(i)'[l] # Stage(i - 1)'[l] => ReviewedAt(Stage(i), l)'
  BY DEF BaseReviewed
<1>3. ReviewedAt(git, l)' /\ ReviewedAt(tracked.base, l)' /\ ReviewedAt(StageBase, l)'
  BY <1>1, <1>2 DEF BaseReviewed, ReviewedAt
<1>4. ASSUME NEW i \in 1 .. Len(queue'), queue'[i][1] = "user", Stage(i)'[l] # Stage(i - 1)'[l]
      PROVE  ReviewedAt(Stage(i), l)'
  <2>1. CASE i \in 1 .. Len(queue)
    <3>1. i \in Stages /\ i - 1 \in Stages
      BY <2>1 DEF Stages
    <3>2. Stage(i)' = Stage(i) /\ Stage(i - 1)' = Stage(i - 1) /\ queue[i][1] = "user"
      BY <1>4, <2>1, <3>1
    <3>3. ReviewedAt(Stage(i), l)
      BY <1>2, <1>4, <2>1, <3>2 DEF BaseReviewed
    <3> QED
      BY <3>2, <3>3 DEF ReviewedAt
  <2>2. CASE i = Len(queue) + 1
    <3>1. i - 1 = Len(queue) /\ i \in Stages' \ Stages /\ i - 1 \in Stages
      BY <2>2
    <3>2. Stage(i)' = text' /\ Stage(i - 1)' = text /\ author = "user"
      BY <1>0, <1>4, <2>2, <3>1
    <3> QED
      BY <1>2, <1>4, <3>2 DEF ReviewedAt
  <2> QED
    BY <2>1, <2>2
<1> QED
  BY <1>3, <1>4

LEMMA HeardRun ==
    ASSUME NEW author, Hears(author), EndsWithText, OneRun, DiffKept,
           reviewed \subseteq reviewed', excused.undone => excused'.undone,
           \A l \in Lines : text'[l] # text[l] =>
              \/ excused'.undone \/ ReviewedAt(text, l)'
              \/ \A i \in Stages : Stage(i)[l] # text'[l]
    PROVE  OneRun'
<1> USE LongerQueue, LongerStages DEF DiffKept
<1>1. SUFFICES ASSUME NEW l \in Lines, ~excused'.undone, text'[l].by = "agent", ~ReviewedAt(text, l)',
                      NEW i \in Stages', NEW j \in Stages', i <= j, Stage(i)'[l] = text'[l]
      PROVE  Stage(j)'[l] = text'[l]
  BY DEF OneRun
<1>2. CASE j \notin Stages
  BY <1>2
<1>3. CASE j \in Stages
  <2>1. i \in Stages
    <3>1. j \in Int /\ j <= Len(queue) /\ Len(queue) \in Nat
      BY <1>3
    <3>2. i # Len(queue) + 1
      BY <1>1, <3>1
    <3> QED
      BY <1>1, <3>2
  <2>2. Stage(i)' = Stage(i) /\ Stage(j)' = Stage(j)
    BY <1>3, <2>1
  <2>3. text'[l] = text[l]
    BY <1>1, <2>1, <2>2
  <2>4. ~ReviewedAt(text, l) /\ text[l].by = "agent"
    BY <1>1, <2>3 DEF ReviewedAt
  <2> QED
    BY <1>1, <1>3, <2>1, <2>2, <2>3, <2>4 DEF OneRun
<1> QED
  BY <1>2, <1>3

\* A line that the new text leaves as it was, as far as it matters.
LEMMA HeardSteady ==
    ASSUME NEW author, Hears(author), EndsWithText, DiffKept, git' = git,
           tracked'.committed = tracked.committed,
           NEW l \in Lines, text'[l] = text[l], Steady(l) \/ Returns(l) \/ AwaitsTask(l)
    PROVE  Steady(l)' \/ Returns(l)' \/ AwaitsTask(l)'
<1> USE LongerQueue, LongerStages DEF DiffKept
<1>0. StageBase' = StageBase /\ StageEdits' = StageEdits
  BY SameBase DEF Hears
<1>1. ASSUME Steady(l) PROVE Steady(l)'
  BY <1>0, <1>1 DEF Steady, Empty, Text, NoText
<1>2. ASSUME Returns(l) PROVE Returns(l)'
  <2>1. PICK i \in 1 .. Len(queue) :
          /\ queue[i][1] = "user"
          /\ \A j \in Stages : Stage(j)[l] = IF j < i THEN Stage(0)[l] ELSE text[l]
          /\ Stage(0)[l] # NoText
          /\ StageBase[l] = text[l] \/ (StageBase[l] = Stage(0)[l] /\ l \notin StageEdits)
    BY <1>2 DEF Returns
  <2>2. i \in 1 .. Len(queue') /\ queue'[i][1] = "user"
    BY <2>1
  <2>3. ASSUME NEW j \in Stages'
        PROVE  Stage(j)'[l] = IF j < i THEN Stage(0)'[l] ELSE text'[l]
    <3>1. CASE j \in Stages
      BY <2>1, <3>1
    <3>2. CASE j \notin Stages
      <4>1. j = Len(queue) + 1 /\ ~(j < i)
        BY <3>2
      <4> QED
        BY <3>2, <4>1
    <3> QED
      BY <3>1, <3>2
  <2>4. Stage(0)'[l] # NoText
    BY <2>1
  <2>5. StageBase'[l] = text'[l] \/ (StageBase'[l] = Stage(0)'[l] /\ l \notin StageEdits')
    BY <1>0, <2>1
  <2> QED
    BY <2>2, <2>3, <2>4, <2>5 DEF Returns, NoText
<1>3. ASSUME AwaitsTask(l) PROVE AwaitsTask(l)'
  BY <1>3 DEF AwaitsTask
<1> QED
  BY <1>1, <1>2, <1>3

LEMMA HeardSettles ==
    ASSUME NEW author, Hears(author), EndsWithText, FinalSettles, DiffKept, git' = git,
           tracked'.committed = tracked.committed, reviewed' = reviewed,
           excused.kept \subseteq excused'.kept, excused.back \subseteq excused'.back,
           excused.undone => excused'.undone,
           \A l \in Lines : text'[l] # text[l] =>
              excused'.undone \/ ~Final(l)' \/ Steady(l)' \/ Returns(l)'
    PROVE  FinalSettles'
<1> SUFFICES ASSUME NEW l \in Lines, ~excused'.undone, Final(l)'
             PROVE  Steady(l)' \/ Returns(l)' \/ AwaitsTask(l)'
  BY DEF FinalSettles
<1>1. CASE text'[l] # text[l]
  BY <1>1
<1>2. CASE text'[l] = text[l]
  <2>1. Final(l)
    BY <1>2 DEF Final, NoText
  <2>2. Steady(l) \/ Returns(l) \/ AwaitsTask(l)
    BY <2>1, LongerQueue DEF FinalSettles
  <2> QED
    BY <1>2, <2>2, HeardSteady
<1> QED
  BY <1>1, <1>2

(***************************************************************************)
(* What the agent and the user do to the text                              *)
(***************************************************************************)

LEMMA SameSound ==
    ASSUME RestInv, DiffKept, text' = text, queue' = queue, job' = job,
           tracked'.status = tracked.status, tracked'.committed = tracked.committed,
           git' = git, agentLines' = agentLines, reviewed' = reviewed,
           excused'.undone = excused.undone,
           excused.kept \subseteq excused'.kept, excused.back \subseteq excused'.back,
           session' = session \/ session # "write"
    PROVE  RestInv'
<1>1. Basics /\ Judged
  BY RestParts
<1>2. Basics'
  BY <1>1, SameBasics
<1>3. HeadReviewed'
  BY <1>1 DEF Judged, BaseReviewed, HeadReviewed, ReviewedAt
<1>4. Whose' /\ BaseReviewed' /\ OneRun' /\ FinalSettles'
  BY <1>1, <1>3, SameWhose, SameReviewed, SameRun, SameSettles DEF Judged
<1> QED
  BY <1>2, <1>4 DEF RestInv, Basics

LEMMA HeardSound ==
    ASSUME NEW author, Hears(author), RestInv, DiffKept, git' = git,
           tracked'.committed = tracked.committed,
           \/ tracked'.status = tracked.status
           \/ tracked.status = "deleted" /\ tracked'.status = "modified",
           reviewed' = reviewed, agentLines \subseteq agentLines',
           \/ excused'.undone
           \/ excused.kept \subseteq excused'.kept /\ excused.back \subseteq excused'.back,
           excused.undone => excused'.undone,
           author = "agent" => Delta(text, text') \subseteq agentLines',
           \/ excused'.undone \/ agentLines' = Lines
           \/ \A l \in Lines : \/ text'[l] \in {text[l], tracked.base[l]}
                               \/ text'[l] # NoText /\ text # Empty,
           ~excused'.undone => \A l \in Lines : text'[l] # text[l] =>
              /\ author = "user" => ReviewedAt(text, l)'
              /\ ReviewedAt(text, l)' \/ \A i \in Stages : Stage(i)[l] # text'[l]
              /\ ~Final(l)' \/ Steady(l)' \/ Returns(l)'
    PROVE  RestInv'
<1>1. Basics /\ Judged /\ EndsWithText
  BY RestParts DEF RestInv
<1>2. Basics'
  BY <1>1, HeardBasics
<1>3. CASE ~excused'.undone
  <2>1. Whose'
    BY <1>1, <1>3, HeardWhose DEF Judged
  <2>2. BaseReviewed'
    BY <1>1, <1>3, HeardReviewed DEF Judged
  <2>3. OneRun'
    <3>1. \A l \in Lines : text'[l] # text[l] =>
              \/ excused'.undone \/ ReviewedAt(text, l)'
              \/ \A i \in Stages : Stage(i)[l] # text'[l]
      BY <1>3
    <3> QED
      BY <1>1, <3>1, HeardRun DEF Judged
  <2>4. FinalSettles'
    <3>1. \A l \in Lines : text'[l] # text[l] =>
              excused'.undone \/ ~Final(l)' \/ Steady(l)' \/ Returns(l)'
      BY <1>3
    <3>2. excused.kept \subseteq excused'.kept /\ excused.back \subseteq excused'.back
      BY <1>3
    <3> QED
      BY <1>1, <3>1, <3>2, HeardSettles DEF Judged
  <2> QED
    BY <1>2, <2>1, <2>2, <2>3, <2>4 DEF RestInv, Basics
<1>4. CASE excused'.undone
  <2>1. Judged'
    BY <1>4 DEF Judged, Whose, BaseReviewed, OneRun, FinalSettles
  <2> QED
    BY <1>2, <2>1 DEF RestInv, Basics, Judged
<1> QED
  BY <1>3, <1>4

\* A value that is about to be written stands nowhere.
LEMMA NewIsUnknown ==
    ASSUME LogTypes, NEW author \in {"agent", "user"}
    PROVE  /\ \A v \in Written : v # By(author)
           /\ By(author).by = author /\ By(author) # NoText
           /\ author = "agent" => \A l \in Lines : <<l, By(author).n>> \notin Settled
<1>1. count.agent \in Nat /\ count.user \in Nat
  BY DEF LogTypes
<1>2. By(author).by = author /\ By(author).n = count[author] + 1
  BY DEF By
<1>3. ASSUME NEW v \in Written, v.by = author PROVE v.n # By(author).n
  <2>1. CASE author = "agent"
    <3>1. v.n \in 1 .. count.agent
      BY <1>3, <2>1, AgentsNumber
    <3> QED
      BY <1>1, <1>2, <2>1, <3>1
  <2>2. CASE author = "user"
    <3>1. v.n \in 1 .. count.user
      BY <1>3, <2>2, UsersNumber
    <3> QED
      BY <1>1, <1>2, <2>2, <3>1
  <2> QED
    BY <2>1, <2>2
<1>4. By(author) # NoText
  BY <1>2 DEF NoText
<1>5. author = "agent" => \A l \in Lines : <<l, By(author).n>> \notin Settled
  BY <1>1, <1>2 DEF Settled
<1> QED
  BY <1>2, <1>3, <1>4, <1>5

\* Nowhere in the texts, the head or what was reviewed.
LEMMA NewIsNotFinal ==
    ASSUME LogTypes, NEW author \in {"agent", "user"}, NEW l \in Lines,
           text'[l] = By(author), git' = git, reviewed' = reviewed
    PROVE  ~Final(l)' /\ \A i \in Stages : Stage(i)[l] # text'[l]
<1>1. git[l] \in Written /\ \A i \in Stages : Stage(i)[l] \in Written
  BY StageTyped DEF LogTypes, WrittenText
<1>2. git[l] # text'[l] /\ \A i \in Stages : Stage(i)[l] # text'[l]
  BY <1>1, NewIsUnknown
<1>3. ~(text'[l].by = "agent" /\ <<l, text'[l].n>> \in reviewed)
  BY NewIsUnknown DEF LogTypes
<1>4. ~Final(l)'
  BY <1>2, <1>3 DEF Final
<1> QED
  BY <1>2, <1>4

LEMMA AgentHeard ==
    ASSUME LogTypes, LogTypes', Tracks, NEW ls, BufferEdited(text', ls)
    PROVE  /\ Hears("agent") /\ DiffKept /\ reviewed' = reviewed
           /\ agentLines' = agentLines \cup ls
           /\ tracked'.committed = tracked.committed
           /\ \/ tracked'.status = tracked.status
              \/ tracked.status = "deleted" /\ tracked'.status = "modified"
<1>1. tracked' = [tracked EXCEPT !.current = TRUE,
                     !.status = IF @ = "deleted" THEN "modified" ELSE @]
  BY DEF BufferEdited
<1>2. tracked \in TrackedType
  BY DEF LogTypes
<1>3. DiffKept /\ tracked'.committed = tracked.committed
      /\ tracked'.status = IF tracked.status = "deleted" THEN "modified" ELSE tracked.status
  BY <1>1, <1>2 DEF DiffKept, TrackedType
<1> QED
  BY <1>3 DEF BufferEdited, Schedule, Hears, Tracks

LEMMA AgentEditSound ==
    ASSUME LogInv, LogTypes', NEW ls \in SUBSET Lines, AgentEdit(ls)
    PROVE  RestInv'
<1>1. /\ text' = Patched(text, ls, Text(By("agent"))) /\ BufferEdited(text', ls)
      /\ UNCHANGED <<excused, git>>
      /\ text # Empty \/ ls = Lines
  BY DEF AgentEdit
<1>2. LogTypes /\ RestInv
  BY InvParts
<1>3. CASE ~Tracks
  BY <1>1, <1>3, ReportedAnew
<1>4. CASE Tracks
  <2>1. /\ Hears("agent") /\ DiffKept /\ reviewed' = reviewed /\ agentLines' = agentLines \cup ls
        /\ tracked'.committed = tracked.committed
        /\ \/ tracked'.status = tracked.status
           \/ tracked.status = "deleted" /\ tracked'.status = "modified"
    BY <1>1, <1>2, <1>4, AgentHeard
  <2>2. \A l \in Lines : text'[l] = IF l \in ls THEN By("agent") ELSE text[l]
    BY <1>1 DEF Patched, Text
  <2>3. Delta(text, text') \subseteq agentLines'
    BY <2>1, <2>2 DEF Delta
  <2>4. agentLines' = Lines \/ \A l \in Lines : text'[l] = text[l] \/ (text'[l] # NoText /\ text # Empty)
    BY <1>1, <1>2, <2>1, <2>2, NewIsUnknown DEF LogTypes
  <2>5. ASSUME NEW l \in Lines, text'[l] # text[l]
        PROVE  ~Final(l)' /\ \A i \in Stages : Stage(i)[l] # text'[l]
    BY <1>1, <1>2, <2>1, <2>2, <2>5, NewIsNotFinal
  <2> QED
    BY <1>1, <1>2, <2>1, <2>3, <2>4, <2>5, HeardSound
<1> QED
  BY <1>3, <1>4

LEMMA CloseSessionSound ==
    ASSUME LogInv, LogTypes', CloseSession
    PROVE  RestInv'
<1>1. BufferEdited(text', {}) /\ UNCHANGED <<text, excused, git>>
  BY DEF CloseSession
<1>2. LogTypes /\ RestInv
  BY InvParts
<1>3. CASE ~Tracks
  BY <1>1, <1>3, ReportedAnew
<1>4. CASE Tracks
  <2>1. /\ Hears("agent") /\ DiffKept /\ reviewed' = reviewed /\ agentLines' = agentLines \cup {}
        /\ tracked'.committed = tracked.committed
        /\ \/ tracked'.status = tracked.status
           \/ tracked.status = "deleted" /\ tracked'.status = "modified"
    BY <1>1, <1>2, <1>4, AgentHeard
  <2>2. Delta(text, text') \subseteq agentLines'
    BY <1>1 DEF Delta
  <2> QED
    BY <1>1, <1>2, <2>1, <2>2, HeardSound
<1> QED
  BY <1>3, <1>4

LEMMA EventHeard ==
    ASSUME LogTypes, LogTypes', EditedEvent(text'), job' = job
    PROVE  IF Tracks /\ text' # text
           THEN /\ Hears("user") /\ DiffKept
                /\ tracked'.committed = tracked.committed /\ tracked'.status = tracked.status
           ELSE UNCHANGED <<queue, tracked>>
<1>1. CASE Tracks /\ text' # text
  <2>1. tracked' = [tracked EXCEPT !.current = FALSE] /\ queue' = Append(queue, <<"user", text'>>)
    BY <1>1 DEF EditedEvent, Schedule
  <2>2. tracked \in TrackedType
    BY DEF LogTypes
  <2>3. DiffKept /\ tracked'.committed = tracked.committed /\ tracked'.status = tracked.status
    BY <2>1, <2>2 DEF DiffKept, TrackedType
  <2> QED
    BY <1>1, <2>1, <2>3 DEF Hears, Tracks
<1>2. CASE ~(Tracks /\ text' # text)
  BY <1>2 DEF EditedEvent
<1> QED
  BY <1>1, <1>2

LEMMA UserEditSound ==
    ASSUME LogInv, LogTypes', NEW k \in Lines, UserEdit(k)
    PROVE  RestInv'
<1>1. /\ text' = [text EXCEPT ![k] = By("user")] /\ EditedEvent(text') /\ text[k] # NoText
      /\ UNCHANGED <<job, excused, git, agentLines, reviewed>>
  BY DEF UserEdit, historyVars
<1>2. LogTypes /\ RestInv
  BY InvParts
<1>3. \A l \in Lines : text'[l] = IF l = k THEN By("user") ELSE text[l]
  BY <1>1, <1>2 DEF LogTypes, WrittenText
<1>4. By("user") # NoText /\ By("user").by = "user"
  BY <1>2, NewIsUnknown
<1>5. \A l \in Lines : text'[l] = text[l] \/ text'[l].by = "user"
  BY <1>3, <1>4
<1>6. CASE Tracks /\ text' # text
  <2>1. /\ Hears("user") /\ DiffKept
        /\ tracked'.committed = tracked.committed /\ tracked'.status = tracked.status
    BY <1>1, <1>2, <1>6, EventHeard
  <2>2. \A l \in Lines : text'[l] = text[l] \/ (text'[l] # NoText /\ text # Empty)
    BY <1>1, <1>3, <1>4 DEF Empty, Text
  <2>3. ASSUME NEW l \in Lines, text'[l] # text[l]
        PROVE  ~Final(l)' /\ ReviewedAt(text, l)'
    <3>1. text'[l] = By("user") /\ text'[l].by = "user"
      BY <1>3, <1>4, <2>3
    <3>2. ReviewedAt(text, l)'
      BY <3>1 DEF ReviewedAt
    <3> QED
      BY <1>1, <1>2, <3>1, <3>2, NewIsNotFinal
  <2> QED
    BY <1>1, <1>2, <2>1, <2>2, <2>3, HeardSound
<1>7. CASE Tracks /\ text' = text
  <2>1. UNCHANGED <<queue, tracked>>
    BY <1>1, <1>2, <1>7, EventHeard
  <2>2. session' = session
    BY DEF UserEdit
  <2> QED
    BY <1>1, <1>2, <1>7, <2>1, <2>2, SameSound DEF DiffKept
<1>8. CASE ~Tracks
  <2>1. UNCHANGED <<queue, tracked>>
    BY <1>1, <1>2, <1>8, EventHeard
  <2>2. Dropped'
    BY <1>1, <1>2, <1>8, <2>1 DEF LogTypes, Dropped, NoJob, Untracked, Empty, Absent, Text, NoText
  <2>3. ~excused.undone => \A l \in Lines : ReviewedAt(git, l) /\ ReviewedAt(text, l)
    BY <1>2, <1>8 DEF RestInv, BaseReviewed
  <2>4. ASSUME ~excused.undone, NEW l \in Lines
        PROVE  ReviewedAt(git, l)' /\ ReviewedAt(text, l)'
    <3>1. ReviewedAt(git, l) /\ ReviewedAt(text, l)
      BY <2>3, <2>4
    <3>2. text'[l] = text[l] \/ text'[l].by = "user"
      BY <1>5
    <3> QED
      BY <1>1, <3>1, <3>2 DEF ReviewedAt
  <2>5. AllReviewed'
    BY <1>1, <2>4 DEF AllReviewed
  <2> QED
    BY <2>2, <2>5, BeginsSound
<1> QED
  BY <1>6, <1>7, <1>8

LEMMA StagesAhead ==
    ASSUME LogTypes, NEW i \in Stages
    PROVE  Stage(i) \in Ahead
<1>1. DOMAIN queue = 1 .. Len(queue) /\ Len(queue) \in Nat
  BY DEF LogTypes
<1>2. CASE i = 0
  BY <1>2 DEF Stage, Ahead
<1>3. CASE i # 0
  <2>1. i \in DOMAIN queue
    BY <1>1, <1>3 DEF Stages
  <2> QED
    BY <1>3, <2>1 DEF Stage, Ahead
<1> QED
  BY <1>2, <1>3

\* What a reject puts back of a line that stands as all stages have it.
LEMMA PutBackReturns ==
    ASSUME LogInv, Hears("user"), DiffKept, NEW ls, NEW l \in Hunks(ls),
           ~excused.undone, excused' = [excused EXCEPT !.back = @ \cup PutBack(ls)],
           text'[l] = tracked.base[l], text'[l] # text[l], Final(l)'
    PROVE  Returns(l)'
<1>1. LogTypes /\ RestInv
  BY InvParts
<1>2. l \in Lines /\ l \in tracked.unreviewed /\ excused'.back = excused.back \cup PutBack(ls)
  BY <1>1, HunksWithin DEF LogTypes, TrackedType
<1>3. <<l, tracked.base[l]>> \notin PutBack(ls)
  BY <1>2 DEF Final
<1>4. text[l] # NoText /\ \A t \in Ahead : t[l] = text[l]
  <2>1. tracked.base[l] \notin {text[l], NoText}
    BY DEF Final, NoText
  <2> QED
    BY <1>2, <1>3, <2>1 DEF PutBack
<1>5. \A i \in Stages : Stage(i)[l] = text[l]
  BY <1>1, <1>4, StagesAhead
<1> USE LongerQueue, LongerStages DEF DiffKept
<1>6. StageBase' = StageBase /\ StageEdits' = StageEdits /\ Len(queue) \in Nat
  BY SameBase DEF Hears
<1>7. StageBase[l] = tracked.base[l] \/ (StageBase[l] = Stage(0)[l] /\ l \notin StageEdits)
  <2>1. CASE job = NoJob
    BY <2>1 DEF StageBase
  <2>2. CASE job # NoJob
    <3>1. StageBase = job.base /\ Stage(0) = job.snapshot /\ StageEdits = Differing(job.base, job.snapshot)
      BY <2>2 DEF StageBase, Stage, StageEdits
    <3>2. job.base[l] = tracked.base[l] \/ job.base[l] = job.snapshot[l]
      BY <1>1, <1>2, <2>2 DEF RestInv, BaseOfJob
    <3>3. CASE job.base[l] = job.snapshot[l]
      <4>1. job.snapshot[l] # NoText
        BY <1>4, <1>5, <3>1
      <4>2. job.base # Empty /\ job.snapshot # Empty
        BY <1>2, <3>3, <4>1 DEF Empty, Text
      <4> QED
        BY <3>1, <3>3, <4>2 DEF Differing
    <3> QED
      BY <3>1, <3>2, <3>3
  <2> QED
    BY <2>1, <2>2
<1>8. \E i \in 1 .. Len(queue') :
         /\ queue'[i][1] = "user"
         /\ \A j \in Stages' : Stage(j)'[l] = IF j < i THEN Stage(0)'[l] ELSE text'[l]
  <2>1. ASSUME NEW j \in Stages'
        PROVE  Stage(j)'[l] = IF j < Len(queue) + 1 THEN Stage(0)'[l] ELSE text'[l]
    <3>1. CASE j \in Stages
      <4>1. j < Len(queue) + 1
        BY <1>6, <3>1
      <4> QED
        BY <1>5, <3>1, <4>1
    <3>2. CASE j \notin Stages
      <4>1. j = Len(queue) + 1 /\ ~(j < Len(queue) + 1)
        BY <1>6, <3>2
      <4> QED
        BY <3>2, <4>1
    <3> QED
      BY <3>1, <3>2
  <2>2. Len(queue) + 1 \in 1 .. Len(queue') /\ queue'[Len(queue) + 1][1] = "user"
    BY <1>6
  <2> QED
    BY <2>1, <2>2
<1>9. Stage(0)'[l] # NoText
  BY <1>4, <1>5
<1>10. StageBase'[l] = text'[l] \/ (StageBase'[l] = Stage(0)'[l] /\ l \notin StageEdits')
  BY <1>6, <1>7
<1> QED
  BY <1>8, <1>9, <1>10 DEF Returns, NoText

LEMMA RejectModifiedSound ==
    ASSUME LogInv, LogTypes', NEW ls, RejectModified(ls), UNCHANGED <<session, git>>
    PROVE  RestInv'
<1>1. /\ text' = Patched(text, Hunks(ls), tracked.base) /\ EditedEvent(text')
      /\ UNCHANGED <<job, agentLines, reviewed>> /\ Tracks
      /\ excused' = IF excused.undone THEN excused
                    ELSE [excused EXCEPT !.back = @ \cup PutBack(ls)]
  BY DEF RejectModified, historyVars, Tracks
<1>2. LogTypes /\ RestInv
  BY InvParts
<1>3. \A l \in Lines : text'[l] = IF l \in Hunks(ls) THEN tracked.base[l] ELSE text[l]
  BY <1>1 DEF Patched
<1>4. excused'.undone = excused.undone /\ excused'.kept = excused.kept
      /\ excused.back \subseteq excused'.back
  BY <1>1, <1>2 DEF LogTypes
<1>5. CASE text' = text
  <2>1. UNCHANGED <<queue, tracked>>
    BY <1>1, <1>2, <1>5, EventHeard
  <2> QED
    BY <1>1, <1>2, <1>4, <1>5, <2>1, SameSound DEF DiffKept
<1>6. CASE text' # text
  <2>1. /\ Hears("user") /\ DiffKept
        /\ tracked'.committed = tracked.committed /\ tracked'.status = tracked.status
    BY <1>1, <1>2, <1>6, EventHeard
  <2>2. ASSUME ~excused'.undone, NEW l \in Lines, text'[l] # text[l]
        PROVE  ReviewedAt(text, l)' /\ (~Final(l)' \/ Returns(l)')
    <3>1. l \in Hunks(ls) /\ text'[l] = tracked.base[l]
      BY <1>3, <2>2
    <3>2. ReviewedAt(tracked.base, l)
      BY <1>2, <1>4, <2>2 DEF RestInv, BaseReviewed
    <3>3. ReviewedAt(text, l)'
      BY <1>1, <3>1, <3>2 DEF ReviewedAt
    <3>4. ~Final(l)' \/ Returns(l)'
      BY <1>1, <1>4, <2>1, <2>2, <3>1, PutBackReturns
    <3> QED
      BY <3>3, <3>4
  <2>3. \A l \in Lines : text'[l] \in {text[l], tracked.base[l]}
    BY <1>3
  <2> QED
    BY <1>1, <1>2, <1>4, <2>1, <2>2, <2>3, HeardSound
<1> QED
  BY <1>5, <1>6

LEMMA RejectSound ==
    ASSUME LogInv, LogTypes', AnyReject
    PROVE  RestInv'
<1>1. PICK ls \in SUBSET Lines : RejectEdits(ls)
  BY RejectCases DEF LogInv
<1>2. UNCHANGED <<session, git>>
  BY RejectCases DEF LogInv
<1>3. CASE RejectCreated
  BY <1>2, <1>3, ForgetSound DEF RejectCreated
<1>4. CASE RejectDeleted
  <2>1. /\ text' = tracked.base /\ tracked' = Fresh(text') /\ queue' = <<>> /\ job' = NoJob
        /\ UNCHANGED <<reviewed, excused>>
    BY <1>4 DEF RejectDeleted
  <2>2. Begun'
    BY <2>1, BegunFresh DEF LogTypes
  <2>3. ~excused.undone => \A l \in Lines : ReviewedAt(git, l) /\ ReviewedAt(tracked.base, l)
    BY DEF LogInv, BaseReviewed
  <2>4. AllReviewed'
    BY <1>2, <2>1, <2>3 DEF AllReviewed, ReviewedAt
  <2> QED
    BY <2>2, <2>4, BeginsSound
<1>5. CASE RejectModified(ls)
  BY <1>2, <1>5, RejectModifiedSound
<1> QED
  BY <1>1, <1>3, <1>4, <1>5 DEF RejectEdits

LEMMA UndoRejectSound ==
    ASSUME LogInv, LogTypes', UndoReject
    PROVE  RestInv'
<1>1. /\ excused' = [kept |-> {}, back |-> {}, undone |-> TRUE]
      /\ UNCHANGED <<session, git>>
      /\ IF Tracks THEN EditedEvent(text') /\ UNCHANGED <<job, agentLines, reviewed>>
         ELSE BufferEdited(text', {})
  BY DEF UndoReject, historyVars
<1>2. LogTypes /\ RestInv
  BY InvParts
<1>3. excused'.undone
  BY <1>1
<1>4. CASE ~Tracks
  BY <1>1, <1>3, <1>4, ReportedAnew
<1>5. CASE Tracks /\ text' = text
  <2>1. UNCHANGED <<queue, tracked>>
    BY <1>1, <1>2, <1>5, EventHeard
  <2>2. Basics
    BY <1>2 DEF RestInv, Basics
  <2>3. Basics'
    BY <1>1, <1>5, <2>1, <2>2, SameBasics DEF DiffKept
  <2> QED
    BY <1>3, <2>3 DEF Basics, RestInv, Whose, BaseReviewed, OneRun, FinalSettles
<1>6. CASE Tracks /\ text' # text
  <2>1. /\ Hears("user") /\ DiffKept
        /\ tracked'.committed = tracked.committed /\ tracked'.status = tracked.status
    BY <1>1, <1>2, <1>6, EventHeard
  <2> QED
    BY <1>1, <1>2, <1>3, <1>6, <2>1, HeardSound
<1> QED
  BY <1>4, <1>5, <1>6

LEMMA OpenSound ==
    ASSUME LogInv, LogTypes', OpenToEdit \/ OpenToWrite
    PROVE  RestInv'
<1>1. UNCHANGED <<text, excused, git>> /\ session = "none"
  BY DEF OpenToEdit, OpenToWrite, Open, fileVars
<1>2. LogTypes /\ RestInv
  BY InvParts
<1>3. CASE OpenToEdit /\ Tracks
  <2>1. tracked' = [tracked EXCEPT !.current = TRUE] /\ UNCHANGED <<queue, job, agentLines, reviewed>>
    BY <1>3 DEF OpenToEdit, TrackRead, historyVars
  <2>2. DiffKept /\ tracked'.status = tracked.status /\ tracked'.committed = tracked.committed
    BY <1>2, <2>1 DEF LogTypes, TrackedType, DiffKept
  <2> QED
    BY <1>1, <1>2, <2>1, <2>2, SameSound
<1>4. CASE OpenToEdit /\ ~Tracks
  BY <1>1, <1>4, FreshSound DEF OpenToEdit, TrackRead
<1>5. CASE OpenToWrite
  <2>1. /\ tracked' = Created(text) /\ queue' = <<>> /\ job' = NoJob /\ agentLines' = Lines
        /\ reviewed \subseteq reviewed' /\ session' = "write"
    BY <1>5 DEF OpenToWrite, Open, StartTracking
  <2>2. HeadReviewed'
    BY <1>1, <2>1, StaysReviewed
  <2>3. /\ tracked'.base = Empty /\ tracked'.snapshot = text /\ tracked'.unreviewed = Lines
        /\ tracked'.shown = {} /\ tracked'.status = "created"
    BY <2>1 DEF Created, Untracked
  <2>4. Filling'
    BY <1>1, <2>1, <2>3 DEF Filling, Tracks, NoJob, Empty, Text, NoText
  <2> QED
    BY <2>2, <2>4, BeginsSound
<1> QED
  BY <1>3, <1>4, <1>5

LEMMA GoneSound ==
    ASSUME LogInv, LogTypes', FileGone, UNCHANGED <<text, git, excused>>,
           session' = session \/ session # "write"
    PROVE  RestInv'
<1>1. CASE tracked.status \in {"created", "modified"}
  BY <1>1, ForgetSound DEF FileGone
<1>2. CASE tracked.status \notin {"created", "modified"}
  <2>1. UNCHANGED <<tracked, queue, job, agentLines, reviewed>>
    BY <1>2 DEF FileGone, logVars, historyVars
  <2> QED
    BY <2>1, InvParts, SameSound DEF DiffKept
<1> QED
  BY <1>1, <1>2

LEMMA DiskSound ==
    ASSUME LogInv, LogTypes', DeleteFile \/ CancelDelete \/ FileDeleted \/ FileRestored
    PROVE  RestInv'
<1>1. UNCHANGED <<text, git, excused>> /\ (session' = session \/ session = "delete")
  BY DEF DeleteFile, CancelDelete, FileDeleted, FileRestored, fileVars
<1>2. CASE DeleteFile \/ FileDeleted
  BY <1>1, <1>2, GoneSound DEF DeleteFile, FileDeleted
<1>3. CASE FileRestored /\ tracked.status = "deleted"
  BY <1>1, <1>3, FreshSound DEF FileRestored
<1>4. CASE CancelDelete \/ (FileRestored /\ tracked.status # "deleted")
  <2>1. UNCHANGED <<tracked, queue, job, agentLines, reviewed>>
    BY <1>4 DEF CancelDelete, FileRestored, logVars, historyVars
  <2> QED
    BY <1>1, <2>1, InvParts, SameSound DEF DiffKept
<1> QED
  BY <1>2, <1>3, <1>4

LEMMA CommitSound ==
    ASSUME LogInv, LogTypes', NEW ls \in SUBSET Lines, Commit(ls)
    PROVE  RestInv'
<1>1. /\ git' = Patched(git, ls, text)
      /\ tracked' = [tracked EXCEPT !.committed = Tracks]
      /\ reviewed' = reviewed \cup AgentValues(text, ls)
      /\ UNCHANGED <<text, session, queue, job, excused, agentLines>>
  BY DEF Commit, fileVars
<1>2. LogTypes /\ RestInv /\ Basics /\ Judged
  BY InvParts, RestParts
<1>3. DiffKept /\ tracked'.status = tracked.status /\ tracked'.committed = Tracks
  BY <1>1, <1>2 DEF LogTypes, TrackedType, DiffKept
<1>4. \A l \in Lines : git'[l] = IF l \in ls THEN text[l] ELSE git[l]
  BY <1>1 DEF Patched
<1>5. HeadReviewed'
  <2>1. ASSUME ~excused.undone, NEW l \in Lines PROVE ReviewedAt(git, l)'
    <3>1. CASE l \in ls
      <4>1. text[l].by = "agent" => <<l, text[l].n>> \in reviewed'
        BY <1>1, <3>1, SettledWillBeReviewed
      <4> QED
        BY <1>4, <3>1, <4>1 DEF ReviewedAt
    <3>2. CASE l \notin ls
      <4>1. ReviewedAt(git, l)
        BY <1>2, <2>1 DEF Judged, BaseReviewed
      <4> QED
        BY <1>1, <1>4, <3>2, <4>1 DEF ReviewedAt
    <3> QED
      BY <3>1, <3>2
  <2> QED
    BY <1>1, <2>1 DEF HeadReviewed
<1>6. Basics'
  BY <1>1, <1>2, <1>3, SameBasics
<1>7. Whose' /\ BaseReviewed' /\ OneRun'
  BY <1>1, <1>2, <1>3, <1>5, SameWhose, SameReviewed, SameRun DEF Judged
<1>8. FinalSettles'
  <2>1. SUFFICES ASSUME NEW l \in Lines, Tracks, ~excused.undone, Final(l)'
                 PROVE  Steady(l)' \/ Returns(l)' \/ AwaitsTask(l)'
    BY <1>1, <1>3 DEF FinalSettles, Tracks
  <2>2. CASE git'[l] = text'[l]
    BY <1>3, <2>1, <2>2 DEF AwaitsTask
  <2>3. CASE git'[l] # text'[l]
    <3>1. l \notin ls /\ git'[l] = git[l]
      BY <1>1, <1>4, <2>3
    <3>2. <<l, text[l].n>> \notin AgentValues(text, ls)
      BY <3>1 DEF AgentValues
    <3>3. Final(l) /\ ~AwaitsTask(l)
      BY <1>1, <2>1, <2>3, <3>1, <3>2 DEF Final, AwaitsTask, NoText
    <3>4. Steady(l) \/ Returns(l)
      BY <1>2, <2>1, <3>3 DEF Judged, FinalSettles
    <3>5. /\ Stages' = Stages /\ StageBase' = StageBase /\ StageEdits' = StageEdits
          /\ \A i : Stage(i)' = Stage(i)
      BY <1>1, <1>3, SameStages DEF DiffKept
    <3>6. ASSUME Steady(l) PROVE Steady(l)'
      BY <1>1, <3>5, <3>6 DEF Steady, Empty, Text, NoText
    <3>7. ASSUME Returns(l) PROVE Returns(l)'
      BY <1>1, <3>5, <3>7 DEF Returns, NoText
    <3> QED
      BY <3>4, <3>6, <3>7
  <2> QED
    BY <2>2, <2>3
<1> QED
  BY <1>6, <1>7, <1>8 DEF RestInv, Basics

(***************************************************************************)
(* What the user keeps                                                     *)
(***************************************************************************)

\* The whole text is kept, or lines left to review; all of them where base or
\* snapshot says nothing.
KeptLines(ls) ==
    /\ ls \in SUBSET Lines
    /\ ls = Lines \/ ls \subseteq tracked.unreviewed
    /\ Empty \in {tracked.base, tracked.snapshot} =>
          ls = Lines \/ tracked.unreviewed \subseteq ls \/ ls = {}

LEMMA KeepTexts ==
    ASSUME LogTypes, LogTypes', Tracks, NEW ls \in SUBSET Lines, KeepLines(ls),
           text' = text, EndsWithText
    PROVE  /\ Hears("user")
           /\ tracked'.snapshot = tracked.snapshot /\ tracked'.shown = tracked.shown
           /\ tracked'.unreviewed = tracked.unreviewed \ ls
           /\ tracked'.committed = tracked.committed
           /\ tracked'.status \in {tracked.status, "modified"}
           /\ tracked'.base \in WrittenText
           /\ \A l \in Lines : tracked'.base[l] =
                 IF l \in ls THEN tracked.snapshot[l] ELSE tracked.base[l]
           /\ StageEdits' = (IF job = NoJob THEN tracked.unreviewed \ ls ELSE StageEdits)
           /\ StageBase' = (IF job = NoJob THEN tracked'.base ELSE StageBase)
           /\ \A i \in Stages : Stage(i)' = Stage(i)
           /\ \A i \in Stages' \ Stages : Stage(i)' = text
           /\ Stage(Len(queue)) = text
<1>1. /\ tracked' = [tracked EXCEPT
            !.base = Patched(@, ls, tracked.snapshot),
            !.unreviewed = @ \ ls,
            !.status = IF tracked.unreviewed \subseteq ls THEN "modified" ELSE @]
      /\ queue' = Append(queue, <<"user", text>>)
      /\ UNCHANGED <<job, agentLines>>
  BY DEF KeepLines
<1>2. tracked \in TrackedType /\ tracked.base \in WrittenText /\ tracked.snapshot \in WrittenText
  BY DEF LogTypes, TrackedType
<1>3. Patched(tracked.base, ls, tracked.snapshot) \in WrittenText
  BY <1>2, PatchedNow
<1>4. /\ tracked'.snapshot = tracked.snapshot /\ tracked'.shown = tracked.shown
      /\ tracked'.unreviewed = tracked.unreviewed \ ls
      /\ tracked'.committed = tracked.committed
      /\ tracked'.status \in {tracked.status, "modified"}
      /\ tracked'.base = Patched(tracked.base, ls, tracked.snapshot)
  BY <1>1, <1>2 DEF TrackedType
<1>5. \A l \in Lines : tracked'.base[l] = IF l \in ls THEN tracked.snapshot[l] ELSE tracked.base[l]
  BY <1>4 DEF Patched
<1>6. Hears("user")
  BY <1>1, <1>4 DEF Hears, Tracks
<1>7. /\ \A i \in Stages : Stage(i)' = Stage(i)
      /\ \A i \in Stages' \ Stages : Stage(i)' = text
  BY <1>4, <1>6, LongerStages
<1>8. /\ StageEdits' = (IF job = NoJob THEN tracked.unreviewed \ ls ELSE StageEdits)
      /\ StageBase' = (IF job = NoJob THEN tracked'.base ELSE StageBase)
  BY <1>1, <1>4 DEF StageBase, StageEdits, NoJob, Differing, Empty, Text, NoText
<1> QED
  BY <1>3, <1>4, <1>5, <1>6, <1>7, <1>8 DEF EndsWithText

LEMMA KeepBasics ==
    ASSUME LogInv, LogTypes', Tracks, NEW ls \in SUBSET Lines, KeepLines(ls), text' = text
    PROVE  Basics'
<1>1. LogTypes /\ EndsWithText /\ Basics
  BY SMTT(30) DEF LogInv, Basics
<1> USE <1>1, KeepTexts, LongerQueue
<1>2. job' = job /\ agentLines' = agentLines
  BY DEF KeepLines
<1>3. EndsWithText'
  BY LongerStages DEF EndsWithText
<1>4. WholeIsAgents'
  BY <1>2 DEF WholeIsAgents, Basics
<1>5. AtRestAgree'
  <2>1. Differing(job.base, job.snapshot)' = Differing(job.base, job.snapshot)
    BY <1>2 DEF Differing, Empty, Text, NoText
  <2> QED
    BY <1>2, <2>1 DEF AtRestAgree, Basics
<1>6. EditsCovered'
  BY DEF Basics, EditsCovered, Delta
<1>7. BaseOfJob'
  <2>1. tracked.unreviewed \subseteq Lines
    BY DEF LogTypes, TrackedType
  <2> QED
    BY <1>2, <2>1 DEF Basics, BaseOfJob, NoJob, Empty, Text, NoText
<1> QED
  BY <1>3, <1>4, <1>5, <1>6, <1>7 DEF Basics

LEMMA KeepWhose ==
    ASSUME LogInv, LogTypes', Tracks, NEW ls \in SUBSET Lines, KeepLines(ls), text' = text,
           excused'.undone = excused.undone
    PROVE  Whose'
<1>1. LogTypes /\ EndsWithText /\ Whose
  BY SMTT(30) DEF LogInv
<1> USE <1>1, KeepTexts, LongerQueue
<1>2. job' = job /\ agentLines' = agentLines
  BY DEF KeepLines
<1>3. OnlyAgentLines => OnlyAgentLines'
  BY <1>2 DEF OnlyAgentLines
<1>4. ASSUME Attributed PROVE Attributed'
  <2>1. Stage(0)' = Stage(0) /\ Len(queue) \in Stages
    BY LongerStages
  <2>2. StageTexts' = StageTexts
    BY <2>1 DEF StageTexts
  <2>3. tracked.base \in Texts /\ tracked.snapshot \in Texts /\ StageTexts \subseteq Texts
        /\ StageBase \in Texts
    BY DEF Texts
  <2>4. Texts' \subseteq Texts \cup {tracked'.base}
    BY <2>2 DEF Texts
  <2>5. Grounded(Texts)'
    <3>1. CASE \A t \in Texts : t = Empty
      <4>1. \A l \in Lines : tracked'.base[l] = NoText
        BY <2>3, <3>1 DEF Empty, Text
      <4>2. tracked'.base = [l \in Lines |-> tracked'.base[l]]
        BY DEF WrittenText
      <4>3. tracked'.base = Empty
        BY <4>1, <4>2 DEF Empty, Text
      <4> QED
        BY <2>4, <3>1, <4>3 DEF Grounded, Empty, Text, NoText
    <3>2. ASSUME NEW l \in Lines, \A t \in Texts : t[l] # NoText PROVE Grounded(Texts)'
      <4>1. tracked'.base[l] # NoText
        BY <2>3, <3>2
      <4> QED
        BY <2>4, <3>2, <4>1 DEF Grounded, NoText
    <3> QED
      BY <1>4, <3>1, <3>2 DEF Attributed, Grounded
  <2>6. Delta(tracked.base, tracked.snapshot)' \subseteq agentLines'
    BY <1>2, <1>4 DEF Attributed, Delta
  <2>7. Delta(StageBase, Stage(0))' \subseteq agentLines'
    <3>1. CASE job = NoJob
      <4>1. Stage(0) = tracked.snapshot
        BY <3>1 DEF Stage
      <4> QED
        BY <1>2, <1>4, <2>1, <3>1, <4>1 DEF Attributed, Delta
    <3>2. CASE job # NoJob
      BY <1>2, <1>4, <2>1, <3>2 DEF Attributed, Delta
    <3> QED
      BY <3>1, <3>2
  <2>8. ASSUME NEW i \in 1 .. Len(queue'), queue'[i][1] = "agent"
        PROVE  Delta(Stage(i - 1), Stage(i))' \subseteq agentLines'
    <3>1. i \in 1 .. Len(queue)
      BY <2>8
    <3>2. i \in Stages /\ i - 1 \in Stages
      BY <3>1 DEF Stages
    <3>3. Stage(i)' = Stage(i) /\ Stage(i - 1)' = Stage(i - 1) /\ queue[i][1] = "agent"
      BY <2>8, <3>1, <3>2
    <3> QED
      BY <1>2, <1>4, <3>1, <3>3 DEF Attributed, Delta
  <2> QED
    BY <2>5, <2>6, <2>7, <2>8 DEF Attributed
<1> QED
  BY <1>2, <1>3, <1>4 DEF Whose

LEMMA KeepReviewed ==
    ASSUME LogInv, LogTypes', Tracks, NEW ls \in SUBSET Lines, KeepLines(ls), text' = text,
           git' = git, excused'.undone = excused.undone
    PROVE  BaseReviewed' /\ OneRun'
<1>1. LogTypes /\ EndsWithText /\ BaseReviewed /\ OneRun
  BY SMTT(30) DEF LogInv
<1> USE <1>1, KeepTexts, LongerQueue
<1>2. reviewed' = reviewed \cup AgentValues(tracked.snapshot, ls)
  BY DEF KeepLines
<1>3. SUFFICES ASSUME ~excused.undone, NEW l \in Lines
      PROVE  /\ ReviewedAt(git, l)' /\ ReviewedAt(tracked.base, l)' /\ ReviewedAt(StageBase, l)'
             /\ \A i \in 1 .. Len(queue') :
                   queue'[i][1] = "user" /\ Stage(i)'[l] # Stage(i - 1)'[l] => ReviewedAt(Stage(i), l)'
             /\ text'[l].by = "agent" /\ ~ReviewedAt(text, l)' =>
                  \A i, j \in Stages' : i <= j /\ Stage(i)'[l] = text'[l] => Stage(j)'[l] = text'[l]
  BY DEF BaseReviewed, OneRun
<1>4. ReviewedAt(git, l)' /\ ReviewedAt(tracked.base, l)'
  <2>1. l \in ls /\ tracked.snapshot[l].by = "agent" => <<l, tracked.snapshot[l].n>> \in reviewed'
    BY <1>2, SettledWillBeReviewed
  <2>2. ReviewedAt(git, l) /\ ReviewedAt(tracked.base, l)
    BY <1>3 DEF BaseReviewed
  <2> QED
    BY <1>2, <2>1, <2>2 DEF ReviewedAt
<1>5. ReviewedAt(StageBase, l)'
  <2>1. ReviewedAt(StageBase, l)
    BY <1>3 DEF BaseReviewed
  <2> QED
    BY <1>2, <1>4, <2>1 DEF ReviewedAt
<1>6. ASSUME NEW i \in 1 .. Len(queue'), queue'[i][1] = "user", Stage(i)'[l] # Stage(i - 1)'[l]
      PROVE  ReviewedAt(Stage(i), l)'
  <2>1. CASE i \in 1 .. Len(queue)
    <3>1. i \in Stages /\ i - 1 \in Stages
      BY <2>1 DEF Stages
    <3>2. Stage(i)' = Stage(i) /\ Stage(i - 1)' = Stage(i - 1) /\ queue[i][1] = "user"
      BY <1>6, <2>1, <3>1
    <3>3. ReviewedAt(Stage(i), l)
      BY <1>3, <1>6, <2>1, <3>2 DEF BaseReviewed
    <3> QED
      BY <1>2, <3>2, <3>3 DEF ReviewedAt
  <2>2. CASE i = Len(queue) + 1
    <3>1. i - 1 = Len(queue) /\ i \in Stages' \ Stages /\ i - 1 \in Stages
      BY <2>2, LongerStages
    <3>2. Stage(i)' = text /\ Stage(i - 1)' = text
      BY <3>1
    <3> QED
      BY <1>6, <3>2
  <2> QED
    BY <2>1, <2>2
<1>7. ASSUME text'[l].by = "agent", ~ReviewedAt(text, l)', NEW i \in Stages', NEW j \in Stages',
             i <= j, Stage(i)'[l] = text'[l]
      PROVE  Stage(j)'[l] = text'[l]
  <2>1. CASE j \notin Stages
    BY <2>1
  <2>2. CASE j \in Stages
    <3>1. i \in Stages
      <4>1. j \in Int /\ j <= Len(queue) /\ Len(queue) \in Nat
        BY <2>2, LongerStages
      <4>2. i # Len(queue) + 1
        BY <1>7, <4>1
      <4> QED
        BY <1>7, <4>2
    <3>2. ~ReviewedAt(text, l)
      BY <1>2, <1>7 DEF ReviewedAt
    <3> QED
      BY <1>3, <1>7, <2>2, <3>1, <3>2 DEF OneRun
  <2> QED
    BY <2>1, <2>2
<1> QED
  BY <1>4, <1>5, <1>6, <1>7

\* A line whose base comes to say what the text says goes on doing so.
LEMMA KeepSteady ==
    ASSUME LogInv, LogTypes', Tracks, NEW ls, KeptLines(ls), KeepLines(ls), text' = text,
           git' = git, NEW l \in Lines, text[l] # NoText,
           Steady(l) \/ Returns(l) \/ AwaitsTask(l)
    PROVE  Steady(l)' \/ Returns(l)' \/ AwaitsTask(l)'
<1>1. LogTypes /\ EndsWithText /\ ls \in SUBSET Lines
  BY SMTT(30) DEF LogInv, KeptLines
<1> USE <1>1, KeepTexts, LongerQueue
<1>2. job' = job
  BY DEF KeepLines
<1>3. job = NoJob => Stage(0) = tracked.snapshot /\ StageBase = tracked.base
                     /\ StageEdits = tracked.unreviewed
  BY DEF Stage, StageBase, StageEdits
<1>4. Stage(0)' = Stage(0) /\ 0 \in Stages
  BY LongerStages
<1>5. ASSUME Steady(l) PROVE Steady(l)'
  <2>1. \A i \in Stages' : Stage(i)'[l] = text[l]
    BY <1>5 DEF Steady
  <2>2. CASE job # NoJob
    <3>1. StageBase' = StageBase /\ StageEdits' = StageEdits
      BY <2>2
    <3> QED
      BY <1>5, <2>1, <3>1 DEF Steady, Empty, Text, NoText
  <2>3. CASE job = NoJob
    <3>1. tracked.snapshot[l] = text[l]
      BY <1>3, <1>4, <1>5, <2>3 DEF Steady
    <3>2. CASE tracked.base[l] = text[l]
      BY <2>1, <2>3, <3>1, <3>2 DEF Steady
    <3>3. CASE l \in ls
      BY <2>1, <2>3, <3>1, <3>3 DEF Steady
    <3>4. CASE l \notin ls /\ tracked.base = Empty /\ tracked.unreviewed = Lines
      <4>1. ls = {}
        BY <3>4 DEF KeptLines
      <4>2. tracked'.base = [k \in Lines |-> tracked'.base[k]]
        BY DEF WrittenText
      <4>3. \A k \in Lines : tracked'.base[k] = NoText
        BY <3>4, <4>1 DEF Empty, Text
      <4>4. tracked'.base = Empty
        BY <4>2, <4>3 DEF Empty, Text
      <4>5. StageBase' = Empty /\ StageEdits' = Lines
        <5>1. tracked.unreviewed \ ls = Lines
          BY <3>4, <4>1
        <5> QED
          BY <2>3, <4>4, <5>1
      <4> QED
        BY <2>1, <4>5 DEF Steady, Empty, Text, NoText
    <3> QED
      BY <1>3, <1>5, <2>3, <3>2, <3>3, <3>4 DEF Steady
  <2> QED
    BY <2>2, <2>3
<1>6. ASSUME Returns(l) PROVE Returns(l)'
  <2>1. PICK i \in 1 .. Len(queue) :
          /\ queue[i][1] = "user"
          /\ \A j \in Stages : Stage(j)[l] = IF j < i THEN Stage(0)[l] ELSE text[l]
          /\ Stage(0)[l] # NoText
          /\ StageBase[l] = text[l] \/ (StageBase[l] = Stage(0)[l] /\ l \notin StageEdits)
    BY <1>6 DEF Returns
  <2>2. i \in 1 .. Len(queue') /\ queue'[i][1] = "user"
    BY <2>1
  <2>3. ASSUME NEW j \in Stages'
        PROVE  Stage(j)'[l] = IF j < i THEN Stage(0)'[l] ELSE text'[l]
    <3>1. CASE j \in Stages
      BY <1>4, <2>1, <3>1
    <3>2. CASE j \notin Stages
      <4>1. j = Len(queue) + 1 /\ ~(j < i)
        BY <3>2
      <4> QED
        BY <3>2, <4>1
    <3> QED
      BY <3>1, <3>2
  <2>4. Stage(0)'[l] # NoText
    BY <1>4, <2>1
  <2>5. StageBase'[l] = text'[l] \/ (StageBase'[l] = Stage(0)'[l] /\ l \notin StageEdits')
    <3>1. CASE job # NoJob
      BY <1>4, <2>1, <3>1
    <3>2. CASE job = NoJob /\ l \in ls
      BY <1>3, <1>4, <3>2
    <3>3. CASE job = NoJob /\ l \notin ls
      BY <1>3, <1>4, <2>1, <3>3
    <3> QED
      BY <3>1, <3>2, <3>3
  <2> QED
    BY <2>2, <2>3, <2>4, <2>5 DEF Returns, NoText
<1>7. ASSUME AwaitsTask(l) PROVE AwaitsTask(l)'
  BY <1>7 DEF AwaitsTask
<1> QED
  BY <1>5, <1>6, <1>7

\* Two values of the agent with one number are the same.
LEMMA OneNumber ==
    ASSUME LogTypes, NEW v \in Written, NEW w \in Written,
           v.by = "agent", w.by = "agent", v.n = w.n
    PROVE  v = w
BY AgentsNumber

\* A line that is kept just now.
LEMMA KeptNow ==
    ASSUME LogInv, LogTypes', Tracks, NEW ls, KeptLines(ls), KeepLines(ls), text' = text,
           ~excused.undone, job = NoJob, NEW l \in Lines, text[l].by = "agent",
           <<l, text[l].n>> \in AgentValues(tracked.snapshot, ls), ~ReviewedAt(text, l)
    PROVE  Steady(l)'
<1>1. LogTypes /\ EndsWithText /\ ls \in SUBSET Lines /\ OneRun
  BY DEF LogInv, KeptLines
<1> USE <1>1, KeepTexts, LongerQueue
<1>2. l \in ls /\ tracked.snapshot[l].by = "agent" /\ tracked.snapshot[l].n = text[l].n
  BY DEF AgentValues
<1>3. tracked.snapshot[l] \in Written /\ text[l] \in Written
  BY StageTyped DEF LogTypes, WrittenText
<1>4. tracked.snapshot[l] = text[l]
  BY <1>2, <1>3, OneNumber
<1>5. Stage(0) = tracked.snapshot /\ 0 \in Stages /\ \A j \in Stages : 0 <= j
  BY LongerStages DEF Stage
<1>6. \A j \in Stages : Stage(j)[l] = text[l]
  BY <1>4, <1>5 DEF OneRun
<1>7. \A j \in Stages' : Stage(j)'[l] = text[l]
  BY <1>6
<1>8. StageBase'[l] = text[l]
  BY <1>2, <1>4
<1> QED
  BY <1>7, <1>8 DEF Steady

LEMMA KeepSettles ==
    ASSUME LogInv, LogTypes', Tracks, NEW ls, KeptLines(ls), KeepLines(ls), ExcuseKept,
           text' = text, git' = git
    PROVE  FinalSettles'
<1>1. LogTypes /\ FinalSettles /\ ls \in SUBSET Lines
  BY DEF LogInv, KeptLines
<1>2. reviewed' = reviewed \cup AgentValues(tracked.snapshot, ls)
  BY DEF KeepLines
<1>3. /\ excused'.undone = excused.undone /\ excused'.back = excused.back
      /\ excused.kept \subseteq excused'.kept
      /\ job # NoJob /\ ~excused.undone
            => AgentValues(tracked.snapshot, Lines) \subseteq excused'.kept
  BY <1>1 DEF ExcuseKept, KeptEarly, LogTypes
<1>4. SUFFICES ASSUME NEW l \in Lines, ~excused.undone, Final(l)'
      PROVE  Steady(l)' \/ Returns(l)' \/ AwaitsTask(l)'
  BY <1>3 DEF FinalSettles
<1>5. text[l] # NoText
  BY <1>4 DEF Final, NoText
<1>6. CASE Final(l)
  <2>1. Steady(l) \/ Returns(l) \/ AwaitsTask(l)
    BY <1>1, <1>4, <1>6 DEF FinalSettles
  <2> QED
    BY <1>5, <2>1, KeepSteady
<1>7. CASE ~Final(l)
  <2>1. /\ text[l].by = "agent" /\ <<l, text[l].n>> \in AgentValues(tracked.snapshot, ls)
        /\ <<l, text[l].n>> \notin reviewed /\ <<l, text[l].n>> \notin excused'.kept
    BY <1>2, <1>3, <1>4, <1>7 DEF Final, NoText
  <2>2. AgentValues(tracked.snapshot, ls) \subseteq AgentValues(tracked.snapshot, Lines)
    BY <1>1 DEF AgentValues
  <2>3. job = NoJob
    BY <1>3, <1>4, <2>1, <2>2
  <2>4. ~ReviewedAt(text, l)
    BY <2>1 DEF ReviewedAt
  <2> QED
    BY <1>4, <2>1, <2>3, <2>4, KeptNow
<1> QED
  BY <1>6, <1>7

LEMMA HunksKept ==
    ASSUME LogTypes, NEW l
    PROVE  KeptLines(Hunks({l}))
BY DEF KeptLines, Hunks, LogTypes, TrackedType

LEMMA KeepSound ==
    ASSUME LogInv, LogTypes', NEW l \in Lines, Keep(l) \/ KeepAll
    PROVE  RestInv'
<1>1. LogTypes
  BY DEF LogInv
<1>2. /\ Tracks /\ ExcuseKept /\ UNCHANGED <<text, git>>
      /\ \/ tracked.status = "deleted" /\ Forget(text)
         \/ \E ls \in SUBSET Lines : (ls = Lines \/ ls = Hunks({l})) /\ KeepLines(ls)
  BY <1>1, KeepCases
<1>3. excused'.undone = excused.undone
  BY <1>1, <1>2 DEF ExcuseKept, KeptEarly, LogTypes
<1>4. CASE Forget(text)
  BY <1>2, <1>3, <1>4, ForgetSound
<1>5. ASSUME NEW ls \in SUBSET Lines, ls = Lines \/ ls = Hunks({l}), KeepLines(ls)
      PROVE  RestInv'
  <2>1. KeptLines(ls)
    BY <1>1, <1>5, HunksKept DEF KeptLines
  <2>2. Basics' /\ Whose' /\ BaseReviewed' /\ OneRun' /\ FinalSettles'
    BY <1>2, <1>3, <1>5, <2>1, KeepBasics, KeepWhose, KeepReviewed, KeepSettles
  <2> QED
    BY <2>2 DEF RestInv, Basics
<1> QED
  BY <1>2, <1>4, <1>5

(***************************************************************************)
(* The file is to be deleted                                               *)
(***************************************************************************)

\* The agent empties the buffer.
Empties ==
    /\ tracked.status \notin {"created", "deleted"}
    /\ text' = Empty
    /\ tracked' = [(IF Tracks THEN tracked ELSE Fresh(text)) EXCEPT
                      !.status = "deleted", !.current = (text = Empty)]
    /\ queue' = IF text = Empty THEN Append(queue, <<"agent", Empty>>)
                ELSE queue \o <<<<"agent", Empty>>, <<"user", Empty>>>>
    /\ agentLines' = Lines
    /\ UNCHANGED <<job, reviewed>>

LEMMA EmptiesQueue ==
    ASSUME LogTypes, Empties
    PROVE  /\ Len(queue) \in Nat /\ Len(queue') \in Nat /\ Len(queue') > Len(queue)
           /\ \A i \in 1 .. Len(queue) : queue'[i] = queue[i]
           /\ \A i \in 1 .. Len(queue') : i > Len(queue) => queue'[i][2] = Empty
<1>1. queue \in Seq(Entry) /\ Len(queue) \in Nat
  BY DEF LogTypes
<1>2. CASE text = Empty
  <2>1. queue' = Append(queue, <<"agent", Empty>>)
    BY <1>2 DEF Empties
  <2> QED
    BY <1>1, <2>1
<1>3. CASE text # Empty
  <2>1. queue' = queue \o <<<<"agent", Empty>>, <<"user", Empty>>>>
    BY <1>3 DEF Empties
  <2>2. Empty \in WrittenText
    BY WrittenValues
  <2>3. <<"agent", Empty>> \in Entry /\ <<"user", Empty>> \in Entry
    BY <2>2 DEF Entry
  <2>4. queue' = Append(Append(queue, <<"agent", Empty>>), <<"user", Empty>>)
    <3>1. \A a, b \in Entry : queue \o <<a, b>> = Append(Append(queue, a), b)
      BY <1>1, TwoMore
    <3> QED
      BY <2>1, <2>3, <3>1
  <2>5. PICK q : q = Append(queue, <<"agent", Empty>>)
    OBVIOUS
  <2>6. /\ q \in Seq(Entry) /\ Len(q) = Len(queue) + 1 /\ q[Len(queue) + 1] = <<"agent", Empty>>
        /\ \A i \in 1 .. Len(queue) : q[i] = queue[i]
    BY <1>1, <2>3, <2>5
  <2>7. /\ Len(queue') = Len(q) + 1 /\ queue'[Len(q) + 1] = <<"user", Empty>>
        /\ \A i \in 1 .. Len(q) : queue'[i] = q[i]
    BY <2>3, <2>4, <2>5, <2>6
  <2>8. ASSUME NEW i \in 1 .. Len(queue'), i > Len(queue) PROVE queue'[i][2] = Empty
    <3>1. i = Len(queue) + 1 \/ i = Len(q) + 1
      BY <1>1, <2>6, <2>7, <2>8
    <3>2. Len(queue) + 1 \in 1 .. Len(q)
      BY <1>1, <2>6
    <3>3. queue'[Len(queue) + 1] = <<"agent", Empty>>
      BY <2>6, <2>7, <3>2
    <3> QED
      BY <2>7, <3>1, <3>3
  <2>9. ASSUME NEW i \in 1 .. Len(queue) PROVE queue'[i] = queue[i]
    BY <1>1, <2>6, <2>7
  <2> QED
    BY <1>1, <2>6, <2>7, <2>8, <2>9
<1> QED
  BY <1>2, <1>3

LEMMA EmptiesFields ==
    ASSUME LogTypes, Empties
    PROVE  /\ Tracks' /\ tracked'.status = "deleted" /\ job' = job
           /\ Tracks => DiffKept
           /\ ~Tracks => /\ tracked'.base = text /\ tracked'.snapshot = text
                         /\ tracked'.unreviewed = {} /\ tracked'.shown = {}
                         /\ queue = <<>> /\ job = NoJob
<1>1. CASE Tracks
  <2>1. tracked' = [tracked EXCEPT !.status = "deleted", !.current = (text = Empty)]
    BY <1>1 DEF Empties
  <2>2. tracked \in TrackedType
    BY DEF LogTypes
  <2>3. DiffKept /\ tracked'.status = "deleted"
    BY <2>1, <2>2 DEF DiffKept, TrackedType
  <2> QED
    BY <1>1, <2>3 DEF Empties, Tracks
<1>2. CASE ~Tracks
  <2>1. tracked' = [Fresh(text) EXCEPT !.status = "deleted", !.current = (text = Empty)]
    BY <1>2 DEF Empties
  <2>2. /\ tracked'.base = text /\ tracked'.snapshot = text /\ tracked'.unreviewed = {}
        /\ tracked'.shown = {} /\ tracked'.status = "deleted"
    BY <2>1 DEF Fresh, Untracked
  <2> QED
    BY <1>2, <2>2 DEF Empties, Tracks, LogTypes
<1> QED
  BY <1>1, <1>2

LEMMA EmptiesBasics ==
    ASSUME LogInv, LogTypes', Empties
    PROVE  Basics'
<1>1. LogTypes /\ Basics
  BY DEF LogInv, Basics
<1> USE <1>1, EmptiesFields, EmptiesQueue
<1>2. text' = Empty /\ agentLines' = Lines
  BY DEF Empties
<1>8. queue' # <<>>
  <2>1. Len(<<>>) = 0
    OBVIOUS
  <2> QED
    BY <2>1
<1>3. EndsWithText'
  <2>1. Len(queue') \in 1 .. Len(queue') /\ Len(queue') # 0
    OBVIOUS
  <2>2. queue'[Len(queue')][2] = Empty
    BY <2>1
  <2> QED
    BY <1>2, <2>1, <2>2 DEF EndsWithText, Stage
<1>4. WholeIsAgents'
  BY <1>2 DEF WholeIsAgents
<1>5. AtRestAgree'
  <2>1. Differing(job.base, job.snapshot)' = Differing(job.base, job.snapshot)
    BY DEF Differing, Empty, Text, NoText
  <2>2. ~Tracks => job.phase # "shown"
    BY DEF NoJob
  <2> QED
    BY <1>8, <2>1, <2>2 DEF AtRestAgree, Basics, DiffKept
<1>6. EditsCovered'
  BY DEF Basics, EditsCovered, Delta, DiffKept
<1>7. BaseOfJob'
  BY DEF Basics, BaseOfJob, DiffKept, NoJob, Empty, Text, NoText
<1> QED
  BY <1>3, <1>4, <1>5, <1>6, <1>7 DEF Basics

LEMMA EmptiesReviewed ==
    ASSUME LogInv, LogTypes', Empties, git' = git, excused' = excused
    PROVE  BaseReviewed'
<1>1. LogTypes /\ BaseReviewed
  BY DEF LogInv
<1> USE <1>1, EmptiesFields, EmptiesQueue
<1>2. reviewed' = reviewed /\ text' = Empty
  BY DEF Empties
<1>3. SUFFICES ASSUME ~excused.undone, NEW l \in Lines
      PROVE  /\ ReviewedAt(git, l)' /\ ReviewedAt(tracked.base, l)' /\ ReviewedAt(StageBase, l)'
             /\ \A i \in 1 .. Len(queue') :
                   queue'[i][1] = "user" /\ Stage(i)'[l] # Stage(i - 1)'[l] => ReviewedAt(Stage(i), l)'
  BY DEF BaseReviewed
<1>4. ReviewedAt(git, l)' /\ ReviewedAt(tracked.base, l)'
  <2>1. ReviewedAt(git, l) /\ ReviewedAt(tracked.base, l) /\ (Tracks \/ ReviewedAt(text, l))
    BY <1>3 DEF BaseReviewed
  <2> QED
    BY <1>2, <2>1 DEF ReviewedAt, DiffKept
<1>5. ReviewedAt(StageBase, l)'
  <2>1. CASE job = NoJob
    <3>1. StageBase' = tracked'.base
      BY <2>1 DEF StageBase, NoJob, Empty, Text, NoText
    <3> QED
      BY <1>4, <3>1 DEF ReviewedAt
  <2>2. CASE job # NoJob
    <3>1. StageBase' = StageBase
      BY <2>2 DEF StageBase, NoJob, Empty, Text, NoText
    <3>2. ReviewedAt(StageBase, l)
      BY <1>3 DEF BaseReviewed
    <3> QED
      BY <1>2, <3>1, <3>2 DEF ReviewedAt
  <2> QED
    BY <2>1, <2>2
<1>6. ASSUME NEW i \in 1 .. Len(queue'), queue'[i][1] = "user", Stage(i)'[l] # Stage(i - 1)'[l]
      PROVE  ReviewedAt(Stage(i), l)'
  <2>1. CASE i \in 1 .. Len(queue)
    <3>1. Tracks
      BY <2>1
    <3>2. queue'[i] = queue[i] /\ i # 0
      BY <2>1
    <3>3. Stage(i)' = Stage(i)
      BY <3>2 DEF Stage
    <3>4. Stage(i - 1)' = Stage(i - 1)
      <4>1. CASE i - 1 = 0
        BY <3>1, <4>1 DEF Stage, DiffKept, NoJob, Empty, Text, NoText
      <4>2. CASE i - 1 # 0
        <5>1. i - 1 \in 1 .. Len(queue)
          BY <2>1, <4>2
        <5>2. queue'[i - 1] = queue[i - 1]
          BY <5>1
        <5> QED
          BY <4>2, <5>2 DEF Stage
      <4> QED
        BY <4>1, <4>2
    <3>5. ReviewedAt(Stage(i), l)
      BY <1>3, <1>6, <2>1, <3>2, <3>3, <3>4 DEF BaseReviewed
    <3> QED
      BY <1>2, <3>3, <3>5 DEF ReviewedAt
  <2>2. CASE i > Len(queue)
    <3>1. Stage(i)' = Empty
      BY <2>2 DEF Stage
    <3>2. Empty[l].by # "agent"
      BY DEF Empty, Text, NoText
    <3> QED
      BY <3>1, <3>2 DEF ReviewedAt
  <2> QED
    BY <2>1, <2>2
<1> QED
  BY <1>4, <1>5, <1>6

LEMMA WillDeleteSound ==
    ASSUME LogInv, LogTypes', WillDelete
    PROVE  RestInv'
<1>1. UNCHANGED <<excused, git>> /\ session' = "delete" /\ session = "none"
  BY DEF WillDelete, Open
<1>2. LogTypes /\ RestInv
  BY InvParts
<1>3. CASE UNCHANGED text /\ Forget(text)
  BY <1>1, <1>3, ForgetSound
<1>4. CASE tracked' = [tracked EXCEPT !.current = TRUE] /\ UNCHANGED <<text, queue, job, agentLines, reviewed>>
  <2>1. DiffKept /\ tracked'.status = tracked.status /\ tracked'.committed = tracked.committed
    BY <1>2, <1>4 DEF LogTypes, TrackedType, DiffKept
  <2> QED
    BY <1>1, <1>2, <1>4, <2>1, SameSound
<1>5. CASE Empties
  <2>1. \A l \in Lines : Empty[l] = NoText
    BY DEF Empty, Text
  <2>2. agentLines' = Lines /\ text' = Empty /\ tracked' \in TrackedType'
    BY <1>5 DEF Empties, LogTypes
  <2>3. Whose'
    BY <2>2 DEF Whose, OnlyAgentLines, TrackedType
  <2>4. OneRun'
    BY <2>1, <2>2 DEF OneRun, NoText
  <2>5. FinalSettles'
    BY <2>1, <2>2 DEF FinalSettles, Final, NoText
  <2> QED
    BY <1>1, <1>5, <2>3, <2>4, <2>5, EmptiesBasics, EmptiesReviewed DEF RestInv, Basics
<1> QED
  BY <1>3, <1>4, <1>5, WillDeleteCases DEF Empties

(***************************************************************************)
(* The task shows and stores a diff                                        *)
(***************************************************************************)

\* What the job computed is of the agent's lines.
LEMMA EditsOfAgent ==
    ASSUME LogInv, Tracks, job # NoJob, ~excused.undone
    PROVE  Differing(job.base, job.snapshot) \subseteq agentLines
<1>1. LogTypes /\ Whose
  BY DEF LogInv
<1>2. job.base \in WrittenText /\ job.snapshot \in WrittenText
  BY <1>1 DEF LogTypes, JobType
<1>3. Differing(job.base, job.snapshot) \subseteq Lines
  BY <1>2, DifferingFacts DEF WrittenText
<1>4. CASE agentLines # Lines
  <2>1. Attributed
    BY <1>1, <1>4 DEF Whose
  <2>2. StageBase = job.base /\ Stage(0) = job.snapshot /\ 0 \in Stages
    BY <1>1, StageTyped DEF StageBase, Stage
  <2>3. job.base \in Texts /\ job.snapshot \in Texts
    BY <2>2 DEF Texts, StageTexts
  <2>4. Delta(job.base, job.snapshot) \subseteq agentLines
    BY <2>1, <2>2 DEF Attributed
  <2>5. CASE \A t \in Texts : t = Empty
    <3>1. job.base = job.snapshot
      BY <2>3, <2>5
    <3> QED
      BY <3>1 DEF Differing
  <2>6. ASSUME NEW l \in Lines, \A t \in Texts : t[l] # NoText
        PROVE  Differing(job.base, job.snapshot) \subseteq agentLines
    <3>1. job.base[l] # NoText /\ job.snapshot[l] # NoText
      BY <2>3, <2>6
    <3>2. Empty \notin {job.base, job.snapshot}
      BY <3>1 DEF Empty, Text
    <3> QED
      BY <2>4, <3>2 DEF Differing, Delta
  <2> QED
    BY <2>1, <2>5, <2>6 DEF Attributed, Grounded
<1> QED
  BY <1>3, <1>4

\* The task's view of what is to come stays as it is.
SameView ==
    /\ Stages' = Stages /\ StageBase' = StageBase /\ StageEdits' = StageEdits
    /\ \A i : Stage(i)' = Stage(i)
    /\ UNCHANGED <<queue, text, git, reviewed, excused, agentLines>>
    /\ Tracks /\ Tracks' /\ tracked'.committed = tracked.committed
    /\ \/ tracked'.base = tracked.base /\ tracked'.snapshot = tracked.snapshot
       \/ tracked'.base = StageBase /\ tracked'.snapshot = Stage(0)

LEMMA ViewSound ==
    ASSUME LogInv, SameView, OnlyAgentLines' \/ excused.undone
    PROVE  EndsWithText' /\ Judged'
<1>1. LogTypes /\ EndsWithText /\ Judged
  BY DEF LogInv, Judged
<1> USE DEF SameView
<1>2. EndsWithText'
  BY <1>1 DEF EndsWithText
<1>3. Whose'
  <2>1. ASSUME Attributed PROVE Attributed'
    <3>1. StageTexts' = StageTexts
      BY DEF StageTexts
    <3>2. Texts' \subseteq Texts
      <4>1. Stage(0) \in StageTexts
        BY <1>1, StageTyped DEF StageTexts
      <4> QED
        BY <3>1, <4>1 DEF Texts
    <3>3. Grounded(Texts)'
      BY <2>1, <3>2 DEF Attributed, Grounded, Empty, Text, NoText
    <3>4. Delta(tracked.base, tracked.snapshot)' \subseteq agentLines'
          /\ Delta(StageBase, Stage(0))' \subseteq agentLines'
      BY <2>1 DEF Attributed, Delta
    <3>5. \A i \in 1 .. Len(queue') : queue'[i][1] = "agent" =>
             Delta(Stage(i - 1), Stage(i))' \subseteq agentLines'
      BY <2>1 DEF Attributed, Delta
    <3> QED
      BY <3>3, <3>4, <3>5 DEF Attributed
  <2> QED
    BY <1>1, <2>1 DEF Judged, Whose
<1>4. BaseReviewed'
  BY <1>1 DEF Judged, BaseReviewed, ReviewedAt
<1>5. OneRun'
  BY <1>1 DEF Judged, OneRun, ReviewedAt
<1>6. FinalSettles'
  <2>1. ASSUME NEW l \in Lines PROVE
         /\ Final(l)' => Final(l)
         /\ Steady(l) => Steady(l)'
         /\ Returns(l) => Returns(l)'
         /\ AwaitsTask(l) => AwaitsTask(l)'
    <3>1. Final(l)' => Final(l)
      BY DEF Final, NoText
    <3>2. Steady(l) => Steady(l)'
      BY DEF Steady, Empty, Text, NoText
    <3>3. Returns(l) => Returns(l)'
      BY DEF Returns, NoText
    <3>4. AwaitsTask(l) => AwaitsTask(l)'
      BY DEF AwaitsTask
    <3> QED
      BY <3>1, <3>2, <3>3, <3>4
  <2> QED
    BY <1>1, <2>1 DEF Judged, FinalSettles
<1> QED
  BY <1>2, <1>3, <1>4, <1>5, <1>6 DEF Judged

LEMMA ShowDiffSound ==
    ASSUME LogInv, LogTypes', ShowDiff
    PROVE  RestInv'
<1>1. /\ job.phase = "rebased" /\ job' = [job EXCEPT !.phase = "shown"]
      /\ tracked' = [tracked EXCEPT !.shown = Differing(job.base, job.snapshot)]
      /\ UNCHANGED <<queue, text, git, reviewed, excused, agentLines>>
  BY DEF ShowDiff, fileVars, historyVars
<1>2. LogTypes /\ Basics
  BY DEF LogInv, Basics
<1>3. /\ job # NoJob /\ job' # NoJob /\ job'.phase = "shown" /\ Tracks
      /\ job'.base = job.base /\ job'.snapshot = job.snapshot
  BY <1>1, <1>2 DEF NoJob, LogTypes, JobType
<1>4. /\ tracked'.base = tracked.base /\ tracked'.snapshot = tracked.snapshot
      /\ tracked'.unreviewed = tracked.unreviewed /\ tracked'.committed = tracked.committed
      /\ tracked'.status = tracked.status
      /\ tracked'.shown = Differing(job.base, job.snapshot)
  BY <1>1, <1>2 DEF LogTypes, TrackedType
<1>5. Differing(job.base, job.snapshot)' = Differing(job.base, job.snapshot)
  BY <1>3 DEF Differing, Empty, Text, NoText
<1>6. job' # NoJob'
  BY <1>3 DEF NoJob, Empty, Text, NoText
<1>7. SameView
  <2>1. \A i : Stage(i)' = Stage(i)
    BY <1>1, <1>3, <1>6 DEF Stage
  <2>2. StageBase' = StageBase /\ StageEdits' = StageEdits
    BY <1>3, <1>5, <1>6 DEF StageBase, StageEdits
  <2>3. Stages' = Stages
    BY <1>1 DEF Stages
  <2> QED
    BY <1>1, <1>3, <1>4, <2>1, <2>2, <2>3 DEF SameView, Tracks
<1>8. OnlyAgentLines' \/ excused.undone
  <2>1. ASSUME ~excused.undone PROVE Differing(job.base, job.snapshot) \subseteq agentLines
    BY <1>3, <2>1, EditsOfAgent
  <2>2. ASSUME ~excused.undone PROVE tracked.unreviewed \subseteq agentLines
    BY <2>2 DEF LogInv, Whose, OnlyAgentLines
  <2> QED
    BY <1>1, <1>4, <2>1, <2>2 DEF OnlyAgentLines
<1>9. EndsWithText' /\ Judged'
  BY <1>7, <1>8, ViewSound
<1>10. WholeIsAgents' /\ AtRestAgree' /\ EditsCovered' /\ BaseOfJob'
  <2>1. WholeIsAgents'
    BY <1>1, <1>2, <1>4 DEF Basics, WholeIsAgents
  <2>2. AtRestAgree'
    BY <1>4, <1>5, <1>6 DEF AtRestAgree
  <2>3. EditsCovered'
    BY <1>2, <1>4 DEF Basics, EditsCovered, Delta
  <2>4. BaseOfJob'
    BY <1>2, <1>3, <1>4 DEF Basics, BaseOfJob
  <2> QED
    BY <2>1, <2>2, <2>3, <2>4
<1> QED
  BY <1>9, <1>10 DEF RestInv, Judged

LEMMA StoreDiffSound ==
    ASSUME LogInv, LogTypes', StoreDiff
    PROVE  RestInv'
<1>1. /\ job.phase = "shown" /\ job' = NoJob
      /\ tracked' = [tracked EXCEPT !.base = job.base, !.snapshot = job.snapshot,
                        !.unreviewed = Differing(job.base, job.snapshot)]
      /\ UNCHANGED <<queue, text, git, reviewed, excused, agentLines>>
  BY DEF StoreDiff, fileVars, historyVars
<1>2. LogTypes /\ Basics
  BY DEF LogInv, Basics
<1>3. job # NoJob /\ Tracks
  BY <1>1, <1>2 DEF NoJob, LogTypes
<1>4. /\ tracked'.base = job.base /\ tracked'.snapshot = job.snapshot
      /\ tracked'.unreviewed = Differing(job.base, job.snapshot)
      /\ tracked'.shown = tracked.shown /\ tracked'.committed = tracked.committed
      /\ tracked'.status = tracked.status
  BY <1>1, <1>2 DEF LogTypes, TrackedType
<1>5. job' = NoJob'
  BY <1>1 DEF NoJob, Empty, Text, NoText
<1>6. Differing(tracked.base, tracked.snapshot)' = Differing(job.base, job.snapshot)
  BY <1>4 DEF Differing, Empty, Text, NoText
<1>7. /\ StageBase = job.base /\ Stage(0) = job.snapshot
      /\ StageEdits = Differing(job.base, job.snapshot)
  BY <1>3 DEF StageBase, Stage, StageEdits
<1>8. SameView
  <2>1. \A i : Stage(i)' = Stage(i)
    BY <1>1, <1>3, <1>4, <1>5 DEF Stage
  <2>2. StageBase' = StageBase /\ StageEdits' = StageEdits
    BY <1>4, <1>5, <1>7 DEF StageBase, StageEdits
  <2>3. Stages' = Stages
    BY <1>1 DEF Stages
  <2> QED
    BY <1>1, <1>3, <1>4, <1>7, <2>1, <2>2, <2>3 DEF SameView, Tracks
<1>9. OnlyAgentLines' \/ excused.undone
  <2>1. ASSUME ~excused.undone PROVE Differing(job.base, job.snapshot) \subseteq agentLines
    BY <1>3, <2>1, EditsOfAgent
  <2>2. ASSUME ~excused.undone PROVE tracked.shown \subseteq agentLines
    BY <2>2 DEF LogInv, Whose, OnlyAgentLines
  <2> QED
    BY <1>1, <1>4, <2>1, <2>2 DEF OnlyAgentLines
<1>10. EndsWithText' /\ Judged'
  BY <1>8, <1>9, ViewSound
<1>11. WholeIsAgents' /\ AtRestAgree' /\ EditsCovered' /\ BaseOfJob'
  <2>1. WholeIsAgents'
    BY <1>1, <1>2, <1>4 DEF Basics, WholeIsAgents
  <2>2. AtRestAgree'
    <3>1. tracked.shown = Differing(job.base, job.snapshot)
      BY <1>1, <1>2 DEF Basics, AtRestAgree
    <3>2. Agree'
      BY <1>4, <1>6, <3>1 DEF Agree
    <3>3. job'.phase # "shown"
      BY <1>1 DEF NoJob
    <3> QED
      BY <3>2, <3>3 DEF AtRestAgree
  <2>3. EditsCovered'
    <3>1. Delta(job.base, job.snapshot) \subseteq Differing(job.base, job.snapshot)
      <4>1. job.base \in [Lines -> Written] /\ job.snapshot \in [Lines -> Written]
        BY <1>2 DEF LogTypes, JobType, WrittenText
      <4> QED
        BY <4>1, DifferingFacts
    <3> QED
      BY <1>4, <3>1 DEF EditsCovered, Delta
  <2>4. BaseOfJob'
    BY <1>5 DEF BaseOfJob
  <2> QED
    BY <2>1, <2>2, <2>3, <2>4
<1> QED
  BY <1>10, <1>11 DEF RestInv, Judged

(***************************************************************************)
(* The task takes a commit                                                 *)
(***************************************************************************)

LEMMA CommittedLines ==
    ASSUME LogInv
    PROVE  /\ WithCommitted \in WrittenText
           /\ \A l \in Lines : WithCommitted[l] = tracked.base[l]
                               \/ WithCommitted[l] = tracked.snapshot[l]
           /\ \A l \in Lines : WithCommitted[l] \in {tracked.base[l], git[l]}
           /\ \A l \in Lines : git[l] = tracked.snapshot[l] =>
                 \/ WithCommitted[l] = tracked.snapshot[l]
                 \/ Empty \in {tracked.base, tracked.snapshot} /\ WithCommitted = tracked.base
           /\ \/ WithCommitted = tracked.base
              \/ WithCommitted = git /\ git = tracked.snapshot
              \/ Empty \notin {tracked.base, tracked.snapshot}
<1>1. LogTypes /\ EditsCovered
  BY DEF LogInv
<1>2. WithCommitted \in WrittenText
  BY <1>1, WithCommittedTyped
<1>3. CASE tracked.snapshot = git
  BY <1>2, <1>3 DEF WithCommitted
<1>4. CASE tracked.snapshot # git /\ Empty \in {tracked.base, tracked.snapshot}
  BY <1>2, <1>4 DEF WithCommitted
<1>5. CASE tracked.snapshot # git /\ Empty \notin {tracked.base, tracked.snapshot}
  <2>1. WithCommitted = Patched(tracked.base, {l \in tracked.unreviewed : git[l] = tracked.snapshot[l]},
                                tracked.snapshot)
    BY <1>5 DEF WithCommitted
  <2>2. \A l \in Lines : WithCommitted[l] =
           IF l \in tracked.unreviewed /\ git[l] = tracked.snapshot[l]
           THEN tracked.snapshot[l] ELSE tracked.base[l]
    BY <2>1 DEF Patched
  <2>3. \A l \in Lines : l \notin tracked.unreviewed => tracked.base[l] = tracked.snapshot[l]
    BY <1>1 DEF EditsCovered, Delta
  <2> QED
    BY <1>2, <1>5, <2>2, <2>3
<1> QED
  BY <1>3, <1>4, <1>5

LEMMA KeepCommittedSound ==
    ASSUME LogInv, LogTypes', KeepCommitted
    PROVE  RestInv'
<1>1. /\ job = NoJob /\ queue = <<>> /\ tracked.committed
      /\ tracked' = [tracked EXCEPT !.committed = FALSE]
      /\ job' = [phase |-> "rebased", snapshot |-> tracked.snapshot, base |-> WithCommitted]
      /\ UNCHANGED <<queue, text, git, reviewed, excused, agentLines>>
  BY DEF KeepCommitted, fileVars, historyVars
<1>2. LogTypes /\ Basics /\ Judged /\ Tracks
  <2>1. LogTypes
    BY DEF LogInv
  <2>2. Tracks
    BY <1>1, <2>1 DEF LogTypes, Untracked
  <2> QED
    BY <2>1, <2>2 DEF LogInv, Basics, Judged
<1>3. DiffKept /\ tracked'.status = tracked.status /\ tracked'.committed = FALSE
  BY <1>1, <1>2 DEF LogTypes, TrackedType, DiffKept
<1>4. /\ job'.base = WithCommitted /\ job'.snapshot = tracked.snapshot /\ job'.phase = "rebased"
      /\ job' # NoJob /\ job' # NoJob'
  BY <1>1 DEF NoJob
<1>5. /\ Len(queue) = 0 /\ Stages = {0} /\ Stages' = {0} /\ 1 .. Len(queue') = {}
      /\ Stage(0) = tracked.snapshot /\ StageBase = tracked.base /\ StageEdits = tracked.unreviewed
  BY <1>1 DEF Stages, Stage, StageBase, StageEdits
<1>6. /\ Stage(0)' = tracked.snapshot /\ StageBase' = WithCommitted
      /\ StageEdits' = Differing(WithCommitted, tracked.snapshot)
  <2>1. StageEdits' = Differing(job.base, job.snapshot)'
    BY <1>4 DEF StageEdits
  <2>2. Differing(job.base, job.snapshot)' = Differing(WithCommitted, tracked.snapshot)
    BY <1>4 DEF Differing, Empty, Text, NoText
  <2> QED
    BY <1>4, <2>1, <2>2 DEF Stage, StageBase
<1>7. text = tracked.snapshot /\ text \in WrittenText
  BY <1>2, <1>5 DEF Basics, EndsWithText, LogTypes
<1>8. /\ WithCommitted \in WrittenText
      /\ \A l \in Lines : WithCommitted[l] = tracked.base[l] \/ WithCommitted[l] = tracked.snapshot[l]
  BY CommittedLines
<1>9. Basics'
  <2>1. EndsWithText'
    <3>1. Len(queue') = 0
      BY <1>1
    <3> QED
      BY <1>1, <1>6, <1>7, <3>1 DEF EndsWithText, Stage
  <2>2. WholeIsAgents' /\ AtRestAgree'
    BY <1>1, <1>2, <1>3, <1>4 DEF Basics, WholeIsAgents, AtRestAgree
  <2>3. EditsCovered'
    BY <1>2, <1>3 DEF Basics, EditsCovered, Delta, DiffKept
  <2>4. BaseOfJob'
    <3>1. tracked.unreviewed \subseteq Lines
      BY <1>2 DEF LogTypes, TrackedType
    <3> QED
      BY <1>3, <1>4, <1>8, <3>1 DEF BaseOfJob, DiffKept
  <2> QED
    BY <2>1, <2>2, <2>3, <2>4 DEF Basics
<1>10. Whose'
  <2>1. OnlyAgentLines => OnlyAgentLines'
    BY <1>1, <1>3 DEF OnlyAgentLines, DiffKept
  <2>2. ASSUME Attributed PROVE Attributed'
    <3>1. Texts' = {tracked.base, WithCommitted, tracked.snapshot}
          /\ tracked.base \in Texts /\ tracked.snapshot \in Texts
      <4>1. StageTexts' = {tracked.snapshot}
        BY <1>5, <1>6 DEF StageTexts
      <4> QED
        BY <1>3, <1>6, <4>1 DEF Texts, DiffKept
    <3>2. Grounded(Texts)'
      <4>1. CASE \A t \in Texts : t = Empty
        <5>1. \A l \in Lines : WithCommitted[l] = NoText
          BY <1>8, <3>1, <4>1 DEF Empty, Text
        <5>2. WithCommitted = [l \in Lines |-> WithCommitted[l]]
          BY <1>8 DEF WrittenText
        <5>3. WithCommitted = Empty
          BY <5>1, <5>2 DEF Empty, Text
        <5> QED
          BY <3>1, <4>1, <5>3 DEF Grounded, Empty, Text, NoText
      <4>2. ASSUME NEW l \in Lines, \A t \in Texts : t[l] # NoText PROVE Grounded(Texts)'
        <5>1. WithCommitted[l] # NoText
          BY <1>8, <3>1, <4>2
        <5> QED
          BY <3>1, <4>2, <5>1 DEF Grounded, NoText
      <4> QED
        BY <2>2, <4>1, <4>2 DEF Attributed, Grounded
    <3>3. Delta(tracked.base, tracked.snapshot)' \subseteq agentLines'
          /\ Delta(StageBase, Stage(0))' \subseteq agentLines'
      BY <1>1, <1>3, <1>6, <1>8, <2>2 DEF Attributed, Delta, DiffKept
    <3> QED
      BY <1>5, <3>2, <3>3 DEF Attributed
  <2> QED
    BY <1>1, <1>2, <2>1, <2>2 DEF Judged, Whose
<1>11. BaseReviewed'
  <2>1. \A l \in Lines : WithCommitted[l] \in {tracked.base[l], git[l]}
    BY CommittedLines
  <2> QED
    BY <1>1, <1>2, <1>3, <1>5, <1>6, <2>1 DEF Judged, BaseReviewed, ReviewedAt, Tracks, DiffKept
<1>12. OneRun'
  BY <1>5 DEF OneRun
<1>13. FinalSettles'
  <2>1. SUFFICES ASSUME NEW l \in Lines, ~excused.undone, Final(l)'
        PROVE  Steady(l)'
    BY <1>1 DEF FinalSettles
  <2>2. text[l] # NoText /\ Final(l)
    BY <1>1, <2>1 DEF Final, NoText
  <2>3. \A i \in Stages' : Stage(i)'[l] = text[l]
    BY <1>5, <1>6, <1>7
  <2>4. Steady(l) \/ AwaitsTask(l)
    BY <1>1, <1>2, <1>5, <2>1, <2>2 DEF Judged, FinalSettles, Returns
  <2>5. tracked.snapshot # Empty
    BY <1>7, <2>2 DEF Empty, Text
  <2>6. WithCommitted[l] = text[l] \/ WithCommitted = Empty
    <3>1. CASE git[l] = text[l]
      BY <1>7, <2>5, <3>1, CommittedLines
    <3>2. CASE tracked.base[l] = text[l]
      BY <1>7, <1>8, <3>2
    <3>3. CASE tracked.base = Empty
      BY <1>7, <3>3, CommittedLines
    <3> QED
      BY <1>5, <2>4, <3>1, <3>2, <3>3 DEF Steady, AwaitsTask
  <2>7. WithCommitted = Empty => StageEdits' = Lines
    BY <1>6, <2>5 DEF Differing
  <2> QED
    BY <1>1, <1>6, <2>3, <2>6, <2>7 DEF Steady, Empty, Text, NoText
<1> QED
  BY <1>9, <1>10, <1>11, <1>12, <1>13 DEF RestInv, Basics

(***************************************************************************)
(* The task takes a change                                                 *)
(***************************************************************************)

LEMMA ShorterQueue ==
    ASSUME LogTypes, TrackEdits
    PROVE  /\ Len(queue) \in Nat \ {0} /\ Len(queue') = Len(queue) - 1
           /\ \A i \in 1 .. Len(queue') : i + 1 \in 1 .. Len(queue) /\ queue'[i] = queue[i + 1]
           /\ queue[1][1] \in {"agent", "user"} /\ 1 \in 1 .. Len(queue)
           /\ Stages' = 0 .. (Len(queue) - 1)
<1>1. queue # <<>> /\ queue' = Tail(queue)
  BY TrackEditsFacts
<1>2. queue \in Seq(Entry) /\ Len(queue) \in Nat \ {0} /\ queue[1][1] \in {"agent", "user"}
  BY <1>1, QueueHead DEF LogTypes
<1>3. Len(queue') = Len(queue) - 1
  BY <1>1, <1>2
<1>4. ASSUME NEW i \in 1 .. Len(queue') PROVE i + 1 \in 1 .. Len(queue) /\ queue'[i] = queue[i + 1]
  BY <1>1, <1>2, <1>3
<1> QED
  BY <1>2, <1>3, <1>4 DEF Stages

LEMMA ShorterStages ==
    ASSUME LogTypes, TrackEdits
    PROVE  /\ Tracks /\ Tracks' /\ job' # NoJob' /\ job'.phase = "rebased"
           /\ Stage(0) = tracked.snapshot /\ StageBase = tracked.base
           /\ StageEdits = tracked.unreviewed
           /\ StageBase' = NextBase /\ StageEdits' = Differing(NextBase, Stage(1))
           /\ job'.base = NextBase /\ job'.snapshot = Stage(1)
           /\ Stage(0)' = Stage(1)
           /\ \A i \in Stages' : i \in Int /\ i \in Stages /\ i + 1 \in Stages /\ Stage(i)' = Stage(i + 1)
           /\ Stage(0) \in WrittenText /\ Stage(1) \in WrittenText /\ NextBase \in WrittenText
<1> USE ShorterQueue
<1>1. /\ job = NoJob /\ queue # <<>> /\ tracked' = tracked
      /\ job' = [phase |-> "rebased", snapshot |-> queue[1][2], base |-> NextBase]
  BY TrackEditsFacts
<1>2. Tracks /\ Tracks'
  BY <1>1 DEF LogTypes, Tracks
<1>3. job'.phase = "rebased" /\ job' # NoJob' /\ job'.base = NextBase /\ job'.snapshot = queue[1][2]
  BY <1>1 DEF NoJob
<1>4. Stage(0) = tracked.snapshot /\ StageBase = tracked.base /\ StageEdits = tracked.unreviewed
  BY <1>1 DEF Stage, StageBase, StageEdits
<1>5. Stage(1) = queue[1][2]
  BY DEF Stage
<1>6. Stage(0)' = Stage(1) /\ StageBase' = NextBase
  BY <1>3, <1>5 DEF Stage, StageBase
<1>7. StageEdits' = Differing(NextBase, Stage(1))
  <2>1. StageEdits' = Differing(job.base, job.snapshot)'
    BY <1>3 DEF StageEdits
  <2>2. Differing(job.base, job.snapshot)' = Differing(NextBase, Stage(1))
    BY <1>3, <1>5 DEF Differing, Empty, Text, NoText
  <2> QED
    BY <2>1, <2>2
<1>8. ASSUME NEW i \in Stages'
      PROVE  i \in Int /\ i \in Stages /\ i + 1 \in Stages /\ Stage(i)' = Stage(i + 1)
  <2>1. i \in 0 .. (Len(queue) - 1)
    BY <1>8
  <2>2. i \in Int /\ i \in Stages /\ i + 1 \in Stages /\ i + 1 # 0
    BY <2>1 DEF Stages
  <2>3. CASE i = 0
    BY <1>6, <2>2, <2>3
  <2>4. CASE i # 0
    <3>1. i \in 1 .. Len(queue')
      BY <2>1, <2>4
    <3>2. queue'[i] = queue[i + 1]
      BY <3>1
    <3> QED
      BY <2>2, <2>4, <3>2 DEF Stage
  <2> QED
    BY <2>2, <2>3, <2>4
<1>9. Stage(0) \in WrittenText /\ Stage(1) \in WrittenText /\ NextBase \in WrittenText
  <2>1. NextBase \in WrittenText /\ queue[1][2] \in WrittenText
    BY <1>1, NextBaseTyped, QueueHead
  <2> QED
    BY <1>5, <2>1, StageTyped
<1> QED
  BY <1>1, <1>2, <1>3, <1>4, <1>5, <1>6, <1>7, <1>8, <1>9

\* What the base becomes, line by line.
LEMMA NextBaseLines ==
    ASSUME LogInv, TrackEdits
    PROVE  /\ \A l \in Lines : NextBase[l] = tracked.base[l] \/ NextBase[l] = Stage(1)[l]
           /\ \A l \in Lines : Stage(1)[l] = Stage(0)[l] => NextBase[l] = tracked.base[l]
           /\ queue[1][1] = "agent" => NextBase = tracked.base
           /\ queue[1][1] = "user" => \A l \in Lines :
                 l \notin tracked.unreviewed /\ Empty \notin {Stage(0), Stage(1)}
                    => NextBase[l] = Stage(1)[l]
           /\ tracked.unreviewed = Lines => NextBase = tracked.base
<1>1. LogTypes /\ EditsCovered
  BY DEF LogInv
<1>2. Stage(0) = tracked.snapshot /\ Stage(1) = queue[1][2] /\ tracked.base \in WrittenText
      /\ Stage(0) \in [Lines -> Written] /\ Stage(1) \in [Lines -> Written]
  BY <1>1, ShorterStages, StageTyped, ShorterQueue DEF Stage, WrittenText
<1>3. \A l \in Lines : l \notin tracked.unreviewed => tracked.base[l] = Stage(0)[l]
  BY <1>1, <1>2 DEF EditsCovered, Delta
<1>4. queue[1][1] # "user" => NextBase = tracked.base
  BY DEF NextBase
<1>5. CASE queue[1][1] = "user" /\ Empty \in {Stage(0), Stage(1)} /\ tracked.unreviewed # {}
  <2>1. NextBase = tracked.base
    BY <1>2, <1>5, RebasedCases DEF NextBase
  <2> QED
    BY <1>5, <2>1
<1>6. CASE queue[1][1] = "user" /\ ~(Empty \in {Stage(0), Stage(1)} /\ tracked.unreviewed # {})
  <2>1. NextBase = Patched(tracked.base, Differing(Stage(0), Stage(1)) \ tracked.unreviewed, Stage(1))
    BY <1>2, <1>6, RebasedCases DEF NextBase
  <2>2. \A l \in Lines : NextBase[l] =
           IF l \in Differing(Stage(0), Stage(1)) /\ l \notin tracked.unreviewed
           THEN Stage(1)[l] ELSE tracked.base[l]
    BY <2>1 DEF Patched
  <2>3. Delta(Stage(0), Stage(1)) \subseteq Differing(Stage(0), Stage(1))
    BY <1>2, DifferingFacts
  <2>4. \A l \in Lines : l \in Differing(Stage(0), Stage(1)) \/ Stage(0)[l] = Stage(1)[l]
    BY <2>3 DEF Delta
  <2>5. \A l \in Lines : NextBase[l] = tracked.base[l] \/ NextBase[l] = Stage(1)[l]
    BY <2>2
  <2>6. \A l \in Lines : Stage(1)[l] = Stage(0)[l] => NextBase[l] = tracked.base[l]
    BY <1>3, <2>2
  <2>7. \A l \in Lines : l \notin tracked.unreviewed => NextBase[l] = Stage(1)[l]
    BY <1>3, <2>2, <2>4
  <2>8. tracked.unreviewed = Lines => NextBase = tracked.base
    <3>1. ASSUME tracked.unreviewed = Lines PROVE NextBase = tracked.base
      <4>1. NextBase = [l \in Lines |-> tracked.base[l]]
        BY <2>1, <3>1 DEF Patched
      <4> QED
        BY <1>2, <4>1 DEF WrittenText
    <3> QED
      BY <3>1
  <2> QED
    BY <1>6, <2>5, <2>6, <2>7, <2>8
<1> QED
  BY <1>4, <1>5, <1>6

LEMMA TrackEditsBasics ==
    ASSUME LogInv, LogTypes', TrackEdits
    PROVE  Basics'
<1>1. LogTypes /\ Basics
  BY DEF LogInv, Basics
<1> USE <1>1, ShorterQueue, ShorterStages
<1>2. UNCHANGED <<text, tracked, agentLines>>
  BY TrackEditsFacts
<1>3. EndsWithText'
  <2>1. Len(queue') \in Stages' /\ Len(queue') + 1 = Len(queue)
    OBVIOUS
  <2>2. ASSUME NEW k \in Stages', k = Len(queue') PROVE Stage(k)' = text
    <3>1. Stage(k)' = Stage(k + 1) /\ k + 1 = Len(queue)
      BY <2>1, <2>2
    <3> QED
      BY <3>1 DEF Basics, EndsWithText
  <2>3. \A k \in Stages' : k = Len(queue') => Stage(k)' = text'
    BY <1>2, <2>2
  <2> QED
    BY <2>1, <2>3 DEF EndsWithText
<1>4. WholeIsAgents' /\ AtRestAgree'
  BY <1>2 DEF Basics, WholeIsAgents, AtRestAgree
<1>5. EditsCovered'
  BY <1>2 DEF Basics, EditsCovered, Delta
<1>6. BaseOfJob'
  <2>1. tracked.unreviewed \subseteq Lines
    BY DEF LogTypes, TrackedType
  <2>2. \A l \in Lines : NextBase[l] = tracked.base[l] \/ NextBase[l] = Stage(1)[l]
    BY NextBaseLines
  <2> QED
    BY <1>2, <2>1, <2>2 DEF BaseOfJob
<1> QED
  BY <1>3, <1>4, <1>5, <1>6 DEF Basics

LEMMA TrackEditsWhose ==
    ASSUME LogInv, LogTypes', TrackEdits
    PROVE  Whose'
<1>1. LogTypes /\ Whose
  BY DEF LogInv
<1> USE <1>1, ShorterQueue, ShorterStages
<1>2. UNCHANGED <<text, tracked, agentLines, excused>>
  BY TrackEditsFacts
<1>3. OnlyAgentLines => OnlyAgentLines'
  BY <1>2 DEF OnlyAgentLines
<1>4. ASSUME ~excused.undone, OnlyAgentLines, Attributed PROVE Attributed'
  <2>1. StageTexts' \subseteq StageTexts /\ Stage(0) \in StageTexts /\ Stage(1) \in StageTexts
    <3>1. 0 \in Stages /\ 1 \in Stages
      BY DEF Stages
    <3> QED
      BY <3>1 DEF StageTexts
  <2>2. /\ Texts' \subseteq Texts \cup {NextBase}
        /\ tracked.base \in Texts /\ Stage(0) \in Texts /\ Stage(1) \in Texts
    BY <1>2, <2>1 DEF Texts
  <2>3. Grounded(Texts)
    BY <1>4 DEF Attributed
  <2>4. ASSUME \A t \in Texts : t = Empty PROVE NextBase = Empty
    <3>1. \A l \in Lines : NextBase[l] = NoText
      BY <2>2, <2>4, NextBaseLines DEF Empty, Text
    <3>2. NextBase = [l \in Lines |-> NextBase[l]]
      BY DEF WrittenText
    <3> QED
      BY <3>1, <3>2 DEF Empty, Text
  <2>5. Grounded(Texts)'
    <3>1. CASE \A t \in Texts : t = Empty
      <4>1. NextBase = Empty
        BY <2>4, <3>1
      <4> QED
        BY <2>2, <3>1, <4>1 DEF Grounded, Empty, Text, NoText
    <3>2. ASSUME NEW l \in Lines, \A t \in Texts : t[l] # NoText PROVE Grounded(Texts)'
      <4>1. NextBase[l] # NoText
        BY <2>2, <3>2, NextBaseLines
      <4> QED
        BY <2>2, <3>2, <4>1 DEF Grounded, NoText
    <3> QED
      BY <2>3, <3>1, <3>2 DEF Grounded
  <2>6. Delta(tracked.base, tracked.snapshot) \subseteq agentLines
    BY <1>4 DEF Attributed
  <2>7. Delta(NextBase, Stage(1)) \subseteq agentLines
    <3>1. CASE queue[1][1] = "agent"
      <4>1. Delta(Stage(0), Stage(1)) \subseteq agentLines
        <5>1. \A i \in 1 .. Len(queue) :
                 queue[i][1] = "agent" => Delta(Stage(i - 1), Stage(i)) \subseteq agentLines
          BY <1>4 DEF Attributed
        <5>2. ASSUME NEW i \in 1 .. Len(queue), i = 1 PROVE Delta(Stage(0), Stage(1)) \subseteq agentLines
          <6>1. i - 1 = 0
            BY <5>2
          <6> QED
            BY <3>1, <5>1, <5>2, <6>1
        <5> QED
          BY <5>2
      <4>2. NextBase = tracked.base
        BY <3>1, NextBaseLines
      <4> QED
        BY <2>6, <4>1, <4>2 DEF Delta
    <3>2. CASE queue[1][1] = "user"
      <4>1. ASSUME NEW l \in Lines, l \notin agentLines PROVE NextBase[l] = Stage(1)[l]
        <5>1. CASE \A t \in Texts : t = Empty
          BY <2>2, <2>4, <5>1
        <5>2. ASSUME NEW k \in Lines, \A t \in Texts : t[k] # NoText PROVE NextBase[l] = Stage(1)[l]
          <6>1. Empty \notin {Stage(0), Stage(1)}
            BY <2>2, <5>2 DEF Empty, Text
          <6>2. l \notin tracked.unreviewed
            BY <1>4, <4>1 DEF OnlyAgentLines
          <6> QED
            BY <3>2, <6>1, <6>2, NextBaseLines
        <5> QED
          BY <2>3, <5>1, <5>2 DEF Grounded
      <4> QED
        BY <4>1 DEF Delta
    <3> QED
      BY <3>1, <3>2
  <2>8. Delta(tracked.base, tracked.snapshot)' \subseteq agentLines'
        /\ Delta(StageBase, Stage(0))' \subseteq agentLines'
    BY <1>2, <2>6, <2>7 DEF Delta
  <2>9. ASSUME NEW i \in 1 .. Len(queue'), queue'[i][1] = "agent"
        PROVE  Delta(Stage(i - 1), Stage(i))' \subseteq agentLines'
    <3>1. i \in Stages' /\ i - 1 \in Stages' /\ i + 1 \in 1 .. Len(queue) /\ queue'[i] = queue[i + 1]
      OBVIOUS
    <3>2. Stage(i)' = Stage(i + 1) /\ Stage(i - 1)' = Stage((i - 1) + 1)
      BY <3>1
    <3>3. (i - 1) + 1 = (i + 1) - 1
      OBVIOUS
    <3>4. \A j \in 1 .. Len(queue) : queue[j][1] = "agent" => Delta(Stage(j - 1), Stage(j)) \subseteq agentLines
      BY <1>4 DEF Attributed
    <3>5. Delta(Stage((i + 1) - 1), Stage(i + 1)) \subseteq agentLines
      BY <2>9, <3>1, <3>4
    <3> QED
      BY <1>2, <3>2, <3>3, <3>5 DEF Delta
  <2> QED
    BY <2>5, <2>8, <2>9 DEF Attributed
<1> QED
  BY <1>2, <1>3, <1>4 DEF Whose

LEMMA TrackEditsReviewed ==
    ASSUME LogInv, LogTypes', TrackEdits
    PROVE  BaseReviewed' /\ OneRun'
<1>1. LogTypes /\ BaseReviewed /\ OneRun
  BY DEF LogInv
<1> USE <1>1, ShorterQueue, ShorterStages
<1>2. UNCHANGED <<text, git, tracked, reviewed, excused>>
  BY TrackEditsFacts
<1>3. SUFFICES ASSUME ~excused.undone, NEW l \in Lines
      PROVE  /\ ReviewedAt(git, l)' /\ ReviewedAt(tracked.base, l)' /\ ReviewedAt(StageBase, l)'
             /\ \A i \in 1 .. Len(queue') :
                   queue'[i][1] = "user" /\ Stage(i)'[l] # Stage(i - 1)'[l] => ReviewedAt(Stage(i), l)'
             /\ text'[l].by = "agent" /\ ~ReviewedAt(text, l)' =>
                  \A i, j \in Stages' : i <= j /\ Stage(i)'[l] = text'[l] => Stage(j)'[l] = text'[l]
  BY <1>2 DEF BaseReviewed, OneRun
<1>4. ReviewedAt(git, l)' /\ ReviewedAt(tracked.base, l)'
  BY <1>2, <1>3 DEF BaseReviewed, ReviewedAt
<1>5. \A i \in 1 .. Len(queue) :
         queue[i][1] = "user" /\ Stage(i)[l] # Stage(i - 1)[l] => ReviewedAt(Stage(i), l)
  BY <1>3 DEF BaseReviewed
<1>6. ReviewedAt(StageBase, l)'
  <2>1. ReviewedAt(tracked.base, l)
    BY <1>3 DEF BaseReviewed
  <2>2. CASE NextBase[l] = tracked.base[l]
    BY <1>2, <2>1, <2>2 DEF ReviewedAt
  <2>3. CASE NextBase[l] # tracked.base[l]
    <3>1. NextBase[l] = Stage(1)[l] /\ Stage(1)[l] # Stage(0)[l] /\ queue[1][1] = "user"
      BY <2>3, NextBaseLines
    <3>2. ASSUME NEW i \in 1 .. Len(queue), i = 1 PROVE ReviewedAt(Stage(1), l)
      <4>1. i - 1 = 0
        BY <3>2
      <4> QED
        BY <1>5, <3>1, <3>2, <4>1
    <3>3. ReviewedAt(Stage(1), l)
      BY <3>2
    <3> QED
      BY <1>2, <3>1, <3>3 DEF ReviewedAt
  <2> QED
    BY <2>2, <2>3
<1>7. ASSUME NEW i \in 1 .. Len(queue'), queue'[i][1] = "user", Stage(i)'[l] # Stage(i - 1)'[l]
      PROVE  ReviewedAt(Stage(i), l)'
  <2>1. i \in Stages' /\ i - 1 \in Stages' /\ i + 1 \in 1 .. Len(queue) /\ queue'[i] = queue[i + 1]
    OBVIOUS
  <2>2. Stage(i)' = Stage(i + 1) /\ Stage(i - 1)' = Stage((i - 1) + 1)
    BY <2>1
  <2>3. (i - 1) + 1 = (i + 1) - 1
    OBVIOUS
  <2>4. ReviewedAt(Stage(i + 1), l)
    BY <1>5, <1>7, <2>1, <2>2, <2>3
  <2> QED
    BY <1>2, <2>2, <2>4 DEF ReviewedAt
<1>8. ASSUME text'[l].by = "agent", ~ReviewedAt(text, l)', NEW i \in Stages', NEW j \in Stages',
             i <= j, Stage(i)'[l] = text'[l]
      PROVE  Stage(j)'[l] = text'[l]
  <2>1. /\ Stage(i)' = Stage(i + 1) /\ Stage(j)' = Stage(j + 1)
        /\ i + 1 \in Stages /\ j + 1 \in Stages /\ i + 1 <= j + 1
    BY <1>8
  <2>2. ~ReviewedAt(text, l) /\ text[l].by = "agent"
    BY <1>2, <1>8 DEF ReviewedAt
  <2>3. \A a, b \in Stages : a <= b /\ Stage(a)[l] = text[l] => Stage(b)[l] = text[l]
    BY <1>3, <2>2 DEF OneRun
  <2> QED
    BY <1>2, <1>8, <2>1, <2>3
<1> QED
  BY <1>4, <1>6, <1>7, <1>8

LEMMA TrackEditsSettles ==
    ASSUME LogInv, LogTypes', TrackEdits
    PROVE  FinalSettles'
<1>1. LogTypes /\ FinalSettles
  BY DEF LogInv
<1> USE <1>1, ShorterQueue, ShorterStages
<1>2. UNCHANGED <<text, git, tracked, reviewed, excused>>
  BY TrackEditsFacts
<1>3. SUFFICES ASSUME ~excused.undone, NEW l \in Lines, Final(l)'
      PROVE  Steady(l)' \/ Returns(l)' \/ AwaitsTask(l)'
  BY <1>2 DEF FinalSettles
<1>4. Final(l) /\ text[l] # NoText
  BY <1>2, <1>3 DEF Final, NoText
<1>5. 0 \in Stages /\ 1 \in Stages
  BY DEF Stages
<1>6. NextBase[l] = tracked.base[l] \/ NextBase[l] = Stage(1)[l]
  BY NextBaseLines
<1>7. ASSUME AwaitsTask(l) PROVE AwaitsTask(l)'
  BY <1>2, <1>7 DEF AwaitsTask
<1>8. ASSUME Steady(l) PROVE Steady(l)'
  <2>1. \A i \in Stages : Stage(i)[l] = text[l]
    BY <1>8 DEF Steady
  <2>2. \A i \in Stages' : Stage(i)'[l] = text'[l]
    BY <1>2, <2>1
  <2>3. CASE tracked.base[l] = text[l]
    BY <1>2, <1>5, <1>6, <2>1, <2>2, <2>3 DEF Steady
  <2>4. CASE tracked.base = Empty /\ tracked.unreviewed = Lines
    <3>1. NextBase = Empty
      BY <2>4, NextBaseLines
    <3>2. Stage(1) # Empty
      BY <1>4, <1>5, <2>1 DEF Empty, Text
    <3>3. Differing(NextBase, Stage(1)) = Lines
      BY <3>1, <3>2 DEF Differing
    <3> QED
      BY <2>2, <3>1, <3>3 DEF Steady, Empty, Text, NoText
  <2> QED
    BY <1>8, <2>3, <2>4 DEF Steady
<1>9. ASSUME Returns(l) PROVE Steady(l)' \/ Returns(l)'
  <2>1. PICK i \in 1 .. Len(queue) :
          /\ queue[i][1] = "user"
          /\ \A j \in Stages : Stage(j)[l] = IF j < i THEN Stage(0)[l] ELSE text[l]
          /\ Stage(0)[l] # NoText
          /\ StageBase[l] = text[l] \/ (StageBase[l] = Stage(0)[l] /\ l \notin StageEdits)
    BY <1>9 DEF Returns
  <2>2. CASE i = 1
    <3>1. \A j \in Stages' : Stage(j)'[l] = text'[l]
      <4>1. ASSUME NEW j \in Stages' PROVE Stage(j)'[l] = text'[l]
        <5>1. Stage(j)' = Stage(j + 1) /\ j + 1 \in Stages /\ ~(j + 1 < i)
          BY <2>2
        <5> QED
          BY <1>2, <2>1, <5>1
      <4> QED
        BY <4>1
    <3>2. Stage(1)[l] = text[l]
      BY <1>5, <2>1, <2>2
    <3>3. NextBase[l] = text[l]
      <4>1. CASE tracked.base[l] = text[l]
        BY <1>6, <3>2, <4>1
      <4>2. CASE tracked.base[l] = Stage(0)[l] /\ l \notin tracked.unreviewed
        <5>1. Empty \notin {Stage(0), Stage(1)}
          BY <1>4, <2>1, <3>2 DEF Empty, Text
        <5> QED
          BY <2>1, <2>2, <3>2, <4>2, <5>1, NextBaseLines
      <4> QED
        BY <2>1, <4>1, <4>2
    <3> QED
      BY <1>2, <3>1, <3>3 DEF Steady
  <2>3. CASE i # 1
    <3>1. i - 1 \in 1 .. Len(queue') /\ queue'[i - 1] = queue[(i - 1) + 1] /\ (i - 1) + 1 = i /\ i \in Int
      BY <2>3, SMTT(30)
    <3>2. Stage(1)[l] = Stage(0)[l]
      <4>1. 1 < i
        BY <2>3
      <4> QED
        BY <1>5, <2>1, <4>1
    <3>3. ASSUME NEW j \in Stages'
          PROVE  Stage(j)'[l] = IF j < i - 1 THEN Stage(0)'[l] ELSE text'[l]
      <4>1. Stage(j)' = Stage(j + 1) /\ j + 1 \in Stages /\ j \in Int
        OBVIOUS
      <4>2. Stage(j + 1)[l] = IF j + 1 < i THEN Stage(0)[l] ELSE text[l]
        BY <2>1, <4>1
      <4>3. (j + 1 < i) = (j < i - 1)
        BY <3>1, <4>1
      <4> QED
        BY <1>2, <3>2, <4>1, <4>2, <4>3
    <3>4. Stage(0)'[l] # NoText /\ Stage(1)[l] # NoText
      BY <2>1, <3>2
    <3>5. NextBase[l] = tracked.base[l]
      BY <3>2, NextBaseLines
    <3>6. StageBase'[l] = text'[l] \/ (StageBase'[l] = Stage(0)'[l] /\ l \notin StageEdits')
      <4>1. CASE tracked.base[l] = text[l]
        BY <1>2, <3>5, <4>1
      <4>2. CASE tracked.base[l] = Stage(0)[l]
        <5>1. NextBase[l] = Stage(1)[l]
          BY <3>2, <3>5, <4>2
        <5>2. NextBase # Empty /\ Stage(1) # Empty
          BY <3>4, <5>1 DEF Empty, Text
        <5>3. l \notin Differing(NextBase, Stage(1))
          BY <5>1, <5>2 DEF Differing
        <5> QED
          BY <5>1, <5>3
      <4> QED
        BY <2>1, <4>1, <4>2
    <3>7. queue'[i - 1][1] = "user"
      BY <2>1, <3>1
    <3>8. PICK k \in 1 .. Len(queue') : k = i - 1
      BY <3>1
    <3>9. \A j \in Stages' : Stage(j)'[l] = IF j < k THEN Stage(0)'[l] ELSE text'[l]
      BY <3>3, <3>8
    <3> QED
      BY <3>4, <3>6, <3>7, <3>8, <3>9 DEF Returns, NoText
  <2> QED
    BY <2>2, <2>3
<1> QED
  BY <1>1, <1>2, <1>3, <1>4, <1>7, <1>8, <1>9 DEF FinalSettles

LEMMA TrackEditsSound ==
    ASSUME LogInv, LogTypes', TrackEdits
    PROVE  RestInv'
BY TrackEditsBasics, TrackEditsWhose, TrackEditsReviewed, TrackEditsSettles DEF RestInv, Basics

(***************************************************************************)
(* The invariant                                                           *)
(***************************************************************************)

LEMMA LogStarts ==
    ASSUME Init
    PROVE  LogInv
<1>1. LogTypes
  BY TypesStart
<1>2. Dropped /\ text \in {Text(Original), Empty} /\ git = text
  BY DEF Init, Dropped
<1>3. \A l \in Lines : text[l].by # "agent"
  BY <1>2 DEF Text, Empty, Original, NoText
<1>4. AllReviewed
  BY <1>2, <1>3 DEF AllReviewed, ReviewedAt
<1> QED
  BY <1>1, <1>2, <1>4, UntrackedSound, InvParts

LEMMA LogKeepsSound ==
    ASSUME LogInv, [Next]_vars
    PROVE  LogInv'
<1>1. LogTypes /\ RestInv
  BY InvParts
<1>2. LogTypes'
  BY <1>1, TypesKept
<1>3. ASSUME Agent PROVE RestInv'
  BY <1>2, <1>3, OpenSound, CloseSessionSound, WillDeleteSound, DiskSound, AgentEditSound DEF Agent
<1>4. ASSUME User PROVE RestInv'
  <2>1. ASSUME KeepAll PROVE RestInv'
    BY <1>2, <2>1, KeepSound, ActionLogAssumption
  <2> QED
    BY <1>2, <1>4, <2>1, UserEditSound, KeepSound, RejectSound, UndoRejectSound DEF User
<1>5. ASSUME Disk PROVE RestInv'
  BY <1>2, <1>5, DiskSound, CommitSound DEF Disk
<1>6. ASSUME Task PROVE RestInv'
  BY <1>2, <1>6, TrackEditsSound, KeepCommittedSound, ShowDiffSound, StoreDiffSound DEF Task
<1>7. ASSUME UNCHANGED vars PROVE RestInv'
  BY <1>1, <1>7, SameSound DEF vars, fileVars, logVars, historyVars, DiffKept
<1>8. RestInv'
  BY <1>3, <1>4, <1>5, <1>6, <1>7 DEF Next
<1> QED
  BY <1>2, <1>8, InvParts, PTL

\* The invariant holds in every state the log reaches.
THEOREM LogStaysSound == Spec => []LogInv
<1>1. Init => LogInv
  BY LogStarts
<1>2. LogInv /\ [Next]_vars => LogInv'
  BY LogKeepsSound
<1> QED
  BY <1>1, <1>2, PTL DEF Spec

(***************************************************************************)
(* What follows                                                            *)
(***************************************************************************)

\* Types; no task and no channel remain of a buffer the log has let go of; and
\* as long as no reject is undone, every edit and every hunk the user is asked
\* to review lies on a line the agent may have changed, however his and the
\* agent's edits, keeps, rejects, commits and the steps of the task interleave.
THEOREM ReviewStaysSound == Spec => []ReviewSound
<1>1. ASSUME LogInv PROVE ReviewSound
  <2>1. LogTypes /\ Whose
    BY <1>1 DEF LogInv
  <2>2. WrittenText \subseteq TextType
    BY <2>1, WrittenIsValue
  <2>3. TypeOK
    BY <2>1, <2>2 DEF LogTypes, TrackedType, TypeOK
  <2>4. OnlyAgentLines
    BY <2>1 DEF Whose, OnlyAgentLines
  <2> QED
    BY <2>3, <2>4 DEF ReviewSound
<1> QED
  BY <1>1, LogStaysSound, PTL

\* A quiet log: the task is at its last stage.
LEMMA AtRest ==
    ASSUME LogInv, Quiet
    PROVE  /\ LogTypes /\ tracked.snapshot = text /\ Agree
           /\ Stage(0) = text /\ StageBase = tracked.base /\ StageEdits = tracked.unreviewed
           /\ 1 .. Len(queue) = {} /\ 0 \in Stages
<1>1. LogTypes /\ EndsWithText /\ AtRestAgree
  BY DEF LogInv
<1>2. /\ Len(queue) = 0 /\ 1 .. Len(queue) = {} /\ Stage(0) = tracked.snapshot
      /\ StageBase = tracked.base /\ StageEdits = tracked.unreviewed /\ 0 \in Stages
  BY DEF Quiet, Stage, StageBase, StageEdits, Stages
<1>3. text = Stage(0)
  BY <1>1, <1>2 DEF EndsWithText, Quiet
<1>4. Agree
  BY <1>1 DEF AtRestAgree, Quiet
<1> QED
  BY <1>1, <1>2, <1>3, <1>4

\* When everything is at rest the base and the unreviewed edits make up the
\* text, and the hunks on view are these edits.
THEOREM RestAgrees == Spec => []QuietAgrees
<1>1. ASSUME LogInv PROVE QuietAgrees
  BY <1>1, AtRest DEF QuietAgrees, Agree
<1> QED
  BY <1>1, LogStaysSound, PTL

\* What the agent wrote into a tracked buffer is up for review at rest until the
\* user keeps or commits it, or the log lets go of the buffer: no order of edits
\* and reviews moves it into the base unseen.
THEOREM AgentsChangesShown == Spec => []AgentChangesReviewable
<1>1. ASSUME LogInv PROVE AgentChangesReviewable
  <2>1. SUFFICES ASSUME Quiet, ~excused.undone, NEW l \in Lines, text[l].by = "agent",
                        <<l, text[l].n>> \notin reviewed
                 PROVE  l \in tracked.shown
    BY DEF AgentChangesReviewable
  <2>2. /\ LogTypes /\ tracked.snapshot = text /\ tracked.shown = Differing(tracked.base, text)
    BY <1>1, <2>1, AtRest DEF Agree
  <2>3. ReviewedAt(tracked.base, l)
    BY <1>1, <2>1 DEF LogInv, BaseReviewed
  <2>4. tracked.base[l] # text[l]
    BY <2>1, <2>3 DEF ReviewedAt
  <2>5. tracked.base \in [Lines -> Written] /\ text \in [Lines -> Written]
    BY <2>2, StageTyped DEF LogTypes, WrittenText
  <2>6. Delta(tracked.base, text) \subseteq Differing(tracked.base, text)
    BY <2>5, DifferingFacts
  <2> QED
    BY <2>2, <2>4, <2>6 DEF Delta
<1> QED
  BY <1>1, LogStaysSound, PTL

\* At rest the base says of a settled line what the text says.
LEMMA SettledAtRest ==
    ASSUME LogInv, Quiet, ~excused.undone, Empty \notin {tracked.base, text},
           NEW l \in Lines, Final(l)
    PROVE  l \notin tracked.unreviewed
<1>1. Steady(l) \/ Returns(l) \/ AwaitsTask(l)
  BY DEF LogInv, FinalSettles, Quiet
<1>2. ~Returns(l) /\ ~AwaitsTask(l)
  BY AtRest DEF Returns, AwaitsTask, Quiet
<1>3. tracked.base[l] = text[l]
  BY <1>1, <1>2, AtRest DEF Steady
<1>4. tracked.unreviewed = Differing(tracked.base, text)
  BY AtRest DEF Agree
<1> QED
  BY <1>3, <1>4 DEF Differing

\* Once the task has seen a commit, no edit that it contains as it stands in the
\* buffer is left to review, but for what a reject put back ahead of the task.
THEOREM CommitsSettle == Spec => []CommitSettles
<1>1. ASSUME LogInv PROVE CommitSettles
  <2>1. SUFFICES ASSUME Quiet, Empty \notin {tracked.base, text}, ~excused.undone,
                        NEW l \in tracked.unreviewed, git[l] = text[l],
                        text[l] # NoText, <<l, text[l]>> \notin excused.back
                 PROVE  FALSE
    BY DEF CommitSettles
  <2>2. l \in Lines
    BY <1>1, <2>1 DEF LogInv, LogTypes, TrackedType
  <2>3. Final(l)
    BY <2>1 DEF Final
  <2> QED
    BY <1>1, <2>1, <2>2, <2>3, SettledAtRest
<1> QED
  BY <1>1, LogStaysSound, PTL

\* What the user has kept or committed is not shown for review again, unless he
\* kept it while the task was at work on a diff that overwrites it, or a reject
\* put it back ahead of the task, or the undo of a reject did.
THEOREM KeptStaysKept == Spec => []KeepSticks
<1>1. ASSUME LogInv PROVE KeepSticks
  <2>1. SUFFICES ASSUME Quiet, Empty \notin {tracked.base, text}, ~excused.undone,
                        NEW l \in tracked.shown, text[l].by = "agent",
                        <<l, text[l].n>> \in reviewed, <<l, text[l].n>> \notin excused.kept,
                        <<l, text[l]>> \notin excused.back
                 PROVE  FALSE
    BY DEF KeepSticks
  <2>2. l \in Lines /\ l \in tracked.unreviewed
    BY <1>1, <2>1, AtRest DEF LogInv, LogTypes, TrackedType, Agree
  <2>3. text[l] # NoText
    BY <2>1 DEF NoText
  <2>4. Final(l)
    BY <2>1, <2>3 DEF Final
  <2> QED
    BY <1>1, <2>1, <2>2, <2>4, SettledAtRest
<1> QED
  BY <1>1, LogStaysSound, PTL

\* A reject, also one in the middle of an update of the diff, changes no line
\* that only the user has changed.
THEOREM RejectsSpareUser == Spec => RejectSparesUser
<1>1. ASSUME LogInv, AnyReject, ~excused.undone, NEW l \in Lines, text'[l] # text[l]
      PROVE  l \in agentLines
  <2>1. LogTypes /\ WholeIsAgents /\ Whose
    BY <1>1 DEF LogInv
  <2>2. PICK ls \in SUBSET Lines : RejectEdits(ls)
    BY <1>1, <2>1, RejectCases
  <2>3. CASE RejectCreated \/ RejectDeleted
    BY <2>1, <2>3 DEF RejectCreated, RejectDeleted, WholeIsAgents
  <2>4. CASE RejectModified(ls)
    <3>1. l \in Hunks(ls)
      BY <1>1, <2>4 DEF RejectModified, Patched
    <3>2. l \in tracked.unreviewed
      BY <3>1, HunksWithin
    <3> QED
      BY <1>1, <2>1, <3>2 DEF Whose, OnlyAgentLines
  <2> QED
    BY <2>2, <2>3, <2>4 DEF RejectEdits
<1>2. LogInv /\ [Next]_vars =>
         [AnyReject /\ ~excused.undone =>
            \A l \in Lines : text'[l] # text[l] => l \in agentLines]_vars
  BY <1>1
<1> QED
  BY <1>2, LogStaysSound, PTL DEF Spec, RejectSparesUser
=============================================================================
