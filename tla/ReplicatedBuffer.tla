-------------------------- MODULE ReplicatedBuffer --------------------------
(***************************************************************************)
(* The text buffer Zed replicates between a project's host, its guests, a   *)
(* remote server and an agent (crates/text and crates/clock).  Every        *)
(* replica edits its own copy at once and sends the edit; copies receive    *)
(* edits and undos in any order, more than once, and must agree as soon as  *)
(* they have seen the same ones.                                            *)
(*                                                                         *)
(* A document is a sequence of characters, the deleted ones included: the   *)
(* code keeps runs of characters (fragments) in a balanced tree and splits  *)
(* them at the offsets it needs, so a run stands for the characters in it.  *)
(* What a character says does not matter, only which edit inserted it, which *)
(* edits deleted it, and the flag that says whether it is shown.            *)
(***************************************************************************)
EXTENDS Integers, FiniteSets, SequencesExt

CONSTANTS
    Replica,    \* replica ids, ordered as the code orders them
    BaseLen,    \* characters in the text every copy starts from
    InsertLens, \* how many characters an edit may insert
    MaxOps,     \* edits and undos made in a behaviour
    BatchLen    \* operations that may arrive in one message

LOCAL_ID == 0   \* ReplicaId::LOCAL, the author of the base text

ASSUME BufferAssumption ==
    /\ Replica \subseteq Nat /\ IsFiniteSet(Replica)
    /\ InsertLens \subseteq Nat
    /\ BaseLen \in Nat /\ MaxOps \in Nat /\ BatchLen \in Nat \ {0}

VARIABLES
    fragments,     \* the document of each replica
    version,       \* what each replica has observed of every replica
    lamport_clock, \* the next timestamp value of each replica
    undo_map,      \* the undo counts each replica knows
    deferred_ops,  \* operations that came before what they depend on
    undo_stack,
    redo_stack,
    operations     \* every operation made so far, for ever in flight

bufferVars == <<fragments, version, lamport_clock, undo_map, deferred_ops,
                undo_stack, redo_stack, operations>>

-----------------------------------------------------------------------------
(* Clocks                                                                  *)

Author == Replica \cup {LOCAL_ID}

\* Lamport timestamps are ordered by value, then by replica.
Before(s, t) == s.value < t.value \/ (s.value = t.value /\ s.replica < t.replica)

Observed(v, t) == v[t.replica] >= t.value
ObservedAll(v, w) == \A q \in Author : v[q] >= w[q]
Observe(v, t) == [v EXCEPT ![t.replica] = IF @ < t.value THEN t.value ELSE @]

-----------------------------------------------------------------------------
(* Undo counts and visibility                                              *)

Highest(counts) == Max({0} \cup counts)
UndoCount(undos, e) == Highest({u.count : u \in {x \in undos : x.edit = e}})
IsUndone(undos, e) == UndoCount(undos, e) % 2 = 1
WasUndone(undos, e, v) ==
    Highest({u.count : u \in {x \in undos : x.edit = e /\ Observed(v, x.undo)}})
        % 2 = 1

IsVisible(c, undos) ==
    /\ ~IsUndone(undos, c.stamp)
    /\ \A d \in c.deletions : IsUndone(undos, d)

WasVisible(c, v, undos) ==
    /\ Observed(v, c.stamp) /\ ~WasUndone(undos, c.stamp, v)
    /\ \A d \in c.deletions : Observed(v, d) => WasUndone(undos, d, v)

\* The characters of doc[1..i] that are shown, and those that v has observed.
ShownTo(doc, i) == Cardinality({j \in 1..i : doc[j].visible})
SeenTo(doc, i, v) == Cardinality({j \in 1..i : Observed(v, doc[j].stamp)})

TextLen(doc) == ShownTo(doc, Len(doc))

\* The place behind the first n characters that are shown.
BehindShown(doc, n) == Min({i \in 0..Len(doc) : ShownTo(doc, i) = n})

\* The text that is shown: where each of its characters comes from.
Text(doc) ==
    [k \in 1..TextLen(doc) |-> LET c == doc[BehindShown(doc, k)]
                               IN  <<c.stamp, c.offset>>]

Inserted(stamp, len) ==
    [i \in 1..len |-> [stamp |-> stamp, offset |-> i, deletions |-> {},
                       visible |-> TRUE]]

Delete(c, stamp) ==
    [c EXCEPT !.deletions = @ \cup {stamp}, !.visible = FALSE]

-----------------------------------------------------------------------------
(* Edits.  An edit names the characters it replaces by their place among    *)
(* those its author had seen, deleted ones included.                        *)

\* A local edit goes behind the deleted characters at its place...
LocalStart(doc, start) == Max({i \in 0..Len(doc) : ShownTo(doc, i) <= start})

\* ...and ends with the last character it deletes.
LocalEnd(doc, start, end) ==
    IF start = end THEN LocalStart(doc, start)
    ELSE BehindShown(doc, end)

\* The new text goes behind the first `from` characters; of those up to `to`
\* the ones in `shown` are deleted.
Replace(doc, from, to, edit, shown) ==
    SubSeq(doc, 1, from) \o Inserted(edit.stamp, edit.len)
        \o [i \in 1..(to - from) |->
               IF from + i \in shown THEN Delete(doc[from + i], edit.stamp)
                                     ELSE doc[from + i]]
        \o SubSeq(doc, to + 1, Len(doc))

ApplyLocalEdit(doc, edit) ==
    Replace(doc, edit.from, edit.to, edit, {i \in DOMAIN doc : doc[i].visible})

\* The place behind the first n characters that v has observed.
BehindSeen(doc, v, n) == Min({i \in 0..Len(doc) : SeenTo(doc, i, v) = n})

\* A mistake the properties must notice: concurrent insertions in order of arrival.
RemoteStartUnordered(doc, edit) == BehindSeen(doc, edit.version, edit.from)

\* An edit from elsewhere goes behind the characters its author had seen, and
\* behind those that arrived since and have a later timestamp.
RemoteStart(doc, edit) ==
    LET seen == BehindSeen(doc, edit.version, edit.from)
    IN  Max({i \in seen..Len(doc) :
                \A j \in (seen + 1)..i : Before(edit.stamp, doc[j].stamp)})

RemoteEnd(doc, edit) ==
    IF edit.from = edit.to THEN RemoteStart(doc, edit)
    ELSE BehindSeen(doc, edit.version, edit.to)

ApplyRemoteEdit(doc, edit, undos) ==
    Replace(doc, RemoteStart(doc, edit), RemoteEnd(doc, edit), edit,
            {i \in DOMAIN doc : WasVisible(doc[i], edit.version, undos)})

\* The flag of every character the undone edits inserted or deleted.
ApplyUndo(doc, edits, undos) ==
    [i \in DOMAIN doc |->
        IF doc[i].stamp \in edits \/ doc[i].deletions \cap edits # {}
        THEN [doc[i] EXCEPT !.visible = IsVisible(doc[i], undos)]
        ELSE doc[i]]

UndoEntries(undo) ==
    {[edit |-> e, undo |-> undo.stamp, count |-> undo.counts[e]] :
        e \in DOMAIN undo.counts}

-----------------------------------------------------------------------------
(* Receiving operations.  copy is what apply_ops may change of a replica;   *)
(* waiting is the code's deferred_replicas, which flush_deferred_ops leaves *)
(* with the authors of what it puts off again.                              *)

Copy(r) == [fragments |-> fragments[r], version |-> version[r],
            clock |-> lamport_clock[r], undos |-> undo_map[r],
            deferred |-> deferred_ops[r],
            waiting |-> {op.stamp.replica : op \in deferred_ops[r]}]

Noted(copy, stamp) ==
    [copy EXCEPT
        !.version = Observe(@, stamp),
        !.clock = (IF @ < stamp.value THEN stamp.value ELSE @) + 1]

ApplyOp(copy, op) ==
    IF Observed(copy.version, op.stamp) THEN copy
    ELSE IF op.kind = "edit"
    THEN Noted([copy EXCEPT
                    !.fragments = ApplyRemoteEdit(@, op, copy.undos)],
               op.stamp)
    ELSE LET undos == copy.undos \cup UndoEntries(op)
         IN  Noted([copy EXCEPT
                        !.undos = undos,
                        !.fragments = ApplyUndo(@, DOMAIN op.counts, undos)],
                   op.stamp)

\* A mistake the properties must notice: no look at the version.
CanApplyOpUnseen(copy, op) == op.stamp.replica \notin copy.waiting

\* Once an operation of a replica is put off, so are the later ones.
CanApplyOp(copy, op) ==
    op.stamp.replica \notin copy.waiting /\ ObservedAll(copy.version, op.version)

ApplyOrDefer(copy, op) ==
    IF CanApplyOp(copy, op) THEN ApplyOp(copy, op)
    ELSE [copy EXCEPT !.waiting = @ \cup {op.stamp.replica},
                      !.deferred = @ \cup {op}]

\* One operation after the other.
Receive(copy, ops) ==
    LET after[i \in 0..Len(ops)] ==
            IF i = 0 THEN copy ELSE ApplyOrDefer(after[i - 1], ops[i])
    IN  after[Len(ops)]

InOrder(ops) ==
    CHOOSE q \in [1..Cardinality(ops) -> ops] :
        \A i, j \in DOMAIN q : i < j => Before(q[i].stamp, q[j].stamp)

FlushDeferredOps(copy) ==
    Receive([copy EXCEPT !.deferred = {}, !.waiting = {}], InOrder(copy.deferred))

ApplyOps(copy, ops) == FlushDeferredOps(Receive(copy, ops))

-----------------------------------------------------------------------------
(* A replica's steps                                                        *)

\* Every copy is built from the same base text, inserted by LOCAL_ID at 1.
Init ==
    /\ fragments = [r \in Replica |->
                     Inserted([value |-> 1, replica |-> LOCAL_ID], BaseLen)]
    /\ version = [r \in Replica |-> [q \in Author |->
                     IF q = LOCAL_ID /\ BaseLen > 0 THEN 1 ELSE 0]]
    /\ lamport_clock = [r \in Replica |-> IF BaseLen > 0 THEN 2 ELSE 1]
    /\ undo_map = [r \in Replica |-> {}]
    /\ deferred_ops = [r \in Replica |-> {}]
    /\ undo_stack = [r \in Replica |-> <<>>]
    /\ redo_stack = [r \in Replica |-> <<>>]
    /\ operations = {}

CanMake == Cardinality(operations) < MaxOps

\* A mistake the properties must notice: the earlier edits are lost.
GroupTrailingForgetting(stack, stamp) ==
    Front(stack) \o <<[Last(stack) EXCEPT !.edits = {stamp}]>>

\* An edit that joins the transaction before it.
GroupTrailing(stack, stamp) ==
    Front(stack) \o <<[Last(stack) EXCEPT !.edits = @ \cup {stamp}]>>

\* The transaction takes a timestamp before the edit does.  `grouped` says
\* that the edit comes so soon after the last transaction that it joins it.
Edit(r, start, end, len, grouped) ==
    LET doc  == fragments[r]
        edit == [kind |-> "edit", version |-> version[r], len |-> len,
                 stamp |-> [value |-> lamport_clock[r] + 1, replica |-> r],
                 from |-> LocalStart(doc, start),
                 to |-> LocalEnd(doc, start, end)]
        entry == [id |-> lamport_clock[r], start |-> version[r],
                  edits |-> {edit.stamp}, text |-> Text(doc)]
    IN  /\ CanMake
        /\ start <= end /\ end <= TextLen(doc) /\ ~(start = end /\ len = 0)
        /\ grouped => undo_stack[r] # <<>>
        /\ fragments' = [fragments EXCEPT ![r] = ApplyLocalEdit(doc, edit)]
        /\ version' = [version EXCEPT ![r] = Observe(@, edit.stamp)]
        /\ lamport_clock' = [lamport_clock EXCEPT ![r] = @ + 2]
        /\ undo_stack' = [undo_stack EXCEPT ![r] =
             IF grouped THEN GroupTrailing(@, edit.stamp) ELSE Append(@, entry)]
        /\ redo_stack' = [redo_stack EXCEPT ![r] = <<>>]
        /\ operations' = operations \cup {edit}
        /\ UNCHANGED <<undo_map, deferred_ops>>

\* The same operation undoes a transaction and brings it back.
UndoOrRedo(r, entry) ==
    LET undo == [kind |-> "undo", version |-> version[r],
                 stamp |-> [value |-> lamport_clock[r], replica |-> r],
                 counts |-> [e \in entry.edits |->
                                UndoCount(undo_map[r], e) + 1]]
        undos == undo_map[r] \cup UndoEntries(undo)
    IN  /\ CanMake
        /\ undo_map' = [undo_map EXCEPT ![r] = undos]
        /\ fragments' = [fragments EXCEPT ![r] =
                            ApplyUndo(@, entry.edits, undos)]
        /\ version' = [version EXCEPT ![r] = Observe(@, undo.stamp)]
        /\ lamport_clock' = [lamport_clock EXCEPT ![r] = @ + 1]
        /\ operations' = operations \cup {undo}
        /\ UNCHANGED deferred_ops

Undo(r) ==
    /\ undo_stack[r] # <<>>
    /\ UndoOrRedo(r, Last(undo_stack[r]))
    /\ undo_stack' = [undo_stack EXCEPT ![r] = Front(@)]
    /\ redo_stack' = [redo_stack EXCEPT ![r] = Append(@, Last(undo_stack[r]))]

Redo(r) ==
    /\ redo_stack[r] # <<>>
    /\ UndoOrRedo(r, Last(redo_stack[r]))
    /\ redo_stack' = [redo_stack EXCEPT ![r] = Front(@)]
    /\ undo_stack' = [undo_stack EXCEPT ![r] = Append(@, Last(redo_stack[r]))]

\* A message with some of the operations made so far, in any order, whether or
\* not this replica has had them before.
Deliver(r, ops) ==
    LET copy == ApplyOps(Copy(r), ops)
    IN  /\ fragments' = [fragments EXCEPT ![r] = copy.fragments]
        /\ version' = [version EXCEPT ![r] = copy.version]
        /\ lamport_clock' = [lamport_clock EXCEPT ![r] = copy.clock]
        /\ undo_map' = [undo_map EXCEPT ![r] = copy.undos]
        /\ deferred_ops' = [deferred_ops EXCEPT ![r] = copy.deferred]
        /\ UNCHANGED <<undo_stack, redo_stack, operations>>

Next == \E r \in Replica :
    \/ \E end \in 0..TextLen(fragments[r]) : \E start \in 0..end :
       \E len \in InsertLens, grouped \in BOOLEAN :
            Edit(r, start, end, len, grouped)
    \/ Undo(r)
    \/ Redo(r)
    \/ \E n \in 1..BatchLen : \E ops \in [1..n -> operations] : Deliver(r, ops)

Spec == Init /\ [][Next]_bufferVars

\* A replica that lacks an operation is sent it: messages are sent again after
\* a reconnection, so no operation is lost for good.
Catches(r) == \E op \in operations :
    ~Observed(version[r], op.stamp) /\ Deliver(r, <<op>>)

FairSpec == Spec /\ \A r \in Replica : WF_bufferVars(Catches(r))

-----------------------------------------------------------------------------
(* Properties                                                               *)

Stamp == [value : Nat, replica : Author]

\* Type invariant: documents are sequences of characters, stamps are what the
\* clocks give out, and every deferred operation is one that was made.
TypeOK ==
    \A r \in Replica :
        /\ \A i \in DOMAIN fragments[r] :
              /\ fragments[r][i].stamp \in Stamp
              /\ fragments[r][i].deletions \subseteq Stamp
              /\ fragments[r][i].visible \in BOOLEAN
        /\ version[r] \in [Author -> Nat]
        /\ lamport_clock[r] \in Nat \ {0}
        /\ deferred_ops[r] \subseteq operations
        /\ \A u \in undo_map[r] : u.count \in 1..MaxOps

\* Two copies that have observed the same operations hold the same document:
\* the same characters in the same order, deleted and shown alike, whatever
\* order the operations reached them in (apply_remote_edit, apply_undo).
Converged ==
    \A r, q \in Replica :
        version[r] = version[q] =>
            fragments[r] = fragments[q] /\ undo_map[r] = undo_map[q]

\* The flag each character carries, which edits and undos only ever adjust, is
\* what its insertion, its deletions and the undo counts say (is_visible).
VisibleIsDerived ==
    \A r \in Replica : \A i \in DOMAIN fragments[r] :
        fragments[r][i].visible = IsVisible(fragments[r][i], undo_map[r])

\* An operation that counts as observed has had its effect: an edit's
\* characters are in the document, an undo's counts are known, and so is
\* everything the operation itself was made upon.  A version keeps one number
\* per replica, so an operation applied too early would hide the ones before it.
ObservedIsApplied ==
    \A r \in Replica : \A op \in operations :
        Observed(version[r], op.stamp) =>
            /\ ObservedAll(version[r], op.version)
            /\ op.kind = "edit" =>
                  Cardinality({i \in DOMAIN fragments[r] :
                                 fragments[r][i].stamp = op.stamp}) = op.len
            /\ op.kind = "undo" => UndoEntries(op) \subseteq undo_map[r]

\* One pass over the deferred operations is enough: none stays behind whose
\* dependencies have all been observed (flush_deferred_ops).
DeferredAreMissing ==
    \A r \in Replica : \A op \in deferred_ops[r] :
        ~ObservedAll(version[r], op.version)

\* What holds of each copy by itself, whatever reached it and in which order.
CopiesSound == TypeOK /\ VisibleIsDerived /\ ObservedIsApplied /\ DeferredAreMissing

\* Undoing the latest transaction gives the text from before it, and redoing
\* and undoing it again does too, unless an operation of another replica came
\* in since the transaction began.
UndoRestores ==
    [][\A r \in Replica :
        Undo(r) =>
            LET entry == Last(undo_stack[r])
            IN  (\A q \in Author \ {r} : version[r][q] = entry.start[q]) =>
                    Text(fragments'[r]) = entry.text
      ]_bufferVars

\* Once no more operations are made, every copy comes to hold all of them and
\* puts none off.
Settles ==
    <>[](\A r \in Replica :
            deferred_ops[r] = {}
            /\ \A op \in operations : Observed(version[r], op.stamp))
=============================================================================
