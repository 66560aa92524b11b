------------------------ MODULE ProjectSessionProofs ------------------------
(***************************************************************************)
(* Proofs about ProjectSession: its state is well-formed, at most one      *)
(* instance is alive, and the booting flag tells the truth, for any number *)
(* of projects, opens, edits and pending saves and any set of disturbances.*)
(***************************************************************************)
EXTENDS ProjectSession, TLAPS

\* A project is current as soon as one was opened; before that there is no
\* instance, no flow has started and nothing waits for a frame.
Opened ==
    IF generation = 0
    THEN /\ currentProject = NoProject /\ instance = NoInstance /\ frames = <<>>
         /\ \A g \in Flows : flows[g].pc = "idle"
         /\ \A k \in 1..Len(db) : db[k].flow = NoFlow
    ELSE currentProject \in Projects

TypeInv == TypeOK /\ Opened

-----------------------------------------------------------------------------
(* The pieces of the handlers keep the types of what they assign. *)

LEMMA NoInstanceType == NoInstance \in 0..MaxOpens
BY SessionAssumption DEF NoInstance

LEMMA NoFlowType == NoFlow \in 0..MaxOpens
BY SessionAssumption DEF NoFlow

LEMMA NoSnapshotType == NoSnapshot \in Snapshots
BY SessionAssumption DEF NoSnapshot, Snapshots

\* saveSnapshot() queues one entry at most.
LEMMA StartSaveQueues ==
    ASSUME TypeInv, NEW project \in Projects, NEW flow \in 0..MaxOpens,
           StartSave(project, flow)
    PROVE  \/ UNCHANGED <<frames, db>> /\ instance = NoInstance
           \/ /\ frames' = frames
              /\ \E r \in Requests : r.flow = flow /\ r.op # "get" /\ db' = Append(db, r)
           \/ /\ db' = db
              /\ \E f \in FrameState : f.flow = flow /\ frames' = Append(frames, f)
<1>1. CASE instance = NoInstance
  BY <1>1 DEF StartSave
<1>2. CASE instance # NoInstance /\ ~vfsDirty /\ cachedSnapshot # NoSnapshot
  <2>1. [op |-> "put", project |-> project, snapshot |-> cachedSnapshot,
         cached |-> TRUE, flow |-> flow] \in Requests
    BY DEF TypeInv, TypeOK, Requests
  <2> QED
    BY <1>2, <2>1 DEF StartSave
<1>3. CASE instance # NoInstance /\ ~(~vfsDirty /\ cachedSnapshot # NoSnapshot)
  <2>1. instance \in Flows
    BY <1>3 DEF TypeInv, TypeOK, NoInstance, Flows
  <2>2. [kind |-> "save", instance |-> instance, project |-> project,
         flow |-> flow] \in FrameState
    BY <2>1 DEF FrameState
  <2> QED
    BY <1>3, <2>2 DEF StartSave
<1> QED BY <1>1, <1>2, <1>3

LEMMA StartSaveType ==
    ASSUME TypeInv, NEW project \in Projects, NEW flow \in 0..MaxOpens,
           StartSave(project, flow)
    PROVE  frames' \in Seq(FrameState) /\ db' \in Seq(Requests)
<1>1. frames \in Seq(FrameState) /\ db \in Seq(Requests)
  BY DEF TypeInv, TypeOK
<1>2. \/ UNCHANGED <<frames, db>>
      \/ frames' = frames /\ \E r \in Requests : db' = Append(db, r)
      \/ db' = db /\ \E f \in FrameState : frames' = Append(frames, f)
  BY StartSaveQueues
<1>3. frames' \in Seq(FrameState)
  BY <1>1, <1>2
<1>4. db' \in Seq(Requests)
  BY <1>1, <1>2
<1> QED
  BY <1>3, <1>4

LEMMA AfterBootType ==
    ASSUME NEW flow \in FlowState, NEW now \in 0..MaxOpens
    PROVE  AfterBoot(flow, now) \in FlowState /\ AfterBoot(flow, now).pc \in {"sharing", "done"}
BY DEF AfterBoot, FlowState

LEMMA TeardownAndBootType ==
    ASSUME TypeInv, NEW g \in Flows, NEW flow \in FlowState, TeardownAndBoot(g, flow)
    PROVE  /\ flows' \in [Flows -> FlowState]
           /\ instance' = NoInstance
           /\ booting' \in BOOLEAN /\ dirty' \in BOOLEAN
           /\ alive' \subseteq Flows /\ watcher' \in 0..MaxOpens
           /\ vfsDirty' \in BOOLEAN
           /\ cachedSnapshot' \in Snapshots
           /\ snapshotTimer' \in BOOLEAN
           /\ \A h \in Flows : h # g => flows'[h] = flows[h]
<1>1. Teardown
  BY DEF TeardownAndBoot
<1>2. NoInstance \in 0..MaxOpens
  BY SessionAssumption DEF NoInstance
<1>3. /\ [flow EXCEPT !.pc = "done"] \in FlowState
      /\ [flow EXCEPT !.pc = "booting"] \in FlowState
  BY DEF FlowState
<1>4. AfterBoot(flow, NoInstance) \in FlowState
  BY <1>2, AfterBootType
<1>5. \E new \in FlowState : flows' = [flows EXCEPT ![g] = new]
  BY <1>3, <1>4 DEF TeardownAndBoot
<1>6. booting' \in BOOLEAN
  BY DEF TeardownAndBoot, TypeInv, TypeOK
<1> QED
  BY <1>1, <1>2, <1>5, <1>6, NoSnapshotType DEF Teardown, TypeInv, TypeOK

-----------------------------------------------------------------------------
(* Every action keeps TypeInv. *)

LEMMA NewFlowType ==
    ASSUME NEW p \in Projects, NEW import \in BOOLEAN
    PROVE  NewFlow(p, import) \in FlowState /\ NewFlow(p, import).pc = "idle"
<1>1. IdleFlow \in FlowState /\ IdleFlow.pc = "idle"
  BY NoInstanceType, NoSnapshotType DEF IdleFlow, FlowState
<1>2. p \in Projects \cup {NoProject}
  OBVIOUS
<1> QED
  BY <1>1, <1>2 DEF NewFlow, FlowState

LEMMA NextFlow ==
    ASSUME TypeInv, generation < MaxOpens
    PROVE  /\ generation + 1 \in Flows /\ generation + 1 \in 0..MaxOpens
           /\ generation + 1 # 0
BY SessionAssumption DEF TypeInv, TypeOK, Flows

LEMMA OpenType ==
    ASSUME TypeInv, NEW p \in Projects, OpenFromHome(p), projects' \subseteq Projects
    PROVE  TypeInv'
<1>1. generation + 1 \in Flows /\ generation + 1 \in 0..MaxOpens /\ generation' = generation + 1
      /\ generation' # 0
  BY NextFlow DEF OpenFromHome
<1>2. NewFlow(p, FALSE) \in FlowState
  BY NewFlowType
<1>3. /\ flows' \in [Flows -> FlowState]
      /\ instance' = NoInstance
      /\ booting' \in BOOLEAN /\ dirty' \in BOOLEAN
      /\ alive' \subseteq Flows /\ watcher' \in 0..MaxOpens
      /\ vfsDirty' \in BOOLEAN
      /\ cachedSnapshot' \in Snapshots
      /\ snapshotTimer' \in BOOLEAN
      /\ \A h \in Flows : h # generation + 1 => flows'[h] = flows[h]
  BY <1>1, <1>2, TeardownAndBootType DEF OpenFromHome
<1>4. TypeOK'
  BY <1>1, <1>3, NoInstanceType DEF OpenFromHome, TypeInv, TypeOK
<1>5. Opened'
  BY <1>1 DEF OpenFromHome, Opened
<1> QED
  BY <1>4, <1>5 DEF TypeInv

LEMMA ImportType ==
    ASSUME TypeInv, NEW p \in Projects, ImportFromShare(p)
    PROVE  TypeInv'
<1>1. generation + 1 \in Flows /\ generation + 1 \in 0..MaxOpens /\ generation' = generation + 1
      /\ generation' # 0
  BY NextFlow DEF ImportFromShare
<1>2. NewFlow(p, TRUE) \in FlowState
  BY NewFlowType
<1>3. CASE currentProject # NoProject /\ ~showHomeScreen /\ instance # NoInstance
  <2>1. [NewFlow(p, TRUE) EXCEPT !.pc = "saving"] \in FlowState
    BY <1>2 DEF FlowState
  <2>2. \E new \in FlowState : flows' = [flows EXCEPT ![generation + 1] = new]
    BY <1>3, <2>1 DEF ImportFromShare
  <2>3. frames' \in Seq(FrameState) /\ db' \in Seq(Requests)
    BY <1>1, <1>3, StartSaveType DEF ImportFromShare
  <2>4. TypeOK'
    BY <1>1, <1>3, <2>2, <2>3 DEF ImportFromShare, TypeInv, TypeOK, podVars, cacheVars
  <2>5. Opened'
    BY <1>1 DEF ImportFromShare, Opened
  <2> QED
    BY <2>4, <2>5 DEF TypeInv
<1>4. CASE ~(currentProject # NoProject /\ ~showHomeScreen /\ instance # NoInstance)
  <2>1. /\ flows' \in [Flows -> FlowState]
        /\ instance' = NoInstance
        /\ booting' \in BOOLEAN /\ dirty' \in BOOLEAN
        /\ alive' \subseteq Flows /\ watcher' \in 0..MaxOpens
        /\ vfsDirty' \in BOOLEAN
        /\ cachedSnapshot' \in Snapshots
        /\ snapshotTimer' \in BOOLEAN
        /\ \A h \in Flows : h # generation + 1 => flows'[h] = flows[h]
    BY <1>1, <1>2, <1>4, TeardownAndBootType DEF ImportFromShare
  <2>2. frames' = frames /\ db' = db
    BY <1>4 DEF ImportFromShare
  <2>3. TypeOK'
    BY <1>1, <2>1, <2>2, NoInstanceType DEF ImportFromShare, TypeInv, TypeOK
  <2>4. Opened'
    BY <1>1 DEF ImportFromShare, Opened
  <2> QED
    BY <2>3, <2>4 DEF TypeInv
<1> QED
  BY <1>3, <1>4

LEMMA CurrentIsProject ==
    ASSUME TypeInv, instance # NoInstance \/ (\E g \in Flows : flows[g].pc # "idle")
    PROVE  currentProject \in Projects /\ generation # 0
BY DEF TypeInv, Opened

LEMMA SaveCurrentType ==
    ASSUME TypeInv, StartSave(currentProject, NoFlow)
    PROVE  frames' \in Seq(FrameState) /\ db' \in Seq(Requests)
<1>1. NoFlow \in 0..MaxOpens
  BY SessionAssumption DEF NoFlow
<1>2. CASE instance = NoInstance
  BY <1>2 DEF StartSave, TypeInv, TypeOK
<1>3. CASE instance # NoInstance
  BY <1>1, <1>3, CurrentIsProject, StartSaveType
<1> QED
  BY <1>2, <1>3

LEMMA GoHomeType == ASSUME TypeInv, GoHome PROVE TypeInv'
<1>1. frames' \in Seq(FrameState) /\ db' \in Seq(Requests)
  BY SaveCurrentType DEF GoHome
<1>2. TypeOK'
  BY <1>1 DEF GoHome, TypeInv, TypeOK, podVars, cacheVars
<1>3. Opened'
  BY DEF GoHome, TypeInv, Opened
<1> QED
  BY <1>2, <1>3 DEF TypeInv

\* Whether or not there is an instance to save from.
LEMMA SaveKeepsOpened ==
    ASSUME TypeInv, StartSave(currentProject, NoFlow),
           UNCHANGED <<generation, currentProject, instance, flows>>
    PROVE  Opened'
<1>1. CASE instance = NoInstance
  BY <1>1 DEF StartSave, TypeInv, Opened
<1>2. CASE instance # NoInstance
  BY <1>2 DEF TypeInv, Opened
<1> QED
  BY <1>1, <1>2

LEMMA SaveProjectType == ASSUME TypeInv, SaveProject PROVE TypeInv'
<1>1. frames' \in Seq(FrameState) /\ db' \in Seq(Requests)
  BY SaveCurrentType DEF SaveProject
<1>2. TypeOK'
  BY <1>1 DEF SaveProject, TypeInv, TypeOK, workspaceVars, podVars, cacheVars
<1>3. Opened'
  BY SaveKeepsOpened DEF SaveProject, workspaceVars, podVars
<1> QED
  BY <1>2, <1>3 DEF TypeInv

LEMMA SnapshotTimerType == ASSUME TypeInv, SnapshotTimer PROVE TypeInv'
<1>1. frames' \in Seq(FrameState) /\ db' \in Seq(Requests)
  BY SaveCurrentType DEF SnapshotTimer, TypeInv, TypeOK
<1>2. TypeOK'
  BY <1>1 DEF SnapshotTimer, TypeInv, TypeOK, workspaceVars, podVars
<1>3. UNCHANGED <<generation, currentProject, instance, flows>>
  BY DEF SnapshotTimer, workspaceVars, podVars
<1>4. StartSave(currentProject, NoFlow) \/ UNCHANGED <<frames, db>>
  BY DEF SnapshotTimer
<1>5. Opened'
  BY <1>3, <1>4, SaveKeepsOpened DEF TypeInv, Opened
<1> QED
  BY <1>2, <1>5 DEF TypeInv

LEMMA ShareProjectType == ASSUME TypeInv, ShareProject PROVE TypeInv'
<1>1. currentProject \in Projects /\ generation # 0
  BY CurrentIsProject DEF ShareProject
<1>2. instance \in Flows /\ NoFlow \in 0..MaxOpens
  BY SessionAssumption DEF ShareProject, TypeInv, TypeOK, NoInstance, Flows, NoFlow
<1>3. [kind |-> "share", instance |-> instance, project |-> currentProject,
       flow |-> NoFlow] \in FrameState
  BY <1>1, <1>2 DEF FrameState
<1>4. \E f \in FrameState : frames' = Append(frames, f)
  BY <1>3 DEF ShareProject
<1>5. frames' \in Seq(FrameState)
  BY <1>4 DEF TypeInv, TypeOK
<1> QED
  BY <1>1, <1>5 DEF ShareProject, TypeInv, TypeOK, Opened, workspaceVars, podVars, cacheVars

LEMMA DeleteProjectType ==
    ASSUME TypeInv, NEW p \in Projects, DeleteProject(p) PROVE TypeInv'
<1>1. [op |-> "delete", project |-> p, snapshot |-> NoSnapshot, cached |-> FALSE,
       flow |-> NoFlow] \in Requests
  BY NoSnapshotType, NoFlowType DEF Requests
<1>2. \E r \in Requests : db' = Append(db, r)
  BY <1>1 DEF DeleteProject
<1>3. db' \in Seq(Requests)
  BY <1>2 DEF TypeInv, TypeOK
<1>4. generation = 0 => \A k \in 1..Len(db') : db'[k].flow = NoFlow
  BY DEF DeleteProject, TypeInv, TypeOK, Opened
<1>5. TypeOK'
  BY <1>3 DEF DeleteProject, TypeInv, TypeOK, podVars, cacheVars
<1>6. Opened'
  BY <1>4 DEF DeleteProject, TypeInv, Opened, podVars
<1> QED
  BY <1>5, <1>6 DEF TypeInv

LEMMA EditType == ASSUME TypeInv, Edit PROVE TypeInv'
<1>1. instance \in Flows
  BY DEF Edit, TypeInv, TypeOK, NoInstance, Flows
<1>2. vfs[instance] \in Snapshots /\ vfs[instance].edits < MaxEdits
  BY <1>1 DEF Edit, TypeInv, TypeOK
<1>3. [vfs[instance] EXCEPT !.edits = @ + 1] \in Snapshots
  BY <1>2, SessionAssumption DEF Snapshots
<1>4. vfs' \in [Flows -> Snapshots]
  <2>1. vfs' = [vfs EXCEPT ![instance] = [vfs[instance] EXCEPT !.edits = @ + 1]]
    BY DEF Edit
  <2> QED
    BY <1>3, <2>1 DEF TypeInv, TypeOK
<1>5. dirty' \in BOOLEAN /\ vfsDirty' \in BOOLEAN /\ snapshotTimer' \in BOOLEAN
  BY DEF Edit, TypeInv, TypeOK
<1>6. TypeOK'
  BY <1>4, <1>5 DEF Edit, TypeInv, TypeOK, workspaceVars, podVars
<1>7. Opened'
  BY DEF Edit, TypeInv, Opened, workspaceVars, podVars
<1> QED
  BY <1>6, <1>7 DEF TypeInv

LEMMA BootDoneType ==
    ASSUME TypeInv, NEW g \in Flows, BootDone(g) PROVE TypeInv'
<1>1. currentProject \in Projects /\ generation # 0
  BY CurrentIsProject DEF BootDone
<1>2. flows[g] \in FlowState /\ flows[g].project \in Projects \cup {NoProject}
  BY DEF TypeInv, TypeOK, FlowState
<1>3. vfs' \in [Flows -> Snapshots]
  <2>1. [owner |-> flows[g].project, edits |-> 0] \in Snapshots
    BY <1>2, SessionAssumption DEF Snapshots
  <2> QED
    BY <2>1 DEF BootDone, TypeInv, TypeOK
<1>4. flows' \in [Flows -> FlowState]
  <2>1. flows' = [flows EXCEPT ![g] = [flows[g] EXCEPT !.pc = "loading"]]
    BY DEF BootDone
  <2>2. [flows[g] EXCEPT !.pc = "loading"] \in FlowState
    BY <1>2 DEF FlowState
  <2> QED
    BY <2>1, <2>2 DEF TypeInv, TypeOK
<1>5. g \in 0..MaxOpens
  BY SessionAssumption DEF Flows
<1>6. db' \in Seq(Requests)
  <2>1. [op |-> "get", project |-> currentProject, snapshot |-> NoSnapshot,
         cached |-> FALSE, flow |-> g] \in Requests
    BY <1>1, <1>5, NoSnapshotType DEF Requests
  <2>2. \E r \in Requests : db' = Append(db, r)
    BY <2>1 DEF BootDone
  <2> QED
    BY <2>2 DEF TypeInv, TypeOK
<1>7. TypeOK'
  BY <1>3, <1>4, <1>5, <1>6 DEF BootDone, TypeInv, TypeOK, workspaceVars, cacheVars
<1>8. Opened'
  BY <1>1 DEF BootDone, TypeInv, Opened, workspaceVars
<1> QED
  BY <1>7, <1>8 DEF TypeInv

\* A flow that goes on leaves the rest of the workspace alone.
LEMMA FlowGoesOn ==
    ASSUME TypeInv, NEW g \in Flows, flows[g].pc # "idle", UNCHANGED workspaceVars
    PROVE  Opened'
BY CurrentIsProject DEF Opened, workspaceVars

LEMMA BootFailsType ==
    ASSUME TypeInv, NEW g \in Flows, BootFails(g) PROVE TypeInv'
<1>1. flows' = [flows EXCEPT ![g] = AfterBoot(flows[g], instance)]
  BY DEF BootFails
<1>2. AfterBoot(flows[g], instance) \in FlowState
  BY AfterBootType DEF TypeInv, TypeOK
<1>3. flows' \in [Flows -> FlowState]
  BY <1>1, <1>2 DEF TypeInv, TypeOK
<1>4. TypeOK'
  BY <1>3 DEF BootFails, TypeInv, TypeOK, workspaceVars, cacheVars
<1> QED
  BY <1>4, FlowGoesOn DEF BootFails, TypeInv

LEMMA RefreshDoneType ==
    ASSUME TypeInv, NEW g \in Flows, RefreshDone(g) PROVE TypeInv'
<1>1. flows' = [flows EXCEPT ![g] = AfterBoot(flows[g], instance)]
  BY DEF RefreshDone
<1>2. AfterBoot(flows[g], instance) \in FlowState
  BY AfterBootType DEF TypeInv, TypeOK
<1>3. flows' \in [Flows -> FlowState]
  BY <1>1, <1>2 DEF TypeInv, TypeOK
<1>4. g \in 0..MaxOpens
  BY SessionAssumption DEF Flows
<1>5. TypeOK'
  BY <1>3, <1>4 DEF RefreshDone, TypeInv, TypeOK, workspaceVars, cacheVars
<1> QED
  BY <1>5, FlowGoesOn DEF RefreshDone, TypeInv

LEMMA RestoreDoneType ==
    ASSUME TypeInv, NEW g \in Flows, RestoreDone(g) PROVE TypeInv'
<1>1. flows[g] \in FlowState /\ flows[g].snapshot \in Snapshots
  BY DEF TypeInv, TypeOK, FlowState
<1>2. flows' \in [Flows -> FlowState]
  <2>1. flows' = [flows EXCEPT ![g] = [flows[g] EXCEPT !.pc = "refreshing",
                                                       !.snapshot = NoSnapshot]]
    BY DEF RestoreDone, TypeInv, TypeOK
  <2>2. [flows[g] EXCEPT !.pc = "refreshing", !.snapshot = NoSnapshot] \in FlowState
    BY <1>1, NoSnapshotType DEF FlowState
  <2> QED
    BY <2>1, <2>2 DEF TypeInv, TypeOK
<1>3. vfs' \in [Flows -> Snapshots]
  BY <1>1 DEF RestoreDone, TypeInv, TypeOK
<1>4. TypeOK'
  BY <1>2, <1>3 DEF RestoreDone, TypeInv, TypeOK, workspaceVars, podVars, cacheVars
<1> QED
  BY <1>4, FlowGoesOn DEF RestoreDone, TypeInv

LEMMA ShareRestoredType ==
    ASSUME TypeInv, NEW g \in Flows, ShareRestored(g) PROVE TypeInv'
<1>1. flows[g] \in FlowState /\ flows[g].project \in Projects \cup {NoProject}
  BY DEF TypeInv, TypeOK, FlowState
<1>2. flows' \in [Flows -> FlowState]
  <2>1. flows' = [flows EXCEPT ![g] = [flows[g] EXCEPT !.pc = "done"]]
    BY DEF ShareRestored
  <2>2. [flows[g] EXCEPT !.pc = "done"] \in FlowState
    BY <1>1 DEF FlowState
  <2> QED
    BY <2>1, <2>2 DEF TypeInv, TypeOK
<1>3. vfs' \in [Flows -> Snapshots]
  <2>1. [owner |-> flows[g].project, edits |-> 0] \in Snapshots
    BY <1>1, SessionAssumption DEF Snapshots
  <2> QED
    BY <2>1 DEF ShareRestored, TypeInv, TypeOK
<1>4. frames' \in Seq(FrameState) /\ db' \in Seq(Requests)
  BY SaveCurrentType DEF ShareRestored, TypeInv, TypeOK
<1>5. TypeOK'
  BY <1>2, <1>3, <1>4 DEF ShareRestored, TypeInv, TypeOK, workspaceVars, podVars, cacheVars
<1> QED
  BY <1>5, FlowGoesOn DEF ShareRestored, TypeInv

\* What the head of a queue awaits is a flow, and one was opened.
LEMMA ResumeType ==
    ASSUME TypeInv, NEW g \in 0..MaxOpens, Resume(g)
    PROVE  /\ flows' \in [Flows -> FlowState]
           /\ instance' \in 0..MaxOpens
           /\ booting' \in BOOLEAN /\ dirty' \in BOOLEAN
           /\ alive' \subseteq Flows /\ watcher' \in 0..MaxOpens
           /\ vfsDirty' \in BOOLEAN
           /\ cachedSnapshot' \in Snapshots
           /\ snapshotTimer' \in BOOLEAN
           /\ g = NoFlow => UNCHANGED <<flows, instance>>
<1>1. CASE g = NoFlow
  BY <1>1 DEF Resume, TypeInv, TypeOK, podVars, cacheVars
<1>2. CASE g # NoFlow
  <2>1. g \in Flows
    BY <1>2, SessionAssumption DEF NoFlow, Flows
  <2>2. flows[g] \in FlowState
    BY <2>1 DEF TypeInv, TypeOK
  <2>3. TeardownAndBoot(g, flows[g])
    BY <1>2 DEF Resume
  <2> QED
    BY <1>2, <2>1, <2>2, <2>3, TeardownAndBootType, NoInstanceType
<1> QED BY <1>1, <1>2

LEMMA FrameDoneType == ASSUME TypeInv, FrameDone PROVE TypeInv'
<1> DEFINE f    == Head(frames)
           snap == IF ReusesCache(f) THEN cachedSnapshot ELSE vfs[f.instance]
<1>1. f \in FrameState /\ frames' \in Seq(FrameState)
  BY DEF FrameDone, TypeInv, TypeOK
<1>2. snap \in Snapshots
  BY <1>1 DEF FrameState, TypeInv, TypeOK
<1>3. db' \in Seq(Requests)
  <2>1. [op |-> "put", project |-> f.project, snapshot |-> snap, cached |-> FALSE,
         flow |-> f.flow] \in Requests
    <3>1. f.project \in Projects /\ f.flow \in 0..MaxOpens
      BY <1>1 DEF FrameState
    <3> HIDE DEF f, snap
    <3> QED
      BY <1>2, <3>1 DEF Requests
  <2>2. db' = db \/ \E r \in Requests : db' = Append(db, r)
    BY <2>1 DEF FrameDone
  <2>3. db \in Seq(Requests)
    BY DEF TypeInv, TypeOK
  <2> HIDE DEF f, snap
  <2> QED
    BY <2>2, <2>3
<1>4. cachedSnapshot' \in Snapshots /\ vfsDirty' \in BOOLEAN /\ dirty' \in BOOLEAN
  BY <1>2 DEF FrameDone, TypeInv, TypeOK
<1>5. TypeOK'
  BY <1>1, <1>3, <1>4 DEF FrameDone, TypeInv, TypeOK, workspaceVars, podVars
<1>6. Opened'
  BY DEF FrameDone, TypeInv, Opened, workspaceVars
<1> QED
  BY <1>5, <1>6 DEF TypeInv

LEMMA FrameThrowsType == ASSUME TypeInv, FrameThrows PROVE TypeInv'
<1>1. Head(frames) \in FrameState /\ frames' \in Seq(FrameState)
  BY DEF FrameThrows, TypeInv, TypeOK
<1>2. Head(frames).flow \in 0..MaxOpens
  BY <1>1 DEF FrameState
<1>3. /\ flows' \in [Flows -> FlowState]
      /\ instance' \in 0..MaxOpens
      /\ booting' \in BOOLEAN /\ dirty' \in BOOLEAN
      /\ alive' \subseteq Flows /\ watcher' \in 0..MaxOpens
      /\ vfsDirty' \in BOOLEAN
      /\ cachedSnapshot' \in Snapshots
      /\ snapshotTimer' \in BOOLEAN
  BY <1>2, ResumeType DEF FrameThrows
<1>4. TypeOK'
  BY <1>1, <1>3 DEF FrameThrows, TypeInv, TypeOK, workspaceVars
<1>5. Opened'
  BY DEF FrameThrows, TypeInv, Opened, workspaceVars
<1> QED
  BY <1>4, <1>5 DEF TypeInv

\* Serving the store's first request.
LEMMA ServeType ==
    ASSUME TypeInv, db # <<>>, db' = Tail(db)
    PROVE  /\ db' \in Seq(Requests) /\ Head(db) \in Requests
           /\ Head(db).flow \in 0..MaxOpens
           /\ Head(db).flow # NoFlow => currentProject \in Projects /\ generation # 0
           /\ generation = 0 => \A k \in 1..Len(db') : db'[k].flow = NoFlow
<1>1. db' \in Seq(Requests) /\ Head(db) \in Requests
  BY DEF TypeInv, TypeOK
<1>2. Head(db).flow \in 0..MaxOpens
  BY <1>1 DEF Requests
<1>3. Head(db) = db[1] /\ 1 \in 1..Len(db)
  BY DEF TypeInv, TypeOK
<1>4. Head(db).flow # NoFlow => currentProject \in Projects /\ generation # 0
  BY <1>3 DEF TypeInv, Opened
<1>5. generation = 0 => \A k \in 1..Len(db') : db'[k].flow = NoFlow
  BY DEF TypeInv, TypeOK, Opened
<1> QED
  BY <1>1, <1>2, <1>4, <1>5

LEMMA GetDoneType == ASSUME TypeInv, GetDone PROVE TypeInv'
<1> DEFINE g == Head(db).flow
<1>1. /\ db' \in Seq(Requests) /\ Head(db) \in Requests /\ g \in 0..MaxOpens
      /\ g # NoFlow => currentProject \in Projects /\ generation # 0
      /\ generation = 0 => \A k \in 1..Len(db') : db'[k].flow = NoFlow
  BY ServeType DEF GetDone
<1>2. PICK loaded \in {snapshots[Head(db).project], NoSnapshot} :
        flows' = [flows EXCEPT ![g].snapshot = loaded,
                               ![g].pc = IF loaded = NoSnapshot THEN "refreshing"
                                         ELSE "restoring"]
  BY DEF GetDone
<1>3. loaded \in Snapshots
  BY <1>1, <1>2, NoSnapshotType DEF Requests, TypeInv, TypeOK
<1>4. CASE g = NoFlow
  <2>1. g \notin Flows
    BY <1>4, SessionAssumption DEF NoFlow, Flows
  <2>2. flows' = flows
    BY <1>2, <2>1 DEF TypeInv, TypeOK
  <2>3. TypeOK'
    BY <1>1, <2>2 DEF GetDone, TypeInv, TypeOK, workspaceVars, podVars, cacheVars
  <2>4. Opened'
    BY <1>1, <2>2 DEF GetDone, TypeInv, Opened, workspaceVars, podVars
  <2> QED
    BY <2>3, <2>4 DEF TypeInv
<1>5. CASE g # NoFlow
  <2>1. g \in Flows
    BY <1>1, <1>5, SessionAssumption DEF NoFlow, Flows
  <2>2. flows[g] \in FlowState
    BY <2>1 DEF TypeInv, TypeOK
  <2>3. [flows[g] EXCEPT !.snapshot = loaded,
                         !.pc = IF loaded = NoSnapshot THEN "refreshing"
                                ELSE "restoring"] \in FlowState
    BY <1>3, <2>2 DEF FlowState
  <2>4. flows' = [flows EXCEPT ![g] = [flows[g] EXCEPT !.snapshot = loaded,
                         !.pc = IF loaded = NoSnapshot THEN "refreshing"
                                ELSE "restoring"]]
    BY <1>2, <2>1 DEF TypeInv, TypeOK
  <2>5. flows' \in [Flows -> FlowState]
    BY <2>3, <2>4 DEF TypeInv, TypeOK
  <2>6. TypeOK'
    BY <1>1, <2>5 DEF GetDone, TypeInv, TypeOK, workspaceVars, podVars, cacheVars
  <2>7. Opened'
    BY <1>1, <1>5 DEF GetDone, Opened, workspaceVars
  <2> QED
    BY <2>6, <2>7 DEF TypeInv
<1> QED
  BY <1>4, <1>5

LEMMA PutDoneType == ASSUME TypeInv, PutDone PROVE TypeInv'
<1> DEFINE g == Head(db).flow
<1>1. /\ db' \in Seq(Requests) /\ Head(db) \in Requests /\ g \in 0..MaxOpens
      /\ g # NoFlow => currentProject \in Projects /\ generation # 0
      /\ generation = 0 => \A k \in 1..Len(db') : db'[k].flow = NoFlow
  BY ServeType DEF PutDone
<1>2. snapshots' \in [Projects -> Snapshots]
  BY <1>1 DEF PutDone, Requests, TypeInv, TypeOK
<1>3. CASE g # NoFlow
  <2>1. Resume(g)
    BY <1>3 DEF PutDone
  <2>2. TypeOK'
    BY <1>1, <1>2, <2>1, ResumeType DEF PutDone, TypeInv, TypeOK, workspaceVars
  <2>3. Opened'
    BY <1>1, <1>3 DEF PutDone, Opened, workspaceVars
  <2> QED
    BY <2>2, <2>3 DEF TypeInv
<1>4. CASE g = NoFlow
  <2>1. dirty' \in BOOLEAN
    BY <1>4 DEF PutDone, TypeInv, TypeOK
  <2>2. TypeOK'
    BY <1>1, <1>2, <1>4, <2>1 DEF PutDone, TypeInv, TypeOK, workspaceVars, podVars
  <2>3. Opened'
    BY <1>1, <1>4 DEF PutDone, TypeInv, Opened, workspaceVars, podVars
  <2> QED
    BY <2>2, <2>3 DEF TypeInv
<1> QED
  BY <1>3, <1>4

LEMMA PutFailsType == ASSUME TypeInv, PutFails PROVE TypeInv'
<1> DEFINE g == Head(db).flow
<1>1. /\ db' \in Seq(Requests) /\ Head(db) \in Requests /\ g \in 0..MaxOpens
      /\ g # NoFlow => currentProject \in Projects /\ generation # 0
      /\ generation = 0 => \A k \in 1..Len(db') : db'[k].flow = NoFlow
  BY ServeType DEF PutFails
<1>2. CASE Head(db).cached /\ g # NoFlow
  <2>1. g \in Flows
    BY <1>1, <1>2, SessionAssumption DEF NoFlow, Flows
  <2>2. [flows[g] EXCEPT !.pc = "done"] \in FlowState
    <3>1. flows[g] \in FlowState
      BY <2>1 DEF TypeInv, TypeOK
    <3> QED
      BY <3>1 DEF FlowState
  <2>3. flows' = [flows EXCEPT ![g] = [flows[g] EXCEPT !.pc = "done"]]
    BY <1>2, <2>1 DEF PutFails
  <2>4. flows' \in [Flows -> FlowState]
    BY <2>2, <2>3 DEF TypeInv, TypeOK
  <2>5. TypeOK'
    BY <1>1, <1>2, <2>4 DEF PutFails, TypeInv, TypeOK, workspaceVars, podVars, cacheVars
  <2>6. Opened'
    BY <1>1, <1>2 DEF PutFails, Opened, workspaceVars
  <2> QED
    BY <2>5, <2>6 DEF TypeInv
<1>3. CASE ~(Head(db).cached /\ g # NoFlow)
  <2>1. Resume(g)
    BY <1>3 DEF PutFails
  <2>2. TypeOK'
    BY <1>1, <2>1, ResumeType DEF PutFails, TypeInv, TypeOK, workspaceVars
  <2>3. g = NoFlow => UNCHANGED <<flows, instance>>
    BY <1>1, <2>1, ResumeType
  <2>4. Opened'
    BY <1>1, <2>3 DEF PutFails, TypeInv, Opened, workspaceVars
  <2> QED
    BY <2>2, <2>4 DEF TypeInv
<1> QED
  BY <1>2, <1>3

LEMMA DeleteDoneType == ASSUME TypeInv, DeleteDone PROVE TypeInv'
<1>1. /\ db' \in Seq(Requests) /\ Head(db) \in Requests
      /\ generation = 0 => \A k \in 1..Len(db') : db'[k].flow = NoFlow
  BY ServeType DEF DeleteDone
<1>2. snapshots' \in [Projects -> Snapshots]
  BY <1>1, NoSnapshotType DEF DeleteDone, TypeInv, TypeOK
<1>3. TypeOK'
  BY <1>1, <1>2 DEF DeleteDone, TypeInv, TypeOK, workspaceVars, podVars, cacheVars
<1>4. Opened'
  BY <1>1 DEF DeleteDone, TypeInv, Opened, workspaceVars, podVars
<1> QED
  BY <1>3, <1>4 DEF TypeInv

LEMMA OpenProjectType ==
    ASSUME TypeInv, NEW p \in Projects, OpenProject(p) \/ OpenTemplate(p)
    PROVE  TypeInv'
<1>1. OpenFromHome(p) /\ projects' \subseteq Projects
  BY DEF OpenProject, OpenTemplate, TypeInv, TypeOK
<1> QED
  BY <1>1, OpenType

-----------------------------------------------------------------------------
LEMMA InitType == Init => TypeInv
<1> SUFFICES ASSUME Init PROVE TypeInv
  OBVIOUS
<1>1. IdleFlow \in FlowState /\ IdleFlow.pc = "idle"
  BY NoInstanceType, NoSnapshotType DEF IdleFlow, FlowState
<1>2. TypeOK
  <2>1. sharePending \in BOOLEAN
    <3>1. ("shareLink" \in Disturbances) \in BOOLEAN
      OBVIOUS
    <3> QED
      BY <3>1 DEF Init
  <2>2. generation \in 0..MaxOpens
    BY SessionAssumption DEF Init
  <2>3. flows \in [Flows -> FlowState] /\ vfs \in [Flows -> Snapshots]
    BY <1>1, NoSnapshotType DEF Init
  <2>4. frames \in Seq(FrameState) /\ db \in Seq(Requests)
    BY DEF Init
  <2> QED
    BY <2>1, <2>2, <2>3, <2>4, NoInstanceType, NoSnapshotType DEF Init, TypeOK
<1>3. Opened
  BY <1>1 DEF Init, Opened, IdleFlow
<1> QED
  BY <1>2, <1>3 DEF TypeInv

LEMMA NextType == TypeInv /\ [Next]_vars => TypeInv'
<1> SUFFICES ASSUME TypeInv, [Next]_vars PROVE TypeInv'
  OBVIOUS
<1>1. ASSUME NEW p \in Projects, OpenProject(p) \/ OpenTemplate(p) PROVE TypeInv'
  BY <1>1, OpenProjectType
<1>2. ASSUME NEW p \in Projects, ImportFromShare(p) PROVE TypeInv'
  BY <1>2, ImportType
<1>3. ASSUME NEW p \in Projects, DeleteProject(p) PROVE TypeInv'
  BY <1>3, DeleteProjectType
<1>4. CASE GoHome \/ SaveProject \/ ShareProject \/ Edit
  BY <1>4, GoHomeType, SaveProjectType, ShareProjectType, EditType
<1>5. ASSUME NEW g \in Flows, BootStep(g) PROVE TypeInv'
  BY <1>5, BootDoneType, BootFailsType, RestoreDoneType, RefreshDoneType,
     ShareRestoredType DEF BootStep
<1>6. CASE FrameStep \/ SnapshotTimer
  BY <1>6, FrameDoneType, FrameThrowsType, SnapshotTimerType DEF FrameStep
<1>7. CASE StoreStep
  BY <1>7, GetDoneType, PutDoneType, PutFailsType, DeleteDoneType DEF StoreStep
<1>8. CASE UNCHANGED vars
  BY <1>8 DEF vars, workspaceVars, podVars, cacheVars, TypeInv, TypeOK, Opened
<1> QED
  BY <1>1, <1>2, <1>3, <1>4, <1>5, <1>6, <1>7, <1>8 DEF Next, UserStep

\* The state of the session is well-formed whatever the users, the store and
\* the boots of Nodepod do, and the current project is a project as soon as
\* anything runs on its behalf.
THEOREM SessionTypes == Spec => []TypeOK
<1>1. Init => TypeInv
  BY InitType
<1>2. TypeInv /\ [Next]_vars => TypeInv'
  BY NextType
<1>3. TypeInv => TypeOK
  BY DEF TypeInv
<1> QED
  BY <1>1, <1>2, <1>3, PTL DEF Spec

-----------------------------------------------------------------------------
(* One live instance, one boot at a time. *)

Unstarted == \A g \in Flows : g > generation => flows[g].pc = "idle"

\* A flow is awaited by one queue entry at most, and is then in front of it.
Awaited ==
    /\ \A i \in 1..Len(frames) :
          frames[i].flow # NoFlow => flows[frames[i].flow].pc = "saving"
    /\ \A k \in 1..Len(db) :
          db[k].flow # NoFlow => flows[db[k].flow].pc \in {"saving", "loading"}
    /\ \A k \in 1..Len(db) : db[k].op = "get" => db[k].flow # NoFlow

AwaitedOnce ==
    /\ \A i, j \in 1..Len(frames) :
          frames[i].flow = frames[j].flow /\ frames[i].flow # NoFlow => i = j
    /\ \A k, l \in 1..Len(db) :
          db[k].flow = db[l].flow /\ db[k].flow # NoFlow => k = l
    /\ \A i \in 1..Len(frames), k \in 1..Len(db) :
          frames[i].flow = db[k].flow => frames[i].flow = NoFlow

Safe == OneLiveInstance /\ BootingExclusive /\ Unstarted /\ Awaited /\ AwaitedOnce

SessionInv == TypeInv /\ Safe

LEMMA QueueTypes ==
    ASSUME TypeInv
    PROVE  /\ frames \in Seq(FrameState) /\ db \in Seq(Requests)
           /\ Len(frames) \in Nat /\ Len(db) \in Nat
           /\ \A i \in 1..Len(frames) : frames[i].flow # NoFlow => frames[i].flow \in Flows
           /\ \A k \in 1..Len(db) : db[k].flow # NoFlow => db[k].flow \in Flows
<1>1. frames \in Seq(FrameState) /\ db \in Seq(Requests)
  BY DEF TypeInv, TypeOK
<1>2. \A f \in 0..MaxOpens : f # NoFlow => f \in Flows
  BY SessionAssumption DEF NoFlow, Flows
<1>3. /\ \A i \in 1..Len(frames) : frames[i] \in FrameState
      /\ \A k \in 1..Len(db) : db[k] \in Requests
      /\ Len(frames) \in Nat /\ Len(db) \in Nat
  BY <1>1
<1>4. /\ \A f \in FrameState : f.flow \in 0..MaxOpens
      /\ \A r \in Requests : r.flow \in 0..MaxOpens
  BY DEF FrameState, Requests
<1> QED
  BY <1>1, <1>2, <1>3, <1>4

\* The flows that a queue entry awaits stay where they are, and what is queued
\* anew is awaited by nobody.
LEMMA QueuesKept ==
    ASSUME SessionInv, TypeInv',
           \A h \in Flows : flows[h].pc \in {"saving", "loading"}
                               => flows'[h].pc = flows[h].pc,
           frames' = frames \/ \E f \in FrameState : f.flow = NoFlow
                                                  /\ frames' = Append(frames, f),
           db' = db \/ \E r \in Requests : r.flow = NoFlow /\ r.op # "get"
                                         /\ db' = Append(db, r)
    PROVE  Awaited' /\ AwaitedOnce'
<1>1. /\ frames \in Seq(FrameState) /\ db \in Seq(Requests)
      /\ frames' \in Seq(FrameState) /\ db' \in Seq(Requests)
  BY DEF SessionInv, Safe, TypeInv, TypeOK
<1>2. /\ Len(frames) \in Nat /\ Len(db) \in Nat
      /\ \A i \in 1..Len(frames) : frames[i].flow # NoFlow => frames[i].flow \in Flows
      /\ \A k \in 1..Len(db) : db[k].flow # NoFlow => db[k].flow \in Flows
  BY QueueTypes DEF SessionInv, Safe
<1>3. \A i \in 1..Len(frames') : frames'[i].flow # NoFlow
                                => i \in 1..Len(frames) /\ frames'[i] = frames[i]
  BY <1>1
<1>4. \A k \in 1..Len(db') : db'[k].flow # NoFlow \/ db'[k].op = "get"
                            => k \in 1..Len(db) /\ db'[k] = db[k]
  BY <1>1
<1>5. Awaited'
  <2>1. ASSUME NEW i \in 1..Len(frames'), frames'[i].flow # NoFlow
        PROVE  flows'[frames'[i].flow].pc = "saving"
    BY <1>2, <1>3, <2>1 DEF SessionInv, Safe, Awaited
  <2>2. ASSUME NEW k \in 1..Len(db'), db'[k].flow # NoFlow
        PROVE  flows'[db'[k].flow].pc \in {"saving", "loading"}
    BY <1>2, <1>4, <2>2 DEF SessionInv, Safe, Awaited
  <2>3. ASSUME NEW k \in 1..Len(db'), db'[k].op = "get" PROVE db'[k].flow # NoFlow
    BY <1>4, <2>3 DEF SessionInv, Safe, Awaited
  <2> QED
    BY <2>1, <2>2, <2>3 DEF Awaited
<1>6. AwaitedOnce'
  <2>1. ASSUME NEW i \in 1..Len(frames'), NEW j \in 1..Len(frames'),
               frames'[i].flow = frames'[j].flow, frames'[i].flow # NoFlow
        PROVE  i = j
    BY <1>3, <2>1 DEF SessionInv, Safe, AwaitedOnce
  <2>2. ASSUME NEW k \in 1..Len(db'), NEW l \in 1..Len(db'),
               db'[k].flow = db'[l].flow, db'[k].flow # NoFlow
        PROVE  k = l
    BY <1>4, <2>2 DEF SessionInv, Safe, AwaitedOnce
  <2>3. ASSUME NEW i \in 1..Len(frames'), NEW k \in 1..Len(db'),
               frames'[i].flow = db'[k].flow
        PROVE  frames'[i].flow = NoFlow
    BY <1>3, <1>4, <2>3 DEF SessionInv, Safe, AwaitedOnce
  <2> QED
    BY <2>1, <2>2, <2>3 DEF AwaitedOnce
<1> QED
  BY <1>5, <1>6

\* The first frame is served and the flow it was for may go on.
LEMMA FrameServed ==
    ASSUME SessionInv, TypeInv', frames # <<>>, frames' = Tail(frames), db' = db,
           \A h \in Flows : h # Head(frames).flow => flows'[h] = flows[h]
    PROVE  Awaited' /\ AwaitedOnce'
<1>1. frames \in Seq(FrameState) /\ db \in Seq(Requests)
  BY DEF SessionInv, Safe, TypeInv, TypeOK
<1>2. /\ Len(frames) \in Nat /\ Len(frames) > 0 /\ Head(frames) = frames[1]
      /\ Len(frames') = Len(frames) - 1
      /\ \A i \in 1..Len(frames') : i + 1 \in 1..Len(frames) /\ frames'[i] = frames[i + 1]
  BY <1>1
<1>3. /\ \A i \in 1..Len(frames) : frames[i].flow # NoFlow => frames[i].flow \in Flows
      /\ \A k \in 1..Len(db) : db[k].flow # NoFlow => db[k].flow \in Flows
  BY QueueTypes DEF SessionInv, Safe
<1>4. /\ \A i \in 1..Len(frames') :
            frames'[i].flow # NoFlow => frames'[i].flow # Head(frames).flow
      /\ \A k \in 1..Len(db) : db[k].flow # NoFlow => db[k].flow # Head(frames).flow
  BY <1>2 DEF SessionInv, Safe, AwaitedOnce
<1>5. Awaited'
  BY <1>2, <1>3, <1>4 DEF SessionInv, Safe, Awaited
<1>6. AwaitedOnce'
  BY <1>2 DEF SessionInv, Safe, AwaitedOnce
<1> QED
  BY <1>5, <1>6

\* The store's first request is served and the flow it was for may go on.
LEMMA RequestServed ==
    ASSUME SessionInv, TypeInv', db # <<>>, db' = Tail(db), frames' = frames,
           \A h \in Flows : h # Head(db).flow => flows'[h] = flows[h]
    PROVE  Awaited' /\ AwaitedOnce'
<1>1. frames \in Seq(FrameState) /\ db \in Seq(Requests)
  BY DEF SessionInv, Safe, TypeInv, TypeOK
<1>2. /\ Len(db) \in Nat /\ Len(db) > 0 /\ Head(db) = db[1]
      /\ Len(db') = Len(db) - 1
      /\ \A k \in 1..Len(db') : k + 1 \in 1..Len(db) /\ db'[k] = db[k + 1]
  BY <1>1
<1>3. /\ \A i \in 1..Len(frames) : frames[i].flow # NoFlow => frames[i].flow \in Flows
      /\ \A k \in 1..Len(db) : db[k].flow # NoFlow => db[k].flow \in Flows
  BY QueueTypes DEF SessionInv, Safe
<1>4. /\ \A k \in 1..Len(db') : db'[k].flow # NoFlow => db'[k].flow # Head(db).flow
      /\ \A i \in 1..Len(frames) :
            frames[i].flow # NoFlow => frames[i].flow # Head(db).flow
  BY <1>2 DEF SessionInv, Safe, AwaitedOnce
<1>5. Awaited'
  BY <1>2, <1>3, <1>4 DEF SessionInv, Safe, Awaited
<1>6. AwaitedOnce'
  BY <1>2 DEF SessionInv, Safe, AwaitedOnce
<1> QED
  BY <1>5, <1>6

\* A flow nothing awaited yet queues a request or waits for a frame.
LEMMA FlowQueued ==
    ASSUME SessionInv, TypeInv', NEW g \in Flows,
           flows[g].pc \notin {"saving", "loading"},
           \A h \in Flows : h # g => flows'[h] = flows[h],
           \/ /\ frames' = frames /\ flows'[g].pc \in {"saving", "loading"}
              /\ \E r \in Requests : r.flow = g /\ db' = Append(db, r)
           \/ /\ db' = db /\ flows'[g].pc = "saving"
              /\ \E f \in FrameState : f.flow = g /\ frames' = Append(frames, f)
    PROVE  Awaited' /\ AwaitedOnce'
<1>1. /\ frames \in Seq(FrameState) /\ db \in Seq(Requests)
      /\ g # NoFlow
  BY SessionAssumption DEF SessionInv, Safe, TypeInv, TypeOK, Flows, NoFlow
<1>2. /\ Len(frames) \in Nat /\ Len(db) \in Nat
      /\ \A i \in 1..Len(frames) : frames[i].flow # NoFlow => frames[i].flow \in Flows
      /\ \A k \in 1..Len(db) : db[k].flow # NoFlow => db[k].flow \in Flows
  BY QueueTypes DEF SessionInv, Safe
<1>3. /\ \A i \in 1..Len(frames) : frames[i].flow # g
      /\ \A k \in 1..Len(db) : db[k].flow # g
  BY <1>1 DEF SessionInv, Safe, Awaited
<1>4. CASE /\ frames' = frames /\ flows'[g].pc \in {"saving", "loading"}
           /\ \E r \in Requests : r.flow = g /\ db' = Append(db, r)
  <2>1. /\ Len(db') = Len(db) + 1 /\ db'[Len(db) + 1].flow = g
        /\ \A k \in 1..Len(db) : db'[k] = db[k]
    BY <1>1, <1>4
  <2>2. Awaited'
    BY <1>1, <1>2, <1>3, <1>4, <2>1 DEF SessionInv, Safe, Awaited
  <2>3. AwaitedOnce'
    BY <1>1, <1>2, <1>3, <1>4, <2>1 DEF SessionInv, Safe, AwaitedOnce
  <2> QED
    BY <2>2, <2>3
<1>5. CASE /\ db' = db /\ flows'[g].pc = "saving"
           /\ \E f \in FrameState : f.flow = g /\ frames' = Append(frames, f)
  <2>1. /\ Len(frames') = Len(frames) + 1 /\ frames'[Len(frames) + 1].flow = g
        /\ \A i \in 1..Len(frames) : frames'[i] = frames[i]
    BY <1>1, <1>5
  <2>2. Awaited'
    <3>1. ASSUME NEW i \in 1..Len(frames'), frames'[i].flow # NoFlow
          PROVE  flows'[frames'[i].flow].pc = "saving"
      <4>1. i = Len(frames) + 1 \/ i \in 1..Len(frames)
        BY <1>2, <2>1
      <4> QED
        BY <1>2, <1>3, <1>5, <2>1, <3>1, <4>1 DEF SessionInv, Safe, Awaited
    <3>2. ASSUME NEW k \in 1..Len(db), db[k].flow # NoFlow
          PROVE  flows'[db[k].flow].pc \in {"saving", "loading"}
      BY <1>2, <1>3, <3>2 DEF SessionInv, Safe, Awaited
    <3> QED
      BY <1>5, <3>1, <3>2 DEF SessionInv, Safe, Awaited
  <2>3. AwaitedOnce'
    <3>1. ASSUME NEW i \in 1..Len(frames'), NEW j \in 1..Len(frames'),
                 frames'[i].flow = frames'[j].flow, frames'[i].flow # NoFlow
          PROVE  i = j
      <4>1. /\ i = Len(frames) + 1 \/ i \in 1..Len(frames)
            /\ j = Len(frames) + 1 \/ j \in 1..Len(frames)
        BY <1>2, <2>1
      <4> QED
        BY <1>3, <2>1, <3>1, <4>1 DEF SessionInv, Safe, AwaitedOnce
    <3>2. ASSUME NEW i \in 1..Len(frames'), NEW k \in 1..Len(db),
                 frames'[i].flow = db[k].flow
          PROVE  frames'[i].flow = NoFlow
      <4>1. i = Len(frames) + 1 \/ i \in 1..Len(frames)
        BY <1>2, <2>1
      <4> QED
        BY <1>3, <2>1, <3>2, <4>1 DEF SessionInv, Safe, AwaitedOnce
    <3> QED
      BY <1>5, <3>1, <3>2 DEF SessionInv, Safe, AwaitedOnce
  <2> QED
    BY <2>2, <2>3
<1> QED
  BY <1>4, <1>5

\* teardown() and boot() leave nothing alive, and start a boot only if none
\* is under way.
LEMMA TeardownAndBootSafe ==
    ASSUME SessionInv, TypeInv', NEW g \in Flows, NEW flow \in FlowState,
           flows[g].pc # "booting", flow.pc # "booting", TeardownAndBoot(g, flow)
    PROVE  /\ OneLiveInstance' /\ BootingExclusive'
           /\ \A h \in Flows : h # g => flows'[h] = flows[h]
<1>1. instance' = NoInstance /\ alive' = {}
  BY DEF TeardownAndBoot, Teardown, SessionInv, Safe, OneLiveInstance
<1>2. OneLiveInstance'
  BY <1>1 DEF OneLiveInstance
<1>3. AfterBoot(flow, NoInstance).pc \in {"sharing", "done"}
  BY AfterBootType, NoInstanceType
<1>4. /\ [flow EXCEPT !.pc = "done"].pc = "done"
      /\ [flow EXCEPT !.pc = "booting"].pc = "booting"
  BY DEF FlowState
<1>5. flows \in [Flows -> FlowState] /\ booting \in BOOLEAN
  BY DEF SessionInv, Safe, TypeInv, TypeOK
<1>6. \A h \in Flows : h # g => flows'[h] = flows[h]
  BY <1>5 DEF TeardownAndBoot
<1>7. CASE generation' # g \/ booting
  <2>1. flows'[g].pc # "booting" /\ booting' = booting
    BY <1>3, <1>4, <1>5, <1>7 DEF TeardownAndBoot
  <2>2. BootingFlows' = BootingFlows
    BY <1>6, <2>1 DEF BootingFlows
  <2> QED
    BY <1>1, <1>2, <1>6, <2>1, <2>2 DEF SessionInv, Safe, BootingExclusive
<1>8. CASE generation' = g /\ ~booting
  <2>1. flows'[g].pc = "booting" /\ booting' = TRUE
    BY <1>4, <1>5, <1>8 DEF TeardownAndBoot
  <2>2. BootingFlows = {}
    BY <1>8 DEF SessionInv, Safe, BootingExclusive
  <2>3. BootingFlows' = {g}
    BY <1>6, <2>1, <2>2 DEF BootingFlows
  <2> QED
    BY <1>1, <1>2, <1>6, <2>1, <2>3 DEF BootingExclusive
<1> QED
  BY <1>7, <1>8

\* Steps that touch neither the instance nor who is booting.
LEMMA InstanceKept ==
    ASSUME SessionInv, UNCHANGED <<instance, alive, booting>>,
           \A h \in Flows : flows'[h].pc = "booting" <=> flows[h].pc = "booting"
    PROVE  OneLiveInstance' /\ BootingExclusive'
<1>1. BootingFlows' = BootingFlows
  BY DEF BootingFlows
<1> QED
  BY <1>1 DEF SessionInv, Safe, OneLiveInstance, BootingExclusive

-----------------------------------------------------------------------------
(* Every action keeps SessionInv. *)

LEMMA OpenSafe ==
    ASSUME SessionInv, TypeInv', NEW p \in Projects, OpenFromHome(p)
    PROVE  Safe'
<1> DEFINE g == generation + 1
<1>1. g \in Flows /\ g > generation /\ generation' = g /\ generation \in Nat
  BY NextFlow DEF OpenFromHome, SessionInv, Safe, TypeInv, TypeOK
<1>2. NewFlow(p, FALSE) \in FlowState /\ NewFlow(p, FALSE).pc = "idle"
  BY NewFlowType
<1>3. flows[g].pc = "idle"
  BY <1>1 DEF SessionInv, Safe, Unstarted
<1>4. /\ OneLiveInstance' /\ BootingExclusive'
      /\ \A h \in Flows : h # g => flows'[h] = flows[h]
  BY <1>1, <1>2, <1>3, TeardownAndBootSafe DEF OpenFromHome
<1>5. Unstarted'
  BY <1>1, <1>4 DEF SessionInv, Safe, Unstarted, Flows
<1>6. Awaited' /\ AwaitedOnce'
  <2>1. frames' = frames /\ db' = db
    BY DEF OpenFromHome
  <2> QED
    BY <1>3, <1>4, <2>1, QueuesKept
<1> QED
  BY <1>4, <1>5, <1>6 DEF Safe

\* A save that no flow awaits.
LEMMA SaveSafe ==
    ASSUME SessionInv, TypeInv',
           StartSave(currentProject, NoFlow) \/ UNCHANGED <<frames, db>>,
           \A h \in Flows : flows[h].pc \in {"saving", "loading"}
                               => flows'[h].pc = flows[h].pc
    PROVE  Awaited' /\ AwaitedOnce'
<1>1. CASE instance = NoInstance \/ UNCHANGED <<frames, db>>
  <2>1. UNCHANGED <<frames, db>>
    BY <1>1 DEF StartSave
  <2> QED
    BY <2>1, QueuesKept
<1>2. CASE instance # NoInstance /\ StartSave(currentProject, NoFlow)
  <2>1. currentProject \in Projects
    BY <1>2, CurrentIsProject DEF SessionInv, Safe
  <2>2. \/ UNCHANGED <<frames, db>>
        \/ /\ frames' = frames
           /\ \E r \in Requests : r.flow = NoFlow /\ r.op # "get" /\ db' = Append(db, r)
        \/ /\ db' = db
           /\ \E f \in FrameState : f.flow = NoFlow /\ frames' = Append(frames, f)
    BY <1>2, <2>1, StartSaveQueues, NoFlowType DEF SessionInv, Safe
  <2> QED
    BY <2>2, QueuesKept
<1> QED
  BY <1>1, <1>2

\* Flows not yet started stay so while others go on.
LEMMA UnstartedKept ==
    ASSUME SessionInv, generation' = generation,
           \A h \in Flows : flows[h].pc = "idle" => flows'[h] = flows[h]
    PROVE  Unstarted'
BY DEF SessionInv, Safe, Unstarted

LEMMA ImportSafe ==
    ASSUME SessionInv, TypeInv', NEW p \in Projects, ImportFromShare(p)
    PROVE  Safe'
<1> DEFINE g == generation + 1
<1>1. /\ g \in Flows /\ g \in 0..MaxOpens /\ g > generation
      /\ generation' = g /\ generation \in Nat
  BY NextFlow DEF ImportFromShare, SessionInv, TypeInv, TypeOK
<1>2. NewFlow(p, TRUE) \in FlowState /\ NewFlow(p, TRUE).pc = "idle"
  BY NewFlowType
<1>3. flows[g].pc = "idle"
  BY <1>1 DEF SessionInv, Safe, Unstarted
<1>4. CASE currentProject # NoProject /\ ~showHomeScreen /\ instance # NoInstance
  <2>1. StartSave(p, g) /\ UNCHANGED <<instance, alive, booting>>
    BY <1>4 DEF ImportFromShare, podVars
  <2>2. flows' = [flows EXCEPT ![g] = [NewFlow(p, TRUE) EXCEPT !.pc = "saving"]]
    BY <1>4 DEF ImportFromShare
  <2>3. /\ flows'[g].pc = "saving"
        /\ \A h \in Flows : h # g => flows'[h] = flows[h]
    BY <1>1, <1>2, <2>2 DEF SessionInv, TypeInv, TypeOK, FlowState
  <2>4. OneLiveInstance' /\ BootingExclusive'
    BY <1>3, <2>1, <2>3, InstanceKept
  <2>5. \/ /\ frames' = frames
           /\ \E r \in Requests : r.flow = g /\ r.op # "get" /\ db' = Append(db, r)
        \/ /\ db' = db
           /\ \E f \in FrameState : f.flow = g /\ frames' = Append(frames, f)
    BY <1>1, <1>4, <2>1, StartSaveQueues DEF SessionInv
  <2>6. Awaited' /\ AwaitedOnce'
    BY <1>1, <1>3, <2>3, <2>5, FlowQueued
  <2>7. Unstarted'
    BY <1>1, <2>3 DEF SessionInv, Safe, Unstarted, Flows
  <2> QED
    BY <2>4, <2>6, <2>7 DEF Safe
<1>5. CASE ~(currentProject # NoProject /\ ~showHomeScreen /\ instance # NoInstance)
  <2>1. /\ OneLiveInstance' /\ BootingExclusive'
        /\ \A h \in Flows : h # g => flows'[h] = flows[h]
    BY <1>1, <1>2, <1>3, <1>5, TeardownAndBootSafe DEF ImportFromShare
  <2>2. Unstarted'
    BY <1>1, <2>1 DEF SessionInv, Safe, Unstarted, Flows
  <2>3. frames' = frames /\ db' = db
    BY <1>5 DEF ImportFromShare
  <2>4. Awaited' /\ AwaitedOnce'
    BY <1>3, <2>1, <2>3, QueuesKept
  <2> QED
    BY <2>1, <2>2, <2>4 DEF Safe
<1> QED
  BY <1>4, <1>5

\* The handlers that no flow awaits and that move no flow.
LEMMA UserStepSafe ==
    ASSUME SessionInv, TypeInv',
           GoHome \/ SaveProject \/ ShareProject \/ Edit \/ SnapshotTimer
             \/ \E p \in Projects : DeleteProject(p)
    PROVE  Safe'
<1>1. UNCHANGED <<generation, flows, instance, alive, booting>>
  BY DEF GoHome, SaveProject, ShareProject, Edit, SnapshotTimer, DeleteProject,
         workspaceVars, podVars
<1>2. OneLiveInstance' /\ BootingExclusive' /\ Unstarted'
  BY <1>1, InstanceKept, UnstartedKept
<1>3. CASE GoHome \/ SaveProject \/ Edit \/ SnapshotTimer
  <2>1. StartSave(currentProject, NoFlow) \/ UNCHANGED <<frames, db>>
    BY <1>3 DEF GoHome, SaveProject, Edit, SnapshotTimer
  <2> QED
    BY <1>1, <1>2, <2>1, SaveSafe DEF Safe
<1>4. CASE ShareProject
  <2>1. currentProject \in Projects /\ instance \in Flows
    BY <1>4, CurrentIsProject
    DEF ShareProject, SessionInv, TypeInv, TypeOK, NoInstance, Flows
  <2>2. [kind |-> "share", instance |-> instance, project |-> currentProject,
         flow |-> NoFlow] \in FrameState
    BY <2>1, NoFlowType DEF FrameState
  <2>3. \E f \in FrameState : f.flow = NoFlow /\ frames' = Append(frames, f)
    BY <1>4, <2>2 DEF ShareProject
  <2>4. Awaited' /\ AwaitedOnce'
    BY <1>1, <1>4, <2>3, QueuesKept DEF ShareProject
  <2> QED
    BY <1>2, <2>4 DEF Safe
<1>5. ASSUME NEW p \in Projects, DeleteProject(p) PROVE Safe'
  <2>1. [op |-> "delete", project |-> p, snapshot |-> NoSnapshot, cached |-> FALSE,
         flow |-> NoFlow] \in Requests
    BY NoSnapshotType, NoFlowType DEF Requests
  <2>2. \E r \in Requests : r.flow = NoFlow /\ r.op # "get" /\ db' = Append(db, r)
    BY <1>5, <2>1 DEF DeleteProject
  <2>3. Awaited' /\ AwaitedOnce'
    BY <1>1, <1>5, <2>2, QueuesKept DEF DeleteProject
  <2> QED
    BY <1>2, <2>3 DEF Safe
<1> QED
  BY <1>3, <1>4, <1>5

LEMMA BootDoneSafe ==
    ASSUME SessionInv, TypeInv', NEW g \in Flows, BootDone(g) PROVE Safe'
<1>1. booting = TRUE /\ BootingFlows = {g}
  BY DEF BootDone, SessionInv, Safe, BootingExclusive, BootingFlows, TypeInv, TypeOK
<1>2. instance = NoInstance /\ alive = {} /\ g # NoInstance
  BY <1>1, SessionAssumption
  DEF SessionInv, Safe, BootingExclusive, OneLiveInstance, Flows, NoInstance
<1>3. /\ flows'[g].pc = "loading"
      /\ \A h \in Flows : h # g => flows'[h] = flows[h]
  BY DEF BootDone, SessionInv, TypeInv, TypeOK, FlowState
<1>4. BootingFlows' = {}
  BY <1>1, <1>3 DEF BootingFlows
<1>5. OneLiveInstance' /\ BootingExclusive'
  BY <1>2, <1>4 DEF BootDone, OneLiveInstance, BootingExclusive
<1>6. Unstarted'
  BY <1>3, UnstartedKept DEF BootDone, workspaceVars
<1>7. Awaited' /\ AwaitedOnce'
  <2>1. currentProject \in Projects
    BY CurrentIsProject DEF BootDone, SessionInv
  <2>2. g \in 0..MaxOpens
    BY SessionAssumption DEF Flows
  <2>3. [op |-> "get", project |-> currentProject, snapshot |-> NoSnapshot,
         cached |-> FALSE, flow |-> g] \in Requests
    BY <2>1, <2>2, NoSnapshotType DEF Requests
  <2>4. \E r \in Requests : r.flow = g /\ db' = Append(db, r)
    BY <2>3 DEF BootDone
  <2> QED
    BY <1>3, <2>4, FlowQueued DEF BootDone
<1> QED
  BY <1>5, <1>6, <1>7 DEF Safe

LEMMA BootFailsSafe ==
    ASSUME SessionInv, TypeInv', NEW g \in Flows, BootFails(g) PROVE Safe'
<1>1. BootingFlows = {g}
  BY DEF BootFails, SessionInv, Safe, BootingExclusive, BootingFlows
<1>2. AfterBoot(flows[g], instance).pc \in {"sharing", "done"}
  BY AfterBootType DEF SessionInv, TypeInv, TypeOK
<1>3. /\ flows'[g].pc \in {"sharing", "done"}
      /\ \A h \in Flows : h # g => flows'[h] = flows[h]
  BY <1>2 DEF BootFails, SessionInv, TypeInv, TypeOK
<1>4. BootingFlows' = {}
  BY <1>1, <1>3 DEF BootingFlows
<1>5. OneLiveInstance' /\ BootingExclusive'
  BY <1>4 DEF BootFails, SessionInv, Safe, OneLiveInstance, BootingExclusive
<1>6. Unstarted'
  BY <1>3, UnstartedKept DEF BootFails, workspaceVars
<1>7. Awaited' /\ AwaitedOnce'
  BY <1>3, QueuesKept DEF BootFails
<1> QED
  BY <1>5, <1>6, <1>7 DEF Safe

\* The later continuations of a boot.
LEMMA BootGoesOnSafe ==
    ASSUME SessionInv, TypeInv', NEW g \in Flows,
           RestoreDone(g) \/ RefreshDone(g) \/ ShareRestored(g)
    PROVE  Safe'
<1>1. UNCHANGED <<generation, instance, alive, booting>>
  BY DEF RestoreDone, RefreshDone, ShareRestored, workspaceVars, podVars
<1>2. flows[g].pc \in {"restoring", "refreshing", "sharing"}
  BY DEF RestoreDone, RefreshDone, ShareRestored
<1>3. AfterBoot(flows[g], instance).pc \in {"sharing", "done"}
  BY AfterBootType DEF SessionInv, TypeInv, TypeOK
<1>4. /\ flows'[g].pc \in {"refreshing", "sharing", "done"}
      /\ \A h \in Flows : h # g => flows'[h] = flows[h]
  BY <1>3 DEF RestoreDone, RefreshDone, ShareRestored, SessionInv, TypeInv, TypeOK, FlowState
<1>5. OneLiveInstance' /\ BootingExclusive' /\ Unstarted'
  BY <1>1, <1>2, <1>4, InstanceKept, UnstartedKept
<1>6. StartSave(currentProject, NoFlow) \/ UNCHANGED <<frames, db>>
  BY DEF RestoreDone, RefreshDone, ShareRestored
<1> QED
  BY <1>2, <1>4, <1>5, <1>6, SaveSafe DEF Safe

\* Only a flow that is being awaited is resumed: it is not inside a boot.
LEMMA ResumeSafe ==
    ASSUME SessionInv, TypeInv', NEW g \in 0..MaxOpens, Resume(g),
           g # NoFlow => flows[g].pc \in {"saving", "loading"},
           generation' = generation
    PROVE  /\ OneLiveInstance' /\ BootingExclusive' /\ Unstarted'
           /\ \A h \in Flows : h # g => flows'[h] = flows[h]
<1>1. CASE g = NoFlow
  <2>1. UNCHANGED <<flows, instance, alive, booting>>
    BY <1>1 DEF Resume, podVars
  <2> QED
    BY <2>1, InstanceKept, UnstartedKept
<1>2. CASE g # NoFlow
  <2>1. g \in Flows
    BY <1>2, SessionAssumption DEF NoFlow, Flows
  <2>2. flows[g] \in FlowState /\ flows[g].pc \in {"saving", "loading"}
    BY <1>2, <2>1 DEF SessionInv, TypeInv, TypeOK
  <2>3. TeardownAndBoot(g, flows[g])
    BY <1>2 DEF Resume
  <2>4. /\ OneLiveInstance' /\ BootingExclusive'
        /\ \A h \in Flows : h # g => flows'[h] = flows[h]
    BY <2>1, <2>2, <2>3, TeardownAndBootSafe
  <2>5. Unstarted'
    BY <2>2, <2>4, UnstartedKept
  <2> QED
    BY <2>4, <2>5
<1> QED
  BY <1>1, <1>2

LEMMA FrameDoneSafe ==
    ASSUME SessionInv, TypeInv', FrameDone PROVE Safe'
<1> DEFINE f == Head(frames)
<1>1. /\ UNCHANGED <<generation, flows, instance, alive, booting>>
      /\ frames # <<>> /\ frames' = Tail(frames)
  BY DEF FrameDone, workspaceVars, podVars
<1>2. OneLiveInstance' /\ BootingExclusive' /\ Unstarted'
  BY <1>1, InstanceKept, UnstartedKept
<1>3. CASE db' = db
  <2>1. Awaited' /\ AwaitedOnce'
    BY <1>1, <1>3, FrameServed
  <2> QED
    BY <1>2, <2>1 DEF Safe
<1>4. CASE f.kind # "share"
  <2>1. /\ frames \in Seq(FrameState) /\ db \in Seq(Requests)
        /\ Len(frames) \in Nat /\ Len(db) \in Nat
    BY QueueTypes DEF SessionInv
  <2>2. /\ Len(frames) > 0 /\ f = frames[1] /\ 1 \in 1..Len(frames)
        /\ Len(frames') = Len(frames) - 1
        /\ \A i \in 1..Len(frames') : i + 1 \in 1..Len(frames) /\ frames'[i] = frames[i + 1]
    BY <1>1, <2>1
  <2>3. /\ Len(db') = Len(db) + 1
        /\ db'[Len(db) + 1].flow = f.flow /\ db'[Len(db) + 1].op = "put"
        /\ \A k \in 1..Len(db) : db'[k] = db[k]
    BY <1>4, <2>1 DEF FrameDone
  <2>4. Awaited'
    <3>1. ASSUME NEW i \in 1..Len(frames'), frames'[i].flow # NoFlow
          PROVE  flows'[frames'[i].flow].pc = "saving"
      BY <1>1, <2>2, <3>1 DEF SessionInv, Safe, Awaited
    <3>2. ASSUME NEW k \in 1..Len(db')
          PROVE  /\ db'[k].flow # NoFlow => flows'[db'[k].flow].pc \in {"saving", "loading"}
                 /\ db'[k].op = "get" => db'[k].flow # NoFlow
      <4>1. k = Len(db) + 1 \/ k \in 1..Len(db)
        BY <2>1, <2>3
      <4> QED
        BY <1>1, <2>2, <2>3, <4>1 DEF SessionInv, Safe, Awaited
    <3> QED
      BY <3>1, <3>2 DEF Awaited
  <2>5. AwaitedOnce'
    <3>1. ASSUME NEW i \in 1..Len(frames'), NEW j \in 1..Len(frames'),
                 frames'[i].flow = frames'[j].flow, frames'[i].flow # NoFlow
          PROVE  i = j
      BY <2>1, <2>2, <3>1, SMTT(30) DEF SessionInv, Safe, AwaitedOnce
    <3>2. ASSUME NEW k \in 1..Len(db'), NEW l \in 1..Len(db'),
                 db'[k].flow = db'[l].flow, db'[k].flow # NoFlow
          PROVE  k = l
      <4>1. /\ k = Len(db) + 1 \/ k \in 1..Len(db)
            /\ l = Len(db) + 1 \/ l \in 1..Len(db)
        BY <2>1, <2>3
      <4> QED
        BY <2>2, <2>3, <3>2, <4>1 DEF SessionInv, Safe, AwaitedOnce
    <3>3. ASSUME NEW i \in 1..Len(frames'), NEW k \in 1..Len(db'),
                 frames'[i].flow = db'[k].flow
          PROVE  frames'[i].flow = NoFlow
      <4>1. k = Len(db) + 1 \/ k \in 1..Len(db)
        BY <2>1, <2>3
      <4>2. i + 1 \in 1..Len(frames) /\ i + 1 # 1 /\ frames'[i] = frames[i + 1]
        BY <2>1, <2>2
      <4> QED
        BY <2>2, <2>3, <3>3, <4>1, <4>2 DEF SessionInv, Safe, AwaitedOnce
    <3> QED
      BY <3>1, <3>2, <3>3 DEF AwaitedOnce
  <2> QED
    BY <1>2, <2>4, <2>5 DEF Safe
<1>5. f.kind = "share" => db' = db
  BY DEF FrameDone
<1> QED
  BY <1>3, <1>4, <1>5

LEMMA FrameThrowsSafe ==
    ASSUME SessionInv, TypeInv', FrameThrows PROVE Safe'
<1> DEFINE g == Head(frames).flow
<1>1. /\ frames # <<>> /\ frames' = Tail(frames) /\ db' = db
      /\ generation' = generation /\ Resume(g)
  BY DEF FrameThrows, workspaceVars
<1>2. Head(frames) = frames[1] /\ 1 \in 1..Len(frames) /\ Head(frames) \in FrameState
  BY <1>1, QueueTypes DEF SessionInv
<1>3. g \in 0..MaxOpens /\ (g # NoFlow => flows[g].pc = "saving")
  BY <1>2 DEF FrameState, SessionInv, Safe, Awaited
<1>4. /\ OneLiveInstance' /\ BootingExclusive' /\ Unstarted'
      /\ \A h \in Flows : h # g => flows'[h] = flows[h]
  BY <1>1, <1>3, ResumeSafe
<1>5. Awaited' /\ AwaitedOnce'
  BY <1>1, <1>4, FrameServed
<1> QED
  BY <1>4, <1>5 DEF Safe

\* What the store's first request says of the flow that awaits it.
LEMMA FirstRequest ==
    ASSUME SessionInv, db # <<>>
    PROVE  /\ Head(db) \in Requests /\ Head(db).flow \in 0..MaxOpens
           /\ Head(db).flow # NoFlow
                 => /\ Head(db).flow \in Flows
                    /\ flows[Head(db).flow].pc \in {"saving", "loading"}
           /\ Head(db).op = "get" => Head(db).flow # NoFlow
<1>1. Head(db) = db[1] /\ 1 \in 1..Len(db) /\ Head(db) \in Requests
  BY QueueTypes DEF SessionInv
<1>2. Head(db).flow \in 0..MaxOpens
  BY <1>1 DEF Requests
<1>3. Head(db).flow # NoFlow => Head(db).flow \in Flows
  BY <1>1, QueueTypes DEF SessionInv
<1> QED
  BY <1>1, <1>2, <1>3 DEF SessionInv, Safe, Awaited

LEMMA GetDoneSafe ==
    ASSUME SessionInv, TypeInv', GetDone PROVE Safe'
<1> DEFINE g == Head(db).flow
<1>1. /\ db # <<>> /\ db' = Tail(db) /\ frames' = frames
      /\ UNCHANGED <<generation, instance, alive, booting>>
  BY DEF GetDone, workspaceVars, podVars
<1>2. g \in Flows /\ flows[g].pc \in {"saving", "loading"}
  BY <1>1, FirstRequest DEF GetDone
<1>3. PICK loaded :
        flows' = [flows EXCEPT ![g].snapshot = loaded,
                               ![g].pc = IF loaded = NoSnapshot THEN "refreshing"
                                         ELSE "restoring"]
  BY DEF GetDone
<1>4. /\ flows'[g].pc \in {"refreshing", "restoring"}
      /\ \A h \in Flows : h # g => flows'[h] = flows[h]
  <2>1. flows \in [Flows -> FlowState] /\ flows[g] \in FlowState
    BY <1>2 DEF SessionInv, TypeInv, TypeOK
  <2>2. flows' = [flows EXCEPT ![g] = [flows[g] EXCEPT !.snapshot = loaded,
                         !.pc = IF loaded = NoSnapshot THEN "refreshing"
                                ELSE "restoring"]]
    BY <1>2, <1>3, <2>1
  <2> QED
    BY <1>2, <2>1, <2>2 DEF FlowState
<1>5. OneLiveInstance' /\ BootingExclusive' /\ Unstarted'
  BY <1>1, <1>2, <1>4, InstanceKept, UnstartedKept
<1>6. Awaited' /\ AwaitedOnce'
  BY <1>1, <1>4, RequestServed
<1> QED
  BY <1>5, <1>6 DEF Safe

LEMMA PutSafe ==
    ASSUME SessionInv, TypeInv', PutDone \/ PutFails PROVE Safe'
<1> DEFINE g == Head(db).flow
<1>1. /\ db # <<>> /\ db' = Tail(db) /\ frames' = frames /\ generation' = generation
  BY DEF PutDone, PutFails, workspaceVars
<1>2. /\ g \in 0..MaxOpens
      /\ g # NoFlow => g \in Flows /\ flows[g].pc \in {"saving", "loading"}
  BY <1>1, FirstRequest
<1>3. /\ OneLiveInstance' /\ BootingExclusive' /\ Unstarted'
      /\ \A h \in Flows : h # g => flows'[h] = flows[h]
  <2>1. CASE Resume(g)
    BY <1>1, <1>2, <2>1, ResumeSafe
  <2>2. CASE g = NoFlow /\ PutDone
    <3>1. UNCHANGED <<flows, instance, alive, booting>>
      BY <2>2 DEF PutDone, podVars
    <3> QED
      BY <1>1, <3>1, InstanceKept, UnstartedKept
  <2>3. CASE PutFails /\ Head(db).cached /\ g # NoFlow
    <3>1. UNCHANGED <<instance, alive, booting>>
      BY <2>3 DEF PutFails, podVars
    <3>2. /\ flows'[g].pc = "done"
          /\ \A h \in Flows : h # g => flows'[h] = flows[h]
      BY <1>2, <2>3 DEF PutFails, SessionInv, TypeInv, TypeOK, FlowState
    <3> QED
      BY <1>1, <1>2, <2>3, <3>1, <3>2, InstanceKept, UnstartedKept
  <2> QED
    BY <2>1, <2>2, <2>3 DEF PutDone, PutFails
<1>4. Awaited' /\ AwaitedOnce'
  BY <1>1, <1>3, RequestServed
<1> QED
  BY <1>3, <1>4 DEF Safe

LEMMA DeleteDoneSafe ==
    ASSUME SessionInv, TypeInv', DeleteDone PROVE Safe'
<1>1. /\ db # <<>> /\ db' = Tail(db) /\ frames' = frames
      /\ UNCHANGED <<generation, flows, instance, alive, booting>>
  BY DEF DeleteDone, workspaceVars, podVars
<1>2. OneLiveInstance' /\ BootingExclusive' /\ Unstarted'
  BY <1>1, InstanceKept, UnstartedKept
<1>3. Awaited' /\ AwaitedOnce'
  BY <1>1, RequestServed
<1> QED
  BY <1>2, <1>3 DEF Safe

-----------------------------------------------------------------------------
LEMMA InitSafe == Init => SessionInv
<1> SUFFICES ASSUME Init PROVE SessionInv
  OBVIOUS
<1>1. TypeInv
  BY InitType
<1>2. \A g \in Flows : flows[g].pc = "idle"
  BY DEF Init, IdleFlow
<1>3. OneLiveInstance /\ Unstarted
  BY <1>2 DEF Init, OneLiveInstance, Unstarted
<1>4. BootingExclusive
  BY <1>2 DEF Init, BootingExclusive, BootingFlows
<1>5. Awaited /\ AwaitedOnce
  BY DEF Init, Awaited, AwaitedOnce
<1> QED
  BY <1>1, <1>3, <1>4, <1>5 DEF SessionInv, Safe

LEMMA NextSafe == SessionInv /\ [Next]_vars => SessionInv'
<1> SUFFICES ASSUME SessionInv, [Next]_vars PROVE Safe'
  BY NextType DEF SessionInv
<1> USE NextType DEF SessionInv
<1>1. TypeInv'
  OBVIOUS
<1>2. ASSUME NEW p \in Projects, OpenProject(p) \/ OpenTemplate(p) PROVE Safe'
  <2>1. OpenFromHome(p)
    BY <1>2 DEF OpenProject, OpenTemplate
  <2> QED
    BY <1>1, <2>1, OpenSafe
<1>3. ASSUME NEW p \in Projects, ImportFromShare(p) \/ DeleteProject(p) PROVE Safe'
  BY <1>1, <1>3, ImportSafe, UserStepSafe
<1>4. ASSUME NEW g \in Flows, BootStep(g) PROVE Safe'
  BY <1>1, <1>4, BootDoneSafe, BootFailsSafe, BootGoesOnSafe DEF BootStep
<1>5. CASE GoHome \/ SaveProject \/ ShareProject \/ Edit \/ SnapshotTimer
  BY <1>1, <1>5, UserStepSafe
<1>6. CASE FrameStep
  BY <1>1, <1>6, FrameDoneSafe, FrameThrowsSafe DEF FrameStep
<1>7. CASE StoreStep
  BY <1>1, <1>7, GetDoneSafe, PutSafe, DeleteDoneSafe DEF StoreStep
<1>8. CASE UNCHANGED vars
  BY <1>8 DEF vars, workspaceVars, podVars, cacheVars, Safe, OneLiveInstance,
     BootingExclusive, BootingFlows, Unstarted, Awaited, AwaitedOnce
<1> QED
  BY <1>2, <1>3, <1>4, <1>5, <1>6, <1>7, <1>8 DEF Next, UserStep

\* At most one Nodepod instance is alive and it is the store's, in whatever
\* order projects are opened, imported, booted and torn down.
THEOREM OneInstance == Spec => []OneLiveInstance
<1>1. SessionInv => OneLiveInstance
  BY DEF SessionInv, Safe
<1> QED
  BY <1>1, InitSafe, NextSafe, PTL DEF Spec

\* The flag by which boot() keeps out a second boot tells whether one is under
\* way, and no instance is published then.
THEOREM OneBoot == Spec => []BootingExclusive
<1>1. SessionInv => BootingExclusive
  BY DEF SessionInv, Safe
<1> QED
  BY <1>1, InitSafe, NextSafe, PTL DEF Spec

-----------------------------------------------------------------------------
(* Whose files are stored and shown, as long as nothing overtakes an open:  *)
(* no keys under the overlay, no click before the frame, no late share link.*)

Unhurried == Disturbances \cap {"keyboard", "slowFrame", "shareLink"} = {}

NoImports ==
    /\ ~sharePending
    /\ \A g \in Flows : ~flows[g].import /\ flows[g].pc \notin {"saving", "sharing"}

\* The last open is the current project's: only it can be booting, and the
\* instance, if there is one, is its own.
LastOpen ==
    /\ generation > 0 => flows[generation].project = currentProject
    /\ \A g \in BootingFlows : g = generation
    /\ instance \in {NoInstance, generation}
    /\ ~showHomeScreen => generation > 0
    /\ "bootFailure" \notin Disturbances /\ generation > 0
          => flows[generation].pc = "booting" \/ instance = generation

\* A save under way is one of the current project and instance.
FrameOwn(f) == f.flow = NoFlow /\ f.instance = instance /\ f.project = currentProject

RequestOwn(r) ==
    /\ r.flow # NoFlow => r.op = "get"
    /\ r.op = "put" => r.snapshot.owner = r.project
    /\ r.op = "get" => flows[r.flow].project = r.project

QueuesOwn == /\ \A i \in 1..Len(frames) : FrameOwn(frames[i])
             /\ \A k \in 1..Len(db) : RequestOwn(db[k])

FilesOwn ==
    /\ instance # NoInstance => vfs[instance].owner = currentProject
    /\ cachedSnapshot = NoSnapshot \/ cachedSnapshot.owner = currentProject
    /\ \A g \in Flows : flows[g].pc = "restoring"
                           => flows[g].snapshot.owner = flows[g].project
    /\ \A p \in Projects : snapshots[p] = NoSnapshot \/ snapshots[p].owner = p

Own == NoImports /\ LastOpen /\ QueuesOwn /\ FilesOwn

OwnInv == SessionInv /\ Own

LEMMA OwnFacts ==
    ASSUME OwnInv
    PROVE  /\ flows \in [Flows -> FlowState] /\ vfs \in [Flows -> Snapshots]
           /\ frames \in Seq(FrameState) /\ db \in Seq(Requests)
           /\ generation \in Nat /\ instance \in 0..MaxOpens
           /\ instance # NoInstance => instance \in Flows /\ currentProject \in Projects
           /\ \A f \in FrameState : f.instance \in Flows /\ f.instance # NoInstance
           /\ NoFlow \notin Flows /\ NoInstance \notin Flows
<1>1. TypeOK /\ TypeInv
  BY DEF OwnInv, SessionInv, TypeInv
<1>2. NoFlow \notin Flows /\ NoInstance \notin Flows
  BY DEF NoFlow, NoInstance, Flows
<1>3. instance # NoInstance => instance \in Flows /\ currentProject \in Projects
  BY <1>1, SessionAssumption DEF TypeInv, TypeOK, Opened, NoInstance, Flows
<1> QED
  BY <1>1, <1>2, <1>3, SessionAssumption DEF TypeOK, FrameState

\* Nothing waits for a frame while there is no instance.
LEMMA FramesNeedInstance ==
    ASSUME OwnInv, instance = NoInstance
    PROVE  frames = <<>>
<1>1. frames # <<>> => 1 \in 1..Len(frames) /\ frames[1] \in FrameState
  BY OwnFacts
<1> QED
  BY <1>1, OwnFacts DEF OwnInv, Own, QueuesOwn, FrameOwn

\* The saves waiting for a frame stay those of the current project.
LEMMA FramesStayOwn ==
    ASSUME OwnInv, UNCHANGED <<instance, currentProject>>,
           \/ frames' = frames
           \/ frames # <<>> /\ frames' = Tail(frames)
           \/ \E f \in FrameState : FrameOwn(f) /\ frames' = Append(frames, f)
    PROVE  \A i \in 1..Len(frames') : FrameOwn(frames[i])'
<1>1. frames \in Seq(FrameState) /\ \A i \in 1..Len(frames) : FrameOwn(frames[i])
  BY OwnFacts DEF OwnInv, Own, QueuesOwn
<1>2. ASSUME NEW i \in 1..Len(frames')
      PROVE  \E f \in FrameState : FrameOwn(f) /\ frames'[i] = f
  <2>1. CASE frames' = frames
    BY <1>1, <1>2, <2>1
  <2>2. CASE frames # <<>> /\ frames' = Tail(frames)
    <3>1. i + 1 \in 1..Len(frames) /\ frames'[i] = frames[i + 1]
      BY <1>1, <1>2, <2>2
    <3> QED
      BY <1>1, <3>1
  <2>3. CASE \E f \in FrameState : FrameOwn(f) /\ frames' = Append(frames, f)
    <3>1. PICK f \in FrameState : FrameOwn(f) /\ frames' = Append(frames, f)
      BY <2>3
    <3>2. \/ i \in 1..Len(frames) /\ frames'[i] = frames[i]
          \/ frames'[i] = f
      BY <1>1, <1>2, <3>1
    <3> QED
      BY <1>1, <3>1, <3>2
  <2> QED
    BY <2>1, <2>2, <2>3
<1> QED
  BY <1>2 DEF FrameOwn

\* The requests to the store stay each project's own, as long as the flows that
\* await one keep their project.
LEMMA RequestsStayOwn ==
    ASSUME OwnInv,
           \A g \in Flows : flows[g].pc = "idle" \/ flows'[g].project = flows[g].project,
           \/ db' = db
           \/ db # <<>> /\ db' = Tail(db)
           \/ \E r \in Requests : /\ RequestOwn(r) /\ db' = Append(db, r)
                                  /\ r.op = "get" => r.flow \in Flows /\ flows[r.flow].pc # "idle"
    PROVE  \A k \in 1..Len(db') : RequestOwn(db[k])'
<1> DEFINE Good(r) == /\ RequestOwn(r)
                      /\ r.op = "get" => r.flow \in Flows /\ flows[r.flow].pc # "idle"
<1>1. db \in Seq(Requests)
  BY OwnFacts
<1>2. ASSUME NEW k \in 1..Len(db) PROVE Good(db[k])
  <2>1. db[k].op = "get" => db[k].flow \in Flows /\ flows[db[k].flow].pc # "idle"
    BY QueueTypes DEF OwnInv, SessionInv, Safe, Awaited
  <2> QED
    BY <2>1 DEF OwnInv, Own, QueuesOwn
<1>3. ASSUME NEW k \in 1..Len(db')
      PROVE  \E r \in Requests : Good(r) /\ db'[k] = r
  <2>1. CASE db' = db
    BY <1>1, <1>2, <1>3, <2>1
  <2>2. CASE db # <<>> /\ db' = Tail(db)
    <3>1. k + 1 \in 1..Len(db) /\ db'[k] = db[k + 1] /\ db[k + 1] \in Requests
      BY <1>1, <1>3, <2>2
    <3> QED
      BY <1>2, <3>1
  <2>3. CASE \E r \in Requests : Good(r) /\ db' = Append(db, r)
    <3>1. PICK r \in Requests : Good(r) /\ db' = Append(db, r)
      BY <2>3
    <3>2. \/ k \in 1..Len(db) /\ db'[k] = db[k] /\ db[k] \in Requests
          \/ db'[k] = r
      BY <1>1, <1>3, <3>1
    <3> QED
      BY <1>2, <3>1, <3>2
  <2> QED
    BY <2>1, <2>2, <2>3
<1> QED
  BY <1>3 DEF RequestOwn

\* A save asked for now is the current project's.
LEMMA SaveOwn ==
    ASSUME OwnInv, UNCHANGED <<instance, currentProject>>,
           \A g \in Flows : flows[g].pc = "idle" \/ flows'[g].project = flows[g].project,
           StartSave(currentProject, NoFlow) \/ UNCHANGED <<frames, db>>
    PROVE  QueuesOwn'
<1>1. CASE UNCHANGED <<frames, db>>
  BY <1>1, FramesStayOwn, RequestsStayOwn DEF QueuesOwn
<1>2. CASE instance # NoInstance /\ StartSave(currentProject, NoFlow)
  <2> DEFINE r == [op |-> "put", project |-> currentProject, snapshot |-> cachedSnapshot,
                   cached |-> TRUE, flow |-> NoFlow]
             f == [kind |-> "save", instance |-> instance, project |-> currentProject,
                   flow |-> NoFlow]
  <2>1. r \in Requests /\ f \in FrameState
    BY <1>2, OwnFacts, NoFlowType DEF OwnInv, SessionInv, TypeInv, TypeOK, Requests, FrameState
  <2>2. FrameOwn(f)
    BY DEF FrameOwn
  <2>3. CASE db' = Append(db, r) /\ frames' = frames /\ cachedSnapshot # NoSnapshot
    <3>1. RequestOwn(r)
      BY <2>3 DEF RequestOwn, OwnInv, Own, FilesOwn
    <3>2. \E q \in Requests : /\ RequestOwn(q) /\ db' = Append(db, q)
                              /\ q.op = "get" => q.flow \in Flows /\ flows[q.flow].pc # "idle"
      BY <2>1, <2>3, <3>1
    <3>3. \A k \in 1..Len(db') : RequestOwn(db[k])'
      BY <3>2, RequestsStayOwn
    <3> QED
      BY <2>3, <3>3, FramesStayOwn DEF QueuesOwn
  <2>4. CASE frames' = Append(frames, f) /\ db' = db
    <3>1. \A i \in 1..Len(frames') : FrameOwn(frames[i])'
      BY <2>1, <2>2, <2>4, FramesStayOwn
    <3> QED
      BY <2>4, <3>1, RequestsStayOwn DEF QueuesOwn
  <2> QED
    BY <1>2, <2>3, <2>4 DEF StartSave
<1> QED
  BY <1>1, <1>2 DEF StartSave

\* An open from the home screen: no boot and no frame is under way, so that it
\* starts with nothing of the project before.
LEMMA OpenOwn ==
    ASSUME OwnInv, SessionInv', Unhurried, NEW p \in Projects, OpenFromHome(p)
    PROVE  Own'
<1> DEFINE g == generation + 1
<1>1. /\ g \in Flows /\ g > generation /\ generation' = g /\ generation \in Nat /\ g > 0
  BY NextFlow DEF OpenFromHome, OwnInv, SessionInv, Safe, TypeInv, TypeOK
<1>2. ~booting /\ frames = <<>> /\ UNCHANGED <<frames, db, snapshots, sharePending>>
  BY DEF Unhurried, OpenFromHome, Clickable
<1>3. Teardown /\ flows' = [flows EXCEPT ![g] = [NewFlow(p, FALSE) EXCEPT !.pc = "booting"]]
  BY <1>1, <1>2 DEF OpenFromHome, TeardownAndBoot
<1>4. /\ flows'[g].pc = "booting" /\ flows'[g].project = p /\ ~flows'[g].import
      /\ \A h \in Flows : h # g => flows'[h] = flows[h]
  BY <1>1, <1>3, OwnFacts DEF NewFlow, IdleFlow
<1>5. flows[g].pc = "idle"
  BY <1>1 DEF OwnInv, SessionInv, Safe, Unstarted
<1>6. NoImports'
  BY <1>2, <1>4 DEF OwnInv, Own, NoImports
<1>7. LastOpen'
  <2>1. BootingFlows' = {g}
    BY <1>2, <1>4, <1>1 DEF OwnInv, SessionInv, Safe, BootingExclusive, BootingFlows
  <2>2. currentProject' = p /\ instance' = NoInstance
    BY <1>3 DEF OpenFromHome, Teardown
  <2> QED
    BY <1>1, <1>4, <2>1, <2>2 DEF LastOpen
<1>8. QueuesOwn'
  <2>1. \A k \in 1..Len(db') : RequestOwn(db[k])'
    BY <1>2, <1>4, <1>5, RequestsStayOwn
  <2> QED
    BY <1>2, <2>1 DEF QueuesOwn
<1>9. FilesOwn'
  BY <1>2, <1>3, <1>4 DEF Teardown, OwnInv, Own, FilesOwn
<1> QED
  BY <1>6, <1>7, <1>8, <1>9 DEF Own

\* Steps that leave every flow, the instance and the current project alone.
LEMMA WorkspaceKept ==
    ASSUME OwnInv, UNCHANGED <<currentProject, sharePending, generation, flows, instance>>,
           showHomeScreen' \in {showHomeScreen, TRUE}
    PROVE  NoImports' /\ LastOpen'
BY DEF OwnInv, Own, NoImports, LastOpen, BootingFlows

LEMMA UserStepOwn ==
    ASSUME OwnInv, GoHome \/ SaveProject \/ ShareProject \/ Edit \/ SnapshotTimer
                     \/ \E p \in Projects : DeleteProject(p)
    PROVE  Own'
<1>1. /\ UNCHANGED <<currentProject, sharePending, generation, flows, instance,
                     cachedSnapshot, snapshots>>
      /\ showHomeScreen' \in {showHomeScreen, TRUE}
  BY DEF GoHome, SaveProject, ShareProject, Edit, SnapshotTimer, DeleteProject,
         workspaceVars, podVars, cacheVars
<1>2. NoImports' /\ LastOpen'
  BY <1>1, WorkspaceKept
<1>3. FilesOwn'
  <2>1. instance # NoInstance => vfs'[instance].owner = vfs[instance].owner
    <3>1. CASE Edit
      BY <3>1, OwnFacts DEF Edit, Snapshots
    <3> QED
      BY <3>1 DEF GoHome, SaveProject, ShareProject, SnapshotTimer, DeleteProject
  <2> QED
    BY <1>1, <2>1 DEF OwnInv, Own, FilesOwn
<1>4. CASE GoHome \/ SaveProject \/ Edit \/ SnapshotTimer
  <2>1. StartSave(currentProject, NoFlow) \/ UNCHANGED <<frames, db>>
    BY <1>4 DEF GoHome, SaveProject, Edit, SnapshotTimer
  <2>2. QueuesOwn'
    BY <1>1, <2>1, SaveOwn
  <2> QED
    BY <1>2, <1>3, <2>2 DEF Own
<1>5. CASE ShareProject
  <2> DEFINE f == [kind |-> "share", instance |-> instance, project |-> currentProject,
                   flow |-> NoFlow]
  <2>1. f \in FrameState /\ FrameOwn(f) /\ frames' = Append(frames, f) /\ db' = db
    BY <1>5, OwnFacts, NoFlowType DEF ShareProject, FrameState, FrameOwn
  <2>2. \A i \in 1..Len(frames') : FrameOwn(frames[i])'
    BY <1>1, <2>1, FramesStayOwn
  <2>3. \A k \in 1..Len(db') : RequestOwn(db[k])'
    BY <1>1, <2>1, RequestsStayOwn
  <2> QED
    BY <1>2, <1>3, <2>2, <2>3 DEF Own, QueuesOwn
<1>6. ASSUME NEW p \in Projects, DeleteProject(p) PROVE Own'
  <2> DEFINE r == [op |-> "delete", project |-> p, snapshot |-> NoSnapshot,
                   cached |-> FALSE, flow |-> NoFlow]
  <2>1. r \in Requests /\ RequestOwn(r) /\ db' = Append(db, r) /\ frames' = frames
    BY <1>6, NoSnapshotType, NoFlowType DEF DeleteProject, Requests, RequestOwn
  <2>2. \E q \in Requests : /\ RequestOwn(q) /\ db' = Append(db, q)
                            /\ q.op = "get" => q.flow \in Flows /\ flows[q.flow].pc # "idle"
    BY <2>1
  <2>3. \A k \in 1..Len(db') : RequestOwn(db[k])'
    BY <1>1, <2>2, RequestsStayOwn
  <2>4. \A i \in 1..Len(frames') : FrameOwn(frames[i])'
    BY <1>1, <2>1, FramesStayOwn
  <2> QED
    BY <1>2, <1>3, <2>3, <2>4 DEF Own, QueuesOwn
<1> QED
  BY <1>4, <1>5, <1>6

\* The instance that a boot publishes is that of the last open.
LEMMA BootDoneOwn ==
    ASSUME OwnInv, SessionInv', NEW g \in Flows, BootDone(g)
    PROVE  Own'
<1>1. g \in BootingFlows /\ g = generation /\ generation > 0
  BY DEF BootDone, BootingFlows, OwnInv, Own, LastOpen, Flows
<1>2. /\ instance = NoInstance /\ frames = <<>> /\ frames' = frames
      /\ flows[g].project = currentProject /\ g # NoInstance
  BY <1>1, FramesNeedInstance, OwnFacts
  DEF BootDone, BootingFlows, OwnInv, Own, LastOpen, SessionInv, Safe, BootingExclusive
<1>3. /\ flows'[g].pc = "loading" /\ flows'[g].project = flows[g].project
      /\ flows'[g].import = flows[g].import /\ flows[g].pc = "booting"
      /\ \A h \in Flows : h # g => flows'[h] = flows[h]
  BY OwnFacts DEF BootDone, FlowState
<1>4. /\ UNCHANGED <<currentProject, showHomeScreen, sharePending, generation,
                     cachedSnapshot, snapshots>>
      /\ instance' = g
  BY DEF BootDone, workspaceVars, cacheVars
<1>5. NoImports'
  BY <1>3, <1>4 DEF OwnInv, Own, NoImports
<1>6. LastOpen'
  <2>1. BootingFlows' \subseteq BootingFlows
    BY <1>3 DEF BootingFlows
  <2> QED
    BY <1>1, <1>2, <1>3, <1>4, <2>1 DEF OwnInv, Own, LastOpen
<1>7. QueuesOwn'
  <2> DEFINE r == [op |-> "get", project |-> currentProject, snapshot |-> NoSnapshot,
                   cached |-> FALSE, flow |-> g]
  <2>1. currentProject \in Projects /\ g \in 0..MaxOpens
    BY CurrentIsProject, SessionAssumption DEF BootDone, OwnInv, SessionInv, Flows
  <2>2. r \in Requests /\ db' = Append(db, r)
    BY <2>1, NoSnapshotType DEF BootDone, Requests
  <2>3. RequestOwn(r)
    BY <1>2 DEF RequestOwn
  <2>4. \E q \in Requests : /\ RequestOwn(q) /\ db' = Append(db, q)
                            /\ q.op = "get" => q.flow \in Flows /\ flows[q.flow].pc # "idle"
    BY <1>3, <2>2, <2>3
  <2>5. \A h \in Flows : flows'[h].project = flows[h].project
    BY <1>3
  <2>6. \A k \in 1..Len(db') : RequestOwn(db[k])'
    BY <2>4, <2>5, RequestsStayOwn
  <2> QED
    BY <1>2, <2>6 DEF QueuesOwn
<1>8. FilesOwn'
  <2>1. vfs'[g].owner = currentProject'
    BY <1>2, <1>4, OwnFacts DEF BootDone
  <2> QED
    BY <1>3, <1>4, <2>1 DEF OwnInv, Own, FilesOwn
<1> QED
  BY <1>5, <1>6, <1>7, <1>8 DEF Own

LEMMA AfterBootOwn ==
    ASSUME NEW flow \in FlowState, NEW now, ~flow.import
    PROVE  LET f == AfterBoot(flow, now)
           IN  f.pc = "done" /\ f.project = flow.project /\ ~f.import
BY DEF AfterBoot, FlowState

\* A flow restores its own project's snapshot into its own instance.
LEMMA BootStepOwn ==
    ASSUME OwnInv, SessionInv', NEW g \in Flows,
           BootFails(g) \/ RestoreDone(g) \/ RefreshDone(g) \/ ShareRestored(g)
    PROVE  Own'
<1>1. ~ShareRestored(g)
  BY DEF ShareRestored, OwnInv, Own, NoImports
<1>2. flows \in [Flows -> FlowState] /\ flows[g] \in FlowState /\ ~flows[g].import
  BY OwnFacts DEF OwnInv, Own, NoImports
<1>3. /\ flows'[g].pc \in {"done", "refreshing"} /\ flows'[g].project = flows[g].project
      /\ ~flows'[g].import
      /\ \A h \in Flows : h # g => flows'[h] = flows[h]
  <2>1. CASE BootFails(g) \/ RefreshDone(g)
    <3>1. flows' = [flows EXCEPT ![g] = AfterBoot(flows[g], instance)]
      BY <1>2, <2>1 DEF BootFails, RefreshDone
    <3> QED
      BY <1>2, <3>1, AfterBootOwn
  <2>2. CASE RestoreDone(g)
    <3>1. flows' = [flows EXCEPT ![g] = [flows[g] EXCEPT !.pc = "refreshing",
                                                         !.snapshot = NoSnapshot]]
      BY <1>2, <2>2 DEF RestoreDone
    <3> QED
      BY <1>2, <3>1 DEF FlowState
  <2> QED
    BY <1>1, <2>1, <2>2
<1>4. /\ UNCHANGED <<currentProject, showHomeScreen, sharePending, generation, instance,
                     cachedSnapshot, frames, db, snapshots>>
  BY <1>1 DEF BootFails, RestoreDone, RefreshDone, workspaceVars, podVars, cacheVars
<1>5. NoImports'
  BY <1>3, <1>4 DEF OwnInv, Own, NoImports
<1>6. LastOpen'
  <2>1. BootingFlows' \subseteq BootingFlows
    BY <1>3 DEF BootingFlows
  <2>2. flows[g].pc = "booting" => "bootFailure" \in Disturbances
    BY <1>1 DEF BootFails, RestoreDone, RefreshDone
  <2>3. generation > 0 => generation \in Flows
    BY DEF OwnInv, SessionInv, TypeInv, TypeOK, Flows
  <2>4. generation > 0 => flows'[generation].project = flows[generation].project
    BY <1>3, <2>3
  <2>5. /\ "bootFailure" \notin Disturbances /\ generation > 0
              /\ flows[generation].pc = "booting"
           => flows'[generation].pc = "booting"
    BY <1>3, <2>2, <2>3
  <2> QED
    BY <1>4, <2>1, <2>4, <2>5 DEF OwnInv, Own, LastOpen
<1>7. QueuesOwn'
  BY <1>3, <1>4, SaveOwn
<1>8. FilesOwn'
  <2>1. instance # NoInstance => vfs'[instance].owner = currentProject
    <3>1. CASE RestoreDone(g) /\ g \in alive
      <4>1. g = instance /\ instance = generation /\ generation > 0
        BY <3>1, OwnFacts DEF OwnInv, SessionInv, Safe, OneLiveInstance, Own, LastOpen, Flows
      <4>2. flows[g].snapshot.owner = currentProject
        BY <3>1, <4>1 DEF RestoreDone, OwnInv, Own, LastOpen, FilesOwn
      <4> QED
        BY <3>1, <4>1, <4>2, OwnFacts DEF RestoreDone
    <3>2. CASE ~(RestoreDone(g) /\ g \in alive)
      BY <1>1, <3>2 DEF BootFails, RestoreDone, RefreshDone, OwnInv, Own, FilesOwn
    <3> QED
      BY <3>1, <3>2
  <2> QED
    BY <1>3, <1>4, <2>1 DEF OwnInv, Own, FilesOwn
<1> QED
  BY <1>5, <1>6, <1>7, <1>8 DEF Own

\* A frame takes the snapshot of the current project's files.
LEMMA FrameDoneOwn ==
    ASSUME OwnInv, SessionInv', FrameDone
    PROVE  Own'
<1> DEFINE f    == Head(frames)
           snap == IF ReusesCache(f) THEN cachedSnapshot ELSE vfs[f.instance]
           r    == [op |-> "put", project |-> f.project, snapshot |-> snap,
                    cached |-> FALSE, flow |-> f.flow]
<1>1. /\ frames # <<>> /\ frames' = Tail(frames) /\ cachedSnapshot' = snap
      /\ db' = db \/ db' = Append(db, r)
      /\ UNCHANGED <<currentProject, showHomeScreen, sharePending, generation, flows,
                     instance, vfs, snapshots>>
  BY DEF FrameDone, workspaceVars, podVars
<1>2. f = frames[1] /\ 1 \in 1..Len(frames) /\ f \in FrameState
  BY <1>1, OwnFacts
<1>3. FrameOwn(f) /\ f.instance # NoInstance
  BY <1>2, OwnFacts DEF OwnInv, Own, QueuesOwn
<1>4. snap.owner = currentProject
  BY <1>3 DEF FrameOwn, ReusesCache, OwnInv, Own, FilesOwn
<1>5. NoImports' /\ LastOpen'
  BY <1>1, WorkspaceKept
<1>6. FilesOwn'
  BY <1>1, <1>4 DEF OwnInv, Own, FilesOwn
<1>7. \A i \in 1..Len(frames') : FrameOwn(frames[i])'
  BY <1>1, FramesStayOwn
<1>8. \A k \in 1..Len(db') : RequestOwn(db[k])'
  <2>1. RequestOwn(r) /\ r.op = "put"
    BY <1>3, <1>4 DEF RequestOwn, FrameOwn
  <2>2. r \in Requests
    <3>1. snap \in Snapshots /\ f.project \in Projects /\ f.flow \in 0..MaxOpens
      BY <1>2, OwnFacts DEF OwnInv, SessionInv, TypeInv, TypeOK, FrameState
    <3> QED
      BY <3>1 DEF Requests
  <2>3. \/ db' = db
        \/ \E q \in Requests : /\ RequestOwn(q) /\ db' = Append(db, q)
                               /\ q.op = "get" => q.flow \in Flows /\ flows[q.flow].pc # "idle"
    BY <1>1, <2>1, <2>2
  <2>4. flows' = flows
    BY <1>1
  <2> QED
    BY <2>3, <2>4, RequestsStayOwn
<1> QED
  BY <1>5, <1>6, <1>7, <1>8 DEF Own, QueuesOwn

LEMMA FrameThrowsOwn ==
    ASSUME OwnInv, SessionInv', FrameThrows
    PROVE  Own'
<1>1. /\ frames # <<>> /\ frames' = Tail(frames) /\ db' = db
      /\ UNCHANGED <<currentProject, showHomeScreen, sharePending, generation, vfs, snapshots>>
  BY DEF FrameThrows, workspaceVars
<1>2. Head(frames) = frames[1] /\ 1 \in 1..Len(frames)
  BY <1>1, OwnFacts
<1>3. UNCHANGED <<flows, instance, cachedSnapshot>>
  BY <1>2 DEF FrameThrows, Resume, podVars, cacheVars, OwnInv, Own, QueuesOwn, FrameOwn
<1>4. QueuesOwn'
  BY <1>1, <1>3, FramesStayOwn, RequestsStayOwn DEF QueuesOwn
<1> QED
  BY <1>1, <1>3, <1>4, WorkspaceKept DEF OwnInv, Own, FilesOwn

\* A flow is given the snapshot of its own project.
LEMMA GetDoneOwn ==
    ASSUME OwnInv, SessionInv', GetDone
    PROVE  Own'
<1> DEFINE g == Head(db).flow
<1>1. /\ db # <<>> /\ db' = Tail(db) /\ frames' = frames /\ Head(db).op = "get"
      /\ UNCHANGED <<currentProject, showHomeScreen, sharePending, generation, instance,
                     cachedSnapshot, vfs, snapshots>>
  BY DEF GetDone, workspaceVars, podVars, cacheVars
<1>2. /\ Head(db) = db[1] /\ 1 \in 1..Len(db) /\ Head(db).project \in Projects
      /\ g \in Flows /\ flows[g].pc \in {"saving", "loading"}
      /\ flows[g].project = Head(db).project
  <2>1. Head(db) = db[1] /\ 1 \in 1..Len(db)
    BY <1>1, OwnFacts
  <2>2. Head(db) \in Requests /\ g \in Flows /\ flows[g].pc \in {"saving", "loading"}
    BY <1>1, FirstRequest DEF OwnInv
  <2> QED
    BY <1>1, <2>1, <2>2 DEF OwnInv, Own, QueuesOwn, RequestOwn, Requests
<1>3. PICK loaded \in {snapshots[Head(db).project], NoSnapshot} :
        flows' = [flows EXCEPT ![g].snapshot = loaded,
                               ![g].pc = IF loaded = NoSnapshot THEN "refreshing"
                                         ELSE "restoring"]
  BY DEF GetDone
<1>4. /\ flows'[g].pc \in {"refreshing", "restoring"}
      /\ flows'[g].pc = "restoring" => loaded # NoSnapshot
      /\ flows'[g].snapshot = loaded
      /\ flows'[g].project = flows[g].project /\ flows'[g].import = flows[g].import
      /\ \A h \in Flows : h # g => flows'[h] = flows[h]
  <2>1. flows \in [Flows -> FlowState] /\ flows[g] \in FlowState
    BY <1>2, OwnFacts
  <2>2. flows' = [flows EXCEPT ![g] = [flows[g] EXCEPT !.snapshot = loaded,
                         !.pc = IF loaded = NoSnapshot THEN "refreshing"
                                ELSE "restoring"]]
    BY <1>2, <1>3, <2>1
  <2> QED
    BY <1>2, <2>1, <2>2 DEF FlowState
<1>5. NoImports'
  BY <1>1, <1>4 DEF OwnInv, Own, NoImports
<1>6. LastOpen'
  <2>1. BootingFlows' = BootingFlows
    BY <1>2, <1>4 DEF BootingFlows
  <2>2. generation > 0 => generation \in Flows
    BY DEF OwnInv, SessionInv, TypeInv, TypeOK, Flows
  <2>3. generation > 0 =>
          /\ flows'[generation].project = flows[generation].project
          /\ flows[generation].pc = "booting" => flows'[generation].pc = "booting"
    BY <1>2, <1>4, <2>2
  <2> QED
    BY <1>1, <2>1, <2>3 DEF OwnInv, Own, LastOpen
<1>7. QueuesOwn'
  <2>1. \A h \in Flows : flows'[h].project = flows[h].project
    BY <1>4
  <2> QED
    BY <1>1, <2>1, FramesStayOwn, RequestsStayOwn DEF QueuesOwn
<1>8. FilesOwn'
  <2>1. loaded # NoSnapshot => loaded.owner = flows[g].project
    BY <1>2, <1>3 DEF OwnInv, Own, FilesOwn
  <2> QED
    BY <1>1, <1>2, <1>4, <2>1 DEF OwnInv, Own, FilesOwn
<1> QED
  BY <1>5, <1>6, <1>7, <1>8 DEF Own

\* What is stored was taken from the project it is stored under.
LEMMA StoreOwn ==
    ASSUME OwnInv, SessionInv', PutDone \/ PutFails \/ DeleteDone
    PROVE  Own'
<1>1. /\ db # <<>> /\ db' = Tail(db) /\ frames' = frames
      /\ UNCHANGED <<currentProject, showHomeScreen, sharePending, generation, vfs>>
  BY DEF PutDone, PutFails, DeleteDone, workspaceVars
<1>2. Head(db) = db[1] /\ 1 \in 1..Len(db) /\ Head(db) \in Requests
  BY <1>1, OwnFacts
<1>3. RequestOwn(Head(db)) /\ Head(db).project \in Projects
  BY <1>2 DEF OwnInv, Own, QueuesOwn, Requests
<1>4. UNCHANGED <<flows, instance, cachedSnapshot>>
  BY <1>3 DEF PutDone, PutFails, DeleteDone, Resume, RequestOwn, podVars, cacheVars
<1>5. QueuesOwn'
  BY <1>1, <1>4, FramesStayOwn, RequestsStayOwn DEF QueuesOwn
<1>6. \A p \in Projects : snapshots'[p] = NoSnapshot \/ snapshots'[p].owner = p
  <2>1. snapshots \in [Projects -> Snapshots]
    BY DEF OwnInv, SessionInv, TypeInv, TypeOK
  <2> QED
    BY <1>3, <2>1 DEF PutDone, PutFails, DeleteDone, RequestOwn, OwnInv, Own, FilesOwn
<1> QED
  BY <1>1, <1>4, <1>5, <1>6, WorkspaceKept DEF OwnInv, Own, FilesOwn

LEMMA InitOwn == ASSUME Unhurried PROVE Init => OwnInv
<1> SUFFICES ASSUME Init PROVE Own
  BY InitSafe DEF OwnInv
<1>1. \A g \in Flows : flows[g].pc = "idle" /\ ~flows[g].import
  BY DEF Init, IdleFlow
<1>2. NoImports
  BY <1>1 DEF Init, NoImports, Unhurried
<1>3. LastOpen
  BY <1>1 DEF Init, LastOpen, BootingFlows
<1>4. QueuesOwn
  BY DEF Init, QueuesOwn
<1>5. FilesOwn
  BY <1>1 DEF Init, FilesOwn
<1> QED
  BY <1>2, <1>3, <1>4, <1>5 DEF Own

LEMMA NextOwn == ASSUME Unhurried PROVE OwnInv /\ [Next]_vars => OwnInv'
<1> SUFFICES ASSUME OwnInv, [Next]_vars PROVE Own'
  BY NextSafe DEF OwnInv
<1>1. SessionInv'
  BY NextSafe DEF OwnInv
<1>2. ASSUME NEW p \in Projects, OpenProject(p) \/ OpenTemplate(p) PROVE Own'
  <2>1. OpenFromHome(p)
    BY <1>2 DEF OpenProject, OpenTemplate
  <2> QED
    BY <1>1, <2>1, OpenOwn
<1>3. \A p \in Projects : ~ImportFromShare(p)
  BY DEF ImportFromShare, OwnInv, Own, NoImports
<1>4. CASE GoHome \/ SaveProject \/ ShareProject \/ Edit \/ SnapshotTimer
             \/ \E p \in Projects : DeleteProject(p)
  BY <1>4, UserStepOwn
<1>5. ASSUME NEW g \in Flows, BootStep(g) PROVE Own'
  BY <1>1, <1>5, BootDoneOwn, BootStepOwn DEF BootStep
<1>6. CASE FrameStep
  BY <1>1, <1>6, FrameDoneOwn, FrameThrowsOwn DEF FrameStep
<1>7. CASE StoreStep
  BY <1>1, <1>7, GetDoneOwn, StoreOwn DEF StoreStep
<1>8. CASE UNCHANGED vars
  <2>1. UNCHANGED <<currentProject, showHomeScreen, sharePending, generation, flows,
                    instance, vfs, cachedSnapshot, frames, db, snapshots>>
    BY <1>8 DEF vars, workspaceVars, podVars, cacheVars
  <2>2. QueuesOwn'
    BY <2>1, SaveOwn
  <2> QED
    BY <2>1, <2>2, WorkspaceKept DEF OwnInv, Own, FilesOwn
<1> QED
  BY <1>2, <1>3, <1>4, <1>5, <1>6, <1>7, <1>8 DEF Next, UserStep

\* What is stored under a project's id is that project's files, whatever saves,
\* shares, boots and failures interleave, for a user who waits for the overlay
\* and for frames, and without a late share link: saveSnapshot reads the
\* current project and the instance at different times than it stores them.
THEOREM SnapshotsStayOwn ==
    ASSUME Unhurried PROVE Spec => []SnapshotOwn
<1>1. OwnInv => SnapshotOwn
  BY DEF OwnInv, Own, FilesOwn, SnapshotOwn, NoSnapshot
<1> QED
  BY <1>1, InitOwn, NextOwn, PTL DEF Spec

\* For the same user, and if boots succeed, the project on screen has an
\* instance with its own files once every open is over (openProject, boot and
\* the restore of nodepod-store.ts).
THEOREM ShownProjectIsRunning ==
    ASSUME Unhurried, "bootFailure" \notin Disturbances
    PROVE  Spec => []ShownProjectRuns
<1>1. OwnInv => ShownProjectRuns
  <2> SUFFICES ASSUME OwnInv, Settled, ~showHomeScreen
               PROVE  instance # NoInstance /\ vfs[instance].owner = currentProject
    BY DEF ShownProjectRuns
  <2>1. generation > 0 /\ generation \in Flows
    BY DEF OwnInv, Own, LastOpen, SessionInv, TypeInv, TypeOK, Flows
  <2>2. instance = generation
    BY <2>1 DEF Settled, OwnInv, Own, LastOpen
  <2> QED
    BY <2>1, <2>2 DEF OwnInv, Own, FilesOwn, NoInstance
<1> QED
  BY <1>1, InitOwn, NextOwn, PTL DEF Spec

=============================================================================
