--------------------------- MODULE ProjectSession ---------------------------
(***************************************************************************)
(* Opening, leaving, saving and deleting projects: the asynchronous part of *)
(* workspace-store.ts (openProject, openTemplate, importFromShare, goHome, *)
(* deleteProject), the Nodepod instance of nodepod-store.ts (boot,         *)
(* teardown, saveSnapshot, getShareUrl, the watcher and its timer) and the *)
(* IndexedDB store of snapshot-db.ts.                                      *)
(*                                                                         *)
(* Every open has a number (_bootGeneration) and runs as a flow: the code  *)
(* up to the first await is part of the user's action, each continuation   *)
(* is an action of its own.  An instance is named by the flow that booted  *)
(* it.  A file system is abstracted to whose files it holds and how many   *)
(* edits they have seen; the template's files count as edit 0.             *)
(***************************************************************************)
EXTENDS Integers, SequencesExt

CONSTANTS
    Projects,      \* project ids, of listed projects and of future ones
    NoProject,
    MaxOpens,      \* bound: projects opened in one run
    MaxEdits,      \* bound: edits a file system has seen
    MaxPending,    \* bound: saves under way when the user asks for another
    Disturbances   \* what the environment does beyond the calm case

AllDisturbances ==
    {"keyboard",         \* keys reach the page under the loading overlay
     "shareLink",        \* the page was loaded with ?share=
     "shareButton",      \* the user shares the open project
     "slowFrame",        \* the user acts before a waiting save got its frame
     "bootFailure",      \* Nodepod.boot rejects
     "storageFailure"}   \* IndexedDB requests fail

ASSUME SessionAssumption ==
    /\ NoProject \notin Projects
    /\ MaxOpens \in Nat /\ MaxEdits \in Nat /\ MaxPending \in Nat
    /\ Disturbances \subseteq AllDisturbances

Flows      == 1..MaxOpens
NoInstance == 0          \* instances are named by their flow
NoFlow     == 0
Snapshots  == [owner : Projects \cup {NoProject}, edits : 0..MaxEdits]
NoSnapshot == [owner |-> NoProject, edits |-> 0]

VARIABLES
    currentProject, showHomeScreen, projects,   \* workspace-store
    sharePending,     \* ?share= is still being decompressed
    generation,       \* _bootGeneration
    flows,            \* flow -> where the open stands
    instance, booting, dirty,                   \* nodepod-store
    alive,            \* instances booted and not torn down
    vfs,              \* instance -> contents of its file system
    watcher,          \* _vfsWatcher: the instance it watches
    vfsDirty, cachedSnapshot,                   \* _vfsDirty, _cachedSnapshot
    snapshotTimer,    \* the 30 s timer is set
    frames,           \* saves waiting for requestAnimationFrame, in order
    db,               \* requests to IndexedDB, served in order
    snapshots         \* project -> the snapshot stored for it

workspaceVars == <<currentProject, showHomeScreen, projects, sharePending, generation>>
podVars       == <<instance, booting, alive, watcher>>
cacheVars     == <<dirty, vfsDirty, cachedSnapshot, snapshotTimer>>
vars == <<workspaceVars, flows, podVars, cacheVars, vfs, frames, db, snapshots>>

FlowState == [pc : {"idle", "saving", "booting", "loading", "restoring",
                    "refreshing", "sharing", "done"},
              project : Projects \cup {NoProject},
              import  : BOOLEAN,
              target  : 0..MaxOpens,              \* instance captured after boot()
              snapshot : Snapshots]

IdleFlow == [pc |-> "idle", project |-> NoProject, import |-> FALSE,
             target |-> NoInstance, snapshot |-> NoSnapshot]

FrameState == [kind : {"save", "share"}, instance : Flows, project : Projects,
               flow : 0..MaxOpens]

Requests == [op : {"get", "put", "delete"}, project : Projects,
             snapshot : Snapshots,
             cached : BOOLEAN,                \* put of _cachedSnapshot
             flow : 0..MaxOpens]              \* the flow that awaits it

Init ==
    /\ currentProject = NoProject /\ showHomeScreen = TRUE
    /\ projects \in SUBSET Projects
    /\ snapshots \in [Projects -> Snapshots]
    /\ \A p \in Projects :
          \/ snapshots[p] = NoSnapshot
          \/ p \in projects /\ snapshots[p] = [owner |-> p, edits |-> 1]
    /\ sharePending = ("shareLink" \in Disturbances)
    /\ generation = 0
    /\ flows = [g \in Flows |-> IdleFlow]
    /\ instance = NoInstance /\ booting = FALSE /\ dirty = FALSE
    /\ alive = {}
    /\ vfs = [g \in Flows |-> NoSnapshot]
    /\ watcher = NoInstance
    /\ vfsDirty = FALSE /\ cachedSnapshot = NoSnapshot /\ snapshotTimer = FALSE
    /\ frames = <<>> /\ db = <<>>

-----------------------------------------------------------------------------
(* The user waits for a frame and cannot click through the overlay. *)

Clickable == /\ booting => "keyboard" \in Disturbances
             /\ frames # <<>> => "slowFrame" \in Disturbances

SaveRoom == Len(frames) + Len(db) < MaxPending

-----------------------------------------------------------------------------
(* Pieces of handlers.  Each says what becomes of the variables it names. *)

\* Variant: the cached snapshot survives the instance it was taken from.
TeardownKeepingCache ==
    /\ alive' = alive \ {instance}
    /\ instance' = NoInstance
    /\ watcher' = NoInstance
    /\ dirty' = FALSE /\ vfsDirty' = FALSE /\ snapshotTimer' = FALSE
    /\ UNCHANGED cachedSnapshot

Teardown ==
    /\ alive' = alive \ {instance}
    /\ instance' = NoInstance
    /\ watcher' = NoInstance
    /\ dirty' = FALSE /\ vfsDirty' = FALSE
    /\ cachedSnapshot' = NoSnapshot /\ snapshotTimer' = FALSE

\* What a flow does after its boot() returned, given the instance there is.
AfterBoot(flow, now) == IF flow.import
                        THEN [flow EXCEPT !.pc = "sharing", !.target = now]
                        ELSE [flow EXCEPT !.pc = "done"]

\* Variant: boot() without its early return.
TeardownAndBootTwice(g, flow) ==
    /\ Teardown
    /\ IF generation' # g
       THEN flows' = [flows EXCEPT ![g] = [flow EXCEPT !.pc = "done"]] /\ UNCHANGED booting
       ELSE flows' = [flows EXCEPT ![g] = [flow EXCEPT !.pc = "booting"]] /\ booting' = TRUE

\* Variant: the flow holds the generation before its increment.
TeardownAndBootStale(g, flow) ==
    /\ Teardown
    /\ flows' = [flows EXCEPT ![g] = [flow EXCEPT !.pc = "done"]] /\ UNCHANGED booting

\* teardown(), then the generation check, then boot(), which returns at once
\* while another boot is under way.
TeardownAndBoot(g, flow) ==
    /\ Teardown
    /\ IF generation' # g
       THEN flows' = [flows EXCEPT ![g] = [flow EXCEPT !.pc = "done"]] /\ UNCHANGED booting
       ELSE IF booting
       THEN flows' = [flows EXCEPT ![g] = AfterBoot(flow, NoInstance)] /\ UNCHANGED booting
       ELSE flows' = [flows EXCEPT ![g] = [flow EXCEPT !.pc = "booting"]] /\ booting' = TRUE

\* Variant: without the check that there is an instance.
StartSaveUnchecked(project, flow) ==
    /\ frames' = Append(frames, [kind |-> "save", instance |-> instance,
                                 project |-> project, flow |-> flow])
    /\ UNCHANGED db

\* saveSnapshot() reads the instance and the current project when called, and
\* either stores the cached snapshot or waits for a frame to take a new one.
StartSave(project, flow) ==
    IF instance = NoInstance THEN UNCHANGED <<frames, db>>
    ELSE IF ~vfsDirty /\ cachedSnapshot # NoSnapshot
    THEN /\ db' = Append(db, [op |-> "put", project |-> project,
                              snapshot |-> cachedSnapshot, cached |-> TRUE, flow |-> flow])
         /\ UNCHANGED frames
    ELSE /\ frames' = Append(frames, [kind |-> "save", instance |-> instance,
                                      project |-> project, flow |-> flow])
         /\ UNCHANGED db

-----------------------------------------------------------------------------
(* User actions *)

NewFlow(p, import) == [IdleFlow EXCEPT !.project = p, !.import = import]

\* New ids hold the time: nothing refers to them yet.
Fresh(p) == /\ p \notin projects /\ snapshots[p] = NoSnapshot
            /\ \A g \in Flows : flows[g].project # p
            /\ \A k \in DOMAIN db : db[k].project # p

\* Both are reached from the home screen only, so no project is saved first.
OpenFromHome(p) ==
    /\ showHomeScreen
    /\ generation < MaxOpens
    /\ Clickable
    /\ generation' = generation + 1
    /\ currentProject' = p /\ showHomeScreen' = FALSE
    /\ TeardownAndBoot(generation + 1, NewFlow(p, FALSE))
    /\ UNCHANGED <<sharePending, vfs, frames, db, snapshots>>

OpenProject(p) ==
    /\ p \in projects
    /\ OpenFromHome(p)
    /\ UNCHANGED projects

OpenTemplate(p) ==
    /\ Fresh(p)
    /\ OpenFromHome(p)
    /\ projects' = projects \cup {p}

\* Runs when the link is decompressed, whatever the user did meanwhile.  The
\* shared project is current before the open one is saved.
ImportFromShare(p) ==
    /\ sharePending /\ sharePending' = FALSE
    /\ Fresh(p)
    /\ generation < MaxOpens
    /\ generation' = generation + 1
    /\ projects' = projects \cup {p}
    /\ currentProject' = p /\ showHomeScreen' = FALSE
    /\ IF currentProject # NoProject /\ ~showHomeScreen /\ instance # NoInstance
       THEN /\ flows' = [flows EXCEPT ![generation + 1] =
                            [NewFlow(p, TRUE) EXCEPT !.pc = "saving"]]
            /\ StartSave(p, generation + 1)
            /\ UNCHANGED <<podVars, cacheVars>>
       ELSE /\ TeardownAndBoot(generation + 1, NewFlow(p, TRUE))
            /\ UNCHANGED <<frames, db>>
    /\ UNCHANGED <<vfs, snapshots>>

GoHome ==
    /\ ~showHomeScreen /\ currentProject # NoProject
    /\ Clickable /\ SaveRoom
    /\ showHomeScreen' = TRUE
    /\ StartSave(currentProject, NoFlow)
    /\ UNCHANGED <<currentProject, projects, sharePending, generation, flows,
                   podVars, cacheVars, vfs, snapshots>>

\* The Save button, enabled while the instance is marked dirty.
SaveProject ==
    /\ ~showHomeScreen /\ dirty
    /\ Clickable /\ SaveRoom
    /\ StartSave(currentProject, NoFlow)
    /\ UNCHANGED <<workspaceVars, flows, podVars, cacheVars, vfs, snapshots>>

\* getShareUrl: waits for a frame like a save.
ShareProject ==
    /\ "shareButton" \in Disturbances
    /\ ~showHomeScreen /\ instance # NoInstance
    /\ Clickable /\ SaveRoom
    /\ frames' = Append(frames, [kind |-> "share", instance |-> instance,
                                 project |-> currentProject, flow |-> NoFlow])
    /\ UNCHANGED <<workspaceVars, flows, podVars, cacheVars, vfs, db, snapshots>>

DeleteProject(p) ==
    /\ showHomeScreen /\ p \in projects
    /\ Clickable /\ SaveRoom
    /\ projects' = projects \ {p}
    /\ db' = Append(db, [op |-> "delete", project |-> p, snapshot |-> NoSnapshot,
                         cached |-> FALSE, flow |-> NoFlow])
    /\ UNCHANGED <<currentProject, showHomeScreen, sharePending, generation, flows,
                   podVars, cacheVars, vfs, frames, snapshots>>

\* Variant: the watcher marks the change and sets no timer.
EditWithoutTimer ==
    /\ instance # NoInstance
    /\ vfs[instance].edits < MaxEdits
    /\ vfs' = [vfs EXCEPT ![instance].edits = @ + 1]
    /\ IF watcher = instance THEN dirty' = TRUE /\ vfsDirty' = TRUE
       ELSE UNCHANGED <<dirty, vfsDirty>>
    /\ UNCHANGED <<workspaceVars, flows, podVars, cachedSnapshot, snapshotTimer, frames,
                   db, snapshots>>

\* A file of the live instance changes: terminal, AI tool or file explorer.
Edit ==
    /\ instance # NoInstance
    /\ vfs[instance].edits < MaxEdits
    /\ vfs' = [vfs EXCEPT ![instance].edits = @ + 1]
    /\ IF watcher = instance
       THEN dirty' = TRUE /\ vfsDirty' = TRUE /\ snapshotTimer' = TRUE
       ELSE UNCHANGED <<dirty, vfsDirty, snapshotTimer>>
    /\ UNCHANGED <<workspaceVars, flows, podVars, cachedSnapshot, frames, db, snapshots>>

-----------------------------------------------------------------------------
(* Continuations of boot() *)

\* Nodepod.boot resolved: the instance is published and booting ends, then
\* the snapshot of the project that is current now is asked for.
BootDone(g) ==
    /\ flows[g].pc = "booting"
    /\ instance' = g /\ booting' = FALSE /\ alive' = alive \cup {g}
    /\ vfs' = [vfs EXCEPT ![g] = [owner |-> flows[g].project, edits |-> 0]]
    /\ flows' = [flows EXCEPT ![g].pc = "loading"]
    /\ db' = Append(db, [op |-> "get", project |-> currentProject,
                         snapshot |-> NoSnapshot, cached |-> FALSE, flow |-> g])
    /\ UNCHANGED <<workspaceVars, watcher, cacheVars, frames, snapshots>>

\* Variant: the failure path forgets the flag.
BootFailsStillBooting(g) ==
    /\ "bootFailure" \in Disturbances
    /\ flows[g].pc = "booting"
    /\ flows' = [flows EXCEPT ![g] = AfterBoot(@, instance)]
    /\ UNCHANGED <<workspaceVars, podVars, cacheVars, vfs, frames, db, snapshots>>

BootFails(g) ==
    /\ "bootFailure" \in Disturbances
    /\ flows[g].pc = "booting"
    /\ booting' = FALSE
    /\ flows' = [flows EXCEPT ![g] = AfterBoot(@, instance)]
    /\ UNCHANGED <<workspaceVars, instance, alive, watcher, cacheVars, vfs, frames,
                   db, snapshots>>

\* Variant: the snapshot goes into the instance there is now.
RestoreDoneIntoCurrent(g) ==
    /\ flows[g].pc = "restoring"
    /\ vfs' = IF instance # NoInstance THEN [vfs EXCEPT ![instance] = flows[g].snapshot]
              ELSE vfs
    /\ flows' = [flows EXCEPT ![g].pc = "refreshing", ![g].snapshot = NoSnapshot]
    /\ UNCHANGED <<workspaceVars, podVars, cacheVars, frames, db, snapshots>>

\* A torn-down instance takes no files.
RestoreDone(g) ==
    /\ flows[g].pc = "restoring"
    /\ vfs' = IF g \in alive THEN [vfs EXCEPT ![g] = flows[g].snapshot] ELSE vfs
    /\ flows' = [flows EXCEPT ![g].pc = "refreshing", ![g].snapshot = NoSnapshot]
    /\ UNCHANGED <<workspaceVars, podVars, cacheVars, frames, db, snapshots>>

\* The file tree was walked: the watcher of whichever instance is closed and
\* one on this flow's instance takes its place.
RefreshDone(g) ==
    /\ flows[g].pc = "refreshing"
    /\ watcher' = g
    /\ flows' = [flows EXCEPT ![g] = AfterBoot(@, instance)]
    /\ UNCHANGED <<workspaceVars, instance, booting, alive, cacheVars, vfs, frames, db,
                   snapshots>>

\* The shared snapshot goes into the instance found after boot(), then
\* whatever is current is saved, unless that instance was torn down meanwhile
\* and the restore threw.
ShareRestored(g) ==
    /\ flows[g].pc = "sharing"
    /\ vfs' = IF flows[g].target \in alive
              THEN [vfs EXCEPT ![flows[g].target] =
                       [owner |-> flows[g].project, edits |-> 0]]
              ELSE vfs
    /\ flows' = [flows EXCEPT ![g].pc = "done"]
    /\ \/ StartSave(currentProject, NoFlow)
       \/ /\ flows[g].target \notin alive \cup {NoInstance}
          /\ UNCHANGED <<frames, db>>
    /\ UNCHANGED <<workspaceVars, podVars, cacheVars, snapshots>>

-----------------------------------------------------------------------------
(* Continuations of saveSnapshot(), timers and the store *)

\* The flow that awaited a save goes on.
Resume(g) == IF g = NoFlow THEN UNCHANGED <<flows, podVars, cacheVars>>
             ELSE TeardownAndBoot(g, flows[g])

\* A share takes the cached snapshot if nothing changed since.
ReusesCache(f) == f.kind = "share" /\ ~vfsDirty /\ cachedSnapshot # NoSnapshot

\* The frame a save or a share waited for: the snapshot is taken.
FrameDone ==
    /\ frames # <<>>
    /\ frames' = Tail(frames)
    /\ LET f    == Head(frames)
           snap == IF ReusesCache(f) THEN cachedSnapshot ELSE vfs[f.instance]
       IN  /\ cachedSnapshot' = snap
           /\ vfsDirty' = FALSE
           /\ IF f.kind = "share" THEN UNCHANGED <<dirty, db>>
              ELSE /\ dirty' = FALSE
                   /\ db' = Append(db, [op |-> "put", project |-> f.project,
                                        snapshot |-> snap, cached |-> FALSE,
                                        flow |-> f.flow])
    /\ UNCHANGED <<workspaceVars, flows, podVars, snapshotTimer, vfs, snapshots>>

\* instance.snapshot() of a torn-down instance throws: logged, nothing stored.
FrameThrows ==
    /\ frames # <<>> /\ Head(frames).instance \notin alive
    /\ ~ReusesCache(Head(frames))
    /\ frames' = Tail(frames)
    /\ UNCHANGED <<workspaceVars, vfs, db, snapshots>>
    /\ Resume(Head(frames).flow)

SnapshotTimer ==
    /\ snapshotTimer /\ snapshotTimer' = FALSE
    /\ IF vfsDirty THEN StartSave(currentProject, NoFlow) ELSE UNCHANGED <<frames, db>>
    /\ UNCHANGED <<workspaceVars, flows, podVars, dirty, vfsDirty, cachedSnapshot, vfs,
                   snapshots>>

GetDone ==
    /\ db # <<>> /\ Head(db).op = "get" /\ db' = Tail(db)
    /\ LET found == snapshots[Head(db).project]
       IN  \E loaded \in {found} \cup (IF "storageFailure" \in Disturbances
                                      THEN {NoSnapshot} ELSE {}) :
              flows' = [flows EXCEPT ![Head(db).flow].snapshot = loaded,
                                     ![Head(db).flow].pc =
                           IF loaded = NoSnapshot THEN "refreshing" ELSE "restoring"]
    /\ UNCHANGED <<workspaceVars, podVars, cacheVars, vfs, frames, snapshots>>

PutDone ==
    /\ db # <<>> /\ Head(db).op = "put" /\ db' = Tail(db)
    /\ snapshots' = [snapshots EXCEPT ![Head(db).project] = Head(db).snapshot]
    /\ UNCHANGED <<workspaceVars, vfs, frames>>
    /\ IF Head(db).flow # NoFlow THEN Resume(Head(db).flow)
       ELSE /\ dirty' = IF Head(db).cached THEN FALSE ELSE dirty
            /\ UNCHANGED <<flows, podVars, vfsDirty, cachedSnapshot, snapshotTimer>>

\* A failed put of a new snapshot is logged; one of the cached snapshot
\* rejects, which ends the flow that awaited it.
PutFails ==
    /\ "storageFailure" \in Disturbances
    /\ db # <<>> /\ Head(db).op = "put" /\ db' = Tail(db)
    /\ UNCHANGED <<workspaceVars, vfs, frames, snapshots>>
    /\ IF Head(db).cached /\ Head(db).flow # NoFlow
       THEN /\ flows' = [flows EXCEPT ![Head(db).flow].pc = "done"]
            /\ UNCHANGED <<podVars, cacheVars>>
       ELSE Resume(Head(db).flow)

DeleteDone ==
    /\ db # <<>> /\ Head(db).op = "delete" /\ db' = Tail(db)
    /\ snapshots' = [snapshots EXCEPT ![Head(db).project] = NoSnapshot]
    /\ UNCHANGED <<workspaceVars, flows, podVars, cacheVars, vfs, frames>>

-----------------------------------------------------------------------------
UserStep ==
    \/ \E p \in Projects : \/ OpenProject(p) \/ OpenTemplate(p)
                           \/ ImportFromShare(p) \/ DeleteProject(p)
    \/ GoHome \/ SaveProject \/ ShareProject \/ Edit

BootStep(g) == \/ BootDone(g) \/ BootFails(g) \/ RestoreDone(g)
               \/ RefreshDone(g) \/ ShareRestored(g)

FrameStep == FrameDone \/ FrameThrows
StoreStep == GetDone \/ PutDone \/ PutFails \/ DeleteDone

Next == \/ UserStep
        \/ \E g \in Flows : BootStep(g)
        \/ FrameStep \/ SnapshotTimer \/ StoreStep

\* Promises settle, frames and timers fire; the user owes nothing.
Fairness == /\ \A g \in Flows : WF_vars(BootStep(g))
            /\ WF_vars(FrameStep) /\ WF_vars(SnapshotTimer) /\ WF_vars(StoreStep)

Spec == Init /\ [][Next]_vars /\ Fairness

-----------------------------------------------------------------------------
(* Properties *)

TypeOK ==
    /\ currentProject \in Projects \cup {NoProject}
    /\ showHomeScreen \in BOOLEAN /\ projects \subseteq Projects
    /\ sharePending \in BOOLEAN /\ generation \in 0..MaxOpens
    /\ flows \in [Flows -> FlowState]
    /\ instance \in 0..MaxOpens /\ booting \in BOOLEAN /\ dirty \in BOOLEAN
    /\ alive \subseteq Flows /\ watcher \in 0..MaxOpens
    /\ vfs \in [Flows -> Snapshots]
    /\ vfsDirty \in BOOLEAN /\ cachedSnapshot \in Snapshots
    /\ snapshotTimer \in BOOLEAN
    /\ frames \in Seq(FrameState) /\ db \in Seq(Requests)
    /\ snapshots \in [Projects -> Snapshots]

BootingFlows == {g \in Flows : flows[g].pc = "booting"}
Settled == \A g \in Flows : flows[g].pc \in {"idle", "done"}

\* At most one instance runs, and it is the one the store holds: whatever
\* order opens, imports, boots and teardowns come in, no worker is leaked.
OneLiveInstance == alive = {instance} \ {NoInstance}

\* The booting flag, which makes boot() return at once, is up exactly while
\* one flow is inside Nodepod.boot, and there is no instance then.
BootingExclusive ==
    /\ booting <=> BootingFlows # {}
    /\ \A g, h \in BootingFlows : g = h
    /\ booting => instance = NoInstance

\* What is stored under a project's id is that project's files.
SnapshotOwn == \A p \in Projects : snapshots[p].owner \in {p, NoProject}

\* Once every open is over, a project on screen has an instance running, and
\* the files in it are that project's.
ShownProjectRuns ==
    Settled /\ ~showHomeScreen =>
        instance # NoInstance /\ vfs[instance].owner = currentProject

\* Once every open is over, the file watcher is on the running instance.
WatcherOnLive == Settled /\ instance # NoInstance => watcher = instance

\* A save never replaces newer work of a project by older.
SavesNeverRegress ==
    [][\A p \in Projects :
          (snapshots[p].owner = p /\ snapshots'[p].owner = p)
             => snapshots'[p].edits >= snapshots[p].edits]_vars

\* An open project gets its instance.
OpenedIsBooted == ~showHomeScreen ~> (instance # NoInstance \/ showHomeScreen)

\* A change the watcher saw reaches the store, unless the project is left.
EditsReachStore ==
    \A g \in Flows : \A e \in 1..MaxEdits :
        (instance = g /\ vfsDirty /\ vfs[g].edits = e)
           ~> (instance # g \/ snapshots[flows[g].project].edits >= e)
=============================================================================
