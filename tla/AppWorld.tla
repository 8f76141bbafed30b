------------------------------ MODULE AppWorld ------------------------------
(***************************************************************************)
(* The served state of provreq serve (AppState in src/app.rs): the world   *)
(* discovery found, swapped in whole by whoever refreshes it, and the LLM  *)
(* runtime, built from the world's system config when there is none.       *)
(*                                                                         *)
(* Who refreshes are the polling watcher (src/watcher.rs) and the requests *)
(* that write.  Of those the ones that edit the LLM providers are modelled *)
(* (mutate_inner in src/http/handlers.rs): they write the system config,   *)
(* drop the runtime and refresh; the others write and refresh, which is    *)
(* the same without the drop.  Refreshes are not ordered in any way.       *)
(*                                                                         *)
(* Discovery reads the tree in one step.  The system config lies in the    *)
(* tree the watcher walks (.provreq/system.json of the subject).           *)
(***************************************************************************)
EXTENDS Naturals

CONSTANTS
    Clients,    \* requests that edit the LLM providers
    Watcher,    \* the polling task
    Providers,  \* entries the llm array of the system config can have
    Broken,     \* a system config that does not parse
    Garbled,    \* one whose llm array does not, or builds no runtime
    NoRuntime,  \* Option::None of llm_runtime
    MaxEdits    \* bound of the model: writes to the tree

ASSUME AppAssumption ==
    /\ Watcher \notin Clients
    /\ \A s \in SUBSET Providers : s \notin {Broken, Garbled, NoRuntime}
    /\ Broken # Garbled
    /\ MaxEdits \in Nat

Tasks == Clients \cup {Watcher}

VARIABLES
    disk,     \* the tree: the stamp of its latest write, its system config
    world,    \* the world published last
    runtime,  \* the LLM runtime, given by the providers it was built from
    task,     \* the local variables of each task
    noticed   \* last_fp and fp of the watcher

appVars == <<disk, world, runtime, task, noticed>>

\* Every write gives the tree a stamp, and so a fingerprint, of its own.
Stamps == 0 .. MaxEdits
World == [stamp : Stamps, system : {Garbled} \cup SUBSET Providers]
Tree == World \cup [stamp : Stamps, system : {Broken}]

Pc == {"starting", "idle", "editing", "edited",
       "refreshing", "checking", "building", "swapping"}

\* What the request wrote, or is about to, and the world a refresh found.
Task == [pc : Pc, mine : World, found : World]

Goes(t, pc) == [task EXCEPT ![t].pc = pc]

\* Between two requests, and between two ticks, nothing is remembered.
Nothing == [stamp |-> 0, system |-> {}]
At(pc) == [pc |-> pc, mine |-> Nothing, found |-> Nothing]
Rests(t) == [task EXCEPT ![t] = At("idle")]

\* serve: the first refresh is over, the watcher was spawned.
AppInit ==
    /\ \E s \in SUBSET Providers : disk = [stamp |-> 0, system |-> s]
    /\ world = disk
    /\ runtime = disk.system
    /\ task = [t \in Tasks |-> At(IF t = Watcher THEN "starting" ELSE "idle")]
    /\ noticed = [last |-> 0, now |-> 0]

-----------------------------------------------------------------------------
\* refresh, of any task.

\* Faulty: publishes a world without a system config for one that is broken.
DiscoverAnyway(t) ==
    /\ task[t].pc = "refreshing"
    /\ task' = [task EXCEPT ![t].pc = "checking", ![t].found = disk]
    /\ UNCHANGED <<disk, world, runtime, noticed>>

Discover(t) ==
    /\ task[t].pc = "refreshing"
    /\ disk.system # Broken
    /\ task' = [task EXCEPT ![t].pc = "checking", ![t].found = disk]
    /\ UNCHANGED <<disk, world, runtime, noticed>>

\* DiscoveryError::System: a request reports it, the watcher tries again.
DiscoverFails(t) ==
    /\ task[t].pc = "refreshing"
    /\ disk.system = Broken
    /\ task' = Rests(t)
    /\ UNCHANGED <<disk, world, runtime, noticed>>

\* Faulty: the runtime is built when the first world is published, only.
NeverRebuild(t) ==
    /\ task[t].pc = "checking"
    /\ task' = Goes(t, "swapping")
    /\ UNCHANGED <<disk, world, runtime, noticed>>

\* maybe_init_llm_runtime looks under the read lock, which it releases.
Check(t) ==
    /\ task[t].pc = "checking"
    /\ task' = Goes(t, IF runtime = NoRuntime THEN "building" ELSE "swapping")
    /\ UNCHANGED <<disk, world, runtime, noticed>>

\* parse_llm or LlmRuntime::build may fail: then there is still none.
Build(t) ==
    /\ task[t].pc = "building"
    /\ runtime' = IF task[t].found.system = Garbled THEN runtime ELSE task[t].found.system
    /\ task' = Goes(t, "swapping")
    /\ UNCHANGED <<disk, world, noticed>>

\* Faulty: the watcher takes the fingerprint of the tree once it refreshed.
SwapThenLook(t) ==
    /\ task[t].pc = "swapping"
    /\ world' = task[t].found
    /\ task' = Rests(t)
    /\ noticed' = IF t = Watcher THEN [noticed EXCEPT !.last = disk.stamp]
                                 ELSE noticed
    /\ UNCHANGED <<disk, runtime>>

\* The new world is in and broadcast.  The watcher is done with what it saw
\* before it refreshed; a request answers.
Swap(t) ==
    /\ task[t].pc = "swapping"
    /\ world' = task[t].found
    /\ task' = Rests(t)
    /\ noticed' = IF t = Watcher THEN [noticed EXCEPT !.last = noticed.now]
                                 ELSE noticed
    /\ UNCHANGED <<disk, runtime>>

Refresh(t) ==
    Discover(t) \/ DiscoverFails(t) \/ Check(t) \/ Build(t) \/ Swap(t)

-----------------------------------------------------------------------------
\* run_polling_watcher.

\* The fingerprint every later one is compared with.
Baseline ==
    /\ task[Watcher].pc = "starting"
    /\ noticed' = [last |-> disk.stamp, now |-> disk.stamp]
    /\ task' = Rests(Watcher)
    /\ UNCHANGED <<disk, world, runtime>>

\* A tick that finds the tree changed.
Tick ==
    /\ task[Watcher].pc = "idle"
    /\ disk.stamp # noticed.last
    /\ noticed' = [noticed EXCEPT !.now = disk.stamp]
    /\ task' = Goes(Watcher, "refreshing")
    /\ UNCHANGED <<disk, world, runtime>>

-----------------------------------------------------------------------------
\* mutate_inner: a request adds or removes a provider.

\* The config it edits is the one of the published world, not of the file; an
\* llm that is no array counts as an empty one.
Edit(c) ==
    /\ task[c].pc = "idle"
    /\ \E p \in Providers :
        LET listed == IF world.system = Garbled THEN {} ELSE world.system
        IN  task' = [task EXCEPT ![c].pc = "editing",
                ![c].mine.system = IF p \in listed THEN listed \ {p} ELSE listed \cup {p}]
    /\ UNCHANGED <<disk, world, runtime, noticed>>

WriteConfig(c) ==
    /\ task[c].pc = "editing"
    /\ disk.stamp < MaxEdits
    /\ disk' = [task[c].mine EXCEPT !.stamp = disk.stamp + 1]
    /\ task' = [task EXCEPT ![c].pc = "edited", ![c].mine = disk']
    /\ UNCHANGED <<world, runtime, noticed>>

Invalidate(c) ==
    /\ task[c].pc = "edited"
    /\ runtime' = NoRuntime
    /\ task' = Goes(c, "refreshing")
    /\ UNCHANGED <<disk, world, noticed>>

\* The config cannot be written; or the client hangs up, and the handler is
\* dropped at the await it is waiting at.
Drop(c) ==
    /\ task[c].pc # "idle"
    /\ task' = Rests(c)
    /\ UNCHANGED <<disk, world, runtime, noticed>>

\* An editor or a git pull writes to the tree, the system config included.
Outside ==
    /\ disk.stamp < MaxEdits
    /\ \E s \in {Broken, Garbled} \cup SUBSET Providers :
        disk' = [stamp |-> disk.stamp + 1, system |-> s]
    /\ UNCHANGED <<world, runtime, task, noticed>>

AppNext ==
    \/ \E t \in Tasks : Refresh(t)
    \/ Baseline \/ Tick
    \/ \E c \in Clients : Edit(c) \/ WriteConfig(c) \/ Invalidate(c) \/ Drop(c)
    \/ Outside

\* The interval of the watcher keeps ticking and a refresh that was begun
\* ends; nobody has to send a request.
AppFairness ==
    /\ WF_appVars(Baseline) /\ WF_appVars(Tick)
    /\ \A t \in Tasks : WF_appVars(Refresh(t))

AppSpec == AppInit /\ [][AppNext]_appVars /\ AppFairness

-----------------------------------------------------------------------------
(***************************************************************************)
(* Properties.                                                             *)
(***************************************************************************)

\* Types; in particular a config that does not parse is never part of a world,
\* found or published (refresh in src/app.rs).
AppOK ==
    /\ disk \in Tree
    /\ \A t \in Tasks : task[t].found.system # Broken
    /\ world \in World
    /\ runtime \in {NoRuntime} \cup SUBSET Providers
    /\ task \in [Tasks -> Task]
    /\ noticed \in [last : Stamps, now : Stamps]

Loads == disk.system # Broken

\* A change of the tree the watcher has still to deal with, and one it has
\* not even seen.
Behind == task[Watcher].pc # "starting" /\ disk.stamp # noticed.last
Unseen == task[Watcher].pc # "starting" /\ disk.stamp # noticed.now

\* No change made after the watcher's baseline is overlooked, however it
\* overlaps a refresh and whatever failed meanwhile: the tree as it is then
\* is published once it loads (run_polling_watcher in src/watcher.rs).
EditsAreShown == Behind /\ Loads ~> world = disk \/ ~Loads

\* A runtime that a request dropped, and then did not rebuild because it
\* failed or its client hung up, is back with the next change of the tree
\* if its llm array builds one
\* (invalidate_llm_runtime and maybe_init_llm_runtime in src/app.rs).
RuntimeComesBack ==
    Unseen /\ runtime = NoRuntime
    ~> runtime # NoRuntime \/ disk.system \in {Broken, Garbled}

\* A request that edits the providers answers when its edit is in effect:
\* unless the tree was written again, a runtime is built from what it wrote.
\* The code lets an older refresh build it from the config that one found.
SettingsTakeEffect ==
    [][\A c \in Clients :
        /\ task[c].pc = "swapping" /\ task'[c].pc = "idle"
        /\ world' = task[c].found
        /\ disk = task[c].mine
        => runtime \in {NoRuntime, disk.system}]_appVars
=============================================================================
