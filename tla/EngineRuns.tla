----------------------------- MODULE EngineRuns ----------------------------
(***************************************************************************)
(* The engines of a verification, and what running them does to the        *)
(* subject's tree.  Kani gets a harness under tests/; Creusot and Prusti   *)
(* get one under src/ and a mod line in the crate root, which is written   *)
(* back afterwards from what was read before (kani.rs, creusot.rs and      *)
(* prusti.rs: run).  Each write of the root empties the file first, and    *)
(* may fail or be cut short there; a write back or a removal that fails is *)
(* passed over.  TLC, the monitor and the browser work in a scratch        *)
(* directory or elsewhere (tlc.rs, monitor/run.rs, ui/drive.rs).           *)
(*                                                                         *)
(* What an engine prints is external: any set of its markers that the tree *)
(* it was run on allows.  classify, which reads them, is the code's.       *)
(***************************************************************************)
EXTENDS Naturals, Sequences, FiniteSets, VerdictAlgebra

CONSTANTS
    Claims,      \* the grounded requirements
    Category,    \* default_category of each: code, model, runtime or ui
    True,        \* the claims that hold of the subject
    Runs,        \* threads of the server, and command lines
    OwnGoals,    \* the subject has contracts of its own to prove
    Overlap,     \* runs may overlap each other and the operator's edits
    MaxStarted, MaxFaults, MaxEdits,
    None

Deductive == {"Creusot", "Prusti"}
Writing == Deductive \cup {"Kani"}

\* engines_for.
EnginesFor(category) ==
    CASE category = "code" -> {"Kani", "Creusot", "Prusti"}
      [] category = "model" -> {"TLC"}
      [] category = "runtime" -> {"MonPoly"}
      [] category = "ui" -> {"Selenium"}

EnginesOf(c) == EnginesFor(Category[c])

\* The order of the registry, where a category has several.
Before == {<<"Kani", "Creusot">>, <<"Kani", "Prusti">>, <<"Creusot", "Prusti">>}

ASSUME EnginesAssumption ==
    /\ Category \in [Claims -> {"code", "model", "runtime", "ui"}]
    /\ None \notin Claims \cup {"operator"}

\* The text of a root that was emptied is none of the operator's.
ASSUME NoTextAssumption == None \notin Nat

VARIABLES
    disk,        \* the crate root, the harness paths, what lies about
    job,         \* the local variables of each verification
    mine,        \* what the operator wrote last and keeps there
    disturbed,   \* a run died, or failed where its code does not clean up
    cut,         \* a write of the crate root died or failed half way
    started, faults, edits

runsVars == <<disk, job, mine, disturbed, cut, started, faults, edits>>
bounds == <<started, faults, edits>>

\* What provreq may leave or find besides the harness.
Litter(engine) ==
    CASE engine = "Kani" -> {"tests"}
      [] engine = "Creusot" -> {"why3find.json", "verif", ".why3find"}
      [] engine = "Prusti" -> {"target/verify"}

\* The path of a claim's harness: Creusot and Prusti share one.
Place(engine) == IF engine = "Kani" THEN "tests" ELSE "src"
Line(engine, c) == [engine |-> engine, claim |-> c]
Free == Line(None, None)
Operators == Line("operator", None)

\* A crate root opened for writing: what it held is gone.  One written in
\* part counts as empty.
Emptied == [text |-> None, mods |-> <<>>]

NoJob == [pc |-> "idle", claim |-> None, todo |-> {}, base |-> None,
         made |-> {}, out |-> None, evidence |-> {}]

\* The first in the registry of those whose turn is still to come.
Engine(r) ==
    CHOOSE e \in job[r].todo : \A f \in job[r].todo : <<f, e>> \notin Before
HarnessAt(r) == disk[Place(Engine(r))][job[r].claim]
AtRest == \A r \in Runs : job[r].pc = "idle"

\* A kill, or a write or a removal that fails.
Fault(occurs) ==
    IF occurs THEN faults < MaxFaults /\ faults' = faults + 1 ELSE UNCHANGED faults

-----------------------------------------------------------------------------
(***************************************************************************)
(* What is in the build when an engine runs, and what it may print.        *)
(***************************************************************************)

\* The claims whose harness the engine gets to see.
Goals(engine, c) ==
    CASE engine = "Kani" ->
            {d \in {c} : disk.tests[c] = Line("Kani", c)}
      [] engine \in Deductive ->
            {d \in Claims : \E i \in DOMAIN disk.root.mods :
                                disk.root.mods[i] = Line(engine, d)}
      [] OTHER -> {c}

\* Every mod line under the engine's cfg once, and its file there.
Builds(engine) ==
    /\ \A d \in Goals(engine, None) : disk.src[d] = Line(engine, d)
    /\ \A i, j \in DOMAIN disk.root.mods :
        disk.root.mods[i] = disk.root.mods[j] /\ disk.root.mods[i].engine = engine
            => i = j

Prints(engine, c) ==
    LET goals == IF engine \in Writing THEN Goals(engine, c) ELSE {c}
        wrong == goals \ True
        refuted == IF c \in goals \ True THEN {{"refuted"}} ELSE {}
    IN  CASE engine = "Kani" ->
                {{}} \cup refuted \cup (IF goals # {} THEN {{"successful"}} ELSE {})
          [] engine \in Deductive /\ ~Builds(engine) -> {{"build"}}
          [] engine = "Creusot" /\ Builds(engine) ->
                {{"panicked", "build"}, {"unsupported", "build"}, {"build"}} \cup
                {m \in SUBSET {"proved", "unproved"} :
                    /\ wrong # {} => "unproved" \in m
                    /\ "proved" \in m => goals \cap True # {} \/ OwnGoals}
          [] engine = "Prusti" /\ Builds(engine) ->
                {{"unproved", "build"}, {"build"}, {"ceiling"}, {}}
                    \cup (IF wrong = {} THEN {{"finished"}} ELSE {})
          [] engine = "MonPoly" -> {{"refusal"}, {"no trace"}, {}} \cup refuted
          [] OTHER -> {{"successful"}, {}} \cup refuted

-----------------------------------------------------------------------------
(***************************************************************************)
(* classify and into_evidence.                                             *)
(***************************************************************************)

Inconclusive == Says("unknown", "none", "mechanical")
Refuting(out) == IF "refuted" \in out THEN Says("fails", "none", "mechanical")
                ELSE Inconclusive
HoldsIf(yes, basis, otherwise) ==
    IF yes THEN Says("holds", basis, "mechanical") ELSE otherwise

\* A fault: the success marker is looked for before the failures.
ClassifyProvedFirst(engine, out) ==
    CASE engine = "Creusot" -> HoldsIf("proved" \in out, "proven", Inconclusive)
      [] engine = "Prusti" -> HoldsIf("finished" \in out, "proven", Inconclusive)
      [] engine = "MonPoly" -> HoldsIf(out = {}, "not-falsified", Refuting(out))
      [] engine = "Selenium" -> HoldsIf("successful" \in out, "not-falsified", Refuting(out))
      [] OTHER -> HoldsIf("successful" \in out, "bounded", Refuting(out))

\* Only a model checker refutes.  A deductive run proves when nothing was
\* left unproved; the monitor's silence counts once a refusal is ruled out.
Classify(engine, out) ==
    CASE engine = "Creusot" ->
            HoldsIf(out = {"proved"}, "proven", Inconclusive)
      [] engine = "Prusti" ->
            HoldsIf("finished" \in out /\ "unproved" \notin out, "proven", Inconclusive)
      [] engine = "MonPoly" -> HoldsIf(out = {}, "not-falsified", Refuting(out))
      [] engine = "Selenium" -> HoldsIf("successful" \in out, "not-falsified", Refuting(out))
      [] OTHER -> HoldsIf("successful" \in out, "bounded", Refuting(out))

-----------------------------------------------------------------------------

RunsInit ==
    /\ \E there \in SUBSET {"verif"}, files \in SUBSET {c \in Claims : Category[c] = "code"} :
        mine = [text |-> 0, there |-> there,
                src |-> [c \in Claims |-> IF c \in files THEN Operators ELSE Free]]
    /\ disk = [root |-> [text |-> 0, mods |-> <<>>], there |-> mine.there,
               src |-> mine.src, tests |-> [c \in Claims |-> Free]]
    /\ job = [r \in Runs |-> NoJob]
    /\ disturbed = FALSE /\ cut = FALSE
    /\ started = 0 /\ faults = 0 /\ edits = 0

\* ensemble_evidence: the engines that are ready run one after another.  With
\* none ready there is no run (no_engine).
Launch(r, c) ==
    /\ job[r].pc = "idle" /\ (Overlap \/ AtRest) /\ started < MaxStarted
    /\ \E ready \in SUBSET EnginesOf(c) :
        /\ ready # {}
        /\ job' = [job EXCEPT ![r] = [NoJob EXCEPT !.pc = "engine", !.claim = c,
                                                  !.todo = ready]]
    /\ started' = started + 1
    /\ UNCHANGED <<disk, mine, disturbed, cut, faults, edits>>

\* The engine's evidence is collected, and the next one's turn comes.
Answers(r, says, of) ==
    LET todo == job[r].todo \ {Engine(r)} IN
    job' = [job EXCEPT ![r] =
        [NoJob EXCEPT !.pc = IF todo = {} THEN "idle" ELSE "engine",
                     !.claim = job[r].claim, !.todo = todo,
                     !.evidence = job[r].evidence \cup {[says |-> says, of |-> of]}]]

\* TLC, the monitor and the browser: nothing is written to the subject.
Observe(r) ==
    /\ job[r].pc = "engine" /\ Engine(r) \notin Writing
    /\ \E out \in Prints(Engine(r), job[r].claim) :
        Answers(r, Classify(Engine(r), out), {job[r].claim})
    /\ UNCHANGED <<disk, mine, disturbed, cut, bounds>>

\* The harness path must be free; Kani and Creusot also take it from a run of
\* theirs that died.
Refuses(r) ==
    IF Engine(r) = "Prusti" THEN HarnessAt(r) # Free ELSE HarnessAt(r) = Operators

\* A fault: what is there already is taken for this run's.
LookWithoutAsking(r) ==
    /\ job[r].pc = "engine" /\ Engine(r) \in Writing /\ ~Refuses(r)
    /\ job' = [job EXCEPT ![r].pc = "writing", ![r].base = disk.root,
                          ![r].made = Litter(Engine(r))]
    /\ UNCHANGED <<disk, mine, disturbed, cut, bounds>>

\* Look before touching anything: the path, the crate root, what is there.
Look(r) ==
    /\ job[r].pc = "engine" /\ Engine(r) \in Writing /\ ~Refuses(r)
    /\ job' = [job EXCEPT ![r].pc = "writing", ![r].base = disk.root,
                          ![r].made = Litter(Engine(r)) \ disk.there]
    /\ UNCHANGED <<disk, mine, disturbed, cut, bounds>>

\* Also when there is no prover configuration to take over, or no package.
Refuse(r) ==
    /\ job[r].pc = "engine" /\ Engine(r) \in Writing
    /\ Refuses(r) \/ Engine(r) \in {"Kani", "Creusot"}
    /\ Answers(r, Inconclusive, {})
    /\ UNCHANGED <<disk, mine, disturbed, cut, bounds>>

\* Kani's directory is made on the way.
WriteHarness(r) ==
    /\ job[r].pc = "writing"
    /\ LET e == Engine(r)
           c == job[r].claim
       IN  /\ disk' = [disk EXCEPT ![Place(e)][c] = Line(e, c),
                            !.there = @ \cup (IF e = "Kani" THEN {"tests"} ELSE {})]
           /\ job' = [job EXCEPT ![r].pc = IF e = "Kani" THEN "proving" ELSE "attaching"]
    /\ UNCHANGED <<mine, disturbed, cut, bounds>>

\* Kani's new directory stays, and what was written of the harness, which
\* counts as the harness.
CannotWrite(r) ==
    /\ job[r].pc = "writing"
    /\ LET e == Engine(r)
           c == job[r].claim
       IN  \E left \in {HarnessAt(r), Line(e, c)} :
            disk' = [disk EXCEPT ![Place(e)][c] = left,
                        !.there = @ \cup (IF e = "Kani" THEN {"tests"} ELSE {})]
    /\ disturbed' = (disturbed \/ disk' # disk)
    /\ Answers(r, Inconclusive, {})
    /\ Fault(TRUE)
    /\ UNCHANGED <<mine, cut, started, edits>>

\* fs::write empties the crate root before it writes it.
OpenRoot(r) ==
    /\ job[r].pc \in {"attaching", "restoring"}
    /\ disk' = [disk EXCEPT !.root = Emptied]
    /\ job' = [job EXCEPT ![r].pc = IF @ = "attaching" THEN "appending" ELSE "rewriting"]
    /\ UNCHANGED <<mine, disturbed, cut, bounds>>

\* The root as it was read, and one line more; then the configuration.
Attach(r) ==
    /\ job[r].pc = "appending"
    /\ disk' = [disk EXCEPT
            !.root = [job[r].base EXCEPT !.mods = Append(@, Line(Engine(r), job[r].claim))],
            !.there = @ \cup (IF Engine(r) = "Creusot" THEN {"why3find.json"} ELSE {})]
    /\ job' = [job EXCEPT ![r].pc = "proving"]
    /\ UNCHANGED <<mine, disturbed, cut, bounds>>

\* The root could not be opened, or not be written: then it stays empty.  The
\* harness goes, if it can be removed.
CannotAttach(r) ==
    /\ job[r].pc \in {"attaching", "appending"}
    /\ \E left \in {Free, HarnessAt(r)} :
        /\ disk' = [disk EXCEPT !.src[job[r].claim] = left]
        /\ disturbed' = (disturbed \/ job[r].pc = "appending" \/ left # Free)
    /\ cut' = (cut \/ job[r].pc = "appending")
    /\ Answers(r, Inconclusive, {})
    /\ Fault(TRUE)
    /\ UNCHANGED <<mine, started, edits>>

\* The engine runs, on the tree as it is now, and leaves its own output.
Prove(r) ==
    /\ job[r].pc = "proving"
    /\ \E out \in Prints(Engine(r), job[r].claim) :
        job' = [job EXCEPT ![r].pc = IF Engine(r) = "Kani" THEN "removing" ELSE "restoring",
                    ![r].out = [says |-> Classify(Engine(r), out),
                                of |-> Goals(Engine(r), job[r].claim)]]
    /\ disk' = [disk EXCEPT !.there = @ \cup Litter(Engine(r))]
    /\ UNCHANGED <<mine, disturbed, cut, bounds>>

Restore(r) ==
    /\ job[r].pc = "rewriting"
    /\ disk' = [disk EXCEPT !.root = job[r].base]
    /\ job' = [job EXCEPT ![r].pc = "removing"]
    /\ UNCHANGED <<mine, disturbed, cut, bounds>>

\* The root keeps the line, or is empty; the run goes on.
CannotRestore(r) ==
    /\ job[r].pc \in {"restoring", "rewriting"}
    /\ job' = [job EXCEPT ![r].pc = "removing"]
    /\ cut' = (cut \/ job[r].pc = "rewriting")
    /\ disturbed' = TRUE
    /\ Fault(TRUE)
    /\ UNCHANGED <<disk, mine, started, edits>>

\* Whatever file is at the path by now, if it can be removed.
RemoveFile(r) ==
    /\ job[r].pc = "removing"
    /\ \E left \in {Free, HarnessAt(r)} :
        /\ disk' = [disk EXCEPT ![Place(Engine(r))][job[r].claim] = left]
        /\ disturbed' = (disturbed \/ left # Free)
        /\ Fault(left # Free)
    /\ job' = [job EXCEPT ![r].pc = "sweeping"]
    /\ UNCHANGED <<mine, cut, started, edits>>

\* tests/ goes only if nothing else is in it; what cannot be removed stays.
Sweep(r) ==
    /\ job[r].pc = "sweeping"
    /\ \E left \in SUBSET job[r].made :
        LET kept == IF \E c \in Claims : disk.tests[c] # Free THEN {"tests"} ELSE {} IN
        /\ disk' = [disk EXCEPT !.there = @ \ (job[r].made \ (kept \cup left))]
        /\ disturbed' = (disturbed \/ left # {})
        /\ Fault(left # {})
    /\ Answers(r, job[r].out.says, job[r].out.of)
    /\ UNCHANGED <<mine, cut, started, edits>>

-----------------------------------------------------------------------------
(***************************************************************************)
(* Around the runs.                                                        *)
(***************************************************************************)

\* A run that is killed, as by the timeout of the shell it runs in.
Kill(r) ==
    /\ job[r].pc # "idle"
    /\ job' = [job EXCEPT ![r] = NoJob]
    /\ disturbed' = TRUE /\ Fault(TRUE)
    /\ cut' = (cut \/ job[r].pc \in {"appending", "rewriting"})
    /\ UNCHANGED <<disk, mine, started, edits>>

\* The operator saves the crate root: the text is new and whole, the lines
\* that are in the file by now are in the buffer too.
Edit ==
    /\ (Overlap \/ AtRest) /\ edits < MaxEdits
    /\ disk' = [disk EXCEPT !.root.text = edits + 1]
    /\ mine' = [mine EXCEPT !.text = edits + 1]
    /\ edits' = edits + 1
    /\ cut' = FALSE
    /\ UNCHANGED <<job, disturbed, started, faults>>

\* The operator runs an engine by hand, and keeps what it left.
Keep ==
    /\ AtRest /\ edits < MaxEdits
    /\ \E kept \in UNION {Litter(e) : e \in Writing} :
        /\ disk' = [disk EXCEPT !.there = @ \cup {kept}]
        /\ mine' = [mine EXCEPT !.there = @ \cup {kept}]
    /\ edits' = edits + 1
    /\ UNCHANGED <<job, disturbed, cut, started, faults>>

\* The operator puts the tree back after a run that left something.
Tidy ==
    /\ AtRest /\ disturbed
    /\ disk' = [root |-> [text |-> mine.text, mods |-> <<>>], there |-> mine.there,
                src |-> mine.src, tests |-> [c \in Claims |-> Free]]
    /\ disturbed' = FALSE /\ cut' = FALSE
    /\ UNCHANGED <<job, mine, bounds>>

Rests == AtRest /\ started = MaxStarted /\ UNCHANGED runsVars

RunsNext ==
    \/ \E r \in Runs :
        \/ \E c \in Claims : Launch(r, c)
        \/ Observe(r) \/ Look(r) \/ Refuse(r) \/ WriteHarness(r) \/ CannotWrite(r)
        \/ OpenRoot(r) \/ Attach(r) \/ CannotAttach(r) \/ Prove(r)
        \/ Restore(r) \/ CannotRestore(r) \/ RemoveFile(r) \/ Sweep(r) \/ Kill(r)
    \/ Edit \/ Keep \/ Tidy \/ Rests

RunsSpec == RunsInit /\ [][RunsNext]_runsVars

-----------------------------------------------------------------------------
(***************************************************************************)
(* A premise of the theorems about the runs.                               *)
(***************************************************************************)

\* One verification at a time, and nobody edits the crate root under it.
NothingOverlaps == ~Overlap

-----------------------------------------------------------------------------
(***************************************************************************)
(* Properties.                                                             *)
(***************************************************************************)

\* The verdict a run comes to (aggregate).
VerdictOf(r) == Aggregate({e.says : e \in job[r].evidence})

\* A verdict that decides rests on an engine that had this claim before it;
\* what is called proven is true, and what fails is not, whatever an earlier
\* run that died has left in the tree (classify and run of the engines).
VerdictIsOfTheClaim ==
    \A r \in Runs :
        LET v == VerdictOf(r)
            c == job[r].claim
        IN  /\ v.status # "unknown" =>
                \E e \in job[r].evidence : e.says.status = v.status /\ c \in e.of
            /\ v.basis = "proven" => c \in True
            /\ v.status = "fails" => c \notin True

\* Between runs the operator's files and output directories are all there,
\* and so is the text of the crate root, unless a write of it died or failed
\* after it had emptied the file; and unless a run died or could not write or
\* remove, nothing else is there ("restore the subject exactly as it was",
\* creusot.rs).
SubjectAsItWas ==
    AtRest =>
        /\ disk.root.text = (IF cut THEN None ELSE mine.text)
        /\ mine.there \subseteq disk.there
        /\ \A c \in Claims : mine.src[c] = Operators => disk.src[c] = Operators
        /\ ~disturbed =>
            /\ disk.root.mods = <<>> /\ disk.there = mine.there
            /\ disk.src = mine.src
            /\ \A c \in Claims : disk.tests[c] = Free
=============================================================================
