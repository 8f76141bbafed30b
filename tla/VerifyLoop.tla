----------------------------- MODULE VerifyLoop -----------------------------
(***************************************************************************)
(* The living loop of verdicts: `provreq verify` and the web's Verify      *)
(* button run the engines and record what they said in verdicts.yml        *)
(* (src/verify.rs), a later verify may serve that record instead of        *)
(* running (reusable in src/verdict_store.rs), status shows it as fresh or *)
(* stale (view), and `provreq gate` blocks a commit on it (src/gate.rs).   *)
(*                                                                         *)
(* What a verdict depends on is a set of axes, each of which has a         *)
(* version.  A run reads them at different steps, over minutes, and stamps *)
(* the versions it finds at the END of it on the verdict.                  *)
(***************************************************************************)
EXTENDS VerdictAlgebra, FiniteSets

CONSTANTS
    Workers,      \* verify and gate processes that run at a time
    Items,        \* requirement ids
    Axes,         \* the axes this subject has, a subset of AllAxes
    Versions,     \* versions of an axis, and of the prose
    Absent,       \* an axis that is not configured or cannot be read
    Formals,      \* formalizations (a candidate with its bindings)
    NoFormal,     \* a verdict no formalization backs
    NoDraft,      \* an item without an entry in drafts.yml
    NoVerdict,    \* an item without an entry in verdicts.yml
    Movable,      \* axes that move at all
    Moving,       \* those that may move while a run is in flight
    MaxMoves,     \* bound of the model: moves of the world
    TestSays(_),  \* the tagged tests' evidence in a world
    EngineSays(_, _), \* the ensemble's answer for a formalization in a world
    GateAccepts(_, _) \* prl::gate of a formalization, by the tool of a world

\* Files under the code root, the files that carry tagged tests, other files
\* outside the root; specs, trace and ui check of the subject; the versioned
\* engines and the label of the environment; the build of the tool; and the
\* rest of provreq.yml (Kani's bounds, TLC's constants, cargo's features).
AllAxes == {"scope", "tagged", "rest", "spec", "trace", "ui", "engines",
            "label", "tool", "config"}

\* The axes whose files HEAD covers, and those that may be missing.
Code == Axes \cap {"scope", "tagged", "rest"}
Optional == Axes \cap {"tagged", "spec", "trace", "ui"}

World == {w \in [Axes -> Versions \cup {Absent}] :
              \A a \in Axes \ Optional : w[a] # Absent}

ASSUME AxesAssumption ==
    /\ Axes \subseteq AllAxes /\ "scope" \in Axes
    /\ Moving \subseteq Movable /\ Movable \subseteq Axes
    /\ Absent \notin Versions /\ NoFormal \notin Formals
    /\ MaxMoves \in Nat

\* The ensemble has no evidence when a binding does not resolve and when no
\* engine for the category is ready; the tests have none without a tag.
ASSUME AnswerAssumption ==
    \A w \in World :
        /\ TestSays(w) \subseteq Asserted
        /\ \A f \in Formals : EngineSays(f, w) \subseteq Mechanical

VARIABLES
    prose,      \* the revision of each item
    draft,      \* what drafts.yml says of each item
    world,      \* the version of each axis, code as in the working tree
    head,       \* the code at HEAD
    store,      \* verdicts.yml
    committed,  \* the labels in verdicts.yml at HEAD, if it is there
    log,        \* the last verdict in each artifact's review log
    missed,     \* items a run died on between its verdict and its log entry
    run,        \* the local variables of each process
    moves       \* moves of the world so far

outside == <<prose, draft, world, head, committed, moves>>
records == <<store, log, missed>>
vars == <<outside, records, run>>

\* One with admitted FALSE also stands for a draft without a candidate.
Draft == [formal : Formals, admitted : BOOLEAN, rev : Versions]

\* A stored verdict: its labels and its provenance.
Stored == [said   : Verdict,
           rev    : Versions,
           formal : Formals \cup {NoFormal},
           at     : [Axes -> Versions \cup {Absent}],
           source : [Code -> Versions \cup {Absent}]]

Store == [Items -> Stored \cup {NoVerdict}]

ASSUME StoredAssumption == NoVerdict \notin Stored

\* admitted_fingerprint: what a fresh verdict must still match.
AdmittedFormal(d) ==
    IF d # NoDraft /\ d.admitted THEN d.formal ELSE NoFormal

\* The label the gate gives an item that cannot be verified at all.
Unverified == [status |-> "no-verdict", basis |-> "none",
               correspondence |-> "mechanical"]

LabelsOf(v) == IF v = NoVerdict THEN NoVerdict ELSE v.said

Idle == [pc |-> "idle"]

Init ==
    /\ prose \in [Items -> Versions]
    /\ draft = [i \in Items |-> NoDraft]
    /\ world \in World
    /\ head = [a \in Code |-> world[a]]
    /\ store = [i \in Items |-> NoVerdict]
    /\ committed = NoVerdict
    /\ log = [i \in Items |-> NoVerdict]
    /\ missed = {}
    /\ run = [w \in Workers |-> Idle]
    /\ moves = 0

-----------------------------------------------------------------------------
\* What a run makes of a world.

\* The ensemble's evidence and the tests' together, or why there is none.
Outcome(f, tests, w) ==
    LET engines == IF f = NoFormal THEN {} ELSE EngineSays(f, w) IN
    IF engines \cup tests = {} THEN NothingRan
    ELSE Aggregate(engines \cup tests)

\* The fingerprints of the world as it is; spec is the one taken when the
\* bindings were resolved.  Nothing fingerprints rest and config.
Fingerprints(spec) ==
    [a \in Axes |-> IF a \in {"rest", "config"} THEN Absent
                    ELSE IF a = "spec" THEN spec ELSE world[a]]

SpecNow == IF "spec" \in Axes THEN world["spec"] ELSE Absent

\* Faulty: the code root is all there is to the code of a verdict.
ReusableWithoutTags(v, d, at) ==
    /\ v # NoVerdict
    /\ v.rev = d.rev
    /\ v.formal = d.formal
    /\ \A a \in Axes \ {"label", "tagged"} : v.at[a] = at[a]

\* reusable: the axes a cached verdict is compared on.  rev is the revision
\* the draft is bound to, and of the environment only the engines count.
Reusable(v, d, at) ==
    /\ v # NoVerdict
    /\ v.rev = d.rev
    /\ v.formal = d.formal
    /\ \A a \in Axes \ {"label"} : v.at[a] = at[a]

\* Faulty: an axis outside the commit that is gone cannot have moved.
FreshIfGone(v, i) ==
    /\ v.rev = prose[i]
    /\ v.formal # NoFormal => AdmittedFormal(draft[i]) = v.formal
    /\ v.source = head
    /\ \A a \in Axes \cap {"spec", "trace", "ui"} :
        v.at[a] # Absent /\ world[a] # Absent => v.at[a] = world[a]
    /\ \A a \in Axes \cap {"engines", "label", "tool"} : v.at[a] = world[a]

\* view: the drifts of a stored verdict.  An optional axis the verdict does
\* not carry is left alone; the code is compared at HEAD.
Fresh(v, i) ==
    /\ v.rev = prose[i]
    /\ v.formal # NoFormal => AdmittedFormal(draft[i]) = v.formal
    /\ v.source = head
    /\ \A a \in Axes \cap {"spec", "trace", "ui"} :
        v.at[a] # Absent => v.at[a] = world[a]
    /\ \A a \in Axes \cap {"engines", "label", "tool"} : v.at[a] = world[a]

-----------------------------------------------------------------------------
\* Steps of a run.

\* load_baseline: verdicts.yml at HEAD, or on disk if it is not there.
Baseline(i) == IF committed = NoVerdict THEN LabelsOf(store[i]) ELSE committed[i]

Passing(label) == label # NoVerdict /\ label.status = "holds"

\* verify_with resolves the items and loads the drafts.  The web button never
\* asks for the cache, the command and the gate do unless told otherwise, and
\* the gate, which records nothing, only visits what its baseline passed.
Begin(w, i, gate, cache) ==
    /\ run[w] = Idle
    /\ gate => Passing(Baseline(i))
    /\ run' = [run EXCEPT ![w] =
            [pc |-> "loaded", item |-> i, draft |-> draft[i],
             rev |-> prose[i], gate |-> gate, cache |-> cache,
             base |-> IF gate THEN Baseline(i) ELSE NoVerdict]]
    /\ UNCHANGED <<outside, records>>

At(w, pc) == run[w].pc = pc

\* A run has an answer, to record or to judge.
Answered(w, rev, formal, spec, said) ==
    run' = [run EXCEPT ![w] =
        [pc |-> "answered", item |-> run[w].item, rev |-> rev,
         formal |-> formal, spec |-> spec, said |-> said,
         gate |-> run[w].gate, base |-> run[w].base]]

End(w) == run' = [run EXCEPT ![w] = Idle]

\* No draft and no test, a draft that is not admitted, or one that no longer
\* gates: an outcome, but not a verdict; a tagged test does not paper over it.
NothingToRun(w) ==
    /\ At(w, "loaded")
    /\ LET d == run[w].draft IN
        \/ d = NoDraft /\ TestSays(world) = {}
        \/ d # NoDraft /\ ~d.admitted
        \/ d # NoDraft /\ ~GateAccepts(d.formal, world)
    /\ IF run[w].gate
       THEN Answered(w, run[w].rev, NoFormal, Absent, Unverified)
       ELSE End(w)
    /\ UNCHANGED <<outside, records>>

\* Not formalized, but a tagged test checks it.
AssertedOnly(w) ==
    /\ At(w, "loaded")
    /\ run[w].draft = NoDraft
    /\ TestSays(world) # {}
    /\ Answered(w, run[w].rev, NoFormal, Absent,
                Outcome(NoFormal, TestSays(world), world))
    /\ UNCHANGED <<outside, records>>

\* The tagged tests were run and the bindings resolved.
Ground(w) ==
    /\ At(w, "loaded")
    /\ AdmittedFormal(run[w].draft) # NoFormal
    /\ GateAccepts(run[w].draft.formal, world)
    /\ run' = [run EXCEPT ![w] =
            [pc |-> "grounded", item |-> run[w].item, draft |-> run[w].draft,
             tests |-> TestSays(world), spec |-> SpecNow,
             gate |-> run[w].gate, cache |-> run[w].cache,
             base |-> run[w].base]]
    /\ UNCHANGED <<outside, records>>

Hit(w) ==
    /\ run[w].cache
    /\ Reusable(store[run[w].item], run[w].draft, Fingerprints(run[w].spec))

\* The stored verdict is the answer.
ServeCached(w) ==
    /\ At(w, "grounded") /\ Hit(w)
    /\ IF run[w].gate
       THEN Answered(w, run[w].draft.rev, run[w].draft.formal, run[w].spec,
                     store[run[w].item].said)
       ELSE End(w)
    /\ UNCHANGED <<outside, records>>

\* The minutes-long part, if the requirement is grounded and an engine ready.
RunEngines(w) ==
    /\ At(w, "grounded") /\ ~Hit(w)
    /\ Answered(w, run[w].draft.rev, run[w].draft.formal, run[w].spec,
                Outcome(run[w].draft.formal, run[w].tests, world))
    /\ UNCHANGED <<outside, records>>

\* finish: the fingerprints are taken now and the store is read.
Stamp(w) ==
    /\ At(w, "answered") /\ ~run[w].gate
    /\ LET r == run[w]
           verdict == [said |-> r.said, rev |-> r.rev, formal |-> r.formal,
                       at |-> Fingerprints(r.spec), source |-> head] IN
        run' = [run EXCEPT ![w] =
            [pc |-> "held", item |-> r.item, said |-> r.said, gate |-> r.gate,
             prior |-> LabelsOf(store[r.item]),
             mem |-> [store EXCEPT ![r.item] = verdict]]]
    /\ UNCHANGED <<outside, records>>

\* verdict_store::save: the whole map.
Save(w) ==
    /\ At(w, "held")
    /\ store' = run[w].mem
    /\ run' = [run EXCEPT ![w] =
            [pc |-> "saved", item |-> run[w].item, said |-> run[w].said,
             gate |-> run[w].gate, prior |-> run[w].prior]]
    /\ UNCHANGED <<outside, log, missed>>

\* Faulty: a verdict that changes its basis only is not news.
IsStatusEvent(w) ==
    \/ run[w].prior = NoVerdict
    \/ run[w].prior # NoVerdict /\ run[w].prior.status # run[w].said.status

\* is_verdict_event: the verdict differs from the one it replaced.
IsEvent(w) == run[w].prior # run[w].said

\* record_verdict_breadcrumb appends to the artifact's review log.
Announce(w) ==
    /\ At(w, "saved")
    /\ IF IsEvent(w)
       THEN /\ log' = [log EXCEPT ![run[w].item] = run[w].said]
            /\ missed' = missed \ {run[w].item}
       ELSE UNCHANGED <<log, missed>>
    /\ End(w)
    /\ UNCHANGED <<outside, store>>

\* The run dies, or cannot write the artifact.
Crash(w) ==
    /\ run[w] # Idle
    /\ missed' = IF At(w, "saved") /\ IsEvent(w)
                 THEN missed \cup {run[w].item} ELSE missed
    /\ End(w)
    /\ UNCHANGED <<outside, store, log>>

\* run_gate's judgement of one requirement.
GatePass(w, strict) ==
    /\ At(w, "answered") /\ run[w].gate
    /\ ~Regressed(run[w].base, run[w].said, strict)
    /\ End(w)
    /\ UNCHANGED <<outside, records>>

GateBlock(w, strict) ==
    /\ At(w, "answered") /\ run[w].gate
    /\ Regressed(run[w].base, run[w].said, strict)
    /\ End(w)
    /\ UNCHANGED <<outside, records>>

-----------------------------------------------------------------------------
\* What moves around the runs.

Quiet == \A w \in Workers : run[w] = Idle

Moved == moves < MaxMoves /\ moves' = moves + 1

\* A file, a trace, an engine, a setting changes.
Move(a) ==
    /\ Moved
    /\ a \in (IF Quiet THEN Movable ELSE Moving)
    /\ \E v \in Versions \cup {Absent} :
        /\ v # world[a]
        /\ world' = [world EXCEPT ![a] = v] /\ world' \in World
    /\ UNCHANGED <<prose, draft, head, committed, records, run>>

\* git commit -a, of the code and of the record.
Commit ==
    /\ Moved
    /\ head' = [a \in Code |-> world[a]]
    /\ committed' = [i \in Items |-> LabelsOf(store[i])]
    /\ UNCHANGED <<prose, draft, world, records, run>>

EditProse(i) ==
    /\ Moved
    /\ \E r \in Versions \ {prose[i]} : prose' = [prose EXCEPT ![i] = r]
    /\ UNCHANGED <<draft, world, head, committed, records, run>>

\* A request of module Drafts: a new candidate is bound to the current text,
\* an admission or a binding leaves the revision as it was.
Redraft(i) ==
    /\ Moved
    /\ \E d \in Draft \cup {NoDraft} :
        /\ d # draft[i]
        /\ d # NoDraft => d.rev = prose[i]
                          \/ (draft[i] # NoDraft /\ d.rev = draft[i].rev)
        /\ draft' = [draft EXCEPT ![i] = d]
    /\ UNCHANGED <<prose, world, head, committed, records, run>>

Step(w) ==
    \/ \E i \in Items, gate, cache \in BOOLEAN : Begin(w, i, gate, cache)
    \/ NothingToRun(w) \/ AssertedOnly(w) \/ Ground(w)
    \/ ServeCached(w) \/ RunEngines(w)
    \/ Stamp(w) \/ Save(w) \/ Announce(w) \/ Crash(w)
    \/ \E strict \in BOOLEAN : GatePass(w, strict) \/ GateBlock(w, strict)

Next ==
    \/ \E w \in Workers : Step(w)
    \/ \E a \in Axes : Move(a)
    \/ Commit
    \/ \E i \in Items : EditProse(i) \/ Redraft(i)

Spec == Init /\ [][Next]_vars

-----------------------------------------------------------------------------
(***************************************************************************)
(* What the record is right under: the code takes it for granted.          *)
(***************************************************************************)

\* The files of the subject and the tools lie still under a run.
StillUnderRuns == Moving = {}

\* No second verify or gate runs beside the first.
OneRunAtATime == \A w, x \in Workers : w = x

\* The axes a verdict that is served is compared on.
Fingerprinted == Axes \ {"rest", "config", "label"}

\* What the engines and the tests answer depends on nothing else, and that
\* of the tests not on the specification the bindings resolve in.
AnswersAreFingerprinted ==
    \A w, x \in World :
        /\ (\A a \in Fingerprinted \ {"spec"} : w[a] = x[a])
               => TestSays(w) = TestSays(x)
        /\ (\A a \in Fingerprinted : w[a] = x[a])
               => \A f \in Formals : EngineSays(f, w) = EngineSays(f, x)

-----------------------------------------------------------------------------
(***************************************************************************)
(* Properties.                                                             *)
(***************************************************************************)

\* What a run would answer for a formalization here and now.
AnswerNow(f) == Outcome(f, TestSays(world), world)

\* A cached verdict is the one a run would reach: whatever moved since it was
\* recorded and in whatever order, reusable let nothing pass that the engines
\* or the tests would answer differently on (src/verdict_store.rs).
ServedIsAnswer ==
    [][\A w \in Workers : ServeCached(w) =>
        store[run[w].item].said = AnswerNow(run[w].draft.formal)]_vars

\* A verdict served as one nothing it depends on moved under is about the
\* requirement as it reads now.  The code compares the revision of the draft.
ServedForThisText ==
    [][\A w \in Workers : ServeCached(w) =>
        store[run[w].item].rev = prose[run[w].item]]_vars

\* A verdict status shows as fresh, of a tree that was committed then and is
\* now, says what a run would say, unless something it never had was added: a
\* formalization, or an optional axis (view in src/verdict_store.rs).
Clean(v) == \A a \in Code \ {"rest"} : v.at[a] = v.source[a]

NothingAdded(v, i) ==
    /\ v.formal = NoFormal => draft[i] = NoDraft
    /\ \A a \in Optional : v.at[a] = Absent => world[a] = Absent

FreshIsAnswer ==
    \A i \in Items :
        LET v == store[i] IN
        v # NoVerdict =>
            (Fresh(v, i) /\ Clean(v) /\ NothingAdded(v, i)
                /\ head = [a \in Code |-> world[a]]
             => v.said = AnswerNow(v.formal))

\* The gate lets a commit pass only on what the tree proves now, on the tier
\* the baseline had if it is strict, whether it ran the engines or was served
\* from the cache of the working tree (run_gate in src/main.rs).
GatePassIsEarned ==
    [][\A w \in Workers, strict \in BOOLEAN : GatePass(w, strict) =>
        LET now == AnswerNow(run[w].formal) IN
        now.status = "holds" /\ (strict => ~TierDropped(run[w].base, now))]_vars

\* The review log of an artifact ends with the verdict on record, except
\* between the two writes and after a run that died between them; with one
\* run at a time (finish and record_verdict_breadcrumb in src/verify.rs).
LogFollowsStore ==
    \A i \in Items :
        \/ log[i] = LabelsOf(store[i])
        \/ i \in missed
        \/ \E w \in Workers : At(w, "saved") /\ run[w].item = i

\* A verdict on record is replaced by a later one, never forgotten
\* (record and save in src/verdict_store.rs).
NothingForgotten ==
    [][\A i \in Items : store[i] # NoVerdict => store'[i] # NoVerdict]_vars
=============================================================================
