------------------------------- MODULE Triage -------------------------------
(***************************************************************************)
(* triage.yml (src/triage.rs): which bucket each requirement is in and     *)
(* what put it there.  Requests of the server and commands of the console  *)
(* load the map, and write it back whole.  One that sets an item does so   *)
(* at once; one that seeds the backlog holds its copy for as long as a     *)
(* model takes to classify it, batch by batch and round after round, and   *)
(* writes the copy after each batch.                                       *)
(*                                                                         *)
(* A batch is any set of pending items: in which order they are asked      *)
(* about makes no difference.  The revision an entry carries is left out:  *)
(* no operation on the map looks at it.  The write is one step; what its   *)
(* truncation does to a crash is modelled for the same code in Drafts.     *)
(***************************************************************************)
EXTENDS Naturals, FiniteSets

CONSTANTS
    Items,      \* requirements
    Buckets,    \* Classification
    Now,        \* Classification::FormalizableNow
    Hint,       \* what the floor classifier answers for each item
    RuledOut,   \* items with expects_code_trace: false
    Workers,    \* requests and commands in flight
    BatchSize,  \* batch_size of the operator's config, 0 included
    MaxRounds,  \* MAX_CONVERGE_ROUNDS
    MaxStarted  \* bound of the model: operations begun

ASSUME TriageAssumption ==
    /\ IsFiniteSet(Items)
    /\ Now \in Buckets
    /\ Hint \in [Items -> Buckets]
    /\ RuledOut \subseteq Items
    /\ BatchSize \in Nat /\ MaxRounds \in Nat /\ MaxStarted \in Nat

Origins == {"classified", "seeded", "operator", "demonstrated", "unrecorded"}
Entry == [bucket : Buckets, origin : Origins]
Untriaged == [bucket |-> Now, origin |-> "none"]
TriageMap == [Items -> Entry \cup {Untriaged}]

\* Whatever flags it is given, a run leaves these alone.
Survives(e) == e.origin \in {"operator", "demonstrated"}

Replaceable(e) == e.origin \in {"none", "seeded"}

\* Faulty: a reclassification replaces whatever there is.
PlanEverything(map, reclassify) ==
    {i \in Items : reclassify \/ Replaceable(map[i])}

\* The items a run would ask about.
Plan(map, reclassify) ==
    {i \in Items : IF reclassify THEN ~Survives(map[i]) ELSE Replaceable(map[i])}

Set(map, i, b) == [map EXCEPT ![i] = [bucket |-> b, origin |-> "operator"]]

\* Faulty: the record overrules the operator.
ApplyOverOperator(map, shown) ==
    [i \in Items |-> IF i \in shown
                     THEN [bucket |-> Now, origin |-> "demonstrated"]
                     ELSE map[i]]

ApplyDemonstrated(map, shown) ==
    [i \in Items |-> IF i \in shown /\ map[i].origin # "operator"
                     THEN [bucket |-> Now, origin |-> "demonstrated"]
                     ELSE map[i]]

\* Faulty: the answer is all there is.
ClassifyAfresh(map, some, answer, origin) ==
    [i \in Items |-> IF i \in some
                     THEN [bucket |-> answer[i], origin |-> origin]
                     ELSE Untriaged]

\* A batch answered: buckets for the items it placed, the others declined.
ClassifyInto(map, some, answer, origin) ==
    [i \in Items |-> IF i \in some
                     THEN [bucket |-> answer[i], origin |-> origin]
                     ELSE map[i]]

\* pending.chunks(batch_size.max(1)): full batches, and a last one.
Chunks(pending, size) ==
    {b \in (SUBSET pending) \ {{}} :
        \/ Cardinality(b) = IF size = 0 THEN 1 ELSE size
        \/ b = pending /\ Cardinality(b) < size}

VARIABLES
    triage,   \* triage.yml
    record,   \* items with a stored verdict or an admitted formalization
    job,      \* the local variables of each request or command
    since,    \* ghost: items of the file written since each loaded it
    placed,   \* ghost: items each run's classifier gave a bucket
    started   \* operations begun

vars == <<triage, record, job, since, placed, started>>

\* What a request holds before it asked anybody anything.
Holding(pc, op, map, cap) ==
    [pc |-> pc, op |-> op, mem |-> map, known |-> {}, model |-> TRUE,
     pending |-> {}, before |-> 0, rounds |-> 0, cap |-> cap]

NoJob == Holding("idle", "set", [i \in Items |-> Untriaged], 0)

Job == [pc : {"idle", "loaded", "asking"}, op : {"set", "seed", "reclassify"},
        mem : TriageMap, known : SUBSET Items, model : BOOLEAN,
        pending : SUBSET Items, before : Nat, rounds : Nat, cap : Nat]

\* No file, or one written before entries had an origin.
Init ==
    /\ triage \in [Items -> {e \in Entry : e.origin = "unrecorded"}
                            \cup {Untriaged}]
    /\ record \in SUBSET Items
    /\ job = [w \in Workers |-> NoJob]
    /\ since = [w \in Workers |-> {}]
    /\ placed = [w \in Workers |-> {}]
    /\ started = 0

\* The writer's copy is the file; everybody else's is out of date where the
\* write changed it.
Saves(w, map) ==
    /\ triage' = map
    /\ since' = [v \in Workers |->
        IF v = w THEN {} ELSE since[v] \cup {i \in Items : map[i] # triage[i]}]

Rests(w) ==
    /\ job' = [job EXCEPT ![w] = NoJob]
    /\ placed' = [placed EXCEPT ![w] = {}]

-----------------------------------------------------------------------------
(***************************************************************************)
(* Operations.                                                             *)
(***************************************************************************)

Begin(w) ==
    /\ job[w].pc = "idle" /\ started < MaxStarted
    /\ started' = started + 1
    /\ \E op \in {"set", "seed", "reclassify"}, cap \in {1, MaxRounds} :
        job' = [job EXCEPT ![w] =
            Holding("loaded", op, triage, IF cap = 0 THEN 1 ELSE cap)]
    /\ since' = [since EXCEPT ![w] = {}]
    /\ UNCHANGED <<triage, record, placed>>

\* apply_triage, and triage --set.
SetItem(w) ==
    /\ job[w].pc = "loaded" /\ job[w].op = "set"
    /\ \E i \in Items, b \in Buckets : Saves(w, Set(job[w].mem, i, b))
    /\ Rests(w)
    /\ UNCHANGED <<record, started>>

\* seed_backlog up to its first request: the record answers first, then the
\* scope is decided and a reclassification confirmed.
Scope(w) ==
    /\ job[w].pc = "loaded" /\ job[w].op # "set"
    /\ LET map == ApplyDemonstrated(job[w].mem, record)
           pending == Plan(map, job[w].op = "reclassify")
       IN  /\ IF map = job[w].mem THEN UNCHANGED <<triage, since>>
                                  ELSE Saves(w, map)
           /\ \/ /\ pending # {}
                 /\ \E model \in BOOLEAN :
                     job' = [job EXCEPT ![w] = [job[w] EXCEPT
                        !.pc = "asking", !.mem = map, !.known = record,
                        !.model = model, !.pending = pending,
                        !.before = Cardinality(pending)]]
                 /\ UNCHANGED placed
              \/ pending = {} /\ Rests(w)
              \/ job[w].op = "reclassify" /\ Rests(w)
    /\ UNCHANGED <<record, started>>

\* Faulty: rounds go on for as long as something is left.
OverWhenDone(remaining, before, rounds, cap) == remaining = 0

\* Converged, stalled, or out of rounds.
RoundsOver(remaining, before, rounds, cap) ==
    remaining = 0 \/ remaining >= before \/ rounds >= cap

\* Faulty: the model's answer is taken as it comes.
AnswersAsGiven(w, some) ==
    IF job[w].model THEN [some -> Buckets] ELSE {[i \in some |-> Hint[i]]}

\* The buckets a classifier may give the items it places: the floor its own,
\* a model any but one the source rules out.
Answers(w, some) ==
    IF job[w].model
    THEN {a \in [some -> Buckets] : \A i \in some \cap RuledOut : a[i] # Now}
    ELSE {[i \in some |-> Hint[i]]}

\* Rounds are compared with cap only: they are not counted past it.
Counted(w) == IF job[w].rounds < job[w].cap THEN job[w].rounds + 1
                                            ELSE job[w].cap

\* A batch that landed is persisted, and the round ends with the last one.
Lands(w, batch, some, answer) ==
    LET map == ClassifyInto(job[w].mem, some, answer,
                    IF job[w].model THEN "classified" ELSE "seeded")
        rest == job[w].pending \ batch
        residue == Plan(map, FALSE)
        over == RoundsOver(Cardinality(residue), job[w].before,
                           Counted(w), job[w].cap)
    IN  /\ Saves(w, map)
        /\ \/ /\ rest # {}
              /\ job' = [job EXCEPT ![w].mem = map, ![w].pending = rest]
              /\ placed' = [placed EXCEPT ![w] = @ \cup some]
           \/ /\ rest = {} /\ ~over
              /\ job' = [job EXCEPT ![w].mem = map,
                    ![w].pending = residue, ![w].rounds = Counted(w),
                    ![w].before = Cardinality(residue)]
              /\ placed' = [placed EXCEPT ![w] = @ \cup some]
           \/ rest = {} /\ over /\ Rests(w)

Batches(w) ==
    Chunks(job[w].pending, IF job[w].model THEN BatchSize ELSE job[w].before)

\* The floor places every item, a model those it has an answer for.
Placed(w, batch) == IF job[w].model THEN SUBSET batch ELSE {batch}

Classify(w) ==
    /\ job[w].pc = "asking"
    /\ \E batch \in Batches(w) : \E some \in Placed(w, batch) :
        \E answer \in Answers(w, some) : Lands(w, batch, some, answer)
    /\ UNCHANGED <<record, started>>

\* The classifier fails or answers nothing usable, the map cannot be written,
\* or the process dies: every batch that landed is in the file.
Stop(w) ==
    /\ job[w].pc # "idle"
    /\ Rests(w)
    /\ UNCHANGED <<triage, record, since, started>>

\* Verdicts are stored and formalizations admitted; drafts are discarded.
RecordMoves ==
    /\ \E i \in Items :
        record' = IF i \in record THEN record \ {i} ELSE record \cup {i}
    /\ UNCHANGED <<triage, job, since, placed, started>>

Seed(w) == Scope(w) \/ Classify(w)

Next ==
    \/ \E w \in Workers : Begin(w) \/ SetItem(w) \/ Seed(w) \/ Stop(w)
    \/ RecordMoves

\* A request to a model is answered or times out (timeout_seconds of the
\* config), so a run that was begun goes on to its end.
Fairness == \A w \in Workers : WF_vars(Seed(w))

Spec == Init /\ [][Next]_vars /\ Fairness

-----------------------------------------------------------------------------
(***************************************************************************)
(* Properties.                                                             *)
(***************************************************************************)

\* Types; and no model's answer calls an item formalizable that its source
\* declares not to trace to code (parse_buckets in src/llm.rs), in the file
\* or in a copy of it.
Honest(map) ==
    \A i \in RuledOut : map[i].origin = "classified" => map[i].bucket # Now

TriageOK ==
    /\ triage \in TriageMap /\ Honest(triage)
    /\ record \in SUBSET Items
    /\ job \in [Workers -> Job]
    /\ \A w \in Workers : Honest(job[w].mem)
    /\ since \in [Workers -> SUBSET Items]
    /\ placed \in [Workers -> SUBSET Items]
    /\ started \in 0 .. MaxStarted

\* Nobody is asked about what the record answers, what the operator decided,
\* or what this run already placed, in whichever round
\* (seed_until_converged and apply_demonstrated in src/triage.rs).
NothingAskedTwice ==
    \A w \in Workers :
        /\ job[w].pending \cap (job[w].known \cup placed[w]) = {}
        /\ \A i \in job[w].pending : ~Survives(job[w].mem[i])

\* The actor of a step, and what it could not know of.
Blindly(i) == \E w \in Workers : job'[w] # job[w] /\ i \in since[w]

\* An operator's choice is replaced by the operator, or by a request that
\* loaded the map before it was made (Origin::Operator in src/triage.rs).
OperatorPrevails ==
    [][\A i \in Items :
        triage[i].origin = "operator" /\ triage'[i] # triage[i]
        => triage'[i].origin = "operator" \/ Blindly(i)]_vars

\* What the file covers stays covered, however a seed ends and whatever its
\* classifier declines, short of a map loaded earlier
\* (seed_in_batches in src/triage.rs).
CoverageKept ==
    [][\A i \in Items :
        triage[i] # Untriaged /\ triage'[i] = Untriaged => Blindly(i)]_vars

\* A seed ends, with a model that keeps declining as with one that places
\* something in every round (seed_until_converged in src/triage.rs).
SeedsEnd ==
    \A w \in Workers : job[w].pc = "asking" ~> job[w].pc = "idle"

\* The operator's choice, "Never replaced by an automatic run"
\* (src/triage.rs, Origin::Operator).  The code replaces it when a seed that
\* was running when it was made saves its next batch.
NeverByARun ==
    [][\A i \in Items :
        triage[i].origin = "operator" => triage'[i].origin = "operator"]_vars
=============================================================================
