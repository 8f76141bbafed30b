----------------------------- MODULE DeskProofs -----------------------------
(***************************************************************************)
(* Proofs about who works on a served project: triage, for any backlog,    *)
(* requests, batches and rounds; the settings page, for any array to start *)
(* with, any endpoints, keys and number of requests; the coding agent and  *)
(* its process, for any tree of projects, collections and artifacts, any   *)
(* lines and any number of threads; and all of them at the desk of MCDesk, *)
(* while the operator's seeding goes on besides.                           *)
(***************************************************************************)
EXTENDS MCDesk, SequenceTheorems, FiniteSetTheorems, TLAPS

-----------------------------------------------------------------------------
(***************************************************************************)
(* Triage, for any backlog, any number of requests, and any batch size and *)
(* number of rounds.                                                       *)
(***************************************************************************)

\* A request's copy of the map is the file, but for what was written since.
CopyKnown(w) ==
    job[w].pc # "idle"
    => \A i \in Items : i \notin since[w] => job[w].mem[i] = triage[i]

\* What this run placed is there, under the origin of its classifier; what the
\* record answered is out of its reach, and so is what it is yet to ask about.
RunInStep(w) ==
    /\ \A i \in job[w].known : Survives(job[w].mem[i])
    /\ \A i \in placed[w] : job[w].mem[i].origin
            = IF job[w].model THEN "classified" ELSE "seeded"
    /\ \A i \in job[w].pending : ~Survives(job[w].mem[i])
    /\ job[w].pending \cap placed[w] = {}

\* The floor places all it is asked about, so its one round covers its scope.
FloorCovers(w) ==
    ~job[w].model => job[w].before <= Cardinality(job[w].pending \cup placed[w])

\* Before its first request a run has placed nothing.
Fresh(w) == job[w].pc # "asking" => placed[w] = {} /\ job[w].pending = {}

Inv ==
    /\ TriageOK
    /\ \A w \in Workers :
        CopyKnown(w) /\ RunInStep(w) /\ FloorCovers(w) /\ Fresh(w)

-----------------------------------------------------------------------------
\* The operators on maps.

\* set puts an operator's entry, and nothing else (set in src/triage.rs).
LEMMA SetType ==
    ASSUME NEW map \in TriageMap, NEW i \in Items, NEW b \in Buckets,
           Honest(map)
    PROVE  Set(map, i, b) \in TriageMap /\ Honest(Set(map, i, b))
  BY TriageAssumption DEF Set, TriageMap, Entry, Origins, Honest

\* The record's answers survive every later run (apply_demonstrated).
LEMMA DemonstratedType ==
    ASSUME NEW map \in TriageMap, NEW shown \in SUBSET Items, Honest(map)
    PROVE  /\ ApplyDemonstrated(map, shown) \in TriageMap
           /\ Honest(ApplyDemonstrated(map, shown))
           /\ \A i \in shown : Survives(ApplyDemonstrated(map, shown)[i])
  BY TriageAssumption
  DEF ApplyDemonstrated, TriageMap, Entry, Origins, Honest, Survives

\* A run plans nothing that survives it (plan in src/triage.rs).
LEMMA PlanSpares ==
    ASSUME NEW map \in TriageMap, NEW reclassify \in BOOLEAN
    PROVE  /\ Plan(map, reclassify) \in SUBSET Items
           /\ \A i \in Plan(map, reclassify) : ~Survives(map[i])
  BY DEF Plan, Survives, Replaceable

\* A set of requirements has a size.
LEMMA Sized ==
    ASSUME NEW S \in SUBSET Items
    PROVE  IsFiniteSet(S) /\ Cardinality(S) \in Nat
  BY FS_Subset, FS_CardinalityType, TriageAssumption

\* An idle request holds nothing.
LEMMA NoJobType == NoJob \in Job /\ Honest(NoJob.mem)
<1>. DEFINE none == [i \in Items |-> Untriaged]
<1>1. none \in TriageMap /\ NoJob.mem = none
  BY DEF TriageMap, NoJob, Holding
<1>2. NoJob \in Job
  BY <1>1 DEF NoJob, Holding, Job
<1>3. \A i \in RuledOut : none[i].origin # "classified"
  BY TriageAssumption DEF Untriaged
<1>. QED  BY <1>1, <1>2, <1>3 DEF Honest

-----------------------------------------------------------------------------
\* What a batch leaves behind.

\* The map after a batch, and what is true of the answer.
LEMMA BatchLands ==
    ASSUME Inv, NEW w \in Workers, job[w].pc = "asking",
           NEW batch \in Batches(w), NEW some \in Placed(w, batch),
           NEW answer \in Answers(w, some)
    PROVE  LET map == ClassifyInto(job[w].mem, some, answer,
                        IF job[w].model THEN "classified" ELSE "seeded")
           IN  /\ batch \in SUBSET job[w].pending /\ some \in SUBSET batch
               /\ map \in TriageMap /\ Honest(map)
               /\ \A i \in Items \ some : map[i] = job[w].mem[i]
               /\ \A i \in some : map[i].origin
                        = IF job[w].model THEN "classified" ELSE "seeded"
<1>. DEFINE origin == IF job[w].model THEN "classified" ELSE "seeded"
            map == ClassifyInto(job[w].mem, some, answer, origin)
<1>1. batch \in SUBSET job[w].pending /\ some \in SUBSET batch
  BY DEF Batches, Chunks, Placed
<1>2. /\ job[w] \in Job /\ job[w].mem \in TriageMap
      /\ some \in SUBSET Items /\ Honest(job[w].mem)
  BY <1>1 DEF Inv, TriageOK, Job
<1>3. /\ answer \in [some -> Buckets]
      /\ job[w].model => \A i \in some \cap RuledOut : answer[i] # Now
  BY <1>2, TriageAssumption DEF Answers
<1>4. map \in TriageMap
  BY <1>2, <1>3 DEF ClassifyInto, TriageMap, Entry, Origins
<1>5. Honest(map)
  <2>. SUFFICES ASSUME NEW i \in RuledOut, map[i].origin = "classified"
                PROVE  map[i].bucket # Now
    BY DEF Honest
  <2>1. i \in Items
    BY TriageAssumption
  <2>2. CASE i \in some
    <3>1. map[i] = [bucket |-> answer[i], origin |-> origin]
      BY <2>1, <2>2 DEF ClassifyInto
    <3>. QED  BY <3>1, <2>2, <1>3
  <2>3. CASE i \notin some
    BY <2>1, <2>3, <1>2 DEF ClassifyInto, Honest
  <2>. QED  BY <2>2, <2>3
<1>6. /\ \A i \in Items \ some : map[i] = job[w].mem[i]
      /\ \A i \in some : map[i].origin = origin
  BY <1>2 DEF ClassifyInto
<1>. QED  BY <1>1, <1>4, <1>5, <1>6

\* Nobody else's copy gets further from the file than it says.
LEMMA OthersKnow ==
    ASSUME Inv, NEW w \in Workers, NEW map \in TriageMap, Saves(w, map),
           NEW v \in Workers, v # w, job'[v] = job[v]
    PROVE  CopyKnown(v)'
<1>1. /\ triage' = map
      /\ since'[v] = since[v] \cup {i \in Items : map[i] # triage[i]}
  BY DEF Saves
<1>. QED  BY <1>1 DEF Inv, CopyKnown

\* A request that ends leaves nothing behind.
LEMMA Resting ==
    ASSUME Inv, NEW w \in Workers, Rests(w)
    PROVE  /\ job' \in [Workers -> Job]
           /\ \A v \in Workers : Honest(job'[v].mem)
           /\ placed' \in [Workers -> SUBSET Items]
           /\ \A v \in Workers : RunInStep(v)' /\ FloorCovers(v)' /\ Fresh(v)'
           /\ CopyKnown(w)'
           /\ \A v \in Workers \ {w} : job'[v] = job[v]
<1>1. NoJob \in Job /\ Honest(NoJob.mem)
  BY NoJobType
<1>2. /\ job' = [job EXCEPT ![w] = NoJob] /\ placed' = [placed EXCEPT ![w] = {}]
      /\ job'[w] = NoJob /\ placed'[w] = {}
      /\ \A v \in Workers \ {w} : job'[v] = job[v] /\ placed'[v] = placed[v]
  BY DEF Rests, Inv, TriageOK
<1>3. RunInStep(w)' /\ Fresh(w)' /\ CopyKnown(w)' /\ FloorCovers(w)'
  BY <1>2 DEF NoJob, Holding, RunInStep, Fresh, CopyKnown, FloorCovers
<1>4. \A v \in Workers \ {w} : RunInStep(v)' /\ FloorCovers(v)' /\ Fresh(v)'
  BY <1>2 DEF Inv, RunInStep, Fresh, FloorCovers
<1>. QED  BY <1>1, <1>2, <1>3, <1>4 DEF Inv, TriageOK

-----------------------------------------------------------------------------
\* The inductive invariant.

\* It holds when nothing was begun.
LEMMA InitInv == Init => Inv
<1>. SUFFICES ASSUME Init PROVE Inv
  OBVIOUS
<1>1. NoJob \in Job /\ Honest(NoJob.mem)
  BY NoJobType
<1>2. TriageOK
  <2>1. triage \in TriageMap
    BY DEF Init, TriageMap
  <2>2. Honest(triage)
    BY TriageAssumption DEF Init, Honest, Untriaged
  <2>3. started \in 0 .. MaxStarted
    BY TriageAssumption DEF Init
  <2>. QED  BY <1>1, <2>1, <2>2, <2>3 DEF Init, TriageOK
<1>3. \A w \in Workers :
        CopyKnown(w) /\ RunInStep(w) /\ FloorCovers(w) /\ Fresh(w)
  <2>. TAKE w \in Workers
  <2>1. job[w] = NoJob /\ placed[w] = {}
    BY DEF Init
  <2>. QED
    BY <2>1 DEF NoJob, Holding, CopyKnown, RunInStep, FloorCovers, Fresh
<1>. QED  BY <1>2, <1>3 DEF Inv

\* An operation is begun with the file as it is.
LEMMA BeginInv ==
    ASSUME Inv, NEW w \in Workers, Begin(w)
    PROVE  Inv'
<1>. PICK op \in {"set", "seed", "reclassify"}, cap \in {1, MaxRounds} :
        job' = [job EXCEPT ![w] =
            Holding("loaded", op, triage, IF cap = 0 THEN 1 ELSE cap)]
  BY DEF Begin
<1>. DEFINE new == job'[w]
<1>1. /\ new \in Job /\ Honest(new.mem)
      /\ new.pc = "loaded" /\ new.mem = triage /\ new.known = {}
      /\ new.pending = {} /\ new.model
  <2>1. /\ triage \in TriageMap /\ Honest(triage)
        /\ MaxRounds \in Nat /\ job \in [Workers -> Job]
    BY TriageAssumption DEF Inv, TriageOK
  <2>2. new = Holding("loaded", op, triage, IF cap = 0 THEN 1 ELSE cap)
    BY <2>1
  <2>3. (IF cap = 0 THEN 1 ELSE cap) \in Nat
    BY <2>1
  <2>. HIDE DEF new
  <2>. QED  BY <2>1, <2>2, <2>3 DEF Holding, Job
<1>2. \A v \in Workers \ {w} : job'[v] = job[v] /\ since'[v] = since[v]
  BY DEF Begin, Inv, TriageOK
<1>3. placed[w] = {} /\ placed' = placed /\ triage' = triage /\ record' = record
  BY DEF Begin, Inv, Fresh
<1>4. TriageOK'
  BY <1>1, <1>2, <1>3, TriageAssumption DEF Begin, Inv, TriageOK
<1>5. CopyKnown(w)' /\ RunInStep(w)' /\ FloorCovers(w)' /\ Fresh(w)'
  BY <1>1, <1>3 DEF CopyKnown, RunInStep, FloorCovers, Fresh
<1>6. \A v \in Workers \ {w} :
        CopyKnown(v)' /\ RunInStep(v)' /\ FloorCovers(v)' /\ Fresh(v)'
  BY <1>2, <1>3 DEF Inv, CopyKnown, RunInStep, FloorCovers, Fresh
<1>. QED  BY <1>4, <1>5, <1>6 DEF Inv

\* A map that is saved by a request that ends with it.
LEMMA LastSaveInv ==
    ASSUME Inv, NEW w \in Workers, NEW map \in TriageMap, Honest(map),
           Saves(w, map), Rests(w), UNCHANGED <<record, started>>
    PROVE  Inv'
<1>1. since' \in [Workers -> SUBSET Items]
  BY DEF Saves, Inv, TriageOK
<1>2. TriageOK'
  BY <1>1, Resting DEF Saves, Inv, TriageOK
<1>3. \A v \in Workers : CopyKnown(v)'
  BY Resting, OthersKnow
<1>. QED  BY <1>2, <1>3, Resting DEF Inv

\* A request that ends and saves nothing.
LEMMA EndInv ==
    ASSUME Inv, NEW w \in Workers, Rests(w),
           UNCHANGED <<triage, record, since, started>>
    PROVE  Inv'
<1>1. TriageOK'
  BY Resting DEF Inv, TriageOK
<1>2. \A v \in Workers \ {w} : CopyKnown(v)'
  BY Resting DEF Inv, CopyKnown
<1>. QED  BY <1>1, <1>2, Resting DEF Inv

\* A run that saves, or has nothing to save, and goes on.
LEMMA RunsOnInv ==
    ASSUME Inv, NEW w \in Workers, NEW map \in TriageMap, Honest(map),
           \/ Saves(w, map)
           \/ map = job[w].mem /\ UNCHANGED <<triage, since>>,
           job[w].pc # "idle",
           NEW new \in Job, new.mem = map, new.pc = "asking",
           job' = [job EXCEPT ![w] = new],
           placed' \in [Workers -> SUBSET Items],
           \A v \in Workers \ {w} : placed'[v] = placed[v],
           UNCHANGED <<record, started>>,
           RunInStep(w)', FloorCovers(w)'
    PROVE  Inv'
<1>1. /\ job'[w] = new
      /\ \A v \in Workers \ {w} : job'[v] = job[v] /\ placed'[v] = placed[v]
      /\ job' \in [Workers -> Job]
  BY DEF Inv, TriageOK
<1>2. since' \in [Workers -> SUBSET Items] /\ triage' \in TriageMap
      /\ Honest(triage')
  BY DEF Saves, Inv, TriageOK
<1>3. TriageOK'
  BY <1>1, <1>2 DEF Inv, TriageOK
<1>4. CopyKnown(w)'
  BY <1>1 DEF Saves, Inv, CopyKnown
<1>5. \A v \in Workers \ {w} : CopyKnown(v)'
  <2>. TAKE v \in Workers \ {w}
  <2>1. CASE Saves(w, map)
    BY <2>1, <1>1, OthersKnow
  <2>2. CASE UNCHANGED <<triage, since>>
    BY <2>2, <1>1 DEF Inv, CopyKnown
  <2>. QED  BY <2>1, <2>2
<1>6. \A v \in Workers \ {w} : RunInStep(v)' /\ FloorCovers(v)' /\ Fresh(v)'
  BY <1>1 DEF Inv, RunInStep, FloorCovers, Fresh
<1>7. Fresh(w)'
  BY <1>1 DEF Fresh
<1>. QED  BY <1>3, <1>4, <1>5, <1>6, <1>7 DEF Inv

\* The scope of a run is what the record does not answer.
LEMMA ScopeInv ==
    ASSUME Inv, NEW w \in Workers, Scope(w)
    PROVE  Inv'
<1>. DEFINE map == ApplyDemonstrated(job[w].mem, record)
            pending == Plan(map, job[w].op = "reclassify")
<1>1. /\ job[w] \in Job /\ job[w].mem \in TriageMap /\ Honest(job[w].mem)
      /\ record \in SUBSET Items /\ job[w].pc = "loaded"
  BY DEF Inv, TriageOK, Job, Scope
<1>2. /\ map \in TriageMap /\ Honest(map)
      /\ \A i \in record : Survives(map[i])
  BY <1>1, DemonstratedType
<1>3. /\ pending \in SUBSET Items /\ \A i \in pending : ~Survives(map[i])
      /\ Cardinality(pending) \in Nat
  BY <1>2, PlanSpares, Sized
<1>4. \/ Saves(w, map)
      \/ map = job[w].mem /\ UNCHANGED <<triage, since>>
  BY DEF Scope
<1>5. CASE Rests(w)
  <2>1. CASE Saves(w, map)
    BY <2>1, <1>2, <1>5, LastSaveInv DEF Scope
  <2>2. CASE UNCHANGED <<triage, since>>
    BY <2>2, <1>5, EndInv DEF Scope
  <2>. QED  BY <1>4, <2>1, <2>2
<1>6. CASE /\ \E model \in BOOLEAN : job' = [job EXCEPT ![w] = [job[w] EXCEPT
                !.pc = "asking", !.mem = map, !.known = record,
                !.model = model, !.pending = pending,
                !.before = Cardinality(pending)]]
           /\ UNCHANGED placed
  <2>. PICK model \in BOOLEAN : job' = [job EXCEPT ![w] = [job[w] EXCEPT
                !.pc = "asking", !.mem = map, !.known = record,
                !.model = model, !.pending = pending,
                !.before = Cardinality(pending)]]
    BY <1>6
  <2>. DEFINE new == [job[w] EXCEPT
                !.pc = "asking", !.mem = map, !.known = record,
                !.model = model, !.pending = pending,
                !.before = Cardinality(pending)]
  <2>1. /\ new \in Job /\ new.mem = map /\ new.pc = "asking"
        /\ new.known = record /\ new.pending = pending
        /\ new.before = Cardinality(pending)
    BY <1>1, <1>2, <1>3 DEF Job
  <2>2. job'[w] = new /\ placed'[w] = {} /\ placed' = placed
    BY <1>1, <1>6 DEF Inv, TriageOK, Fresh
  <2>3. RunInStep(w)'
    BY ZenonT(30), <2>1, <2>2, <1>2, <1>3 DEF RunInStep
  <2>4. FloorCovers(w)'
    <3>1. pending \cup placed'[w] = pending
      BY <2>2
    <3>2. job'[w].pending = pending /\ job'[w].before = Cardinality(pending)
      BY <2>1, <2>2
    <3>. HIDE DEF pending
    <3>. QED  BY <3>1, <3>2, <1>3 DEF FloorCovers
  <2>5. placed' \in [Workers -> SUBSET Items]
    BY <2>2 DEF Inv, TriageOK
  <2>. QED
    BY <2>1, <2>2, <2>3, <2>4, <2>5, <1>1, <1>2, <1>4, RunsOnInv DEF Scope
<1>. QED  BY <1>5, <1>6 DEF Scope

\* A batch that lands keeps the run in step.
LEMMA ClassifyInv ==
    ASSUME Inv, NEW w \in Workers, Classify(w)
    PROVE  Inv'
<1>. PICK batch \in Batches(w) : \E some \in Placed(w, batch) :
        \E answer \in Answers(w, some) : Lands(w, batch, some, answer)
  BY DEF Classify
<1>. PICK some \in Placed(w, batch) :
        \E answer \in Answers(w, some) : Lands(w, batch, some, answer)
  OBVIOUS
<1>. PICK answer \in Answers(w, some) : Lands(w, batch, some, answer)
  OBVIOUS
<1>. DEFINE origin == IF job[w].model THEN "classified" ELSE "seeded"
            map == ClassifyInto(job[w].mem, some, answer, origin)
            rest == job[w].pending \ batch
            residue == Plan(map, FALSE)
            over == RoundsOver(Cardinality(residue), job[w].before,
                               Counted(w), job[w].cap)
<1>1. /\ job[w].pc = "asking" /\ UNCHANGED <<record, started>> /\ Saves(w, map)
  BY DEF Classify, Lands
<1>2. /\ job[w] \in Job /\ placed[w] \in SUBSET Items
      /\ job[w].pending \in SUBSET Items
      /\ RunInStep(w) /\ FloorCovers(w) /\ job \in [Workers -> Job]
      /\ placed \in [Workers -> SUBSET Items]
  BY DEF Inv, TriageOK, Job
<1>3. /\ batch \in SUBSET job[w].pending /\ some \in SUBSET batch
      /\ map \in TriageMap /\ Honest(map)
      /\ \A i \in Items \ some : map[i] = job[w].mem[i]
      /\ \A i \in some : map[i].origin = origin
  BY <1>1, BatchLands
<1>4. /\ \A i \in placed[w] \cup some : map[i].origin = origin
      /\ \A i \in job[w].known : Survives(map[i]) /\ i \notin some
  <2>1. job[w].known \in SUBSET Items
    BY <1>2 DEF Job
  <2>2. \A i \in placed[w] \cup some : map[i].origin = origin
    BY <1>2, <1>3 DEF RunInStep
  <2>3. \A i \in job[w].known : i \notin some
    BY <1>2, <1>3 DEF RunInStep
  <2>. QED  BY <1>2, <1>3, <2>1, <2>2, <2>3 DEF RunInStep
<1>5. CASE rest # {} /\ job' = [job EXCEPT ![w].mem = map, ![w].pending = rest]
           /\ placed' = [placed EXCEPT ![w] = @ \cup some]
  <2>. DEFINE new == [job[w] EXCEPT !.mem = map, !.pending = rest]
  <2>1. /\ job' = [job EXCEPT ![w] = new] /\ new \in Job
        /\ new.mem = map /\ new.pc = "asking" /\ new.pending = rest
        /\ new.known = job[w].known /\ new.model = job[w].model
        /\ new.before = job[w].before
    BY <1>1, <1>2, <1>3, <1>5 DEF Job
  <2>2. /\ job'[w] = new /\ placed'[w] = placed[w] \cup some
        /\ placed' \in [Workers -> SUBSET Items]
        /\ \A v \in Workers \ {w} : placed'[v] = placed[v]
    BY <2>1, <1>2, <1>3, <1>5
  <2>3. \A i \in rest : ~Survives(map[i])
    BY <1>2, <1>3 DEF RunInStep
  <2>4. RunInStep(w)'
    BY <2>1, <2>2, <2>3, <1>2, <1>3, <1>4 DEF RunInStep
  <2>5. FloorCovers(w)'
    <3>1. ~job[w].model => some = batch
      BY DEF Placed
    <3>2. ~job[w].model =>
            rest \cup (placed[w] \cup some) = job[w].pending \cup placed[w]
      BY <3>1, <1>3
    <3>. QED  BY <3>2, <2>1, <2>2, <1>2 DEF FloorCovers
  <2>. QED  BY ZenonT(30), <2>1, <2>2, <2>4, <2>5, <1>1, <1>3, RunsOnInv
<1>6. CASE rest = {} /\ ~over
           /\ job' = [job EXCEPT ![w].mem = map,
                        ![w].pending = residue, ![w].rounds = Counted(w),
                        ![w].before = Cardinality(residue)]
           /\ placed' = [placed EXCEPT ![w] = @ \cup some]
  <2>. DEFINE new == [job[w] EXCEPT !.mem = map, !.pending = residue,
                        !.rounds = Counted(w), !.before = Cardinality(residue)]
  <2>1. /\ residue \in SUBSET Items /\ Cardinality(residue) \in Nat
        /\ \A i \in residue : ~Survives(map[i]) /\ Replaceable(map[i])
        /\ \A i \in Items : Replaceable(map[i]) => i \in residue
    BY <1>3, PlanSpares, Sized DEF Plan
  <2>2. /\ job' = [job EXCEPT ![w] = new] /\ new \in Job
        /\ new.mem = map /\ new.pc = "asking" /\ new.pending = residue
        /\ new.known = job[w].known /\ new.model = job[w].model
        /\ new.before = Cardinality(residue)
    <3>1. Counted(w) \in Nat
      BY <1>2 DEF Counted, Job
    <3>. QED  BY <3>1, <2>1, <1>1, <1>2, <1>3, <1>6 DEF Job
  <2>3. /\ job'[w] = new /\ placed'[w] = placed[w] \cup some
        /\ placed' \in [Workers -> SUBSET Items]
        /\ \A v \in Workers \ {w} : placed'[v] = placed[v]
    BY <2>2, <1>2, <1>3, <1>6
  <2>4. job[w].model
    <3>. SUFFICES ASSUME ~job[w].model PROVE FALSE
      OBVIOUS
    <3>1. some = batch /\ batch = job[w].pending
      BY <1>3, <1>6 DEF Placed
    <3>2. job[w].pending \cup placed[w] \in SUBSET residue
      BY <3>1, <2>1, <1>2, <1>4 DEF Replaceable
    <3>3. /\ Cardinality(job[w].pending \cup placed[w]) <= Cardinality(residue)
          /\ Cardinality(job[w].pending \cup placed[w]) \in Nat
      BY <3>2, <2>1, <1>2, Sized, FS_Subset
    <3>4. job[w].before \in Nat
      BY <1>2 DEF Job
    <3>5. job[w].before <= Cardinality(job[w].pending \cup placed[w])
      BY <1>2 DEF FloorCovers
    <3>6. Cardinality(residue) >= job[w].before
      <4>. HIDE DEF residue
      <4>. QED  BY <3>3, <3>4, <3>5, <2>1
    <3>. QED  BY <3>6, <1>6 DEF RoundsOver
  <2>5. residue \cap (placed[w] \cup some) = {}
    BY <2>4, <2>1, <1>4 DEF Replaceable
  <2>6. RunInStep(w)'
    <3>1. /\ job'[w].known = job[w].known /\ job'[w].mem = map
          /\ job'[w].pending = residue /\ job'[w].model = job[w].model
      BY <2>2, <2>3
    <3>. HIDE DEF new, map, residue
    <3>. QED  BY <3>1, <2>1, <2>3, <2>5, <1>4 DEF RunInStep
  <2>7. FloorCovers(w)'
    BY <2>2, <2>3, <2>4 DEF FloorCovers
  <2>8. job[w].pc # "idle"
    BY <1>1
  <2>. HIDE DEF new, map, residue
  <2>. QED  BY <2>2, <2>3, <2>6, <2>7, <2>8, <1>1, <1>3, RunsOnInv
<1>7. CASE Rests(w)
  BY <1>1, <1>3, <1>7, LastSaveInv
<1>. QED  BY <1>5, <1>6, <1>7 DEF Lands

\* An operator's set, saved (apply_triage in src/server.rs).
LEMMA SetItemInv ==
    ASSUME Inv, NEW w \in Workers, SetItem(w)
    PROVE  Inv'
<1>. PICK i \in Items, b \in Buckets : Saves(w, Set(job[w].mem, i, b))
  BY DEF SetItem
<1>1. job[w].mem \in TriageMap /\ Honest(job[w].mem)
  BY DEF Inv, TriageOK, Job
<1>. QED  BY <1>1, SetType, LastSaveInv DEF SetItem

\* Every step keeps the invariant.
LEMMA StepInv == Inv /\ [Next]_vars => Inv'
<1>. SUFFICES ASSUME Inv, [Next]_vars PROVE Inv'
  OBVIOUS
<1>1. ASSUME NEW w \in Workers, Begin(w) PROVE Inv'
  BY <1>1, BeginInv
<1>2. ASSUME NEW w \in Workers, SetItem(w) PROVE Inv'
  BY <1>2, SetItemInv
<1>3. ASSUME NEW w \in Workers, Scope(w) PROVE Inv'
  BY <1>3, ScopeInv
<1>4. ASSUME NEW w \in Workers, Classify(w) PROVE Inv'
  BY <1>4, ClassifyInv
<1>5. ASSUME NEW w \in Workers, Stop(w) PROVE Inv'
  BY <1>5, EndInv DEF Stop
<1>6. CASE RecordMoves
  <2>1. /\ record' \in SUBSET Items
        /\ UNCHANGED <<triage, job, since, placed, started>>
    BY <1>6 DEF RecordMoves, Inv, TriageOK
  <2>2. TriageOK'
    BY <2>1 DEF Inv, TriageOK
  <2>3. \A w \in Workers : CopyKnown(w)' /\ Fresh(w)'
    BY <2>1 DEF Inv, CopyKnown, Fresh
  <2>4. \A w \in Workers : RunInStep(w)' /\ FloorCovers(w)'
    BY <2>1 DEF Inv, RunInStep, FloorCovers
  <2>. QED  BY <2>2, <2>3, <2>4 DEF Inv
<1>7. CASE UNCHANGED vars
  BY <1>7 DEF vars, Inv, TriageOK, CopyKnown, RunInStep, FloorCovers, Fresh
<1>. QED  BY <1>1, <1>2, <1>3, <1>4, <1>5, <1>6, <1>7 DEF Next, Seed

\* The inductive invariant holds in every state of every behaviour.
THEOREM TriageInvariance == Spec => []Inv
  BY InitInv, StepInv, PTL DEF Spec

\* TriageOK, for any backlog: the types, and that no model's answer calls an
\* item formalizable that its source declares not to trace to code.
THEOREM TriageTypeCorrect == Spec => []TriageOK
<1>1. Inv => TriageOK
  BY DEF Inv
<1>. QED  BY <1>1, TriageInvariance, PTL

\* Nobody is asked about what the record answers, what the operator decided,
\* or what the run already placed (seed_until_converged).
THEOREM NothingIsAskedTwice == Spec => []NothingAskedTwice
<1>1. Inv => NothingAskedTwice
  BY DEF Inv, RunInStep, NothingAskedTwice
<1>. QED  BY <1>1, TriageInvariance, PTL

-----------------------------------------------------------------------------
\* What a step may replace.

\* What a save does to an item: the writer's own change, or the loss of what
\* was written since it loaded the map.
LEMMA SavesWhatItKnew ==
    ASSUME Inv, NEW w \in Workers, NEW map \in TriageMap, Saves(w, map),
           job[w].pc # "idle", job'[w] # job[w], NEW i \in Items,
           map[i] = job[w].mem[i], triage'[i] # triage[i]
    PROVE  Blindly(i)
<1>1. triage'[i] = job[w].mem[i]
  BY DEF Saves
<1>2. i \in since[w]
  BY <1>1 DEF Inv, CopyKnown
<1>. QED  BY <1>2 DEF Blindly

\* A step changes an entry blindly, or it is an operator's set, or the entry
\* is not an operator's and it stays triaged.
LEMMA StepReplaces ==
    ASSUME Inv, [Next]_vars, NEW i \in Items, triage'[i] # triage[i]
    PROVE  \/ Blindly(i)
           \/ triage'[i].origin = "operator"
           \/ triage[i].origin # "operator" /\ triage'[i] # Untriaged
<1>1. ASSUME NEW w \in Workers, SetItem(w)
      PROVE  Blindly(i) \/ triage'[i].origin = "operator"
  <2>. PICK j \in Items, b \in Buckets : Saves(w, Set(job[w].mem, j, b))
    BY <1>1 DEF SetItem
  <2>1. /\ job[w].mem \in TriageMap /\ Set(job[w].mem, j, b) \in TriageMap
        /\ job[w].pc = "loaded" /\ job'[w] # job[w]
    BY <1>1, SetType DEF SetItem, Rests, Inv, TriageOK, Job, NoJob, Holding
  <2>2. CASE i = j
    BY <2>1, <2>2 DEF Saves, Set, TriageMap
  <2>3. CASE i # j
    <3>1. Set(job[w].mem, j, b)[i] = job[w].mem[i]
      BY <2>1, <2>3 DEF Set, TriageMap
    <3>. QED  BY <3>1, <2>1, SavesWhatItKnew
  <2>. QED  BY <2>2, <2>3
<1>2. ASSUME NEW w \in Workers, Scope(w)
      PROVE  \/ Blindly(i)
             \/ triage[i].origin # "operator" /\ triage'[i] # Untriaged
  <2>. DEFINE map == ApplyDemonstrated(job[w].mem, record)
  <2>1. /\ job[w].mem \in TriageMap /\ map \in TriageMap
        /\ job[w].pc = "loaded" /\ job'[w] # job[w] /\ Saves(w, map)
    <3>1. job[w].mem \in TriageMap /\ map \in TriageMap /\ job[w] \in Job
      BY DemonstratedType DEF Inv, TriageOK, Job
    <3>2. job[w].pc = "loaded" /\ Saves(w, map)
      BY <1>2 DEF Scope
    <3>3. job'[w].pc # "loaded"
      <4>1. CASE Rests(w)
        BY <4>1 DEF Rests, NoJob, Holding, Inv, TriageOK
      <4>2. CASE \E model \in BOOLEAN, pending \in {Plan(map, job[w].op = "reclassify")} :
                job' = [job EXCEPT ![w] = [job[w] EXCEPT
                        !.pc = "asking", !.mem = map, !.known = record,
                        !.model = model, !.pending = pending,
                        !.before = Cardinality(pending)]]
        BY <4>2, <3>1 DEF Inv, TriageOK, Job
      <4>. QED  BY <1>2, <4>1, <4>2 DEF Scope
    <3>. QED  BY <3>1, <3>2, <3>3
  <2>2. CASE map[i] = job[w].mem[i]
    BY <2>1, <2>2, SavesWhatItKnew
  <2>3. CASE map[i] # job[w].mem[i]
    <3>1. /\ job[w].mem[i].origin # "operator"
          /\ map[i].origin = "demonstrated" /\ triage'[i] = map[i]
      BY <2>1, <2>3 DEF ApplyDemonstrated, Saves
    <3>2. CASE i \in since[w]
      BY <3>2, <2>1 DEF Blindly
    <3>3. CASE i \notin since[w]
      BY <3>1, <3>3, <2>1 DEF Inv, CopyKnown, Untriaged
    <3>. QED  BY <3>2, <3>3
  <2>. QED  BY <2>2, <2>3
<1>3. ASSUME NEW w \in Workers, Classify(w)
      PROVE  \/ Blindly(i)
             \/ triage[i].origin # "operator" /\ triage'[i] # Untriaged
  <2>. PICK batch \in Batches(w) : \E some \in Placed(w, batch) :
          \E answer \in Answers(w, some) : Lands(w, batch, some, answer)
    BY <1>3 DEF Classify
  <2>. PICK some \in Placed(w, batch) :
          \E answer \in Answers(w, some) : Lands(w, batch, some, answer)
    OBVIOUS
  <2>. PICK answer \in Answers(w, some) : Lands(w, batch, some, answer)
    OBVIOUS
  <2>. DEFINE origin == IF job[w].model THEN "classified" ELSE "seeded"
              map == ClassifyInto(job[w].mem, some, answer, origin)
  <2>1. job[w].pc = "asking" /\ Saves(w, map)
    BY <1>3 DEF Classify, Lands
  <2>2. /\ batch \in SUBSET job[w].pending /\ some \in SUBSET batch
        /\ map \in TriageMap
        /\ \A j \in Items \ some : map[j] = job[w].mem[j]
        /\ \A j \in some : map[j].origin = origin
    BY <2>1, BatchLands
  <2>3. job'[w] # job[w]
    <3>1. CASE Rests(w)
      BY <3>1, <2>1 DEF Rests, NoJob, Holding, Inv, TriageOK
    <3>2. CASE job' = [job EXCEPT ![w].mem = map,
                        ![w].pending = job[w].pending \ batch]
      <4>1. batch # {}
        BY DEF Batches, Chunks
      <4>. QED  BY <4>1, <3>2, <2>2 DEF Inv, TriageOK, Job
    <3>3. CASE /\ ~RoundsOver(Cardinality(Plan(map, FALSE)), job[w].before,
                              Counted(w), job[w].cap)
               /\ job' = [job EXCEPT ![w].mem = map,
                    ![w].pending = Plan(map, FALSE), ![w].rounds = Counted(w),
                    ![w].before = Cardinality(Plan(map, FALSE))]
      <4>1. job[w].rounds \in Nat /\ job[w].cap \in Nat /\ job[w] \in Job
        BY DEF Inv, TriageOK, Job
      <4>2. Counted(w) # job[w].rounds
        <5>1. ~(Counted(w) >= job[w].cap)
          BY <3>3 DEF RoundsOver
        <5>. QED  BY <5>1, <4>1 DEF Counted
      <4>3. job'[w].rounds = Counted(w)
        BY <4>1, <3>3 DEF Inv, TriageOK, Job
      <4>. QED  BY <4>2, <4>3
    <3>. QED  BY <3>1, <3>2, <3>3 DEF Lands
  <2>4. CASE i \notin some
    BY <2>1, <2>2, <2>3, <2>4, SavesWhatItKnew
  <2>5. CASE i \in some
    <3>1. /\ ~Survives(job[w].mem[i]) /\ triage'[i].origin = origin
      BY <2>1, <2>2, <2>5 DEF Inv, RunInStep, Saves
    <3>2. CASE i \in since[w]
      BY <3>2, <2>3 DEF Blindly
    <3>3. CASE i \notin since[w]
      BY <3>1, <3>3, <2>1 DEF Inv, CopyKnown, Survives, Untriaged
    <3>. QED  BY <3>2, <3>3
  <2>. QED  BY <2>4, <2>5
<1>4. ASSUME NEW w \in Workers, Begin(w) \/ Stop(w) PROVE FALSE
  BY <1>4 DEF Begin, Stop
<1>5. CASE RecordMoves \/ UNCHANGED vars
  BY <1>5 DEF RecordMoves, vars
<1>. QED  BY <1>1, <1>2, <1>3, <1>4, <1>5 DEF Next, Seed

\* An operator's choice is replaced by the operator or blindly
\* (Origin::Operator in src/triage.rs).
THEOREM OperatorsPrevail == Spec => OperatorPrevails
<1>1. Inv /\ [Next]_vars =>
        [\A i \in Items :
            triage[i].origin = "operator" /\ triage'[i] # triage[i]
            => triage'[i].origin = "operator" \/ Blindly(i)]_vars
  BY StepReplaces
<1>. QED  BY <1>1, TriageInvariance, PTL DEF Spec, OperatorPrevails

\* What the file covers stays covered, but for what is replaced blindly
\* (seed_in_batches in src/triage.rs).
THEOREM CoverageIsKept == Spec => CoverageKept
<1>1. Inv /\ [Next]_vars =>
        [\A i \in Items :
            triage[i] # Untriaged /\ triage'[i] = Untriaged => Blindly(i)]_vars
  BY StepReplaces DEF Untriaged
<1>. QED  BY <1>1, TriageInvariance, PTL DEF Spec, CoverageKept

-----------------------------------------------------------------------------
(***************************************************************************)
(* The settings page.  What removing and inserting does to an array.       *)
(***************************************************************************)

LEMMA RemoveAtShifts ==
    ASSUME NEW S, NEW s \in Seq(S), NEW i \in 1 .. Len(s)
    PROVE  /\ RemoveAt(s, i) \in Seq(S)
           /\ Len(RemoveAt(s, i)) = Len(s) - 1
           /\ \A j \in 1 .. Len(s) - 1 : RemoveAt(s, i)[j] = IF j < i THEN s[j] ELSE s[j + 1]
<1> DEFINE before == SubSeq(s, 1, i - 1)
           after == SubSeq(s, i + 1, Len(s))
<1>0. Len(s) \in Nat /\ i \in Nat /\ i >= 1 /\ i <= Len(s)
    BY LenProperties
<1>1. /\ before \in Seq(S) /\ Len(before) = i - 1
      /\ \A j \in 1 .. i - 1 : before[j] = s[j]
    <2>1. \A j \in 1 .. i - 1 : s[j] \in S
        BY <1>0, ElementOfSeq
    <2> QED
        BY <1>0, <2>1, SubSeqProperties
<1>2. /\ after \in Seq(S) /\ Len(after) = Len(s) - i
      /\ \A j \in 1 .. Len(s) - i : after[j] = s[i + j]
    <2>1. \A j \in i + 1 .. Len(s) : s[j] \in S
        BY <1>0, ElementOfSeq
    <2>2. \A j \in 1 .. Len(s) - (i + 1) + 1 : after[j] = s[(i + 1) + j - 1]
        BY <1>0, <2>1, SubSeqProperties
    <2>3. after \in Seq(S) /\ Len(after) = Len(s) - i
        BY <1>0, <2>1, SubSeqProperties
    <2> QED
        BY <1>0, <2>2, <2>3
<1>3. RemoveAt(s, i) = before \o after
    BY DEF RemoveAt
<1> HIDE DEF before, after
<1>4. /\ RemoveAt(s, i) \in Seq(S)
      /\ Len(RemoveAt(s, i)) = Len(s) - 1
    BY <1>0, <1>1, <1>2, <1>3, ConcatProperties
<1>5. ASSUME NEW j \in 1 .. Len(s) - 1
      PROVE  RemoveAt(s, i)[j] = IF j < i THEN s[j] ELSE s[j + 1]
    <2>1. RemoveAt(s, i)[j] = IF j <= Len(before) THEN before[j] ELSE after[j - Len(before)]
        BY <1>0, <1>1, <1>2, <1>3, ConcatProperties
    <2>2. CASE j < i
        BY <1>0, <1>1, <2>1, <2>2
    <2>3. CASE ~(j < i)
        <3>1. j - (i - 1) \in 1 .. Len(s) - i /\ i + (j - (i - 1)) = j + 1
            BY <1>0, <2>3
        <3> QED
            BY <1>0, <1>1, <1>2, <2>1, <2>3, <3>1
    <2> QED
        BY <2>2, <2>3
<1> QED
    BY <1>4, <1>5

LEMMA InsertAtShifts ==
    ASSUME NEW S, NEW s \in Seq(S), NEW i \in 1 .. Len(s) + 1, NEW e \in S
    PROVE  /\ InsertAt(s, i, e) \in Seq(S)
           /\ Len(InsertAt(s, i, e)) = Len(s) + 1
           /\ InsertAt(s, i, e)[i] = e
           /\ \A j \in 1 .. Len(s) :
                InsertAt(s, i, e)[IF j < i THEN j ELSE j + 1] = s[j]
<1> DEFINE before == SubSeq(s, 1, i - 1)
           after == SubSeq(s, i, Len(s))
           front == before \o <<e>>
<1>0. Len(s) \in Nat /\ i \in Nat /\ i >= 1 /\ i <= Len(s) + 1
    BY LenProperties
<1>1. /\ before \in Seq(S) /\ Len(before) = i - 1
      /\ \A j \in 1 .. i - 1 : before[j] = s[j]
    <2>1. \A j \in 1 .. i - 1 : s[j] \in S
        BY <1>0, ElementOfSeq
    <2> QED
        BY <1>0, <2>1, SubSeqProperties
<1>2. /\ after \in Seq(S) /\ Len(after) = Len(s) - i + 1
      /\ \A j \in 1 .. Len(s) - i + 1 : after[j] = s[i + j - 1]
    <2>1. \A j \in i .. Len(s) : s[j] \in S
        BY <1>0, ElementOfSeq
    <2> QED
        BY <1>0, <2>1, SubSeqProperties
<1>3. InsertAt(s, i, e) = front \o after
    BY DEF InsertAt
<1> HIDE DEF before, after
<1>4. /\ front \in Seq(S) /\ Len(front) = i
      /\ \A j \in 1 .. i : front[j] = IF j < i THEN before[j] ELSE e
    <2>1. <<e>> \in Seq(S) /\ Len(<<e>>) = 1 /\ <<e>>[1] = e
        OBVIOUS
    <2>2. /\ before \o <<e>> \in Seq(S)
          /\ Len(before \o <<e>>) = Len(before) + 1
          /\ \A j \in 1 .. Len(before) + 1 :
                (before \o <<e>>)[j]
                  = IF j <= Len(before) THEN before[j] ELSE <<e>>[j - Len(before)]
        BY <1>1, <2>1, ConcatProperties
    <2>3. \A j \in 1 .. i : front[j] = IF j <= i - 1 THEN before[j] ELSE <<e>>[j - (i - 1)]
        BY <1>0, <1>1, <2>2
    <2>4. front \in Seq(S) /\ Len(front) = i
        BY <1>0, <1>1, <2>2
    <2>5. \A j \in 1 .. i : j <= i - 1 <=> j < i
        BY <1>0
    <2>6. \A j \in 1 .. i : ~(j < i) => j - (i - 1) = 1
        BY <1>0
    <2> QED
        BY <2>1, <2>3, <2>4, <2>5, <2>6
<1> HIDE DEF front
<1>5. /\ InsertAt(s, i, e) \in Seq(S)
      /\ Len(InsertAt(s, i, e)) = Len(s) + 1
    <2>1. front \o after \in Seq(S) /\ Len(front \o after) = Len(front) + Len(after)
        BY <1>2, <1>4, ConcatProperties
    <2>2. i + (Len(s) - i + 1) = Len(s) + 1
        BY <1>0
    <2> QED
        BY <1>2, <1>3, <1>4, <2>1, <2>2
<1>6. \A j \in 1 .. Len(s) + 1 :
        InsertAt(s, i, e)[j] = IF j <= i THEN front[j] ELSE after[j - i]
    BY <1>0, <1>2, <1>3, <1>4, ConcatProperties
<1>7. InsertAt(s, i, e)[i] = e
    BY <1>0, <1>4, <1>6
<1>8. ASSUME NEW j \in 1 .. Len(s)
      PROVE  InsertAt(s, i, e)[IF j < i THEN j ELSE j + 1] = s[j]
    <2>1. CASE j < i
        BY <1>0, <1>1, <1>4, <1>6, <2>1
    <2>2. CASE ~(j < i)
        <3>1. /\ j + 1 \in 1 .. Len(s) + 1 /\ ~(j + 1 <= i)
              /\ (j + 1) - i \in 1 .. Len(s) - i + 1 /\ i + ((j + 1) - i) - 1 = j
            BY <1>0, <2>2
        <3> QED
            BY <1>0, <1>2, <1>6, <2>2, <3>1
    <2> QED
        BY <2>1, <2>2
<1> QED
    BY <1>5, <1>7, <1>8

-----------------------------------------------------------------------------
(***************************************************************************)
(* The state of the page: the array parses, the page holds slots it was    *)
(* once shown.                                                             *)
(***************************************************************************)

RowStates == [confirming : BOOLEAN, editing : ProviderSlot \cup {Absent}]

PageInv ==
    /\ FileParses
    /\ listed \in Seq(ProviderSlot)
    /\ rows \in [Rows -> RowStates]
    /\ adding \in BOOLEAN
    /\ saves \in [all : Nat, elsewhere : Nat]

LEMMA PageStarts == PageInit => PageInv
<1> SUFFICES ASSUME PageInit PROVE PageInv
    OBVIOUS
<1>1. Row \in RowStates
    BY DEF Row, RowStates
<1>2. rows \in [Rows -> RowStates]
    BY <1>1 DEF PageInit
<1>3. FileParses /\ listed \in Seq(ProviderSlot) /\ adding \in BOOLEAN
    BY FirstFileParses DEF PageInit, FileParses, Checked
<1>4. saves \in [all : Nat, elsewhere : Nat]
    BY DEF PageInit
<1> QED
    BY <1>2, <1>3, <1>4 DEF PageInv

\* What is written has been checked.
LEMMA StoresParse ==
    ASSUME PageInv, NEW slots \in Seq(ProviderSlot), Len(slots) <= MaxSlots,
           NEW who, Stores(slots, who)
    PROVE  FileParses' /\ saves' \in [all : Nat, elsewhere : Nat]
<1>1. FileParses'
    BY DEF Stores, Checked, FileParses
<1>2. saves.all + 1 \in Nat /\ saves.elsewhere + (IF who = "elsewhere" THEN 1 ELSE 0) \in Nat
    BY DEF PageInv
<1> QED
    BY <1>1, <1>2 DEF Stores

Requests ==
    [family : Families, endpoint : Urls \cup {Absent, Label} \cup Families,
     key : ApiKeys \cup {Absent}, cli : BOOLEAN]

LEMMA RequestsOfForms ==
    ASSUME NEW shown \in Urls \cup {Absent, Label} \cup Families
    PROVE  FormRequests(shown) \subseteq Requests /\ ApiRequests \subseteq Requests
BY DEF FormRequests, ApiRequests, Requests

LEMMA SlotsOfRequests ==
    ASSUME NEW req \in Requests, NEW old \in ProviderSlot
    PROVE  SlotOf(req, old) \in ProviderSlot
BY DEF SlotOf, Requests, ProviderSlot

LEMMA NewSlots == ASSUME PageInv PROVE NewSlot \in ProviderSlot
<1>1. MaxSlots + saves.all \in Nat
    BY PageAssumption DEF PageInv
<1> QED
    BY <1>1 DEF NewSlot, ProviderSlot, Families

\* An array that keeps the slots of another under other indices, but for the
\* slot x, keeps their keys.
SlotsStay(s, t, x) ==
    \A i \in DOMAIN s : i # x => \E j \in DOMAIN t : t[j].key = s[i].key

\* What a request may do to the keys.
KeyMade(s, t) ==
    \A k \in KeysOn(s) \ KeysOn(t) :
        \E i \in DOMAIN s : s[i].key = k /\ t[i].key \in ApiKeys \ KeysOn(s)

LEMMA KeysOfKept ==
    ASSUME NEW s, NEW t, SlotsStay(s, t, 0), 0 \notin DOMAIN s
    PROVE  KeyMade(s, t)
BY DEF SlotsStay, KeyMade, KeysOn

\* One slot replaced.
LEMMA KeysOfReplaced ==
    ASSUME NEW s \in Seq(ProviderSlot), NEW i \in DOMAIN s, NEW e \in ProviderSlot,
           e.key = s[i].key \/ e.key \in ApiKeys \ KeysOn(s)
    PROVE  KeyMade(s, [s EXCEPT ![i] = e])
<1> DEFINE t == [s EXCEPT ![i] = e]
<1>1. /\ DOMAIN t = DOMAIN s /\ t[i] = e
      /\ \A j \in DOMAIN s : j # i => t[j] = s[j]
    OBVIOUS
<1> HIDE DEF t
<1>2. ASSUME NEW k \in KeysOn(s) \ KeysOn(t)
      PROVE  s[i].key = k /\ t[i].key \in ApiKeys \ KeysOn(s)
    <2>1. PICK j \in DOMAIN s : s[j].key = k
        BY DEF KeysOn
    <2>2. k # Absent
        BY DEF KeysOn
    <2>3. t[j].key # k
        BY <1>1, <2>2 DEF KeysOn
    <2> QED
        BY <1>1, <2>1, <2>3
<1>3. KeyMade(s, t)
    BY <1>2 DEF KeyMade
<1> QED
    BY <1>3 DEF t

\* The handlers, with the array each of them writes.
ArrayMoves == \/ file' = file
              \/ Len(file') < Len(file)
              \/ KeyMade(file, file')

LEMMA ReplaceParses ==
    ASSUME PageInv, NEW i, NEW req \in Requests, NEW who, Replaces(i, req, who),
           req.key = Absent \/ req.key \notin KeysOn(file)
    PROVE  /\ FileParses' /\ saves' \in [all : Nat, elsewhere : Nat]
           /\ ArrayMoves
<1> DEFINE e == SlotOf(req, file[i])
           slots == [file EXCEPT ![i] = e]
<1>1. file \in Seq(ProviderSlot) /\ Len(file) <= MaxSlots /\ i \in DOMAIN file
    BY DEF PageInv, FileParses, Replaces
<1>2. i \in 1 .. Len(file) /\ file[i] \in ProviderSlot
    BY <1>1, ElementOfSeq, LenProperties
<1>3. e \in ProviderSlot
    BY <1>2, SlotsOfRequests
<1>4. e.key = file[i].key \/ e.key \in ApiKeys \ KeysOn(file)
    BY DEF SlotOf, Requests
<1>5. Stores(slots, who)
    BY DEF Replaces
<1> HIDE DEF e
<1>6. slots \in Seq(ProviderSlot) /\ Len(slots) = Len(file)
    BY <1>1, <1>2, <1>3, ExceptSeq
<1>7. KeyMade(file, slots)
    BY <1>1, <1>3, <1>4, KeysOfReplaced
<1> HIDE DEF slots
<1>8. FileParses' /\ saves' \in [all : Nat, elsewhere : Nat]
    BY <1>1, <1>5, <1>6, StoresParse
<1>9. ArrayMoves
    BY <1>5, <1>7 DEF Stores, ArrayMoves
<1> QED
    BY <1>8, <1>9

LEMMA RemoveParses ==
    ASSUME PageInv, NEW i \in DOMAIN file, NEW who, Stores(RemoveAt(file, i), who)
    PROVE  /\ FileParses' /\ saves' \in [all : Nat, elsewhere : Nat]
           /\ ArrayMoves
<1>1. /\ file \in Seq(ProviderSlot) /\ Len(file) <= MaxSlots /\ i \in 1 .. Len(file)
      /\ Len(file) \in Nat
    BY LenProperties DEF PageInv, FileParses
<1>2. RemoveAt(file, i) \in Seq(ProviderSlot) /\ Len(RemoveAt(file, i)) = Len(file) - 1
    BY <1>1, RemoveAtShifts
<1>3. Len(RemoveAt(file, i)) <= MaxSlots
    BY <1>1, <1>2, PageAssumption
<1>4. FileParses' /\ saves' \in [all : Nat, elsewhere : Nat]
    BY <1>2, <1>3, StoresParse
<1>5. file' = RemoveAt(file, i)
    BY DEF Stores
<1>6. ArrayMoves
    BY <1>1, <1>2, <1>5 DEF ArrayMoves
<1> QED
    BY <1>4, <1>6

LEMMA InsertParses ==
    ASSUME PageInv, NEW s \in Seq(ProviderSlot), NEW i \in 1 .. Len(s) + 1, NEW e \in ProviderSlot,
           Len(s) < MaxSlots, NEW who, Stores(InsertAt(s, i, e), who)
    PROVE  /\ FileParses' /\ saves' \in [all : Nat, elsewhere : Nat]
           /\ \A j \in DOMAIN s : \E m \in DOMAIN file' : file'[m] = s[j]
           /\ i \in DOMAIN file' /\ file'[i] = e
<1> DEFINE t == InsertAt(s, i, e)
<1>1. /\ t \in Seq(ProviderSlot) /\ Len(t) = Len(s) + 1 /\ t[i] = e
      /\ \A j \in 1 .. Len(s) : t[IF j < i THEN j ELSE j + 1] = s[j]
    BY InsertAtShifts
<1>2. /\ Len(s) \in Nat /\ DOMAIN s = 1 .. Len(s) /\ DOMAIN t = 1 .. Len(t)
    BY <1>1, LenProperties
<1>3. file' = t
    BY DEF Stores
<1> HIDE DEF t
<1>4. Len(t) <= MaxSlots
    BY <1>1, <1>2, PageAssumption
<1>5. FileParses' /\ saves' \in [all : Nat, elsewhere : Nat]
    BY <1>1, <1>4, StoresParse DEF t
<1>6. ASSUME NEW j \in DOMAIN s PROVE \E m \in DOMAIN t : t[m] = s[j]
    <2>1. (IF j < i THEN j ELSE j + 1) \in DOMAIN t
        BY <1>1, <1>2
    <2> QED
        BY <1>1, <1>2, <2>1
<1>7. i \in DOMAIN t
    BY <1>1, <1>2
<1> QED
    BY <1>1, <1>3, <1>5, <1>6, <1>7

LEMMA MoveParses ==
    ASSUME PageInv, NEW i \in DOMAIN file, NEW j \in DOMAIN file, NEW who, Stores(Moved(i, j), who)
    PROVE  /\ FileParses' /\ saves' \in [all : Nat, elsewhere : Nat]
           /\ ArrayMoves
<1> DEFINE s == RemoveAt(file, i)
<1>1. /\ file \in Seq(ProviderSlot) /\ Len(file) <= MaxSlots /\ i \in 1 .. Len(file)
      /\ Len(file) \in Nat /\ DOMAIN file = 1 .. Len(file) /\ file[i] \in ProviderSlot
    BY LenProperties, ElementOfSeq DEF PageInv, FileParses
<1>2. /\ s \in Seq(ProviderSlot) /\ Len(s) = Len(file) - 1
      /\ \A m \in 1 .. Len(file) - 1 : s[m] = IF m < i THEN file[m] ELSE file[m + 1]
    BY <1>1, RemoveAtShifts
<1>3. j \in 1 .. Len(s) + 1 /\ Len(s) < MaxSlots
    BY <1>1, <1>2, PageAssumption
<1>4. Stores(InsertAt(s, j, file[i]), who)
    BY DEF Moved
<1>5. DOMAIN s = 1 .. Len(s)
    BY <1>2, LenProperties
<1> HIDE DEF s
<1>6. /\ FileParses' /\ saves' \in [all : Nat, elsewhere : Nat]
      /\ \A m \in DOMAIN s : \E n \in DOMAIN file' : file'[n] = s[m]
      /\ j \in DOMAIN file' /\ file'[j] = file[i]
    BY <1>1, <1>2, <1>3, <1>4, InsertParses
<1>7. ASSUME NEW m \in DOMAIN file PROVE \E n \in DOMAIN file' : file'[n].key = file[m].key
    <2>1. CASE m = i
        BY <1>6, <2>1
    <2>2. CASE m < i
        <3>1. m \in DOMAIN s /\ s[m] = file[m]
            BY <1>1, <1>2, <1>5, <2>2
        <3> QED
            BY <1>6, <3>1
    <2>3. CASE m > i
        <3>1. m - 1 \in DOMAIN s /\ s[m - 1] = file[m]
            BY <1>1, <1>2, <1>5, <2>3
        <3> QED
            BY <1>6, <3>1
    <2> QED
        BY <1>1, <2>1, <2>2, <2>3
<1>8. KeyMade(file, file')
    BY <1>1, <1>7, KeysOfKept DEF SlotsStay
<1> QED
    BY <1>6, <1>8 DEF ArrayMoves

LEMMA InsertKeeps ==
    ASSUME PageInv, NEW i \in 1 .. Len(file) + 1, NEW e \in ProviderSlot,
           Len(file) < MaxSlots, NEW who, Stores(InsertAt(file, i, e), who)
    PROVE  /\ FileParses' /\ saves' \in [all : Nat, elsewhere : Nat]
           /\ ArrayMoves
<1>1. file \in Seq(ProviderSlot) /\ 0 \notin DOMAIN file
    BY LenProperties DEF PageInv, FileParses
<1>2. /\ FileParses' /\ saves' \in [all : Nat, elsewhere : Nat]
      /\ \A j \in DOMAIN file : \E m \in DOMAIN file' : file'[m] = file[j]
    BY <1>1, InsertParses
<1>3. KeyMade(file, file')
    BY <1>1, <1>2, KeysOfKept DEF SlotsStay
<1> QED
    BY <1>2, <1>3 DEF ArrayMoves

LEMMA AppendKeeps ==
    ASSUME PageInv, NEW e \in ProviderSlot, Len(file) < MaxSlots,
           NEW who, Stores(Append(file, e), who)
    PROVE  /\ FileParses' /\ saves' \in [all : Nat, elsewhere : Nat]
           /\ ArrayMoves
<1> DEFINE t == Append(file, e)
<1>1. file \in Seq(ProviderSlot) /\ Len(file) \in Nat /\ DOMAIN file = 1 .. Len(file)
    BY LenProperties DEF PageInv, FileParses
<1>2. /\ t \in Seq(ProviderSlot) /\ Len(t) = Len(file) + 1
      /\ \A i \in 1 .. Len(file) : t[i] = file[i]
    BY <1>1, AppendProperties
<1>3. Len(t) <= MaxSlots /\ \A i \in DOMAIN file : i \in DOMAIN t
    BY <1>1, <1>2, PageAssumption, LenProperties
<1>4. file' = t
    BY DEF Stores
<1> HIDE DEF t
<1>5. FileParses' /\ saves' \in [all : Nat, elsewhere : Nat]
    BY <1>2, <1>3, StoresParse DEF t
<1>6. KeyMade(file, file')
    BY <1>1, <1>2, <1>3, <1>4, KeysOfKept DEF SlotsStay
<1> QED
    BY <1>5, <1>6 DEF ArrayMoves

\* One step of the page, or of another.
LEMMA PageSteps == ASSUME PageInv, PageNext PROVE PageInv' /\ ArrayMoves
<1>0. /\ file \in Seq(ProviderSlot) /\ listed \in Seq(ProviderSlot)
      /\ rows \in [Rows -> RowStates] /\ adding \in BOOLEAN
      /\ saves \in [all : Nat, elsewhere : Nat]
      /\ Row \in RowStates
      /\ DOMAIN file = 1 .. Len(file) /\ Len(file) \in Nat
    BY LenProperties DEF PageInv, FileParses, RowStates, Row
<1>1. ASSUME UNCHANGED <<file, saves>>, listed' \in Seq(ProviderSlot),
             rows' \in [Rows -> RowStates], adding' \in BOOLEAN
      PROVE  PageInv' /\ ArrayMoves
    BY <1>1 DEF PageInv, FileParses, ArrayMoves
<1>2. CASE Reload
    <2>1. rows' \in [Rows -> RowStates]
        BY <1>0, <1>2 DEF Reload
    <2> QED
        BY <1>0, <1>1, <1>2, <2>1 DEF Reload
<1>3. CASE ShowAddForm
    BY <1>0, <1>1, <1>3 DEF ShowAddForm
<1>4. CASE SubmitAdd
    <2>1. PICK req \in FormRequests(Absent) : Stores(Append(file, SlotOf(req, NewSlot)), "page")
        BY <1>4 DEF SubmitAdd
    <2>2. SlotOf(req, NewSlot) \in ProviderSlot
        BY RequestsOfForms, SlotsOfRequests, NewSlots
    <2>3. Len(file) < MaxSlots /\ adding' = FALSE /\ UNCHANGED <<listed, rows>>
        BY <1>4 DEF SubmitAdd
    <2>4. FileParses' /\ saves' \in [all : Nat, elsewhere : Nat] /\ ArrayMoves
        BY <2>1, <2>2, <2>3, AppendKeeps
    <2> QED
        BY <1>0, <2>3, <2>4 DEF PageInv
<1>5. CASE Elsewhere
    <2>0. UNCHANGED <<listed, rows, adding>>
        BY <1>5 DEF Elsewhere
    <2>1. PICK i \in DOMAIN file :
            \/ \E req \in ApiRequests : Replaces(i, req, "elsewhere")
            \/ Stores(RemoveAt(file, i), "elsewhere")
            \/ \E j \in DOMAIN file \ {i} : Stores(Moved(i, j), "elsewhere")
            \/ /\ Len(file) < MaxSlots
               /\ \E req \in ApiRequests :
                    Stores(InsertAt(file, i, SlotOf(req, NewSlot)), "elsewhere")
        BY <1>5 DEF Elsewhere
    <2>2. FileParses' /\ saves' \in [all : Nat, elsewhere : Nat] /\ ArrayMoves
        <3>1. CASE \E req \in ApiRequests : Replaces(i, req, "elsewhere")
            <4>1. PICK req \in ApiRequests : Replaces(i, req, "elsewhere")
                BY <3>1
            <4>2. req \in Requests /\ (req.key = Absent \/ req.key \notin KeysOn(file))
                BY RequestsOfForms DEF ApiRequests
            <4> QED
                BY <4>1, <4>2, ReplaceParses
        <3>2. CASE Stores(RemoveAt(file, i), "elsewhere")
            BY <3>2, RemoveParses
        <3>3. CASE \E j \in DOMAIN file \ {i} : Stores(Moved(i, j), "elsewhere")
            BY <3>3, MoveParses
        <3>4. CASE /\ Len(file) < MaxSlots
                   /\ \E req \in ApiRequests :
                        Stores(InsertAt(file, i, SlotOf(req, NewSlot)), "elsewhere")
            <4>1. PICK req \in ApiRequests : Stores(InsertAt(file, i, SlotOf(req, NewSlot)), "elsewhere")
                BY <3>4
            <4>2. req \in Requests /\ NewSlot \in ProviderSlot
                BY RequestsOfForms, NewSlots
            <4>3. SlotOf(req, NewSlot) \in ProviderSlot
                BY <4>2, SlotsOfRequests
            <4>4. i \in 1 .. Len(file) + 1
                BY <1>0
            <4> QED
                BY <3>4, <4>1, <4>3, <4>4, InsertKeeps
        <3> QED
            BY <2>1, <3>1, <3>2, <3>3, <3>4
    <2> QED
        BY <1>0, <2>0, <2>2 DEF PageInv
<1>6. ASSUME NEW i \in Rows,
             OpenEdit(i) \/ CancelEdit(i) \/ AskDelete(i)
      PROVE  PageInv' /\ ArrayMoves
    <2>1. rows[i] \in RowStates
        BY <1>0
    <2>2. ASSUME NEW r \in RowStates, rows' = [rows EXCEPT ![i] = r]
          PROVE  rows' \in [Rows -> RowStates]
        BY <1>0, <2>2
    <2>3. CASE OpenEdit(i)
        <3>1. listed[i] \in ProviderSlot
            BY <1>0, <2>3, ElementOfSeq, LenProperties DEF OpenEdit
        <3>2. [rows[i] EXCEPT !.editing = listed[i]] \in RowStates
            BY <2>1, <3>1 DEF RowStates
        <3> QED
            BY <1>0, <1>1, <2>2, <2>3, <3>2 DEF OpenEdit
    <2>4. CASE CancelEdit(i)
        <3>1. [rows[i] EXCEPT !.editing = Absent] \in RowStates
            BY <2>1 DEF RowStates
        <3> QED
            BY <1>0, <1>1, <2>2, <2>4, <3>1 DEF CancelEdit
    <2>5. CASE AskDelete(i)
        <3>1. [rows[i] EXCEPT !.confirming = ~@] \in RowStates
            BY <2>1 DEF RowStates
        <3> QED
            BY <1>0, <1>1, <2>2, <2>5, <3>1 DEF AskDelete
    <2> QED
        BY <1>6, <2>3, <2>4, <2>5
<1>7. ASSUME NEW i \in Rows, SubmitEdit(i)
      PROVE  PageInv' /\ ArrayMoves
    <2>1. rows[i] \in RowStates /\ rows[i].editing # Absent
        BY <1>0, <1>7 DEF SubmitEdit
    <2>2. rows[i].editing \in ProviderSlot
        BY <2>1 DEF RowStates
    <2>3. EndpointOf(rows[i].editing) \in Urls \cup {Absent, Label} \cup Families
        BY <2>2 DEF EndpointOf, ProviderSlot
    <2>4. PICK req \in FormRequests(EndpointOf(rows[i].editing)) : Replaces(i, req, "page")
        BY <1>7 DEF SubmitEdit
    <2>5. req \in Requests
        BY <2>3, RequestsOfForms
    <2>6. req.key = Absent \/ req.key \notin KeysOn(file)
        BY DEF FormRequests, ApiRequests
    <2>7. FileParses' /\ saves' \in [all : Nat, elsewhere : Nat] /\ ArrayMoves
        BY <2>4, <2>5, <2>6, ReplaceParses
    <2>8. [rows[i] EXCEPT !.editing = Absent] \in RowStates
        BY <2>1 DEF RowStates
    <2>9. rows' \in [Rows -> RowStates] /\ UNCHANGED <<listed, adding>>
        BY <1>0, <1>7, <2>8 DEF SubmitEdit
    <2> QED
        BY <1>0, <2>7, <2>9 DEF PageInv
<1>8. ASSUME NEW i \in Rows, Toggle(i)
      PROVE  PageInv' /\ ArrayMoves
    <2> DEFINE e == [file[i] EXCEPT !.enabled = ~listed[i].enabled]
               t == [file EXCEPT ![i] = e]
    <2>1. /\ i \in DOMAIN file /\ i \in DOMAIN listed
          /\ UNCHANGED <<listed, rows, adding>>
          /\ Stores(t, "page")
        BY <1>8 DEF Toggle
    <2>2. file[i] \in ProviderSlot
        BY <1>0, <2>1, ElementOfSeq
    <2>3. e \in ProviderSlot /\ e.key = file[i].key
        BY <2>2 DEF ProviderSlot
    <2> HIDE DEF e
    <2>4. t \in Seq(ProviderSlot) /\ Len(t) = Len(file)
        BY <1>0, <2>1, <2>3, ExceptSeq
    <2>5. KeyMade(file, t)
        BY <1>0, <2>1, <2>3, KeysOfReplaced
    <2> HIDE DEF t
    <2>6. FileParses' /\ saves' \in [all : Nat, elsewhere : Nat]
        BY <2>1, <2>4, StoresParse DEF PageInv, FileParses
    <2>7. ArrayMoves
        BY <2>1, <2>5 DEF Stores, ArrayMoves
    <2> QED
        BY <1>0, <2>1, <2>6, <2>7 DEF PageInv
<1>9. ASSUME NEW i \in Rows, ConfirmDelete(i)
      PROVE  PageInv' /\ ArrayMoves
    <2>1. i \in DOMAIN file /\ Stores(RemoveAt(file, i), "page") /\ UNCHANGED <<listed, rows, adding>>
        BY <1>9 DEF ConfirmDelete
    <2>2. FileParses' /\ saves' \in [all : Nat, elsewhere : Nat] /\ ArrayMoves
        BY <2>1, RemoveParses
    <2> QED
        BY <1>0, <2>1, <2>2 DEF PageInv
<1> QED
    BY <1>2, <1>3, <1>4, <1>5, <1>6, <1>7, <1>8, <1>9 DEF PageNext

LEMMA PagePersists == ASSUME PageInv, [PageNext]_pageVars PROVE PageInv' /\ ArrayMoves
<1>1. CASE UNCHANGED pageVars
    BY <1>1 DEF pageVars, PageInv, FileParses, ArrayMoves
<1> QED
    BY <1>1, PageSteps

\* FileParses: whatever is asked of whatever index, the array parses.
THEOREM TheArrayParses == PageSpec => []FileParses
<1>1. PageInv => FileParses
    BY DEF PageInv
<1>2. PageInv /\ [PageNext]_pageVars => PageInv'
    BY PagePersists
<1> QED
    BY PageStarts, <1>1, <1>2, PTL DEF PageSpec

\* KeysAreKept: no edit loses a key that nothing was entered for.
THEOREM NoKeyIsLost == PageSpec => KeysAreKept
<1>1. PageInv /\ [PageNext]_pageVars
      => [Len(file') >= Len(file)
            => \A k \in KeysOn(file) \ KeysOn(file') :
                \E i \in DOMAIN file : file[i].key = k /\ file'[i].key \in ApiKeys \ KeysOn(file)]_pageVars
    <2> SUFFICES ASSUME PageInv, [PageNext]_pageVars, Len(file') >= Len(file)
                 PROVE  \A k \in KeysOn(file) \ KeysOn(file') :
                            \E i \in DOMAIN file : file[i].key = k /\ file'[i].key \in ApiKeys \ KeysOn(file)
        OBVIOUS
    <2>1. ArrayMoves /\ PageInv'
        BY PagePersists
    <2>2. Len(file) \in Nat /\ Len(file') \in Nat
        BY <2>1, LenProperties DEF PageInv, FileParses
    <2> QED
        BY <2>1, <2>2 DEF ArrayMoves, KeyMade
<1>2. PageInv /\ [PageNext]_pageVars => PageInv'
    BY PagePersists
<1> QED
    BY PageStarts, <1>1, <1>2, PTL DEF PageSpec, KeysAreKept

-----------------------------------------------------------------------------
(***************************************************************************)
(* The agent's process.  Types, and the shape of the tree: projects under  *)
(* the system, collections in their project, artifacts in a collection.    *)
(***************************************************************************)

Spots == Things \cup {Root, Nowhere}
LineKinds == Kinds \cup Posts \cup {"query", "resources", "read", "tool", "path"}
AnyLine == [kind : LineKinds, about : Artifacts \cup {Root}]
Ends == {"none", "error", "success", "isError", "silence"}
Proc ==
    [pc : {"reading", "calling", "writing"}, no : Nat, line : AnyLine,
     todo : Seq(Spots), found : Seq(Things), is : Ends]
Call == [to : Spots, is : {"none", "sent", "answered", "refused", "served"}, brings : SUBSET Things]
Answer == [no : Lines, kind : LineKinds, is : Ends]

WellPlaced ==
    /\ place \in [Things -> Spots]
    /\ \A x \in ProjectsOnly : place[x] \in {Root, Nowhere}
    /\ \A x \in Collections : place[x] \in {HomeOf[x], Nowhere}
    /\ \A x \in Artifacts : place[x] \in Collections \cup {Nowhere}

McpTyped ==
    /\ WellPlaced
    /\ pipe \in Seq(Line) /\ asked \in Nat
    /\ asked <= MaxLines /\ asked = proc.no + Len(pipe)
    /\ proc \in Proc /\ call \in Call
    /\ proc.pc # "reading" => proc.no \in Lines
    /\ began \in [steady : SUBSET Artifacts, ever : SUBSET Artifacts, changes : Nat]

LEMMA LinesAreLines == Line \subseteq AnyLine
BY DEF Line, Asking, AnyLine, LineKinds, Kinds, Posts

LEMMA NoCallIsCall == NoCall \in Call /\ NoCall.is = "none"
BY DEF NoCall, Call, Spots

LEMMA QuietIsProc ==
    /\ Quiet \in Proc /\ Quiet.pc = "reading" /\ Quiet.no = 0 /\ Quiet.line.kind = "notice"
    /\ Quiet.todo = <<>> /\ Quiet.found = <<>>
<1>1. [kind |-> "notice", about |-> Root] \in AnyLine
    BY DEF AnyLine, LineKinds, Kinds
<1>2. <<>> \in Seq(Spots) /\ <<>> \in Seq(Things)
    BY EmptySeq
<1> QED
    BY <1>1, <1>2 DEF Quiet, Proc, Ends

\* A call is the one that is next, and only a line that takes calls makes any.
Calling ==
    /\ call.is = "none" => call = NoCall
    /\ call.is # "none" => proc.pc = "calling" /\ proc.todo # <<>> /\ call.to = Head(proc.todo)
    /\ proc.pc = "calling" => proc.line.kind \notin Kinds
    /\ proc.pc = "calling" /\ proc.line.kind \in Posts => proc.todo # <<>>
    /\ proc.pc = "writing" /\ proc.line.kind = "notice" => proc.is = "silence"

\* What was written is of the lines that are over.
Written ==
    /\ out \in Seq(Answer)
    /\ \A i, j \in DOMAIN out : i < j => out[i].no < out[j].no
    /\ \A i \in DOMAIN out :
        /\ out[i].kind # "notice" /\ out[i].no <= proc.no
        /\ proc.pc # "reading" => out[i].no < proc.no

\* A post is to come, under way at the server, late or carried out, and never
\* two of these.
UnpostedIn(n, r, ls, d) == d[n] = 0 /\ n \notin r /\ \A l \in ls : l.no # n

LedgerOf(r, ls, d) ==
    /\ r \in SUBSET (Lines \cup Others) /\ IsFiniteSet(r)
    /\ Cardinality(r) <= Threads
    /\ ls \in SUBSET [no : Lines, kind : Posts]
    /\ d \in [Lines -> {0, 1}]
    /\ \A n \in Lines : n \in r => d[n] = 0
    /\ \A l \in ls : d[l.no] = 0 /\ l.no \notin r
    /\ \A l, m \in ls : l.no = m.no => l = m

Unposted(n) == UnpostedIn(n, running, late, done)
Ledger == LedgerOf(running, late, done)

Posted ==
    /\ Ledger
    /\ \A n \in Lines : n > proc.no => Unposted(n)
    /\ proc.pc = "calling" /\ proc.line.kind \in Posts /\ call.is \in {"none", "sent"}
        => Unposted(proc.no)
    /\ call.is = "served" => proc.no \in running /\ proc.line.kind \in Posts
    /\ call.is = "answered" /\ proc.line.kind \in Posts => done[proc.no] = 1
    /\ proc.pc = "writing" /\ proc.line.kind \in Posts /\ proc.is = "success" => done[proc.no] = 1
    /\ \A i \in DOMAIN out : out[i].kind \in Posts /\ out[i].is = "success" => done[out[i].no] = 1

\* The walk.  Of an artifact that stays where it is, exactly one of these is
\* ahead: the system, its project, its collection; or it was found, once.
Once(s, x) == \E i \in DOMAIN s : s[i] = x /\ \A j \in DOMAIN s : s[j] = x => j = i
Never(s, x) == \A i \in DOMAIN s : s[i] # x

Stage(todo, found, a, c, pr) ==
    \/ Once(todo, Root) /\ Never(todo, pr) /\ Never(todo, c) /\ Never(found, a)
    \/ Never(todo, Root) /\ Once(todo, pr) /\ Never(todo, c) /\ Never(found, a)
    \/ Never(todo, Root) /\ Never(todo, pr) /\ Once(todo, c) /\ Never(found, a)
    \/ Never(todo, Root) /\ Never(todo, pr) /\ Never(todo, c) /\ Once(found, a)

HomeIn(a) == HomeOf[place[a]]

Brought(a) ==
    /\ call.to = Root <=> HomeIn(a) \in call.brings
    /\ call.to = HomeIn(a) <=> place[a] \in call.brings
    /\ call.to = place[a] <=> a \in call.brings

Bringing ==
    /\ call.to \in Collections => call.brings \subseteq began.ever
    /\ call.to \notin Collections => call.brings \subseteq Boxes
    /\ \A a \in began.steady : Brought(a)

Walking ==
    /\ proc.todo \in Seq(Boxes \cup {Root})
    /\ \A i \in DOMAIN proc.found : proc.found[i] \in began.ever
    /\ \A a \in began.steady : Stage(proc.todo, proc.found, a, place[a], HomeIn(a))
    /\ call.is = "answered" => Bringing

Watched ==
    /\ proc.pc = "calling" => began.steady \subseteq Present /\ Present \subseteq began.ever
    /\ proc.pc = "calling" /\ proc.line.kind = "resources" => Walking
    /\ ListingIsWhole

McpInv == McpTyped /\ Calling /\ Written /\ Posted /\ Watched

-----------------------------------------------------------------------------
(***************************************************************************)
(* The tree.                                                               *)
(***************************************************************************)

LEMMA TreeFacts ==
    /\ Root \notin Things /\ Nowhere \notin Things /\ Root # Nowhere
    /\ ProjectsOnly \cap Collections = {} /\ Collections \cap Artifacts = {}
    /\ ProjectsOnly \cap Artifacts = {}
    /\ Things = ProjectsOnly \cup Collections \cup Artifacts
    /\ Boxes = ProjectsOnly \cup Collections
    /\ \A x \in Collections : HomeOf[x] \in ProjectsOnly
BY McpAssumption DEF Things, Collections

\* An artifact that is there is in a collection that is at home in a project
\* that is there.
LEMMA PresentIsPlaced ==
    ASSUME WellPlaced, NEW a \in Artifacts, There(a)
    PROVE  /\ place[a] \in Collections /\ HomeIn(a) \in ProjectsOnly
           /\ place[place[a]] = HomeIn(a) /\ place[HomeIn(a)] = Root
<1>1. place[a] # Nowhere /\ place[place[a]] # Nowhere /\ place[place[place[a]]] = Root
    BY TreeFacts DEF There
<1>2. place[a] \in Collections
    BY <1>1 DEF WellPlaced
<1>3. place[place[a]] = HomeOf[place[a]] /\ HomeOf[place[a]] \in ProjectsOnly
    BY <1>1, <1>2, TreeFacts DEF WellPlaced
<1> QED
    BY <1>1, <1>2, <1>3 DEF HomeIn

\* What a request for a box that is there brings.
LEMMA WithinBoxes ==
    ASSUME WellPlaced, NEW x \in Boxes \cup {Root}, There(x)
    PROVE  /\ x \in Collections => Within(x) \subseteq Present
           /\ x \notin Collections => Within(x) \subseteq Boxes
<1>1. ASSUME x \in Collections, NEW y \in Within(x) PROVE y \in Present
    <2>1. y \in Things /\ place[y] = x
        BY DEF Within
    <2>2. y \in Artifacts
        BY <1>1, <2>1, TreeFacts DEF WellPlaced
    <2>3. place[x] # Nowhere /\ place[place[x]] = Root
        BY <1>1, TreeFacts DEF There
    <2>4. There(y)
        BY <1>1, <2>1, <2>2, <2>3, TreeFacts DEF There
    <2> QED
        BY <2>2, <2>4 DEF Present
<1>2. ASSUME x \notin Collections, NEW y \in Within(x) PROVE y \in Boxes
    <2>1. y \in Things /\ place[y] = x
        BY DEF Within
    <2>2. x \in ProjectsOnly \cup {Root}
        BY <1>2, TreeFacts
    <2>3. y \notin Artifacts
        BY <1>2, <2>1, <2>2, TreeFacts DEF WellPlaced
    <2> QED
        BY <2>1, <2>3 DEF Things
<1> QED
    BY <1>1, <1>2

-----------------------------------------------------------------------------
(***************************************************************************)
(* Sequences in which something is once or never.                          *)
(***************************************************************************)

LEMMA EmptyHasNone == ASSUME NEW x PROVE Never(<<>>, x)
BY DEF Never

LEMMA SetAsSequence ==
    ASSUME NEW B, IsFiniteSet(B)
    PROVE  /\ SetToSeq(B) \in Seq(B)
           /\ \A x : IF x \in B THEN Once(SetToSeq(B), x) ELSE Never(SetToSeq(B), x)
<1> DEFINE n == Cardinality(B)
           s == SetToSeq(B)
<1>1. n \in Nat
    BY FS_CardinalityType
<1>2. PICK f : f \in Bijection(1 .. n, B)
    BY FS_CardinalityType DEF ExistsBijection
<1>3. f \in [1 .. n -> B] /\ IsInjective(f)
    BY <1>2 DEF Bijection, Injection, IsInjective
<1>4. s \in [1 .. n -> B] /\ IsInjective(s)
    BY <1>3 DEF SetToSeq
<1> HIDE DEF s
<1>5. s \in Seq(B)
    BY <1>1, <1>4, SeqDef
<1>6. s \in Surjection(1 .. n, B)
    <2>1. s \in Injection(1 .. n, B)
        BY <1>4 DEF Injection, IsInjective
    <2>2. IsFiniteSet(1 .. n) /\ Cardinality(1 .. n) = n
        BY <1>1, FS_Interval
    <2> QED
        BY <2>1, <2>2, FS_Injection
<1>7. ASSUME NEW x \in B PROVE Once(s, x)
    <2>1. PICK i \in 1 .. n : s[i] = x
        BY <1>6 DEF Surjection
    <2> QED
        BY <1>4, <2>1 DEF Once, IsInjective
<1>8. ASSUME NEW x, x \notin B PROVE Never(s, x)
    BY <1>4, <1>8 DEF Never
<1> QED
    BY <1>5, <1>7, <1>8 DEF s

LEMMA ConcatOnce ==
    ASSUME NEW S, NEW s \in Seq(S), NEW t \in Seq(S), NEW x
    PROVE  /\ Never(s, x) /\ Never(t, x) => Never(s \o t, x)
           /\ Once(s, x) /\ Never(t, x) => Once(s \o t, x)
           /\ Never(s, x) /\ Once(t, x) => Once(s \o t, x)
<1> DEFINE u == s \o t
<1>1. /\ Len(s) \in Nat /\ DOMAIN s = 1 .. Len(s) /\ Len(t) \in Nat /\ DOMAIN t = 1 .. Len(t)
      /\ u \in Seq(S) /\ Len(u) = Len(s) + Len(t)
      /\ \A i \in 1 .. Len(s) + Len(t) : u[i] = IF i <= Len(s) THEN s[i] ELSE t[i - Len(s)]
    BY LenProperties, ConcatProperties
<1>2. DOMAIN u = 1 .. Len(s) + Len(t)
    BY <1>1, LenProperties
<1> HIDE DEF u
<1>3. \A i \in DOMAIN u :
        \/ i \in DOMAIN s /\ u[i] = s[i]
        \/ i - Len(s) \in DOMAIN t /\ u[i] = t[i - Len(s)] /\ i \notin DOMAIN s
    BY <1>1, <1>2
<1>4. ASSUME Never(s, x), Never(t, x) PROVE Never(u, x)
    BY <1>3, <1>4 DEF Never
<1>5. ASSUME Once(s, x), Never(t, x) PROVE Once(u, x)
    <2>1. PICK i \in DOMAIN s : s[i] = x /\ \A j \in DOMAIN s : s[j] = x => j = i
        BY <1>5 DEF Once
    <2>2. i \in DOMAIN u /\ u[i] = x
        BY <1>1, <1>2, <2>1
    <2>3. ASSUME NEW j \in DOMAIN u, u[j] = x PROVE j = i
        BY <1>3, <1>5, <2>1, <2>3 DEF Never
    <2> QED
        BY <2>2, <2>3 DEF Once
<1>6. ASSUME Never(s, x), Once(t, x) PROVE Once(u, x)
    <2>1. PICK i \in DOMAIN t : t[i] = x /\ \A j \in DOMAIN t : t[j] = x => j = i
        BY <1>6 DEF Once
    <2>2. i + Len(s) \in DOMAIN u /\ u[i + Len(s)] = x
        BY <1>1, <1>2, <2>1
    <2>3. ASSUME NEW j \in DOMAIN u, u[j] = x PROVE j = i + Len(s)
        <3>1. j - Len(s) \in DOMAIN t /\ t[j - Len(s)] = x
            BY <1>3, <1>6, <2>3 DEF Never
        <3>2. j - Len(s) = i
            BY <2>1, <3>1
        <3> QED
            BY <1>1, <1>2, <2>1, <3>2
    <2> QED
        BY <2>2, <2>3 DEF Once
<1> QED
    BY <1>4, <1>5, <1>6 DEF u

LEMMA TailOnce ==
    ASSUME NEW S, NEW s \in Seq(S), s # <<>>, NEW x
    PROVE  /\ Never(s, x) => Never(Tail(s), x) /\ Head(s) # x
           /\ Once(s, x) /\ Head(s) = x => Never(Tail(s), x)
           /\ Once(s, x) /\ Head(s) # x => Once(Tail(s), x)
<1> DEFINE t == Tail(s)
<1>1. /\ Len(s) \in Nat /\ Len(s) >= 1 /\ DOMAIN s = 1 .. Len(s) /\ Head(s) = s[1]
      /\ t \in Seq(S) /\ Len(t) = Len(s) - 1
      /\ \A i \in 1 .. Len(t) : t[i] = s[i + 1]
    BY LenProperties, EmptySeq, HeadTailProperties
<1>2. DOMAIN t = 1 .. Len(s) - 1
    BY <1>1, LenProperties
<1> HIDE DEF t
<1>3. \A i \in DOMAIN t : i + 1 \in DOMAIN s /\ i + 1 # 1 /\ t[i] = s[i + 1]
    BY <1>1, <1>2
<1>4. 1 \in DOMAIN s
    BY <1>1
<1>5. ASSUME Never(s, x) PROVE Never(t, x) /\ Head(s) # x
    BY <1>1, <1>3, <1>4, <1>5 DEF Never
<1>6. ASSUME Once(s, x), Head(s) = x PROVE Never(t, x)
    <2>1. PICK i \in DOMAIN s : s[i] = x /\ \A j \in DOMAIN s : s[j] = x => j = i
        BY <1>6 DEF Once
    <2>2. i = 1
        BY <1>1, <1>4, <1>6, <2>1
    <2> QED
        BY <1>3, <2>1, <2>2 DEF Never
<1>7. ASSUME Once(s, x), Head(s) # x PROVE Once(t, x)
    <2>1. PICK i \in DOMAIN s : s[i] = x /\ \A j \in DOMAIN s : s[j] = x => j = i
        BY <1>7 DEF Once
    <2>2. i # 1
        BY <1>1, <1>7, <2>1
    <2>3. i - 1 \in DOMAIN t /\ t[i - 1] = x
        BY <1>1, <1>2, <2>1, <2>2
    <2>4. ASSUME NEW j \in DOMAIN t, t[j] = x PROVE j = i - 1
        <3>1. j + 1 = i
            BY <1>3, <2>1, <2>4
        <3> QED
            BY <1>1, <1>2, <3>1
    <2> QED
        BY <2>3, <2>4 DEF Once
<1> QED
    BY <1>5, <1>6, <1>7 DEF t

-----------------------------------------------------------------------------
(***************************************************************************)
(* The steps.  First what the parts of the invariant do not depend on.     *)
(***************************************************************************)

LEMMA TreeStays ==
    ASSUME UNCHANGED place
    PROVE  /\ WellPlaced' = WellPlaced /\ Present' = Present
           /\ \A x : There(x)' = There(x)
           /\ \A a : HomeIn(a)' = HomeIn(a)
BY DEF WellPlaced, Present, There, HomeIn

LEMMA LedgerStays ==
    ASSUME Ledger, UNCHANGED <<running, late, done>>
    PROVE  Ledger' /\ \A n : Unposted(n)' = Unposted(n)
BY DEF Ledger, Unposted

LEMMA WrittenStays == ASSUME Written, UNCHANGED out, proc'.no = proc.no, proc.pc # "reading"
                      PROVE  Written'
BY DEF Written

\* Nothing is being listed.
LEMMA NothingWatched ==
    ASSUME proc'.pc = "reading" \/ (proc'.pc = "writing" /\ proc'.line.kind # "resources")
           \/ (proc'.pc = "writing" /\ proc'.is # "success")
    PROVE  Watched'
BY DEF Watched, ListingIsWhole

LEMMA AskStep == ASSUME McpInv, Ask PROVE McpInv'
<1>0. /\ asked < MaxLines /\ asked' = asked + 1
      /\ UNCHANGED <<place, proc, call, running, late, done, out, began>>
    BY DEF Ask
<1>1. PICK line \in Line : pipe' = Append(pipe, line)
    BY DEF Ask
<1>2. McpTyped'
    <2>1. line \in AnyLine /\ pipe \in Seq(Line) /\ asked \in Nat /\ proc.no \in Nat
          /\ asked = proc.no + Len(pipe)
        BY LinesAreLines DEF McpInv, McpTyped, Proc
    <2>2. pipe' \in Seq(Line) /\ Len(pipe') = Len(pipe) + 1
        BY <1>1, <2>1, AppendProperties
    <2>3. asked' \in Nat /\ asked' <= MaxLines /\ asked' = proc.no + Len(pipe')
        BY <1>0, <2>1, <2>2, LenProperties, McpAssumption
    <2> QED
        BY <1>0, <2>2, <2>3, TreeStays DEF McpInv, McpTyped
<1>3. Calling' /\ Written'
    BY <1>0 DEF McpInv, Calling, Written
<1>4. Posted'
    BY <1>0, LedgerStays DEF McpInv, Posted
<1>5. Watched'
    BY <1>0, TreeStays DEF McpInv, Watched, Walking, Bringing, Brought, ListingIsWhole
<1> QED
    BY <1>2, <1>3, <1>4, <1>5 DEF McpInv

\* What a walk starts from.
LEMMA WalkStarts ==
    ASSUME NEW a, NEW c \in Boxes, NEW pr \in Boxes
    PROVE  Stage(<<Root>>, <<>>, a, c, pr)
<1>1. c # Root /\ pr # Root
    BY TreeFacts DEF Things
<1>2. Once(<<Root>>, Root) /\ Never(<<Root>>, pr) /\ Never(<<Root>>, c)
    BY <1>1 DEF Once, Never
<1> QED
    BY <1>2, EmptyHasNone DEF Stage

LEMMA FirstCallsAreSpots ==
    ASSUME WellPlaced, NEW line \in Line
    PROVE  /\ FirstCalls(line) \in Seq(Spots)
           /\ line.kind \in Posts \cup {"resources"} => FirstCalls(line) = <<Root>>
<1>1. \A x \in Spots : <<x>> \in Seq(Spots)
    OBVIOUS
<1>2. line.about \in Artifacts \cup {Root} /\ Artifacts \subseteq Spots /\ Root \in Spots
    BY LinesAreLines DEF AnyLine, Spots, Things
<1>3. line.kind \in Posts \cup {"resources"} => FirstCalls(line) = <<Root>>
    BY DEF FirstCalls, Posts
<1>4. line.kind # "path" => FirstCalls(line) \in {<<Root>>, <<line.about>>}
    BY DEF FirstCalls
<1>5. ASSUME line.kind = "path" PROVE FirstCalls(line) = <<place[line.about]>> /\ place[line.about] \in Spots
    <2>1. line.about \in Artifacts
        BY <1>5 DEF Line, Asking, Kinds, Posts
    <2> QED
        BY <1>5, <2>1 DEF FirstCalls, WellPlaced, Things
<1> QED
    BY <1>1, <1>2, <1>3, <1>4, <1>5

\* A line is taken up: nothing was posted for it yet.
LEMMA TakeStep == ASSUME McpInv, Take PROVE McpInv'
<1> DEFINE line == Head(pipe)
           next == [Quiet EXCEPT !.no = proc.no + 1, !.line = line]
<1>0. /\ proc.pc = "reading" /\ pipe # <<>> /\ pipe' = Tail(pipe)
      /\ proc' = IF line.kind \in Kinds
                 THEN [next EXCEPT !.pc = "writing", !.is = AnsweredAtOnce(line.kind)]
                 ELSE [next EXCEPT !.pc = "calling", !.todo = FirstCalls(line)]
      /\ began' = [Unwatched EXCEPT !.steady = Present, !.ever = Present]
      /\ UNCHANGED <<place, asked, call, running, late, done, out>>
    BY DEF Take
<1>1. /\ pipe \in Seq(Line) /\ asked \in Nat /\ asked <= MaxLines /\ proc.no \in Nat
      /\ asked = proc.no + Len(pipe) /\ WellPlaced
    BY DEF McpInv, McpTyped, Proc
<1>2. /\ line \in Line /\ line \in AnyLine /\ line.kind \in LineKinds
      /\ Tail(pipe) \in Seq(Line) /\ Len(Tail(pipe)) = Len(pipe) - 1
      /\ Len(pipe) \in Nat /\ Len(pipe) >= 1
    BY <1>0, <1>1, HeadTailProperties, LenProperties, EmptySeq, LinesAreLines DEF AnyLine
<1>3. /\ proc.no + 1 \in Lines /\ proc.no + 1 \in Nat
      /\ asked = (proc.no + 1) + Len(Tail(pipe))
    BY <1>1, <1>2, McpAssumption DEF Lines
<1> HIDE DEF line
<1>4. /\ FirstCalls(line) \in Seq(Spots)
      /\ line.kind \in Posts \cup {"resources"} => FirstCalls(line) = <<Root>>
    BY <1>1, <1>2, FirstCallsAreSpots
<1>5. /\ AnsweredAtOnce(line.kind) \in Ends
      /\ line.kind = "notice" => AnsweredAtOnce(line.kind) = "silence"
    BY DEF AnsweredAtOnce, Ends
<1>6. /\ next \in Proc /\ next.no = proc.no + 1 /\ next.line = line
      /\ next.found = <<>>
    BY <1>2, <1>3, QuietIsProc DEF Proc
<1> HIDE DEF next
<1>7. /\ proc' \in Proc /\ proc'.no = proc.no + 1 /\ proc'.line = line /\ proc'.found = <<>>
      /\ line.kind \in Kinds => proc'.pc = "writing" /\ proc'.is = AnsweredAtOnce(line.kind)
      /\ line.kind \notin Kinds => proc'.pc = "calling" /\ proc'.todo = FirstCalls(line)
    BY <1>0, <1>4, <1>5, <1>6 DEF Proc
<1>8. /\ began' \in [steady : SUBSET Artifacts, ever : SUBSET Artifacts, changes : Nat]
      /\ began'.steady = Present /\ began'.ever = Present
    BY <1>0 DEF Unwatched, Present
<1>9. McpTyped'
    BY <1>0, <1>1, <1>2, <1>3, <1>7, <1>8, TreeStays DEF McpInv, McpTyped
<1>10. call.is = "none" /\ call = NoCall
    BY <1>0 DEF McpInv, Calling
<1>11. Posts \cap Kinds = {} /\ "resources" \notin Kinds /\ "notice" \in Kinds
    BY DEF Posts, Kinds
<1>12. Calling'
    <2>1. line.kind \in Posts => FirstCalls(line) # <<>>
        BY <1>4
    <2>2. proc'.pc = "calling" => line.kind \notin Kinds
        BY <1>7
    <2>3. proc'.pc = "calling" /\ line.kind \in Posts => proc'.todo # <<>>
        BY <1>7, <2>1, <2>2
    <2>4. proc'.pc = "writing" /\ line.kind = "notice" => proc'.is = "silence"
        BY <1>5, <1>7, <1>11
    <2> QED
        BY <1>0, <1>7, <1>10, <2>2, <2>3, <2>4 DEF Calling
<1>13. Written'
    <2>1. out \in Seq(Answer)
        BY DEF McpInv, Written
    <2>2. \A i \in DOMAIN out : out[i] \in Answer
        BY <2>1, LenProperties, ElementOfSeq
    <2>3. \A i \in DOMAIN out : out[i].no \in Nat
        BY <2>2 DEF Answer, Lines
    <2> QED
        BY <1>0, <1>1, <1>7, <2>1, <2>3 DEF McpInv, Written
<1>14. Posted'
    <2>1. Ledger' /\ \A n : Unposted(n)' = Unposted(n)
        BY <1>0, LedgerStays DEF McpInv, Posted
    <2>2. Unposted(proc.no + 1)
        BY <1>1, <1>3 DEF McpInv, Posted
    <2>3. \A n \in Lines : n > proc.no + 1 => Unposted(n)
        BY <1>1 DEF McpInv, Posted, Lines
    <2>4. proc'.pc = "writing" => proc'.line.kind \notin Posts
        BY <1>7, <1>11
    <2> QED
        BY <1>0, <1>7, <1>10, <2>1, <2>2, <2>3, <2>4 DEF McpInv, Posted
<1>15. Watched'
    <2>1. CASE line.kind \in Kinds
        BY <1>7, <1>11, <2>1, NothingWatched
    <2>2. CASE line.kind \notin Kinds
        <3>1. ListingIsWhole'
            BY <1>7, <2>2 DEF ListingIsWhole
        <3>2. Present' = Present
            BY <1>0, TreeStays
        <3>3. ASSUME line.kind = "resources" PROVE Walking'
            <4>0. <<Root>> \in Seq(Boxes \cup {Root})
                OBVIOUS
            <4>1. proc'.todo = <<Root>> /\ proc'.found = <<>>
                BY <1>4, <1>7, <2>2, <3>3
            <4>2. ASSUME NEW a \in began'.steady
                  PROVE  Stage(proc'.todo, proc'.found, a, place'[a], HomeIn(a)')
                <5>1. a \in Artifacts /\ There(a)
                    BY <1>8 DEF Present
                <5>2. place[a] \in Boxes /\ HomeIn(a) \in Boxes
                    BY <1>1, <5>1, PresentIsPlaced, TreeFacts
                <5>3. place' = place /\ HomeIn(a)' = HomeIn(a)
                    BY <1>0, TreeStays
                <5> QED
                    BY <4>1, <5>2, <5>3, WalkStarts
            <4>3. \A i \in DOMAIN proc'.found : proc'.found[i] \in began'.ever
                BY <4>1
            <4>4. call'.is # "answered"
                BY <1>0, <1>10
            <4>5. proc'.todo \in Seq(Boxes \cup {Root})
                BY <4>0, <4>1
            <4> QED
                BY <4>2, <4>3, <4>4, <4>5 DEF Walking
        <3> QED
            BY <1>7, <1>8, <3>1, <3>2, <3>3 DEF Watched
    <2> QED
        BY <2>1, <2>2
<1> QED
    BY <1>9, <1>12, <1>13, <1>14, <1>15 DEF McpInv

\* The answer is written.
LEMMA WriteStep == ASSUME McpInv, Write PROVE McpInv'
<1> DEFINE answer == [no |-> proc.no, kind |-> proc.line.kind, is |-> proc.is]
<1>0. /\ proc.pc = "writing" /\ proc' = [Quiet EXCEPT !.no = proc.no] /\ began' = Unwatched
      /\ out' = IF proc.is = "silence" THEN out ELSE Append(out, answer)
      /\ UNCHANGED <<place, pipe, asked, call, running, late, done>>
    BY DEF Write
<1>1. /\ proc \in Proc /\ proc.no \in Nat /\ proc.no \in Lines
      /\ out \in Seq(Answer) /\ \A i \in DOMAIN out : out[i].no < proc.no
    BY <1>0 DEF McpInv, McpTyped, Written, Proc
<1>2. answer \in Answer
    BY <1>1 DEF Answer, Proc, AnyLine
<1>3. /\ proc' \in Proc /\ proc'.no = proc.no /\ proc'.pc = "reading"
      /\ proc'.line.kind = "notice"
    BY <1>0, <1>1, QuietIsProc DEF Proc
<1>4. McpTyped'
    BY <1>0, <1>3, TreeStays DEF McpInv, McpTyped, Unwatched
<1>5. Calling'
    BY <1>0, <1>3 DEF McpInv, Calling
<1>6. /\ out' \in Seq(Answer)
      /\ \A i \in DOMAIN out' :
            \/ i \in DOMAIN out /\ out'[i] = out[i]
            \/ /\ proc.is # "silence" /\ out'[i] = answer
               /\ i = Len(out) + 1 /\ i \notin DOMAIN out
    <2>1. CASE proc.is = "silence"
        BY <1>0, <1>1, <2>1
    <2>2. CASE proc.is # "silence"
        <3>1. out' = Append(out, answer)
            BY <1>0, <2>2
        <3> HIDE DEF answer
        <3>2. /\ out' \in Seq(Answer) /\ Len(out') = Len(out) + 1 /\ Len(out) \in Nat
              /\ DOMAIN out = 1 .. Len(out) /\ DOMAIN out' = 1 .. Len(out')
              /\ \A i \in 1 .. Len(out) : out'[i] = out[i]
              /\ out'[Len(out) + 1] = answer
            BY <1>1, <1>2, <3>1, AppendProperties, LenProperties
        <3> QED
            BY <2>2, <3>2
    <2> QED
        BY <2>1, <2>2
<1>7. Written'
    <2>1. \A i, j \in DOMAIN out' : i < j => out'[i].no < out'[j].no
        <3> SUFFICES ASSUME NEW i \in DOMAIN out', NEW j \in DOMAIN out', i < j
                     PROVE  out'[i].no < out'[j].no
            OBVIOUS
        <3>1. DOMAIN out = 1 .. Len(out) /\ Len(out) \in Nat
            BY <1>1, LenProperties
        <3>2. j \in DOMAIN out => i \in DOMAIN out
            BY <1>6, <3>1
        <3>3. i \in DOMAIN out
            BY <1>6, <3>1, <3>2
        <3>4. CASE j \in DOMAIN out
            BY <1>6, <3>3, <3>4, <3>1 DEF McpInv, Written
        <3>5. CASE j \notin DOMAIN out
            <4>1. out'[j].no = proc.no /\ out'[i] = out[i]
                BY <1>6, <3>3, <3>5, <3>1
            <4> QED
                BY <1>1, <3>3, <4>1
        <3> QED
            BY <3>4, <3>5
    <2>2. ASSUME NEW i \in DOMAIN out' PROVE out'[i].kind # "notice" /\ out'[i].no <= proc.no
        <3>1. answer.kind = proc.line.kind /\ answer.no = proc.no
            OBVIOUS
        <3>2. proc.is # "silence" => proc.line.kind # "notice"
            BY <1>0 DEF McpInv, Calling
        <3> HIDE DEF answer
        <3> QED
            BY <1>1, <1>6, <3>1, <3>2 DEF McpInv, Written
    <2> QED
        BY <1>3, <1>6, <2>1, <2>2 DEF Written
<1>8. Posted'
    <2>1. Ledger' /\ \A n : Unposted(n)' = Unposted(n)
        BY <1>0, LedgerStays DEF McpInv, Posted
    <2>2. answer.kind \in Posts /\ answer.is = "success" => done[answer.no] = 1
        BY <1>0 DEF McpInv, Posted
    <2>3. call.is = "none"
        BY <1>0, <1>1 DEF McpInv, Calling, McpTyped, Call
    <2> HIDE DEF answer
    <2>4. \A i \in DOMAIN out' : out'[i].kind \in Posts /\ out'[i].is = "success" => done'[out'[i].no] = 1
        BY <1>0, <1>6, <2>2 DEF McpInv, Posted
    <2> QED
        BY <1>0, <1>3, <2>1, <2>3, <2>4 DEF McpInv, Posted
<1>9. Watched'
    BY <1>3, NothingWatched
<1> QED
    BY <1>4, <1>5, <1>7, <1>8, <1>9 DEF McpInv

\* What the server does leaves the process as it is.
LEMMA ServerFrame ==
    ASSUME McpInv, UNCHANGED <<place, pipe, asked, proc, out, began>>,
           call' \in Call, Calling', Posted',
           proc.pc = "calling" /\ proc.line.kind = "resources" /\ Walking /\ call'.is = "answered"
             => Bringing'
    PROVE  McpInv'
<1>1. McpTyped'
    BY TreeStays DEF McpInv, McpTyped
<1>2. Written'
    BY DEF McpInv, Written
<1>3. ListingIsWhole'
    BY DEF McpInv, Watched, ListingIsWhole
<1>4. ASSUME proc.pc = "calling", proc.line.kind = "resources" PROVE Walking'
    <2>1. Walking /\ (call'.is = "answered" => Bringing')
        BY <1>4 DEF McpInv, Watched
    <2> QED
        BY <2>1, TreeStays DEF Walking
<1>5. Watched'
    BY <1>3, <1>4, TreeStays DEF McpInv, Watched
<1> QED
    BY <1>1, <1>2, <1>5 DEF McpInv

LEMMA BringingStays ==
    ASSUME UNCHANGED <<place, call, began>>, Bringing PROVE Bringing'
BY DEF Bringing, Brought, HomeIn

LEMMA SendCallStep == ASSUME McpInv, SendCall PROVE McpInv'
<1>0. /\ proc.pc = "calling" /\ proc.todo # <<>> /\ call = NoCall
      /\ call' = [NoCall EXCEPT !.to = Head(proc.todo), !.is = "sent"]
      /\ UNCHANGED <<place, pipe, asked, proc, running, late, done, out, began>>
    BY DEF SendCall
<1>1. proc.todo \in Seq(Spots)
    BY DEF McpInv, McpTyped, Proc
<1>2. Head(proc.todo) \in Spots
    BY <1>0, <1>1, HeadTailProperties
<1>3. call' \in Call /\ call'.is = "sent" /\ call'.to = Head(proc.todo)
    BY <1>0, <1>2, NoCallIsCall DEF Call
<1>4. Calling'
    BY <1>0, <1>3 DEF McpInv, Calling
<1>5. Posted'
    BY <1>0, <1>3, LedgerStays, NoCallIsCall DEF McpInv, Posted
<1> QED
    BY <1>0, <1>3, <1>4, <1>5, ServerFrame

\* A read: the walk is told what the tree is now.
LEMMA ServeStep == ASSUME McpInv, Serve PROVE McpInv'
<1>0. /\ call.is = "sent" /\ proc.line.kind \notin Posts
      /\ call' = IF There(call.to) THEN [call EXCEPT !.is = "answered", !.brings = Within(call.to)]
                 ELSE [call EXCEPT !.is = "refused"]
      /\ UNCHANGED <<place, pipe, asked, proc, running, late, done, out, began>>
    BY DEF Serve
<1>1. call \in Call /\ WellPlaced /\ Within(call.to) \in SUBSET Things
    BY DEF McpInv, McpTyped, Within
<1>2. /\ call' \in Call /\ call'.is \in {"answered", "refused"} /\ call'.to = call.to
      /\ call'.is = "answered" => There(call.to) /\ call'.brings = Within(call.to)
    BY <1>0, <1>1 DEF Call
<1>3. Calling'
    BY <1>0, <1>2 DEF McpInv, Calling
<1>4. Posted'
    BY <1>0, <1>2, LedgerStays DEF McpInv, Posted
<1>5. ASSUME proc.pc = "calling", proc.line.kind = "resources", Walking, call'.is = "answered"
      PROVE  Bringing'
    <2>1. call.to \in Boxes \cup {Root}
        <3>1. proc.todo \in Seq(Boxes \cup {Root}) /\ proc.todo # <<>> /\ call.to = Head(proc.todo)
            BY <1>0, <1>5 DEF Walking, McpInv, Calling
        <3> QED
            BY <3>1, HeadTailProperties
    <2>2. /\ call.to \in Collections => Within(call.to) \subseteq Present
          /\ call.to \notin Collections => Within(call.to) \subseteq Boxes
        BY <1>1, <1>2, <1>5, <2>1, WithinBoxes
    <2>3. began.steady \subseteq Present /\ Present \subseteq began.ever
        BY <1>5 DEF McpInv, Watched
    <2>4. ASSUME NEW a \in began.steady PROVE Brought(a)'
        <3>1. a \in Artifacts /\ There(a)
            BY <2>3 DEF Present
        <3>2. /\ place[a] \in Collections /\ HomeIn(a) \in ProjectsOnly
              /\ place[place[a]] = HomeIn(a) /\ place[HomeIn(a)] = Root
            BY <1>1, <3>1, PresentIsPlaced
        <3>3. a \in Things /\ place[a] \in Things /\ HomeIn(a) \in Things
            BY <3>1, <3>2, TreeFacts
        <3>4. /\ call.to = Root <=> HomeIn(a) \in Within(call.to)
              /\ call.to = HomeIn(a) <=> place[a] \in Within(call.to)
              /\ call.to = place[a] <=> a \in Within(call.to)
            BY <3>2, <3>3 DEF Within
        <3>5. HomeIn(a)' = HomeIn(a) /\ place' = place
            BY <1>0, TreeStays
        <3> QED
            BY <1>2, <1>5, <3>4, <3>5 DEF Brought
    <2> QED
        BY <1>0, <1>2, <1>5, <2>2, <2>3, <2>4 DEF Bringing
<1> QED
    BY <1>0, <1>2, <1>3, <1>4, <1>5, ServerFrame

\* A post is carried out, or a verify is started: what was unposted is not
\* any more, and nothing else moves.
LEMMA CarryOut ==
    ASSUME NEW r, NEW ls, NEW d, LedgerOf(r, ls, d),
           NEW n \in Lines, UnpostedIn(n, r, ls, d),
           NEW e, e \in [Lines -> {0, 1}], e[n] = 1, \A m \in Lines : m # n => e[m] = d[m]
    PROVE  /\ LedgerOf(r, ls, e)
           /\ \A m \in Lines : d[m] = 1 => e[m] = 1
           /\ \A m \in Lines : m # n => UnpostedIn(m, r, ls, e) = UnpostedIn(m, r, ls, d)
<1>1. \A l \in ls : l.no \in Lines /\ l.no # n
    BY DEF LedgerOf, UnpostedIn
<1>2. LedgerOf(r, ls, e)
    BY <1>1 DEF LedgerOf, UnpostedIn
<1> QED
    BY <1>2 DEF UnpostedIn

LEMMA CountedOnce ==
    ASSUME NEW r, NEW ls, LedgerOf(r, ls, done), NEW n \in Lines, UnpostedIn(n, r, ls, done),
           CarriedOut(n)
    PROVE  done' \in [Lines -> {0, 1}] /\ done'[n] = 1 /\ \A m \in Lines : m # n => done'[m] = done[m]
<1>1. done \in [Lines -> {0, 1}] /\ done[n] = 0
    BY DEF LedgerOf, UnpostedIn
<1>2. done' = [done EXCEPT ![n] = 1]
    BY <1>1 DEF CarriedOut
<1> QED
    BY <1>1, <1>2

LEMMA StartVerify ==
    ASSUME NEW r, NEW ls, NEW d, LedgerOf(r, ls, d), Cardinality(r) < Threads,
           NEW n, n \in Others \/ (n \in Lines /\ UnpostedIn(n, r, ls, d))
    PROVE  /\ LedgerOf(r \cup {n}, ls, d)
           /\ \A m \in Lines : m # n => UnpostedIn(m, r \cup {n}, ls, d) = UnpostedIn(m, r, ls, d)
<1> DEFINE more == r \cup {n}
<1>1. IsFiniteSet(r) /\ Cardinality(r) \in Nat /\ Threads \in Nat
    BY FS_CardinalityType, McpAssumption DEF LedgerOf
<1>2. IsFiniteSet(more) /\ Cardinality(more) <= Cardinality(r) + 1
    <2>1. /\ IsFiniteSet(more)
          /\ Cardinality(more) = IF n \in r THEN Cardinality(r) ELSE Cardinality(r) + 1
        BY <1>1, FS_AddElement
    <2> QED
        BY <1>1, <2>1
<1>3. Cardinality(more) <= Threads
    BY <1>1, <1>2, FS_CardinalityType
<1>4. Others \cap Lines = {}
    BY McpAssumption DEF Lines
<1>5. \A l \in ls : l.no \in Lines /\ l.no # n
    BY <1>4 DEF LedgerOf, UnpostedIn
<1>6. LedgerOf(more, ls, d)
    BY <1>2, <1>3, <1>4, <1>5 DEF LedgerOf, UnpostedIn
<1> QED
    BY <1>6 DEF UnpostedIn

LEMMA EndVerify ==
    ASSUME NEW r, NEW ls, NEW d, LedgerOf(r, ls, d), NEW v \in r
    PROVE  /\ LedgerOf(r \ {v}, ls, d)
           /\ v \in Lines => UnpostedIn(v, r \ {v}, ls, d)
           /\ \A m \in Lines : m # v => UnpostedIn(m, r \ {v}, ls, d) = UnpostedIn(m, r, ls, d)
<1>1. IsFiniteSet(r) /\ Cardinality(r) \in Nat /\ Threads \in Nat
    BY FS_CardinalityType, McpAssumption DEF LedgerOf
<1>2. IsFiniteSet(r \ {v}) /\ Cardinality(r \ {v}) <= Cardinality(r)
    BY <1>1, FS_RemoveElement
<1>3. Cardinality(r \ {v}) <= Threads
    BY <1>1, <1>2, FS_CardinalityType DEF LedgerOf
<1>4. LedgerOf(r \ {v}, ls, d)
    BY <1>2, <1>3 DEF LedgerOf
<1> QED
    BY <1>4 DEF LedgerOf, UnpostedIn

LEMMA NotLateAnyMore ==
    ASSUME NEW r, NEW ls, NEW d, LedgerOf(r, ls, d), NEW l \in ls
    PROVE  /\ LedgerOf(r, ls \ {l}, d) /\ l.no \in Lines /\ UnpostedIn(l.no, r, ls \ {l}, d)
           /\ ~UnpostedIn(l.no, r, ls, d)
           /\ \A m \in Lines : m # l.no => UnpostedIn(m, r, ls \ {l}, d) = UnpostedIn(m, r, ls, d)
<1>1. l.no \in Lines /\ d[l.no] = 0 /\ l.no \notin r
    BY DEF LedgerOf
<1>2. \A m \in ls \ {l} : m.no # l.no
    BY DEF LedgerOf
<1>3. LedgerOf(r, ls \ {l}, d)
    BY DEF LedgerOf
<1> QED
    BY <1>1, <1>2, <1>3 DEF UnpostedIn

\* The process waits while the server works.
LEMMA PostedFrame ==
    ASSUME McpInv, UNCHANGED <<proc, out>>, Ledger',
           \A m \in Lines : done[m] = 1 => done'[m] = 1,
           \A m \in Lines : Unposted(m) /\ (m = proc.no => call'.is \in {"none", "sent"})
                            => Unposted(m)',
           call'.is \in {"none", "sent"} => call'.is = call.is,
           call'.is = "served" => proc.no \in running' /\ proc.line.kind \in Posts,
           call'.is = "answered" /\ proc.line.kind \in Posts => done'[proc.no] = 1
    PROVE  Posted'
<1>1. \A i \in DOMAIN out : out[i].no \in Lines
    <2>1. \A i \in DOMAIN out : out[i] \in Answer
        BY LenProperties, ElementOfSeq DEF McpInv, Written
    <2> QED
        BY <2>1 DEF Answer
<1>2. \A i \in DOMAIN out : out[i].kind \in Posts /\ out[i].is = "success" => done'[out[i].no] = 1
    BY <1>1 DEF McpInv, Posted
<1>3. proc.pc # "reading" => proc.no \in Lines
    BY DEF McpInv, McpTyped
<1>4. \A n \in Lines : n > proc.no => Unposted(n)'
    BY DEF McpInv, McpTyped, Proc, Posted, Lines
<1>5. proc.pc = "calling" /\ proc.line.kind \in Posts /\ call'.is \in {"none", "sent"}
        => Unposted(proc.no)'
    BY <1>3 DEF McpInv, Posted
<1>6. proc.pc = "writing" /\ proc.line.kind \in Posts /\ proc.is = "success" => done'[proc.no] = 1
    BY <1>3 DEF McpInv, Posted
<1> QED
    BY <1>2, <1>4, <1>5, <1>6 DEF Posted

LEMMA ServePostStep == ASSUME McpInv, ServeTriage \/ ServeVerify PROVE McpInv'
<1>0. /\ call.is = "sent" /\ proc.line.kind \in Posts /\ IsFree
      /\ UNCHANGED <<place, pipe, asked, proc, late, out, began>>
    BY DEF ServeTriage, ServeVerify, Triages, StartsVerify, Posts
<1>1. /\ proc.pc = "calling" /\ proc.no \in Lines /\ call \in Call
      /\ proc.todo # <<>> /\ call.to = Head(proc.todo)
      /\ proc.line.kind \notin Kinds
    BY <1>0 DEF McpInv, McpTyped, Calling
<1>2. LedgerOf(running, late, done) /\ UnpostedIn(proc.no, running, late, done)
    BY <1>0, <1>1 DEF McpInv, Posted, Ledger, Unposted
<1>3. PICK s \in {"answered", "served"} : call' = [call EXCEPT !.is = s]
    BY DEF ServeTriage, ServeVerify
<1>4. call' \in Call /\ call'.is = s /\ call'.to = call.to
    BY <1>1, <1>3 DEF Call
<1>5. Calling'
    BY <1>0, <1>1, <1>3, <1>4 DEF Calling
<1>6. CASE ServeTriage
    <2>0. CarriedOut(proc.no) /\ running' = running /\ late' = late
        BY <1>6 DEF ServeTriage, Triages
    <2>1. /\ done' \in [Lines -> {0, 1}] /\ done'[proc.no] = 1
          /\ \A m \in Lines : m # proc.no => done'[m] = done[m]
        BY <1>1, <1>2, <2>0, CountedOnce
    <2>2. /\ LedgerOf(running, late, done') /\ done'[proc.no] = 1
          /\ \A m \in Lines : done[m] = 1 => done'[m] = 1
          /\ \A m \in Lines : m # proc.no =>
                UnpostedIn(m, running, late, done') = UnpostedIn(m, running, late, done)
        BY <1>1, <1>2, <2>1, CarryOut
    <2>3. call'.is = "answered"
        BY <1>1, <1>6 DEF ServeTriage, Call
    <2>4. Posted'
        BY <1>0, <2>0, <2>2, <2>3, PostedFrame DEF Ledger, Unposted
    <2> QED
        BY <1>0, <1>4, <1>5, <2>4, ServerFrame DEF Posts
<1>7. CASE ServeVerify
    <2>1. running' = running \cup {proc.no} /\ done' = done /\ late' = late
        BY <1>7 DEF ServeVerify, StartsVerify
    <2>0. Cardinality(running) < Threads /\ proc.no \in Lines
        BY <1>0, <1>1 DEF IsFree
    <2>2. /\ LedgerOf(running', late, done)
          /\ \A m \in Lines : m # proc.no =>
                UnpostedIn(m, running', late, done) = UnpostedIn(m, running, late, done)
        BY <1>2, <2>0, <2>1, StartVerify
    <2>3. call'.is = "served"
        BY <1>1, <1>7 DEF ServeVerify, Call
    <2>4. Posted'
        BY <1>0, <2>1, <2>2, <2>3, PostedFrame DEF Ledger, Unposted
    <2> QED
        BY <1>0, <1>4, <1>5, <2>4, ServerFrame DEF Posts
<1> QED
    BY <1>6, <1>7

LEMMA ServeLateStep == ASSUME McpInv, ServeLate PROVE McpInv'
<1>0. UNCHANGED <<place, pipe, asked, proc, call, out, began>>
    BY DEF ServeLate
<1>1. PICK l \in late :
        /\ IF l.kind = "triage" THEN Triages(l.no) ELSE StartsVerify(l.no)
        /\ late' = late \ {l}
    BY DEF ServeLate
<1>2. LedgerOf(running, late, done)
    BY DEF McpInv, Posted, Ledger
<1>3. /\ LedgerOf(running, late', done) /\ l.no \in Lines /\ UnpostedIn(l.no, running, late', done)
      /\ ~Unposted(l.no)
      /\ \A m \in Lines : m # l.no =>
            UnpostedIn(m, running, late', done) = UnpostedIn(m, running, late, done)
    BY <1>1, <1>2, NotLateAnyMore DEF Unposted
<1>4. /\ Ledger' /\ \A m \in Lines : done[m] = 1 => done'[m] = 1
      /\ \A m \in Lines : m # l.no => Unposted(m)' = Unposted(m)
      /\ running \subseteq running'
    <2>1. CASE l.kind = "triage"
        <3>0. CarriedOut(l.no) /\ running' = running
            BY <1>1, <2>1 DEF Triages
        <3>1. /\ done' \in [Lines -> {0, 1}] /\ done'[l.no] = 1
              /\ \A m \in Lines : m # l.no => done'[m] = done[m]
            BY <1>3, <3>0, CountedOnce
        <3>2. /\ LedgerOf(running, late', done')
              /\ \A m \in Lines : done[m] = 1 => done'[m] = 1
              /\ \A m \in Lines : m # l.no =>
                    UnpostedIn(m, running, late', done') = UnpostedIn(m, running, late', done)
            BY <1>3, <3>1, CarryOut
        <3> QED
            BY <1>3, <3>0, <3>2 DEF Ledger, Unposted
    <2>2. CASE l.kind # "triage"
        <3>1. running' = running \cup {l.no} /\ done' = done /\ IsFree
            BY <1>1, <2>2 DEF StartsVerify
        <3>2. /\ LedgerOf(running', late', done)
              /\ \A m \in Lines : m # l.no =>
                    UnpostedIn(m, running', late', done) = UnpostedIn(m, running, late', done)
            BY <1>3, <3>1, StartVerify DEF IsFree
        <3> QED
            BY <1>3, <3>1, <3>2 DEF Ledger, Unposted
    <2> QED
        BY <2>1, <2>2
<1>5. \A m \in Lines : Unposted(m) => Unposted(m)'
    BY <1>3, <1>4
<1>6. /\ call.is = "served" => proc.no \in running' /\ proc.line.kind \in Posts
      /\ call.is = "answered" /\ proc.line.kind \in Posts => done'[proc.no] = 1
    <2>1. call.is # "none" => proc.no \in Lines
        BY DEF McpInv, Calling, McpTyped
    <2> QED
        BY <1>4, <2>1 DEF McpInv, Posted
<1>7. Posted'
    BY <1>0, <1>4, <1>5, <1>6, PostedFrame
<1>8. call' \in Call /\ Calling'
    BY <1>0 DEF McpInv, McpTyped, Calling
<1>9. Walking /\ call.is = "answered" => Bringing'
    BY <1>0, BringingStays DEF Walking
<1> QED
    BY <1>0, <1>7, <1>8, <1>9, ServerFrame

LEMMA OtherVerifiesStep == ASSUME McpInv, OtherVerifies PROVE McpInv'
<1>0. IsFree /\ UNCHANGED <<place, pipe, asked, proc, call, late, done, out, began>>
    BY DEF OtherVerifies
<1>1. PICK o \in Others \ running : running' = running \cup {o}
    BY DEF OtherVerifies
<1>2. /\ Ledger' /\ \A m \in Lines : m # o => Unposted(m)' = Unposted(m)
    BY <1>0, <1>1, StartVerify DEF McpInv, Posted, Ledger, Unposted, IsFree
<1>3. \A m \in Lines : Unposted(m) => Unposted(m)'
    BY <1>2, McpAssumption DEF Lines
<1>4. Posted'
    BY <1>0, <1>1, <1>2, <1>3, PostedFrame DEF McpInv, Posted
<1>5. call' \in Call /\ Calling'
    BY <1>0 DEF McpInv, McpTyped, Calling
<1>6. Walking /\ call.is = "answered" => Bringing'
    BY <1>0, BringingStays DEF Walking
<1> QED
    BY <1>0, <1>4, <1>5, <1>6, ServerFrame

LEMMA VerifyEndsStep == ASSUME McpInv, VerifyEnds PROVE McpInv'
<1>0. UNCHANGED <<place, pipe, asked, proc, late, out, began>>
    BY DEF VerifyEnds
<1>1. PICK v \in running :
        /\ running' = running \ {v}
        /\ IF v \in Others THEN UNCHANGED <<done, call>>
           ELSE /\ CarriedOut(v)
                /\ call' = IF call.is = "served" /\ v = proc.no
                           THEN [call EXCEPT !.is = "answered"] ELSE call
    BY DEF VerifyEnds
<1>2. LedgerOf(running, late, done) /\ call \in Call
    BY DEF McpInv, Posted, Ledger, McpTyped
<1>3. /\ LedgerOf(running', late, done)
      /\ v \in Lines => UnpostedIn(v, running', late, done)
      /\ \A m \in Lines : m # v =>
            UnpostedIn(m, running', late, done) = UnpostedIn(m, running, late, done)
      /\ ~Unposted(v)
    BY <1>1, <1>2, EndVerify DEF Unposted, UnpostedIn
<1>4. v \in Others \/ v \in Lines
    BY <1>2 DEF LedgerOf
<1>5. call.is # "none" => proc.no \in Lines /\ proc.pc = "calling"
    BY DEF McpInv, Calling, McpTyped
<1>6. CASE v \in Others
    <2>1. UNCHANGED <<done, call>> /\ v \notin Lines
        BY <1>1, <1>6, McpAssumption DEF Lines
    <2>2. \A m \in Lines : Unposted(m) => Unposted(m)'
        BY <1>0, <1>3, <2>1 DEF Unposted
    <2>3. call.is = "served" => proc.no \in running' /\ proc.line.kind \in Posts
        BY <1>1, <1>5, <2>1 DEF McpInv, Posted
    <2>4. Ledger' /\ (call.is = "answered" /\ proc.line.kind \in Posts => done'[proc.no] = 1)
        BY <1>0, <1>3, <2>1 DEF Ledger, McpInv, Posted
    <2>5. Posted'
        BY <1>0, <2>1, <2>2, <2>3, <2>4, PostedFrame
    <2>6. call' \in Call /\ Calling'
        BY <1>0, <2>1 DEF McpInv, McpTyped, Calling
    <2>7. Walking /\ call.is = "answered" => Bringing'
        BY <1>0, <2>1, BringingStays DEF Walking
    <2> QED
        BY <1>0, <2>1, <2>5, <2>6, <2>7, ServerFrame
<1>7. CASE v \notin Others
    <2>1. /\ v \in Lines /\ CarriedOut(v)
          /\ call' = IF call.is = "served" /\ v = proc.no
                     THEN [call EXCEPT !.is = "answered"] ELSE call
        BY <1>1, <1>4, <1>7
    <2>2. /\ Ledger' /\ done'[v] = 1 /\ \A m \in Lines : done[m] = 1 => done'[m] = 1
          /\ \A m \in Lines : m # v => Unposted(m)' = Unposted(m)
        <3>0. /\ done' \in [Lines -> {0, 1}] /\ done'[v] = 1
              /\ \A m \in Lines : m # v => done'[m] = done[m]
            BY <1>3, <2>1, CountedOnce
        <3>1. /\ LedgerOf(running', late, done') /\ done'[v] = 1
              /\ \A m \in Lines : done[m] = 1 => done'[m] = 1
              /\ \A m \in Lines : m # v =>
                    UnpostedIn(m, running', late, done') = UnpostedIn(m, running', late, done)
            BY <1>3, <2>1, <3>0, CarryOut
        <3> QED
            BY <1>0, <1>3, <3>1 DEF Ledger, Unposted
    <2>3. \A m \in Lines : Unposted(m) => Unposted(m)'
        BY <1>3, <2>2
    <2>4. CASE call.is = "served" /\ v = proc.no
        <3>1. call' \in Call /\ call'.is = "answered" /\ call'.to = call.to
            BY <1>2, <2>1, <2>4 DEF Call
        <3>2. Calling'
            BY <1>0, <2>4, <3>1 DEF McpInv, Calling
        <3>3. Posted'
            BY <1>0, <2>2, <2>3, <2>4, <3>1, PostedFrame
        <3>4. proc.line.kind # "resources"
            BY <2>4 DEF McpInv, Posted, Posts
        <3> QED
            BY <1>0, <3>1, <3>2, <3>3, <3>4, ServerFrame
    <2>5. CASE ~(call.is = "served" /\ v = proc.no)
        <3>1. call' = call
            BY <2>1, <2>5
        <3>2. call.is = "served" => proc.no \in running' /\ proc.line.kind \in Posts
            BY <1>1, <2>5 DEF McpInv, Posted
        <3>3. call.is = "answered" /\ proc.line.kind \in Posts => done'[proc.no] = 1
            BY <1>5, <2>2 DEF McpInv, Posted
        <3>4. Posted'
            BY <1>0, <2>2, <2>3, <3>1, <3>2, <3>3, PostedFrame
        <3>5. call' \in Call /\ Calling'
            BY <1>0, <3>1 DEF McpInv, McpTyped, Calling
        <3>6. Walking /\ call.is = "answered" => Bringing'
            BY <1>0, <3>1, BringingStays DEF Walking
        <3> QED
            BY <1>0, <3>1, <3>4, <3>5, <3>6, ServerFrame
    <2> QED
        BY <2>4, <2>5
<1> QED
    BY <1>6, <1>7

\* A line that is over: its last call is, and what was posted for it is known.
LEMMA LineEnds ==
    ASSUME McpInv, NEW is \in Ends, proc.pc = "calling", EndsWith(is), call' = NoCall, Ledger',
           UNCHANGED <<place, pipe, asked, running, done, out, began>>,
           \A m \in Lines : m # proc.no => Unposted(m)' = Unposted(m),
           is = "success" /\ proc.line.kind \in Posts => done[proc.no] = 1,
           is = "success" => proc.line.kind # "resources" \/ ListingIsWhole'
    PROVE  McpInv'
<1>1. proc \in Proc /\ proc.no \in Lines /\ proc.line.kind \notin Kinds
    BY DEF McpInv, McpTyped, Calling
<1>2. proc' = [proc EXCEPT !.pc = "writing", !.todo = <<>>, !.is = is]
    BY DEF EndsWith
<1>3. /\ proc' \in Proc /\ proc'.pc = "writing" /\ proc'.is = is /\ proc'.no = proc.no
      /\ proc'.line = proc.line
    <2>1. <<>> \in Seq(Spots)
        BY EmptySeq
    <2> QED
        BY <1>1, <1>2, <2>1 DEF Proc
<1>4. McpTyped'
    BY <1>1, <1>3, NoCallIsCall, TreeStays DEF McpInv, McpTyped
<1>5. Calling'
    BY <1>1, <1>3, NoCallIsCall DEF Calling, Kinds
<1>6. Written'
    BY <1>3, WrittenStays DEF McpInv
<1>7. Posted'
    <2>1. \A n \in Lines : n > proc.no => Unposted(n)'
        BY <1>1 DEF McpInv, Posted, Lines
    <2> QED
        BY <1>3, <2>1, NoCallIsCall DEF McpInv, Posted
<1>8. Watched'
    <2>1. CASE proc'.line.kind # "resources" \/ proc'.is # "success"
        BY <1>3, <2>1, NothingWatched
    <2>2. CASE proc'.line.kind = "resources" /\ proc'.is = "success"
        BY <1>3, <2>2 DEF Watched
    <2> QED
        BY <2>1, <2>2
<1> QED
    BY <1>4, <1>5, <1>6, <1>7, <1>8 DEF McpInv

\* A call that fails ends its line; what was posted may still be read.
LEMMA CallFailsStep == ASSUME McpInv, CallFails PROVE McpInv'
<1>0. /\ call.is # "none" /\ call' = NoCall /\ MayComeLate /\ EndsWith(Failed(proc.line.kind))
      /\ UNCHANGED <<place, pipe, asked, running, done, out, began>>
    BY DEF CallFails, GivenUp
<1>1. proc.pc = "calling" /\ proc.no \in Lines /\ LedgerOf(running, late, done)
    BY <1>0 DEF McpInv, Calling, McpTyped, Posted, Ledger
<1>2. Failed(proc.line.kind) \in Ends /\ Failed(proc.line.kind) # "success"
    BY DEF Failed, Ends
<1>3. Ledger' /\ \A m \in Lines : m # proc.no => Unposted(m)' = Unposted(m)
    <2>1. CASE UNCHANGED late
        BY <1>0, <1>1, <2>1 DEF Ledger, Unposted
    <2>2. CASE /\ call.is = "sent" /\ proc.line.kind \in Posts
               /\ late' = late \cup {[no |-> proc.no, kind |-> proc.line.kind]}
        <3> DEFINE l == [no |-> proc.no, kind |-> proc.line.kind]
        <3>1. UnpostedIn(proc.no, running, late, done)
            BY <1>1, <2>2 DEF McpInv, Posted, Unposted
        <3>2. l \in [no : Lines, kind : Posts] /\ l.no = proc.no
            BY <1>1, <2>2
        <3>3. late' = late \cup {l}
            BY <2>2
        <3> HIDE DEF l
        <3>4. LedgerOf(running, late', done)
            BY <1>1, <3>1, <3>2, <3>3 DEF LedgerOf, UnpostedIn
        <3>5. \A m \in Lines : m # proc.no => UnpostedIn(m, running, late', done) = UnpostedIn(m, running, late, done)
            BY <3>2, <3>3 DEF UnpostedIn
        <3> QED
            BY <1>0, <3>4, <3>5 DEF Ledger, Unposted
    <2> QED
        BY <1>0, <2>1, <2>2 DEF MayComeLate
<1> QED
    BY <1>0, <1>1, <1>2, <1>3, LineEnds

\* Everything was walked: what is steady was found, once.
LEMMA ListedStep == ASSUME McpInv, Listed PROVE McpInv'
<1>0. /\ proc.pc = "calling" /\ proc.todo = <<>> /\ call = NoCall /\ EndsWith("success")
      /\ UNCHANGED <<place, pipe, asked, call, running, late, done, out, began>>
    BY DEF Listed
<1>1. proc.line.kind \notin Posts
    BY <1>0 DEF McpInv, Calling
<1>2. Ledger' /\ \A m \in Lines : m # proc.no => Unposted(m)' = Unposted(m)
    BY <1>0, LedgerStays DEF McpInv, Posted
<1>3. /\ proc'.found = proc.found /\ proc'.line = proc.line
    <2>1. proc \in Proc /\ proc' = [proc EXCEPT !.pc = "writing", !.todo = <<>>, !.is = "success"]
        BY <1>0 DEF EndsWith, McpInv, McpTyped
    <2> QED
        BY <2>1 DEF Proc
<1>4. ASSUME proc.line.kind = "resources" PROVE ListingIsWhole'
    <2>1. Walking
        BY <1>0, <1>4 DEF McpInv, Watched
    <2>2. ASSUME NEW a \in began.steady
          PROVE  Cardinality({i \in DOMAIN proc.found : proc.found[i] = a}) = 1
        <3>1. ~Once(<<>>, Root) /\ ~Once(<<>>, HomeIn(a)) /\ ~Once(<<>>, place[a])
            BY DEF Once
        <3>2. Once(proc.found, a)
            BY <1>0, <2>1, <3>1 DEF Walking, Stage
        <3>3. PICK i \in DOMAIN proc.found :
                proc.found[i] = a /\ \A j \in DOMAIN proc.found : proc.found[j] = a => j = i
            BY <3>2 DEF Once
        <3>4. {j \in DOMAIN proc.found : proc.found[j] = a} = {i}
            BY <3>3
        <3> QED
            BY <3>4, FS_Singleton
    <2>3. \A i \in DOMAIN proc.found : proc.found[i] \in began.ever
        BY <2>1 DEF Walking
    <2> QED
        BY <1>0, <1>3, <2>2, <2>3 DEF ListingIsWhole
<1> QED
    BY <1>0, <1>1, <1>2, <1>4, LineEnds DEF Ends

-----------------------------------------------------------------------------
\* What a box holds takes its place in the walk.
LEMMA WalkOn ==
    ASSUME NEW S, NEW todo \in Seq(S), todo # <<>>, NEW B \in SUBSET S, IsFiniteSet(B), NEW y
    PROVE  LET inside == SetToSeq(B)
               x == Head(todo)
           IN  /\ inside \in Seq(S) /\ Tail(todo) \in Seq(S) /\ inside \o Tail(todo) \in Seq(S)
               /\ Never(todo, y) /\ y \notin B => x # y /\ Never(inside \o Tail(todo), y) /\ Never(Tail(todo), y)
               /\ Never(todo, y) /\ y \in B => x # y /\ Once(inside \o Tail(todo), y)
               /\ Once(todo, y) /\ y \notin B /\ x = y =>
                    Never(inside \o Tail(todo), y) /\ Never(Tail(todo), y)
               /\ Once(todo, y) /\ y \notin B /\ x # y =>
                    Once(inside \o Tail(todo), y) /\ Once(Tail(todo), y)
<1> DEFINE inside == SetToSeq(B)
           rest == Tail(todo)
           x == Head(todo)
<1>1. /\ inside \in Seq(B)
      /\ y \in B => Once(inside, y)
      /\ y \notin B => Never(inside, y)
    BY SetAsSequence
<1>2. inside \in Seq(S)
    BY <1>1, SeqMonotonic
<1>3. /\ rest \in Seq(S)
      /\ Never(todo, y) => Never(rest, y) /\ x # y
      /\ Once(todo, y) /\ x = y => Never(rest, y)
      /\ Once(todo, y) /\ x # y => Once(rest, y)
    BY TailOnce, HeadTailProperties
<1> HIDE DEF inside, rest, x
<1>4. /\ inside \o rest \in Seq(S)
      /\ Never(inside, y) /\ Never(rest, y) => Never(inside \o rest, y)
      /\ Once(inside, y) /\ Never(rest, y) => Once(inside \o rest, y)
      /\ Never(inside, y) /\ Once(rest, y) => Once(inside \o rest, y)
    BY <1>2, <1>3, ConcatOnce, ConcatProperties
<1>5. /\ inside \in Seq(S) /\ rest \in Seq(S) /\ inside \o rest \in Seq(S)
      /\ Never(todo, y) /\ y \notin B => x # y /\ Never(inside \o rest, y) /\ Never(rest, y)
      /\ Never(todo, y) /\ y \in B => x # y /\ Once(inside \o rest, y)
      /\ Once(todo, y) /\ y \notin B /\ x = y => Never(inside \o rest, y) /\ Never(rest, y)
      /\ Once(todo, y) /\ y \notin B /\ x # y => Once(inside \o rest, y) /\ Once(rest, y)
    BY <1>1, <1>2, <1>3, <1>4
<1> QED
    BY <1>5 DEF inside, rest, x

\* The stage of an artifact after the box x was walked, which held B.
LEMMA StageMoves ==
    ASSUME NEW todo \in Seq(Boxes \cup {Root}), todo # <<>>,
           NEW found \in Seq(Things), NEW B \in SUBSET Things,
           Head(todo) \in Collections => B \subseteq Artifacts,
           Head(todo) \notin Collections => B \subseteq Boxes,
           NEW a \in Artifacts, NEW c \in Collections, NEW pr \in ProjectsOnly,
           Head(todo) = Root <=> pr \in B,
           Head(todo) = pr <=> c \in B,
           Head(todo) = c <=> a \in B,
           Stage(todo, found, a, c, pr)
    PROVE  LET inside == SetToSeq(B)
               rest == Tail(todo)
           IN  /\ Head(todo) \in Collections => Stage(rest, found \o inside, a, c, pr)
               /\ Head(todo) \notin Collections => Stage(inside \o rest, found, a, c, pr)
<1> DEFINE inside == SetToSeq(B)
           rest == Tail(todo)
           x == Head(todo)
<1>0. /\ IsFiniteSet(B) /\ Root \notin B /\ c # Root /\ pr # Root /\ c # pr /\ a # c /\ a # pr
      /\ c \notin Artifacts /\ pr \notin Artifacts /\ a \notin Boxes
    <2>1. IsFiniteSet(Things)
        BY McpAssumption DEF Things
    <2> QED
        BY <2>1, FS_Subset, TreeFacts
<1>1. CASE x \in Collections
    <2>1. B \in SUBSET Things /\ inside \in Seq(Things)
          /\ (a \in B => Once(inside, a)) /\ (a \notin B => Never(inside, a))
        <3>1. inside \in Seq(B)
            BY <1>0, SetAsSequence
        <3> QED
            BY <1>0, <3>1, SetAsSequence, SeqMonotonic
    <2>2. ASSUME NEW y PROVE /\ Never(todo, y) => Never(rest, y) /\ x # y
                             /\ Once(todo, y) /\ x = y => Never(rest, y)
                             /\ Once(todo, y) /\ x # y => Once(rest, y)
        BY TailOnce
    <2> HIDE DEF inside, rest
    <2>3. /\ Never(found, a) /\ Never(inside, a) => Never(found \o inside, a)
          /\ Once(found, a) /\ Never(inside, a) => Once(found \o inside, a)
          /\ Never(found, a) /\ Once(inside, a) => Once(found \o inside, a)
        BY <2>1, ConcatOnce
    <2>4. x # Root /\ x # pr
        BY <1>1, TreeFacts
    <2> HIDE DEF x
    <2>5. Stage(rest, found \o inside, a, c, pr)
        BY <1>0, <2>1, <2>2, <2>3, <2>4 DEF Stage, x
    <2> QED
        BY <1>1, <2>5 DEF inside, rest, x
<1>2. CASE x \notin Collections
    <2>1. B \in SUBSET (Boxes \cup {Root}) /\ a \notin B /\ x # c
        BY <1>0, <1>2
    <2>2. ASSUME NEW y
          PROVE  /\ Never(todo, y) /\ y \notin B => x # y /\ Never(inside \o rest, y)
                 /\ Never(todo, y) /\ y \in B => x # y /\ Once(inside \o rest, y)
                 /\ Once(todo, y) /\ y \notin B /\ x = y => Never(inside \o rest, y)
                 /\ Once(todo, y) /\ y \notin B /\ x # y => Once(inside \o rest, y)
        BY <1>0, <2>1, WalkOn
    <2>3. /\ x = Root <=> pr \in B
          /\ x = pr <=> c \in B
        OBVIOUS
    <2> HIDE DEF inside, rest, x
    <2>4. Stage(inside \o rest, found, a, c, pr)
        BY <1>0, <2>1, <2>2, <2>3 DEF Stage
    <2> QED
        BY <1>2, <2>4 DEF inside, rest, x
<1> QED
    BY <1>1, <1>2

LEMMA WalkedStep ==
    ASSUME McpInv, call.is = "answered", call' = NoCall, proc.line.kind = "resources", proc' = Walked,
           UNCHANGED <<place, pipe, asked, running, late, done, out, began>>
    PROVE  McpInv'
<1> DEFINE x == call.to
           B == call.brings
           inside == SetToSeq(B)
           rest == Tail(proc.todo)
           todo == (IF x \in Collections THEN <<>> ELSE inside) \o rest
           found == IF x \in Collections THEN proc.found \o inside ELSE proc.found
<1>0. /\ proc \in Proc /\ call \in Call /\ WellPlaced /\ proc.found \in Seq(Things)
      /\ proc.pc = "calling" /\ proc.todo # <<>> /\ x = Head(proc.todo)
      /\ began.ever \in SUBSET Artifacts /\ began.steady \in SUBSET Artifacts
    BY DEF McpInv, McpTyped, Calling, Proc
<1>1. Walking /\ Bringing /\ began.steady \subseteq Present /\ Present \subseteq began.ever
    BY <1>0 DEF McpInv, Watched, Walking
<1>2. /\ proc.todo \in Seq(Boxes \cup {Root})
      /\ \A i \in DOMAIN proc.found : proc.found[i] \in began.ever
      /\ \A a \in began.steady : Stage(proc.todo, proc.found, a, place[a], HomeIn(a))
    BY <1>1 DEF Walking
<1>3. /\ x \in Collections => B \subseteq began.ever
      /\ x \notin Collections => B \subseteq Boxes
      /\ \A a \in began.steady : Brought(a)
    BY <1>1 DEF Bringing
<1>4. B \in SUBSET Things /\ IsFiniteSet(B)
    <2>1. B \in SUBSET Things /\ IsFiniteSet(Things)
        BY <1>0, McpAssumption DEF Call, Things
    <2> QED
        BY <2>1, FS_Subset
<1>5. /\ inside \in Seq(B) /\ rest \in Seq(Boxes \cup {Root})
    BY <1>0, <1>2, <1>4, SetAsSequence, HeadTailProperties
<1>6. proc' = [proc EXCEPT !.todo = todo, !.found = found]
    BY <1>0 DEF Walked
<1>9. /\ todo \in Seq(Boxes \cup {Root}) /\ found \in Seq(Things)
      /\ \A i \in DOMAIN found : found[i] \in began.ever
    <2>1. CASE x \in Collections
        <3>1. todo = rest /\ found = proc.found \o inside
            BY <1>5, <2>1, ConcatEmptySeq
        <3>2. inside \in Seq(began.ever) /\ inside \in Seq(Things)
            BY <1>3, <1>4, <1>5, <2>1, SeqMonotonic
        <3>3. proc.found \in Seq(began.ever)
            <4>1. /\ Len(proc.found) \in Nat /\ DOMAIN proc.found = 1 .. Len(proc.found)
                  /\ proc.found \in [1 .. Len(proc.found) -> Things]
                BY <1>0, LenProperties
            <4>2. proc.found \in [1 .. Len(proc.found) -> began.ever]
                BY <1>2, <4>1
            <4> QED
                BY <4>1, <4>2, SeqDef
        <3>4. found \in Seq(began.ever) /\ found \in Seq(Things)
            BY <1>0, <3>1, <3>2, <3>3, ConcatProperties
        <3> HIDE DEF found
        <3>5. \A i \in DOMAIN found : found[i] \in began.ever
            BY <3>4, ElementOfSeq, LenProperties
        <3> QED
            BY <1>5, <3>1, <3>4, <3>5
    <2>2. CASE x \notin Collections
        <3>1. todo = inside \o rest /\ found = proc.found
            BY <2>2
        <3>2. inside \in Seq(Boxes \cup {Root})
            BY <1>3, <1>5, <2>2, SeqMonotonic
        <3> QED
            BY <1>0, <1>2, <1>5, <3>1, <3>2, ConcatProperties
    <2> QED
        BY <2>1, <2>2
<1>10. ASSUME NEW a \in began.steady PROVE Stage(todo, found, a, place[a], HomeIn(a))
    <2>1. a \in Artifacts /\ There(a)
        BY <1>1 DEF Present
    <2>2. place[a] \in Collections /\ HomeIn(a) \in ProjectsOnly
        BY <1>0, <2>1, PresentIsPlaced
    <2>3. /\ x = Root <=> HomeIn(a) \in B
          /\ x = HomeIn(a) <=> place[a] \in B
          /\ x = place[a] <=> a \in B
        BY <1>3 DEF Brought
    <2>4. /\ x \in Collections => B \subseteq Artifacts
          /\ x \notin Collections => B \subseteq Boxes
        BY <1>0, <1>3
    <2>5. /\ x \in Collections => Stage(rest, proc.found \o inside, a, place[a], HomeIn(a))
          /\ x \notin Collections => Stage(inside \o rest, proc.found, a, place[a], HomeIn(a))
        <3>1. Stage(proc.todo, proc.found, a, place[a], HomeIn(a))
            BY <1>2
        <3> HIDE DEF B
        <3> QED
            BY <1>0, <1>2, <1>4, <2>1, <2>2, <2>3, <2>4, <3>1, StageMoves
    <2>6. <<>> \o rest = rest
        BY <1>5, ConcatEmptySeq
    <2> QED
        BY <2>5, <2>6
<1> HIDE DEF todo, found, x, B, inside, rest
<1>11. /\ proc' \in Proc /\ proc'.todo = todo /\ proc'.found = found
       /\ UNCHANGED <<proc.pc, proc.no, proc.line, proc.is>>
    <2>1. todo \in Seq(Spots)
        BY <1>9, SeqMonotonic DEF Spots, Things
    <2> QED
        BY <1>0, <1>6, <1>9, <2>1 DEF Proc
<1>12. McpTyped'
    BY <1>11, NoCallIsCall, TreeStays DEF McpInv, McpTyped
<1>13. Calling'
    BY <1>0, <1>11, NoCallIsCall DEF McpInv, Calling, Posts
<1>14. Written'
    BY <1>0, <1>11, WrittenStays DEF McpInv
<1>15. Posted'
    BY <1>11, NoCallIsCall, LedgerStays DEF McpInv, Posted, Posts
<1>16. Walking'
    BY <1>9, <1>10, <1>11, NoCallIsCall, TreeStays DEF Walking
<1>17. Watched'
    BY <1>0, <1>1, <1>11, <1>16, TreeStays DEF Watched, ListingIsWhole
<1> QED
    BY <1>12, <1>13, <1>14, <1>15, <1>17 DEF McpInv

\* get_artifact_by_path goes on with the artifact it looked up.
LEMMA LookedUpStep ==
    ASSUME McpInv, call.is = "answered", call' = NoCall, proc.line.kind = "path",
           proc' = [proc EXCEPT !.todo = <<proc.line.about>>],
           UNCHANGED <<place, pipe, asked, running, late, done, out, began>>
    PROVE  McpInv'
<1>0. proc \in Proc /\ proc.pc = "calling" /\ proc.line.about \in Spots
    BY DEF McpInv, McpTyped, Calling, Proc, AnyLine, Spots, Things
<1>1. /\ proc' \in Proc /\ UNCHANGED <<proc.pc, proc.no, proc.line, proc.is, proc.found>>
    <2>1. <<proc.line.about>> \in Seq(Spots)
        BY <1>0
    <2> QED
        BY <1>0, <2>1 DEF Proc
<1>2. McpTyped'
    BY <1>1, NoCallIsCall, TreeStays DEF McpInv, McpTyped
<1>3. Calling' /\ Written'
    BY <1>0, <1>1, NoCallIsCall, WrittenStays DEF McpInv, Calling, Posts
<1>4. Posted'
    BY <1>1, NoCallIsCall, LedgerStays DEF McpInv, Posted, Posts
<1>5. Watched'
    BY <1>0, <1>1, TreeStays DEF McpInv, Watched, ListingIsWhole
<1> QED
    BY <1>2, <1>3, <1>4, <1>5 DEF McpInv

LEMMA ReceiveStep == ASSUME McpInv, Receive PROVE McpInv'
<1>0. /\ call.is = "answered" /\ call' = NoCall
      /\ UNCHANGED <<place, pipe, asked, running, late, done, out, began>>
    BY DEF Receive
<1>1. proc.pc = "calling" /\ proc.no \in Lines
    BY <1>0 DEF McpInv, Calling, McpTyped
<1>2. Ledger' /\ \A m \in Lines : m # proc.no => Unposted(m)' = Unposted(m)
    BY <1>0, LedgerStays DEF McpInv, Posted
<1>3. proc.line.kind \in Posts => done[proc.no] = 1
    BY <1>0 DEF McpInv, Posted
<1>4. CASE proc.line.kind = "resources"
    BY <1>0, <1>4, WalkedStep DEF Receive
<1>5. CASE proc.line.kind = "path"
    <2>1. proc' = Resolved
        BY <1>5 DEF Receive
    <2>2. CASE call.to \notin Artifacts /\ proc.line.about \in call.brings
        BY <1>0, <1>5, <2>1, <2>2, LookedUpStep DEF Resolved
    <2>3. CASE ~(call.to \notin Artifacts /\ proc.line.about \in call.brings)
        <3>1. PICK is \in {"error", "success"} : EndsWith(is)
            BY <2>1, <2>3 DEF Resolved, EndsWith
        <3> QED
            BY <1>0, <1>1, <1>2, <1>3, <1>5, <3>1, LineEnds DEF Ends
    <2> QED
        BY <2>2, <2>3
<1>6. CASE proc.line.kind \notin {"resources", "path"}
    <2>1. EndsWith("success")
        BY <1>6 DEF Receive
    <2> QED
        BY <1>0, <1>1, <1>2, <1>3, <1>6, <2>1, LineEnds DEF Ends
<1> QED
    BY <1>4, <1>5, <1>6

\* The tree changes under a listing: what is steady is where it was, and so is
\* its collection.
LEMMA ChangeStep == ASSUME McpInv, Change PROVE McpInv'
<1>0. /\ proc.pc = "calling"
      /\ began' = [steady |-> {a \in began.steady : There(a)' /\ place'[a] = place[a]},
                   ever |-> began.ever \cup Present', changes |-> began.changes + 1]
      /\ UNCHANGED <<pipe, asked, proc, call, running, late, done, out>>
    BY DEF Change
<1>1. PICK x \in Things, to \in Boxes \cup {Root, Nowhere} :
        /\ to \in IF x \in Artifacts THEN Collections \cup {Nowhere} ELSE {HomeOf[x], Nowhere}
        /\ place' = [place EXCEPT ![x] = to]
    BY DEF Change
<1>2. /\ WellPlaced /\ began \in [steady : SUBSET Artifacts, ever : SUBSET Artifacts, changes : Nat]
    BY DEF McpInv, McpTyped
<1>3. WellPlaced'
    <2>1. place \in [Things -> Spots] /\ to \in Spots
        BY <1>2 DEF WellPlaced, Spots, Things
    <2>2. place' \in [Things -> Spots] /\ \A y \in Things : place'[y] = IF y = x THEN to ELSE place[y]
        BY <1>1, <2>1
    <2>3. \A y \in ProjectsOnly : HomeOf[y] = Root
        BY McpAssumption
    <2> QED
        BY <1>1, <1>2, <2>2, <2>3, TreeFacts DEF WellPlaced
<1>4. /\ began' \in [steady : SUBSET Artifacts, ever : SUBSET Artifacts, changes : Nat]
      /\ began'.steady = {a \in began.steady : There(a)' /\ place'[a] = place[a]}
      /\ began'.ever = began.ever \cup Present'
    <2>1. Present' \subseteq Artifacts
        BY DEF Present
    <2>2. began.changes + 1 \in Nat
        BY <1>2
    <2> QED
        BY <1>0, <1>2, <2>1, <2>2
<1>5. McpTyped'
    BY <1>0, <1>3, <1>4 DEF McpInv, McpTyped
<1>6. Calling' /\ Written'
    BY <1>0 DEF McpInv, Calling, Written
<1>7. Posted'
    BY <1>0, LedgerStays DEF McpInv, Posted
<1>8. began'.steady \subseteq Present' /\ Present' \subseteq began'.ever
    BY <1>2, <1>4 DEF Present
<1>9. ASSUME Walking PROVE Walking'
    <2>1. ASSUME NEW a \in began'.steady
          PROVE  a \in began.steady /\ place'[a] = place[a] /\ HomeIn(a)' = HomeIn(a)
        BY <1>4 DEF HomeIn
    <2>2. \A i \in DOMAIN proc.found : proc.found[i] \in began'.ever
        BY <1>4, <1>9 DEF Walking
    <2>3. call.is = "answered" => Bringing'
        BY <1>0, <1>4, <1>9, <2>1 DEF Walking, Bringing, Brought
    <2>4. \A a \in began'.steady : Stage(proc.todo, proc.found, a, place'[a], HomeIn(a)')
        BY <1>9, <2>1 DEF Walking
    <2> QED
        BY <1>0, <1>9, <2>2, <2>3, <2>4 DEF Walking
<1>10. Watched'
    BY <1>0, <1>8, <1>9 DEF McpInv, Watched, ListingIsWhole
<1> QED
    BY <1>5, <1>6, <1>7, <1>10 DEF McpInv

-----------------------------------------------------------------------------
LEMMA McpStarts == McpInit => McpInv
<1> SUFFICES ASSUME McpInit PROVE McpInv
    OBVIOUS
<1>1. WellPlaced
    <2>1. \A x \in Things : HomeOf[x] \in Boxes \cup {Root}
        BY McpAssumption DEF Things
    <2>2. HomeOf \in [Things -> Spots]
        BY McpAssumption DEF Things, Spots
    <2> QED
        BY <2>2, McpAssumption DEF McpInit, WellPlaced, Collections
<1>2. <<>> \in Seq(Line) /\ Len(<<>>) = 0 /\ <<>> \in Seq(Answer) /\ \A i \in DOMAIN <<>> : FALSE
    BY EmptySeq
<1>3. McpTyped
    BY <1>1, <1>2, QuietIsProc, NoCallIsCall, McpAssumption DEF McpInit, McpTyped, Unwatched
<1>4. Calling /\ Written
    BY <1>2, QuietIsProc, NoCallIsCall DEF McpInit, Calling, Written
<1>5. Ledger /\ \A n \in Lines : Unposted(n)
    <2>1. IsFiniteSet({}) /\ Cardinality({}) = 0 /\ 0 <= Threads
        BY FS_EmptySet, McpAssumption
    <2> QED
        BY <2>1 DEF McpInit, Ledger, LedgerOf, Unposted, UnpostedIn
<1>6. Posted
    BY <1>2, <1>5, QuietIsProc, NoCallIsCall DEF McpInit, Posted
<1>7. Watched
    BY QuietIsProc DEF McpInit, Watched, ListingIsWhole
<1> QED
    BY <1>3, <1>4, <1>6, <1>7 DEF McpInv

LEMMA McpPersists == ASSUME McpInv, [McpNext]_mcpVars PROVE McpInv'
<1>1. CASE McpNext
    BY <1>1, AskStep, TakeStep, WriteStep, SendCallStep, ReceiveStep, ListedStep, CallFailsStep,
       ChangeStep, ServeStep, ServePostStep, ServeLateStep, OtherVerifiesStep, VerifyEndsStep
    DEF McpNext, McpStep
<1>2. CASE UNCHANGED mcpVars
    <2>1. UNCHANGED <<place, pipe, asked, proc, call, running, late, done, out, began>>
        BY <1>2 DEF mcpVars
    <2>2. McpTyped' /\ Calling' /\ Written'
        BY <2>1, TreeStays DEF McpInv, McpTyped, Calling, Written
    <2>3. Posted'
        BY <2>1, LedgerStays DEF McpInv, Posted
    <2>4. Watched'
        BY <2>1, TreeStays DEF McpInv, Watched, Walking, Bringing, Brought, ListingIsWhole
    <2> QED
        BY <2>2, <2>3, <2>4 DEF McpInv
<1> QED
    BY <1>1, <1>2

\* AnswersInOrder: requests are answered in their order, none of them twice,
\* and notifications not at all (run_with_io and dispatch in transport.rs).
THEOREM RequestsAreAnsweredInOrder == McpSpec => []AnswersInOrder
<1>1. McpInv => AnswersInOrder
    BY DEF McpInv, Written, AnswersInOrder
<1> QED
    BY McpStarts, McpPersists, <1>1, PTL DEF McpSpec

\* ListingIsWhole: a listing that succeeds holds what stayed where it was, once
\* (list_resources in resources.rs).
THEOREM ListingsAreWhole == McpSpec => []ListingIsWhole
<1>1. McpInv => ListingIsWhole
    BY DEF McpInv, Watched
<1> QED
    BY McpStarts, McpPersists, <1>1, PTL DEF McpSpec

LEMMA InvPostsOnce == McpInv => PostedOnce
<1> SUFFICES ASSUME McpInv PROVE PostedOnce
    OBVIOUS
<1>1. \A n \in Lines : done[n] <= 1
    BY DEF McpInv, Posted, Ledger, LedgerOf
<1> QED
    BY <1>1 DEF McpInv, Posted, Ledger, LedgerOf, PostedOnce

\* PostedOnce: a post that succeeded was carried out, and none is carried out
\* twice (post_json in client.rs, handle_call_tool in transport.rs).
THEOREM PostsAreCarriedOutOnce == McpSpec => []PostedOnce
BY McpStarts, McpPersists, InvPostsOnce, PTL DEF McpSpec

-----------------------------------------------------------------------------
(***************************************************************************)
(* The desk.  Whoever is studied, the others rest.                         *)
(***************************************************************************)

LEMMA DeskStepsAreTheirs ==
    ASSUME [DeskNext]_<<studied, vars, pageVars, mcpVars>>
    PROVE  [PageNext]_pageVars /\ [McpNext]_mcpVars
<1>1. CASE DeskNext
    BY <1>1 DEF DeskNext
<1>2. CASE UNCHANGED <<studied, vars, pageVars, mcpVars>>
    BY <1>2
<1> QED
    BY <1>1, <1>2

\* WhatIsSaidIsSo: the array of the settings parses whatever the page or a
\* script asks of it, and the agent is told what was done and shown what there
\* is, whichever of them works (mutate_llm_array in src/http/handlers.rs,
\* crates/provreq-mcp).
THEOREM WhatIsSaidHolds == DeskSpec => []WhatIsSaidIsSo
<1>1. DeskInit => PageInv /\ McpInv
    BY PageStarts, McpStarts DEF DeskInit
<1>2. ASSUME PageInv, McpInv, [DeskNext]_<<studied, vars, pageVars, mcpVars>>
      PROVE  PageInv' /\ McpInv'
    BY <1>2, DeskStepsAreTheirs, PagePersists, McpPersists
<1>3. PageInv /\ McpInv => WhatIsSaidIsSo
    <2>1. PageInv => FileParses
        BY DEF PageInv
    <2>2. McpInv => AnswersInOrder /\ ListingIsWhole
        BY DEF McpInv, Written, Watched, AnswersInOrder
    <2> QED
        BY <2>1, <2>2, InvPostsOnce DEF WhatIsSaidIsSo
<1> QED
    BY <1>1, <1>2, <1>3, PTL DEF DeskSpec
=============================================================================
