---------------------------- MODULE VerdictProofs ---------------------------
(***************************************************************************)
(* Proofs about how a verdict comes to be and what becomes of it: the      *)
(* verify loop, for any items, axes, formalizations, engines and tests and *)
(* any number of moves of the world; and the engines' runs, for any        *)
(* requirements, any number of threads and command lines, and any number   *)
(* of runs, deaths and edits, where no two runs overlap (NothingOverlaps). *)
(* Before them GatedHistory, for every history and either setting of the   *)
(* gate.  After them the drafting of what an engine needs, for any sources *)
(* of a subject and whatever a model answers, where nobody writes a source *)
(* meanwhile and no draft goes on top of another (DraftedOnce).            *)
(***************************************************************************)
EXTENDS MCVerdicts, SequenceTheorems, FiniteSetTheorems, FunctionTheorems,
        NaturalsInduction, WellFoundedInduction, TLAPS

-----------------------------------------------------------------------------
(***************************************************************************)
(* Verdicts that are merged, reported and landed.                          *)
(***************************************************************************)

\* A rung that combine_outcome keeps from the holding engines exists, because
\* every piece of evidence that holds has earned one.
LEMMA StrongestExists ==
    ASSUME NEW E \in SUBSET Evidence, Some(E, "holds"), ~Some(E, "fails")
    PROVE  /\ CombinedBasis(E) \in Basis
           /\ IsStrongest(CombinedBasis(E), E)
PROOF
  <1>1. PICK e \in E : e.status = "holds"
    BY DEF Some
  <1>2. \A x \in E : x.basis \in Basis \cup {"none"}
    BY DEF Evidence, Mechanical, Asserted, Says, Basis
  <1>3. e.basis \in Basis
    BY <1>1 DEF Evidence, Mechanical, Asserted, Says, Basis
  <1>4. \E b \in Basis : IsStrongest(b, E)
    <2>1. CASE \E x \in E : x.basis = "proven"
      BY <1>2, <2>1 DEF IsStrongest, BasisRank, Basis
    <2>2. CASE /\ ~\E x \in E : x.basis = "proven"
               /\ \E x \in E : x.basis = "bounded"
      BY <1>2, <2>2 DEF IsStrongest, BasisRank, Basis
    <2>3. CASE ~\E x \in E : x.basis \in {"proven", "bounded"}
      <3>1. e.basis = "not-falsified"
        BY <1>3, <2>3 DEF Basis
      <3> QED
        BY <1>2, <2>3, <3>1 DEF IsStrongest, BasisRank, Basis
    <2> QED
      BY <2>1, <2>2, <2>3
  <1>5. CombinedStatus(E) = "holds"
    BY DEF CombinedStatus
  <1>6. CombinedBasis(E) = CHOOSE b \in Basis : IsStrongest(b, E)
    BY <1>5 DEF CombinedBasis
  <1> QED
    BY <1>4, <1>6

\* Whatever is reported, aggregate answers with a well-formed verdict.
LEMMA AggregateIsVerdict ==
    ASSUME NEW E \in SUBSET Evidence
    PROVE  Aggregate(E) \in Verdict
PROOF
  <1>1. CombinedStatus(E) \in Status
    BY DEF CombinedStatus, Status
  <1>2. CombinedBasis(E) \in Basis \cup {"none"}
    <2>1. CASE CombinedStatus(E) = "holds"
      <3>1. Some(E, "holds") /\ ~Some(E, "fails")
        BY <2>1 DEF CombinedStatus
      <3> QED
        BY <3>1, StrongestExists
    <2>2. CASE CombinedStatus(E) # "holds"
      BY <2>2 DEF CombinedBasis
    <2> QED
      BY <2>1, <2>2
  <1>3. CombinedCorrespondence(E) \in Correspondence
    BY DEF CombinedCorrespondence, Correspondence
  <1> QED
    BY <1>1, <1>2, <1>3 DEF Aggregate, Says, Verdict

\* What verify answers is a verdict, whether or not anything ran.
LEMMA AnswerIsVerdict ==
    ASSUME HistoryOK
    PROVE  Answer \in Verdict
PROOF
  <1>1. NothingRan \in Verdict
    BY DEF NothingRan, Says, Verdict, Status, Basis, Correspondence
  <1> QED
    BY <1>1, AggregateIsVerdict DEF Answer, HistoryOK

\* The rank of a rung is a natural number, so tiers compare as numbers do.
LEMMA RankIsNat ==
    ASSUME NEW b \in Basis \cup {"none"}
    PROVE  BasisRank(b) \in Nat
BY DEF BasisRank, Basis

\* The gate's judgement (regression in src/gate.rs) composes: what is no
\* regression of a change that was no regression is none of the original.
LEMMA RegressionComposes ==
    ASSUME NEW a \in Verdict, NEW b \in Verdict, NEW c \in Verdict,
           NEW strict \in BOOLEAN,
           ~Regressed(a, b, strict), ~Regressed(b, c, strict)
    PROVE  ~Regressed(a, c, strict)
PROOF
  <1> SUFFICES ASSUME a.status = "holds"
               PROVE  c.status = "holds" /\ (strict => ~TierDropped(a, c))
    BY DEF Regressed
  <1>1. b.status = "holds" /\ (strict => ~TierDropped(a, b))
    BY DEF Regressed
  <1>2. c.status = "holds" /\ (strict => ~TierDropped(b, c))
    BY <1>1 DEF Regressed
  <1>3. /\ BasisRank(a.basis) \in Nat
        /\ BasisRank(b.basis) \in Nat
        /\ BasisRank(c.basis) \in Nat
    BY RankIsNat DEF Verdict
  <1>4. ASSUME strict PROVE ~TierDropped(a, c)
    <2>1. BasisRank(c.basis) >= BasisRank(a.basis)
      BY <1>1, <1>2, <1>3, <1>4 DEF TierDropped
    <2>2. ~(a.correspondence = "mechanical" /\ c.correspondence = "asserted")
      <3>1. b.correspondence \in {"mechanical", "asserted"}
        BY DEF Verdict, Correspondence
      <3> QED
        BY <1>1, <1>2, <1>4, <3>1 DEF TierDropped
    <2> QED
      BY <1>3, <2>1, <2>2 DEF TierDropped
  <1> QED
    BY <1>2, <1>4

\* The invariant of a gated history: the baseline is no regression of the
\* verdict the requirement entered the history with (run_gate in src/main.rs).
Gated == HistoryOK /\ ~Regressed(first, recorded, Strict)

\* The histories start gated: the first verdict is its own baseline.
LEMMA InitGated == HistoryInit => Gated
PROOF
  <1> SUFFICES ASSUME HistoryInit PROVE Gated
    OBVIOUS
  <1>1. first \in Verdict /\ recorded = first /\ ensemble = {}
    BY AggregateIsVerdict DEF HistoryInit
  <1>2. BasisRank(first.basis) \in Nat
    BY <1>1, RankIsNat DEF Verdict
  <1>3. ~Regressed(first, first, Strict)
    BY <1>1, <1>2 DEF Regressed, TierDropped
  <1> QED
    BY <1>1, <1>3 DEF Gated, HistoryOK

\* Reporting, landing and blocking keep a history gated.
LEMMA NextGated == Gated /\ [HistoryNext]_historyVars => Gated'
PROOF
  <1> SUFFICES ASSUME Gated, [HistoryNext]_historyVars PROVE Gated'
    OBVIOUS
  <1> USE DEF Gated
  <1>1. CASE \E e \in Evidence : Report(e)
    BY <1>1 DEF Report, HistoryOK
  <1>2. CASE Land
    <2>1. Answer \in Verdict
      BY AnswerIsVerdict
    <2>2. ~Regressed(first, Answer, Strict)
      BY <1>2, <2>1, RegressionComposes, StrictAssumption DEF Land, HistoryOK
    <2> QED
      BY <1>2, <2>1, <2>2 DEF Land, HistoryOK
  <1>3. CASE Block
    BY <1>3 DEF Block, HistoryOK
  <1>4. CASE UNCHANGED historyVars
    BY <1>4 DEF historyVars, HistoryOK
  <1> QED
    BY <1>1, <1>2, <1>3, <1>4 DEF HistoryNext

\* A proof is not eroded in steps: see NoErosion (regression, src/gate.rs).
THEOREM ProofsAreNotEroded == HistorySpec => []NoErosion
PROOF
  <1>1. Gated => NoErosion
    BY DEF Gated, Regressed, NoErosion
  <1> QED
    BY InitGated, NextGated, <1>1, PTL DEF HistorySpec

\* What the guard of provreq-proofs answers for a verdict that holds.
LEMMA HoldsIsHonest ==
    ASSUME NEW E \in SUBSET Evidence, Aggregate(E).status = "holds"
    PROVE  /\ ~Some(E, "fails")
           /\ \E e \in E : e.status = "holds" /\ e.basis = Aggregate(E).basis
           /\ Aggregate(E).correspondence = "mechanical" =>
                  \E e \in E \cap Mechanical : e.status = "holds"
           /\ Aggregate(E).correspondence = "asserted" =>
                  Aggregate(E).basis = "not-falsified"
PROOF
  <1> DEFINE basis == CombinedBasis(E)
             corr == CombinedCorrespondence(E)
  <1>1. CombinedStatus(E) = "holds"
    BY DEF Aggregate, Says
  <1>2. Some(E, "holds") /\ ~Some(E, "fails")
    BY <1>1 DEF CombinedStatus
  <1>3. basis \in Basis /\ IsStrongest(basis, E)
    BY <1>2, StrongestExists
  <1>4. \A e \in E : e.basis \in Basis => e.status = "holds"
    BY DEF Evidence, Mechanical, Asserted, Says, Basis
  <1>5. \E e \in E : e.status = "holds" /\ e.basis = basis
    BY <1>3, <1>4 DEF IsStrongest
  <1>6. Decisive(E) = {e \in E : e.status = "holds"}
    BY <1>1, <1>2 DEF Decisive
  <1>7. Decisive(E) # {}
    BY <1>5, <1>6
  <1>8. \A e \in Evidence : e.correspondence # "asserted" => e \in Mechanical
    BY DEF Evidence, Mechanical, Asserted, Says
  <1>9. ASSUME corr = "mechanical"
        PROVE  \E e \in E \cap Mechanical : e.status = "holds"
    <2>1. PICK e \in Decisive(E) : e.correspondence # "asserted"
      BY <1>7, <1>9 DEF CombinedCorrespondence
    <2> QED
      BY <1>6, <1>8, <2>1
  <1>10. ASSUME corr = "asserted" PROVE basis = "not-falsified"
    <2>1. \A e \in Decisive(E) : e.correspondence = "asserted"
      BY <1>10 DEF CombinedCorrespondence
    <2>2. \A e \in Evidence : e.correspondence = "asserted" =>
              e.basis \in {"not-falsified", "none"}
      BY DEF Evidence, Mechanical, Asserted, Says
    <2>3. PICK e \in E : e.status = "holds" /\ e.basis = basis
      BY <1>5
    <2>4. e.basis \in {"not-falsified", "none"}
      BY <1>6, <2>1, <2>2, <2>3
    <2> QED
      BY <1>3, <2>3, <2>4 DEF Basis
  <1>11. Aggregate(E).basis = basis /\ Aggregate(E).correspondence = corr
    BY DEF Aggregate, Says
  <1> QED
    BY <1>2, <1>5, <1>9, <1>10, <1>11

\* No verdict reads stronger than what was reported, whatever the engines and
\* the tests report and however many they are: see NoMasquerade
\* (combine_outcome and decisive_correspondence_of).
THEOREM NothingMasquerades == HistorySpec => []NoMasquerade
PROOF
  <1>1. Gated => NoMasquerade
    <2> SUFFICES ASSUME Gated, Answer.status = "holds"
                 PROVE  NoMasquerade
      BY DEF NoMasquerade
    <2>1. ensemble # {}
      BY DEF Answer, NothingRan, Says
    <2>2. Answer = Aggregate(ensemble)
      BY <2>1 DEF Answer
    <2>3. ensemble \in SUBSET Evidence
      BY DEF Gated, HistoryOK
    <2> QED
      BY <2>2, <2>3, HoldsIsHonest DEF NoMasquerade
  <1> QED
    BY InitGated, NextGated, <1>1, PTL DEF HistorySpec

\* More evidence corroborates or refutes, it never takes strength away.
LEMMA MoreNeverDemotes ==
    ASSUME NEW E \in SUBSET Evidence, NEW F \in SUBSET Evidence, E \subseteq F
    PROVE  /\ Aggregate(E).status = "holds" /\ Aggregate(F).status = "holds"
                  => ~TierDropped(Aggregate(E), Aggregate(F))
           /\ Aggregate(E).status = "fails" => Aggregate(F).status # "holds"
PROOF
  <1>1. Aggregate(E).status = "fails" => Aggregate(F).status # "holds"
    BY DEF Aggregate, Says, CombinedStatus, Some
  <1>2. ASSUME Aggregate(E).status = "holds", Aggregate(F).status = "holds"
        PROVE  ~TierDropped(Aggregate(E), Aggregate(F))
    <2>1. /\ CombinedStatus(E) = "holds" /\ CombinedStatus(F) = "holds"
          /\ Some(E, "holds") /\ ~Some(E, "fails")
          /\ Some(F, "holds") /\ ~Some(F, "fails")
      BY <1>2 DEF Aggregate, Says, CombinedStatus
    <2>2. /\ IsStrongest(CombinedBasis(E), E) /\ CombinedBasis(E) \in Basis
          /\ IsStrongest(CombinedBasis(F), F) /\ CombinedBasis(F) \in Basis
      BY <2>1, StrongestExists
    <2>3. BasisRank(CombinedBasis(E)) <= BasisRank(CombinedBasis(F))
      BY <2>2 DEF IsStrongest
    <2>4. /\ Decisive(E) = {e \in E : e.status = "holds"}
          /\ Decisive(F) = {e \in F : e.status = "holds"}
      BY <2>1 DEF Decisive
    <2>5. ASSUME CombinedCorrespondence(F) = "asserted"
          PROVE  CombinedCorrespondence(E) = "asserted"
      <3>1. \A e \in Decisive(F) : e.correspondence = "asserted"
        BY <2>5 DEF CombinedCorrespondence
      <3>2. Decisive(E) # {}
        BY <2>1, <2>4 DEF Some
      <3> QED
        BY <2>4, <3>1, <3>2 DEF CombinedCorrespondence
    <2>6. /\ BasisRank(CombinedBasis(E)) \in Nat
          /\ BasisRank(CombinedBasis(F)) \in Nat
      BY <2>2, RankIsNat
    <2> QED
      BY <2>3, <2>5, <2>6 DEF TierDropped, Aggregate, Says
  <1> QED
    BY <1>1, <1>2

\* Whatever is reported in whatever order: see CorroborationNeverDemotes.
THEOREM EvidenceOnlyAdds == HistorySpec => CorroborationNeverDemotes
PROOF
  <1>1. Gated /\ [HistoryNext]_historyVars =>
            [ensemble # {} /\ ensemble \subseteq ensemble' =>
                /\ Answer.status = "holds" /\ Answer'.status = "holds" =>
                       ~TierDropped(Answer, Answer')
                /\ Answer.status = "fails" => Answer'.status # "holds"]_historyVars
    <2> SUFFICES ASSUME Gated, Gated', ensemble # {},
                        ensemble \subseteq ensemble'
                 PROVE  /\ Answer.status = "holds" /\ Answer'.status = "holds"
                               => ~TierDropped(Answer, Answer')
                        /\ Answer.status = "fails" =>
                               Answer'.status # "holds"
      BY NextGated
    <2>1. Answer = Aggregate(ensemble) /\ Answer' = Aggregate(ensemble')
      BY DEF Answer
    <2>2. ensemble \in SUBSET Evidence /\ ensemble' \in SUBSET Evidence
      BY DEF Gated, HistoryOK
    <2> QED
      BY <2>1, <2>2, MoreNeverDemotes
  <1> QED
    BY InitGated, NextGated, <1>1, PTL DEF HistorySpec, CorroborationNeverDemotes

-----------------------------------------------------------------------------
(***************************************************************************)
(* Verify, the cache, the store and the gate, while the world moves.       *)
(***************************************************************************)

Labels == Verdict \cup {NoVerdict}

\* The local variables of a run at each of its steps.
Loaded ==
    [pc : {"loaded"}, item : Items, draft : Draft \cup {NoDraft},
     rev : Versions, gate : BOOLEAN, cache : BOOLEAN, base : Labels]
Grounded ==
    [pc : {"grounded"}, item : Items, draft : Draft,
     tests : SUBSET Asserted, spec : Versions \cup {Absent},
     gate : BOOLEAN, cache : BOOLEAN, base : Labels]
HasAnswer ==
    [pc : {"answered"}, item : Items, rev : Versions,
     formal : Formals \cup {NoFormal}, spec : Versions \cup {Absent},
     said : Verdict \cup {Unverified}, gate : BOOLEAN, base : Labels]
Held ==
    [pc : {"held"}, item : Items, said : Verdict, gate : {FALSE},
     prior : Labels, mem : Store]
Saved ==
    [pc : {"saved"}, item : Items, said : Verdict, gate : {FALSE},
     prior : Labels]

RunStates == {Idle} \cup Loaded \cup Grounded \cup HasAnswer \cup Held \cup Saved

LoopOK ==
    /\ prose \in [Items -> Versions]
    /\ draft \in [Items -> Draft \cup {NoDraft}]
    /\ world \in World
    /\ head \in [Code -> Versions \cup {Absent}]
    /\ store \in Store
    /\ committed \in {NoVerdict} \cup [Items -> Labels]
    /\ log \in [Items -> Labels]
    /\ missed \subseteq Items
    /\ run \in [Workers -> RunStates]
    /\ \A w \in Workers : At(w, "answered") /\ ~run[w].gate => run[w].said \in Verdict

\* The worlds a stored verdict could be served in: those with the versions it
\* carries, but for a specification that no formalization was resolved in.
ItsWorlds(v) ==
    {w \in World : \A a \in Fingerprinted :
        (a = "spec" => v.formal # NoFormal) => v.at[a] = w[a]}

\* It is the answer in all of them.
Earned(v) ==
    \A w \in ItsWorlds(v) : v.said = Outcome(v.formal, TestSays(w), w)

StoreEarned(s) == \A i \in Items : s[i] # NoVerdict => Earned(s[i])

\* What a run holds is still so of the world, and a gate judges an item its
\* baseline passed.
RunHonest(w) ==
    /\ At(w, "grounded") => /\ run[w].tests = TestSays(world)
                            /\ run[w].spec = SpecNow
    /\ At(w, "answered") =>
        /\ \/ run[w].said = AnswerNow(run[w].formal)
           \/ run[w].gate /\ run[w].said = Unverified
        /\ run[w].formal # NoFormal => run[w].spec = SpecNow
    /\ At(w, "held") => StoreEarned(run[w].mem)
    /\ run[w].pc \in {"loaded", "grounded", "answered"} /\ run[w].gate
        => Passing(run[w].base)

Honest == LoopOK /\ StoreEarned(store) /\ \A w \in Workers : RunHonest(w)

\* Between reading the store and the log entry nobody else writes either.
Recording(w) ==
    /\ At(w, "held") =>
        /\ run[w].prior = LabelsOf(store[run[w].item])
        /\ \A i \in Items \ {run[w].item} : run[w].mem[i] = store[i]
        /\ run[w].mem[run[w].item] # NoVerdict
        /\ LabelsOf(run[w].mem[run[w].item]) = run[w].said
    /\ At(w, "saved") =>
        /\ LabelsOf(store[run[w].item]) = run[w].said
        /\ log[run[w].item] = run[w].prior \/ run[w].item \in missed

InStep == LoopOK /\ LogFollowsStore /\ \A w \in Workers : Recording(w)

-----------------------------------------------------------------------------
\* What verify answers is a verdict, whatever ran.
LEMMA OutcomeIsVerdict ==
    ASSUME NEW w \in World, NEW f \in Formals \cup {NoFormal},
           NEW tests \in SUBSET Asserted
    PROVE  Outcome(f, tests, w) \in Verdict
<1>1. NothingRan \in Verdict
  BY DEF NothingRan, Says, Verdict, Status, Basis, Correspondence
<1>2. (IF f = NoFormal THEN {} ELSE EngineSays(f, w)) \cup tests \in SUBSET Evidence
  BY AnswerAssumption DEF Evidence
<1>. QED BY <1>1, <1>2, AggregateIsVerdict DEF Outcome

\* The labels of a record of verdicts.
LEMMA LabelsAreLabels ==
    ASSUME NEW s \in Store, NEW i \in Items
    PROVE  /\ LabelsOf(s[i]) \in Labels
           /\ s[i] # NoVerdict => s[i] \in Stored /\ LabelsOf(s[i]) = s[i].said
  BY DEF Store, Stored, LabelsOf, Labels

\* The baseline of a gate is a record of labels.
LEMMA BaselineIsLabel ==
    ASSUME LoopOK, NEW i \in Items
    PROVE  Baseline(i) \in Labels
  BY LabelsAreLabels DEF LoopOK, Baseline

\* What a run stamps on its verdict is a version of each axis it has.
LEMMA FingerprintsTyped ==
    ASSUME LoopOK, NEW spec \in Versions \cup {Absent}
    PROVE  /\ Fingerprints(spec) \in [Axes -> Versions \cup {Absent}]
           /\ SpecNow \in Versions \cup {Absent}
  BY DEF LoopOK, World, Fingerprints, SpecNow

LEMMA InitTyped == Init => LoopOK
<1> SUFFICES ASSUME Init PROVE LoopOK
  OBVIOUS
<1>1. head \in [Code -> Versions \cup {Absent}]
  BY DEF Init, World, Code
<1>2. \A w \in Workers : run[w] = Idle /\ run[w] \in RunStates
  BY DEF Init, RunStates
<1>3. run \in [Workers -> RunStates]
  BY <1>2 DEF Init
<1>4. \A w \in Workers : ~At(w, "answered")
  BY <1>2 DEF Idle, At
<1>. QED BY <1>1, <1>3, <1>4 DEF Init, LoopOK, Store, Labels

\* The step a run is at tells what it holds.
LEMMA RunHolds ==
    ASSUME NEW r \in RunStates
    PROVE  /\ r.pc = "loaded" => r \in Loaded
           /\ r.pc = "grounded" => r \in Grounded
           /\ r.pc = "answered" => r \in HasAnswer
           /\ r.pc = "held" => r \in Held
           /\ r.pc = "saved" => r \in Saved
           /\ r # Idle => r \in Loaded \cup Grounded \cup HasAnswer \cup Held \cup Saved
<1>1. Idle.pc = "idle"
  BY DEF Idle
<1>2. /\ \A x \in Loaded : x.pc = "loaded"
      /\ \A x \in Grounded : x.pc = "grounded"
      /\ \A x \in HasAnswer : x.pc = "answered"
      /\ \A x \in Held : x.pc = "held"
      /\ \A x \in Saved : x.pc = "saved"
  BY DEF Loaded, Grounded, HasAnswer, Held, Saved
<1>. QED BY <1>1, <1>2 DEF RunStates

\* A run whose step leaves it in a state of the kind leaves the runs so.
LEMMA RunTyped ==
    ASSUME LoopOK, NEW w \in Workers, NEW r \in RunStates,
           run' = [run EXCEPT ![w] = r],
           r.pc = "answered" /\ ~r.gate => r.said \in Verdict
    PROVE  /\ run' \in [Workers -> RunStates]
           /\ \A x \in Workers :
                At(x, "answered")' /\ ~run'[x].gate => run'[x].said \in Verdict
  BY DEF LoopOK, At

LEMMA IdleTyped == Idle \in RunStates /\ Idle.pc = "idle"
  BY DEF Idle, RunStates

\* What a run puts on record is a stored verdict.
LEMMA StampTyped ==
    ASSUME LoopOK, NEW w \in Workers, Stamp(w)
    PROVE  [said |-> run[w].said, rev |-> run[w].rev, formal |-> run[w].formal,
            at |-> Fingerprints(run[w].spec), source |-> head] \in Stored
<1>1. run[w] \in HasAnswer
  BY RunHolds DEF LoopOK, Stamp, At
<1>2. /\ run[w].formal \in Formals \cup {NoFormal} /\ run[w].rev \in Versions
      /\ run[w].spec \in Versions \cup {Absent} /\ run[w].said \in Verdict
  BY <1>1 DEF Stamp, HasAnswer, LoopOK
<1>. QED BY <1>2, FingerprintsTyped DEF LoopOK, Stored

LEMMA NextTyped == LoopOK /\ [Next]_vars => LoopOK'
<1> SUFFICES ASSUME LoopOK, [Next]_vars PROVE LoopOK'
  OBVIOUS
<1>1. ASSUME NEW w \in Workers, Step(w) PROVE LoopOK'
  <2>0. run[w] \in RunStates
    BY DEF LoopOK
  <2>1. ASSUME NEW i \in Items, NEW gate \in BOOLEAN, NEW cache \in BOOLEAN,
               Begin(w, i, gate, cache)
        PROVE  LoopOK'
    <3> DEFINE r == [pc |-> "loaded", item |-> i, draft |-> draft[i],
                     rev |-> prose[i], gate |-> gate, cache |-> cache,
                     base |-> IF gate THEN Baseline(i) ELSE NoVerdict]
    <3>1. r \in RunStates
      BY BaselineIsLabel DEF LoopOK, RunStates, Loaded, Labels
    <3>2. run' = [run EXCEPT ![w] = r] /\ UNCHANGED <<outside, records>>
      BY <2>1 DEF Begin
    <3> HIDE DEF r
    <3>3. r.pc # "answered"
      BY DEF r
    <3>. QED BY <3>1, <3>2, <3>3, RunTyped DEF LoopOK, outside, records
  <2>2. CASE NothingToRun(w)
    <3>0. run[w] \in Loaded
      BY <2>0, <2>2, RunHolds DEF NothingToRun, At
    <3>1. CASE run[w].gate
      <4> DEFINE r == [pc |-> "answered", item |-> run[w].item, rev |-> run[w].rev,
                       formal |-> NoFormal, spec |-> Absent, said |-> Unverified,
                       gate |-> run[w].gate, base |-> run[w].base]
      <4>1. r \in RunStates /\ r.gate
        BY <3>0, <3>1 DEF Loaded, HasAnswer, RunStates
      <4>2. run' = [run EXCEPT ![w] = r] /\ UNCHANGED <<outside, records>>
        BY <2>2, <3>1 DEF NothingToRun, Answered
      <4> HIDE DEF r
      <4>. QED BY <4>1, <4>2, RunTyped DEF LoopOK, outside, records
    <3>2. CASE ~run[w].gate
      <4>1. End(w) /\ UNCHANGED <<outside, records>>
        BY <2>2, <3>2 DEF NothingToRun
      <4>. QED BY <4>1, RunTyped, IdleTyped DEF End, LoopOK, outside, records
    <3>. QED BY <3>1, <3>2
  <2>3. CASE AssertedOnly(w)
    <3>0. run[w] \in Loaded
      BY <2>0, <2>3, RunHolds DEF AssertedOnly, At
    <3> DEFINE said == Outcome(NoFormal, TestSays(world), world)
               r == [pc |-> "answered", item |-> run[w].item, rev |-> run[w].rev,
                     formal |-> NoFormal, spec |-> Absent, said |-> said,
                     gate |-> run[w].gate, base |-> run[w].base]
    <3>1. said \in Verdict
      BY OutcomeIsVerdict, AnswerAssumption DEF LoopOK
    <3> HIDE DEF said
    <3>2. r \in RunStates /\ r.said \in Verdict
      BY <3>0, <3>1 DEF Loaded, HasAnswer, RunStates
    <3>3. run' = [run EXCEPT ![w] = r] /\ UNCHANGED <<outside, records>>
      BY <2>3 DEF AssertedOnly, Answered, said
    <3> HIDE DEF r
    <3>. QED BY <3>2, <3>3, RunTyped DEF LoopOK, outside, records
  <2>4. CASE Ground(w)
    <3>0. run[w] \in Loaded
      BY <2>0, <2>4, RunHolds DEF Ground, At
    <3> DEFINE r == [pc |-> "grounded", item |-> run[w].item,
                     draft |-> run[w].draft, tests |-> TestSays(world),
                     spec |-> SpecNow, gate |-> run[w].gate,
                     cache |-> run[w].cache, base |-> run[w].base]
    <3>1. run[w].draft \in Draft
      BY <2>4, <3>0 DEF Ground, Loaded, AdmittedFormal
    <3>2. TestSays(world) \in SUBSET Asserted /\ SpecNow \in Versions \cup {Absent}
      BY AnswerAssumption DEF LoopOK, SpecNow, World
    <3>3. r \in RunStates /\ r.pc # "answered"
      BY <3>0, <3>1, <3>2 DEF Loaded, Grounded, RunStates
    <3>4. run' = [run EXCEPT ![w] = r] /\ UNCHANGED <<outside, records>>
      BY <2>4 DEF Ground
    <3> HIDE DEF r
    <3>. QED BY <3>3, <3>4, RunTyped DEF LoopOK, outside, records
  <2>5. CASE ServeCached(w)
    <3>0. run[w] \in Grounded
      BY <2>0, <2>5, RunHolds DEF ServeCached, At
    <3>1. CASE run[w].gate
      <4> DEFINE r == [pc |-> "answered", item |-> run[w].item,
                       rev |-> run[w].draft.rev, formal |-> run[w].draft.formal,
                       spec |-> run[w].spec, said |-> store[run[w].item].said,
                       gate |-> run[w].gate, base |-> run[w].base]
      <4>1. /\ run[w].item \in Items /\ run[w].draft \in Draft
            /\ run[w].spec \in Versions \cup {Absent} /\ run[w].base \in Labels
        BY <3>0 DEF Grounded
      <4>2. store[run[w].item].said \in Verdict
        BY <2>5, <4>1 DEF ServeCached, Hit, Reusable, LoopOK, Store, Stored
      <4>3. r \in RunStates /\ r.gate
        BY <3>1, <4>1, <4>2 DEF RunStates, HasAnswer, Draft
      <4>4. run' = [run EXCEPT ![w] = r] /\ UNCHANGED <<outside, records>>
        BY <2>5, <3>1 DEF ServeCached, Answered
      <4> HIDE DEF r
      <4>. QED BY <4>3, <4>4, RunTyped DEF LoopOK, outside, records
    <3>2. CASE ~run[w].gate
      <4>1. End(w) /\ UNCHANGED <<outside, records>>
        BY <2>5, <3>2 DEF ServeCached
      <4>. QED BY <4>1, RunTyped, IdleTyped DEF End, LoopOK, outside, records
    <3>. QED BY <3>1, <3>2
  <2>6. CASE RunEngines(w)
    <3>0. run[w] \in Grounded
      BY <2>0, <2>6, RunHolds DEF RunEngines, At
    <3> DEFINE said == Outcome(run[w].draft.formal, run[w].tests, world)
               r == [pc |-> "answered", item |-> run[w].item,
                     rev |-> run[w].draft.rev, formal |-> run[w].draft.formal,
                     spec |-> run[w].spec, said |-> said,
                     gate |-> run[w].gate, base |-> run[w].base]
    <3>1. /\ run[w].item \in Items /\ run[w].draft \in Draft
          /\ run[w].tests \in SUBSET Asserted /\ run[w].gate \in BOOLEAN
          /\ run[w].spec \in Versions \cup {Absent} /\ run[w].base \in Labels
      BY <3>0 DEF Grounded
    <3>2. said \in Verdict
      BY <3>1, OutcomeIsVerdict DEF LoopOK, Draft
    <3> HIDE DEF said
    <3>3. r \in RunStates /\ r.said \in Verdict
      BY <3>1, <3>2 DEF RunStates, HasAnswer, Draft
    <3>4. run' = [run EXCEPT ![w] = r] /\ UNCHANGED <<outside, records>>
      BY <2>6 DEF RunEngines, Answered, said
    <3> HIDE DEF r
    <3>. QED BY <3>3, <3>4, RunTyped DEF LoopOK, outside, records
  <2>7. CASE Stamp(w)
    <3>0. run[w] \in HasAnswer
      BY <2>0, <2>7, RunHolds DEF Stamp, At
    <3> DEFINE verdict == [said |-> run[w].said, rev |-> run[w].rev,
                           formal |-> run[w].formal,
                           at |-> Fingerprints(run[w].spec), source |-> head]
               prior == LabelsOf(store[run[w].item])
               mem == [store EXCEPT ![run[w].item] = verdict]
               r == [pc |-> "held", item |-> run[w].item, said |-> run[w].said,
                     gate |-> run[w].gate, prior |-> prior, mem |-> mem]
    <3>1. /\ run[w].item \in Items /\ run[w].said \in Verdict
          /\ run[w].gate = FALSE
      BY <2>7, <3>0 DEF Stamp, HasAnswer, LoopOK
    <3>2. verdict \in Stored
      BY <2>7, StampTyped
    <3> HIDE DEF verdict
    <3>3. mem \in Store /\ prior \in Labels
      BY <3>1, <3>2, LabelsAreLabels DEF LoopOK, Store
    <3> HIDE DEF mem, prior
    <3>4. r \in RunStates /\ r.pc # "answered"
      BY <3>1, <3>3 DEF RunStates, Held
    <3>5. run' = [run EXCEPT ![w] = r] /\ UNCHANGED <<outside, records>>
      BY <2>7 DEF Stamp, verdict, mem, prior
    <3> HIDE DEF r
    <3>. QED BY <3>4, <3>5, RunTyped DEF LoopOK, outside, records
  <2>8. CASE Save(w)
    <3>0. run[w] \in Held
      BY <2>0, <2>8, RunHolds DEF Save, At
    <3> DEFINE r == [pc |-> "saved", item |-> run[w].item, said |-> run[w].said,
                     gate |-> run[w].gate, prior |-> run[w].prior]
    <3>1. r \in RunStates /\ r.pc # "answered" /\ run[w].mem \in Store
      BY <3>0 DEF Held, Saved, RunStates
    <3>2. /\ run' = [run EXCEPT ![w] = r] /\ store' = run[w].mem
          /\ UNCHANGED <<outside, log, missed>>
      BY <2>8 DEF Save
    <3> HIDE DEF r
    <3>. QED BY <3>1, <3>2, RunTyped DEF LoopOK, outside
  <2>9. CASE Announce(w)
    <3>0. run[w] \in Saved
      BY <2>0, <2>9, RunHolds DEF Announce, At
    <3>1. run[w].item \in Items /\ run[w].said \in Labels
      BY <3>0 DEF Saved, Labels
    <3>2. log' \in [Items -> Labels] /\ missed' \subseteq Items
      BY <2>9, <3>1 DEF Announce, LoopOK
    <3>. QED BY <2>9, <3>2, RunTyped, IdleTyped DEF Announce, End, LoopOK, outside
  <2>10. CASE Crash(w)
    <3>1. missed' \subseteq Items
      BY <2>0, <2>10, RunHolds DEF Crash, At, Saved, LoopOK
    <3>. QED BY <2>10, <3>1, RunTyped, IdleTyped DEF Crash, End, LoopOK, outside
  <2>11. ASSUME NEW strict \in BOOLEAN, GatePass(w, strict) \/ GateBlock(w, strict)
         PROVE  LoopOK'
    BY <2>11, RunTyped, IdleTyped
    DEF GatePass, GateBlock, End, LoopOK, outside, records
  <2>. QED BY <1>1, <2>1, <2>2, <2>3, <2>4, <2>5, <2>6, <2>7, <2>8, <2>9, <2>10, <2>11 DEF Step
<1>2. ASSUME NEW a \in Axes, Move(a) PROVE LoopOK'
  BY <1>2 DEF Move, LoopOK, records, At
<1>3. CASE Commit
  <2>1. head' \in [Code -> Versions \cup {Absent}]
    BY <1>3 DEF Commit, LoopOK, World, Code
  <2>2. committed' \in [Items -> Labels]
    BY <1>3, LabelsAreLabels DEF Commit, LoopOK
  <2>. QED BY <1>3, <2>1, <2>2 DEF Commit, LoopOK, records, At
<1>4. ASSUME NEW i \in Items, EditProse(i) \/ Redraft(i) PROVE LoopOK'
  BY <1>4 DEF EditProse, Redraft, LoopOK, records, At
<1>5. CASE UNCHANGED vars
  BY <1>5 DEF vars, outside, records, LoopOK, At
<1>. QED BY <1>1, <1>2, <1>3, <1>4, <1>5 DEF Next

-----------------------------------------------------------------------------
\* The cache and the gate.

\* An answer stamped with the world it was given in is earned: every world
\* with those versions answers the same (finish in src/verify.rs).
LEMMA StampIsEarned ==
    ASSUME AnswersAreFingerprinted, LoopOK, NEW v,
           v.formal \in Formals \cup {NoFormal}, NEW spec,
           v.formal # NoFormal => spec = SpecNow,
           v.at = Fingerprints(spec), v.said = AnswerNow(v.formal)
    PROVE  Earned(v)
<1> SUFFICES ASSUME NEW w \in ItsWorlds(v)
             PROVE  v.said = Outcome(v.formal, TestSays(w), w)
  BY DEF Earned
<1>1. world \in World /\ w \in World
  BY DEF LoopOK, ItsWorlds
<1>2. \A a \in Fingerprinted \ {"spec"} : v.at[a] = world[a] /\ v.at[a] = w[a]
  BY DEF Fingerprints, Fingerprinted, ItsWorlds
<1>3. TestSays(w) = TestSays(world)
  BY <1>1, <1>2 DEF AnswersAreFingerprinted
<1>4. CASE v.formal = NoFormal
  BY <1>3, <1>4 DEF Outcome, AnswerNow
<1>5. CASE v.formal # NoFormal
  <2>1. \A a \in Fingerprinted : v.at[a] = world[a] /\ v.at[a] = w[a]
    BY <1>2, <1>5 DEF Fingerprints, Fingerprinted, ItsWorlds, SpecNow
  <2>2. EngineSays(v.formal, w) = EngineSays(v.formal, world)
    BY <1>1, <1>5, <2>1 DEF AnswersAreFingerprinted
  <2>. QED BY <1>3, <2>2 DEF Outcome, AnswerNow
<1>. QED BY <1>4, <1>5

\* What the cache may serve is what a run would answer.
LEMMA HitIsAnswer ==
    ASSUME LoopOK, StoreEarned(store), NEW w \in Workers, RunHonest(w),
           At(w, "grounded"), Hit(w)
    PROVE  store[run[w].item].said = AnswerNow(run[w].draft.formal)
<1> DEFINE v == store[run[w].item]
<1>1. run[w] \in Grounded
  BY RunHolds DEF LoopOK, At
<1>2. /\ v # NoVerdict /\ v.formal = run[w].draft.formal
      /\ \A a \in Axes \ {"label"} : v.at[a] = Fingerprints(SpecNow)[a]
  BY DEF Hit, Reusable, RunHonest
<1>3. \A a \in Fingerprinted : Fingerprints(SpecNow)[a] = world[a]
  BY DEF Fingerprints, Fingerprinted, SpecNow
<1>4. world \in ItsWorlds(v)
  BY <1>2, <1>3 DEF ItsWorlds, LoopOK, Fingerprinted
<1>5. Earned(v)
  BY <1>1, <1>2 DEF StoreEarned, Grounded
<1>. QED BY <1>2, <1>4, <1>5 DEF Earned, AnswerNow

\* The runs that do not step hold what they held.
LEMMA OthersStayHonest ==
    ASSUME LoopOK, \A x \in Workers : RunHonest(x), NEW w \in Workers,
           NEW STATE r, run' = [run EXCEPT ![w] = r], world' = world,
           RunHonest(w)'
    PROVE  \A x \in Workers : RunHonest(x)'
<1> SUFFICES ASSUME NEW x \in Workers, x # w PROVE RunHonest(x)'
  OBVIOUS
<1>1. run'[x] = run[x]
  BY DEF LoopOK
<1>. QED BY <1>1 DEF RunHonest, At, AnswerNow, SpecNow

LEMMA InitHonest == Init => Honest
<1> SUFFICES ASSUME Init PROVE Honest
  OBVIOUS
<1>1. \A w \in Workers : RunHonest(w)
  BY DEF Init, Idle, RunHonest, At
<1>. QED BY <1>1, InitTyped DEF Honest, Init, StoreEarned

LEMMA NextHonest ==
    ASSUME StillUnderRuns, AnswersAreFingerprinted, Honest, [Next]_vars
    PROVE  Honest'
<1>0. LoopOK /\ LoopOK' /\ StoreEarned(store) /\ \A x \in Workers : RunHonest(x)
  BY NextTyped DEF Honest
<1>1. ASSUME NEW w \in Workers, Step(w)
      PROVE  StoreEarned(store)' /\ \A x \in Workers : RunHonest(x)'
  <2>0. run[w] \in RunStates /\ world' = world
    BY <1>0, <1>1 DEF LoopOK, Step, Begin, NothingToRun, AssertedOnly, Ground,
       ServeCached, RunEngines, Stamp, Save, Announce, Crash, GatePass,
       GateBlock, outside
  <2>1. ASSUME End(w) PROVE \A x \in Workers : RunHonest(x)'
    <3>1. run'[w] = Idle
      BY <1>0, <2>1 DEF End, LoopOK
    <3>2. RunHonest(w)'
      BY <3>1 DEF RunHonest, At, Idle
    <3>. QED BY <1>0, <2>0, <2>1, <3>2, OthersStayHonest DEF End
  <2>2. ASSUME UNCHANGED store PROVE StoreEarned(store)'
    BY <1>0, <2>2 DEF StoreEarned
  <2>3. ASSUME NEW i \in Items, NEW gate \in BOOLEAN, NEW cache \in BOOLEAN,
               Begin(w, i, gate, cache)
        PROVE  StoreEarned(store)' /\ \A x \in Workers : RunHonest(x)'
    <3> DEFINE r == [pc |-> "loaded", item |-> i, draft |-> draft[i],
                     rev |-> prose[i], gate |-> gate, cache |-> cache,
                     base |-> IF gate THEN Baseline(i) ELSE NoVerdict]
    <3>1. run' = [run EXCEPT ![w] = r] /\ UNCHANGED store
      BY <2>3 DEF Begin, records
    <3>2. r.pc = "loaded" /\ (r.gate => Passing(r.base))
      BY <2>3 DEF Begin
    <3> HIDE DEF r
    <3>3. run'[w] = r
      BY <1>0, <3>1 DEF LoopOK
    <3>4. RunHonest(w)'
      BY <3>2, <3>3 DEF RunHonest, At
    <3>. QED BY <1>0, <2>0, <2>2, <3>1, <3>4, OthersStayHonest
  <2>4. CASE NothingToRun(w)
    <3>1. CASE run[w].gate
      <4> DEFINE r == [pc |-> "answered", item |-> run[w].item, rev |-> run[w].rev,
                       formal |-> NoFormal, spec |-> Absent, said |-> Unverified,
                       gate |-> run[w].gate, base |-> run[w].base]
      <4>1. run' = [run EXCEPT ![w] = r] /\ UNCHANGED store
        BY <2>4, <3>1 DEF NothingToRun, Answered, records
      <4>2. /\ r.pc = "answered" /\ r.formal = NoFormal
            /\ r.gate /\ r.said = Unverified /\ Passing(r.base)
        BY <1>0, <2>4, <3>1 DEF NothingToRun, RunHonest, At
      <4> HIDE DEF r
      <4>3. run'[w] = r
        BY <1>0, <4>1 DEF LoopOK
      <4>4. RunHonest(w)'
        BY <4>2, <4>3 DEF RunHonest, At
      <4>. QED BY <1>0, <2>0, <2>2, <4>1, <4>4, OthersStayHonest
    <3>2. CASE ~run[w].gate
      BY <2>1, <2>2, <2>4, <3>2 DEF NothingToRun, records
    <3>. QED BY <3>1, <3>2
  <2>5. CASE AssertedOnly(w)
    <3> DEFINE said == Outcome(NoFormal, TestSays(world), world)
               r == [pc |-> "answered", item |-> run[w].item, rev |-> run[w].rev,
                     formal |-> NoFormal, spec |-> Absent, said |-> said,
                     gate |-> run[w].gate, base |-> run[w].base]
    <3>1. run' = [run EXCEPT ![w] = r] /\ UNCHANGED store
      BY <2>5 DEF AssertedOnly, Answered, records
    <3>2. said = AnswerNow(NoFormal)'
      BY <2>0 DEF AnswerNow
    <3>3. /\ r.pc = "answered" /\ r.formal = NoFormal /\ r.said = said
          /\ r.gate => Passing(r.base)
      BY <1>0, <2>5 DEF AssertedOnly, RunHonest, At
    <3> HIDE DEF r, said
    <3>4. run'[w] = r
      BY <1>0, <3>1 DEF LoopOK
    <3>5. RunHonest(w)'
      BY <3>2, <3>3, <3>4 DEF RunHonest, At, AnswerNow
    <3>. QED BY <1>0, <2>0, <2>2, <3>1, <3>5, OthersStayHonest
  <2>6. CASE Ground(w)
    <3> DEFINE r == [pc |-> "grounded", item |-> run[w].item,
                     draft |-> run[w].draft, tests |-> TestSays(world),
                     spec |-> SpecNow, gate |-> run[w].gate,
                     cache |-> run[w].cache, base |-> run[w].base]
    <3>1. run' = [run EXCEPT ![w] = r] /\ UNCHANGED store
      BY <2>6 DEF Ground, records
    <3>2. /\ r.pc = "grounded" /\ r.tests = TestSays(world') /\ r.spec = SpecNow'
          /\ r.gate => Passing(r.base)
      BY <1>0, <2>0, <2>6 DEF Ground, RunHonest, At, SpecNow
    <3> HIDE DEF r
    <3>3. run'[w] = r
      BY <1>0, <3>1 DEF LoopOK
    <3>4. RunHonest(w)'
      BY <3>2, <3>3 DEF RunHonest, At
    <3>. QED BY <1>0, <2>0, <2>2, <3>1, <3>4, OthersStayHonest
  <2>7. CASE ServeCached(w)
    <3>1. CASE run[w].gate
      <4> DEFINE r == [pc |-> "answered", item |-> run[w].item,
                       rev |-> run[w].draft.rev, formal |-> run[w].draft.formal,
                       spec |-> run[w].spec, said |-> store[run[w].item].said,
                       gate |-> run[w].gate, base |-> run[w].base]
      <4>1. run' = [run EXCEPT ![w] = r] /\ UNCHANGED store
        BY <2>7, <3>1 DEF ServeCached, Answered, records
      <4>2. store[run[w].item].said = AnswerNow(run[w].draft.formal)
        BY <1>0, <2>7, HitIsAnswer DEF ServeCached
      <4>3. /\ r.pc = "answered" /\ r.spec = SpecNow'
            /\ r.said = Outcome(r.formal, TestSays(world'), world')
            /\ Passing(r.base)
        BY <1>0, <2>0, <2>7, <3>1, <4>2
        DEF ServeCached, RunHonest, At, SpecNow, AnswerNow
      <4> HIDE DEF r
      <4>4. run'[w] = r
        BY <1>0, <4>1 DEF LoopOK
      <4>5. RunHonest(w)'
        BY <4>3, <4>4 DEF RunHonest, At, AnswerNow
      <4>. QED BY <1>0, <2>0, <2>2, <4>1, <4>5, OthersStayHonest
    <3>2. CASE ~run[w].gate
      BY <2>1, <2>2, <2>7, <3>2 DEF ServeCached, records
    <3>. QED BY <3>1, <3>2
  <2>8. CASE RunEngines(w)
    <3> DEFINE said == Outcome(run[w].draft.formal, run[w].tests, world)
               r == [pc |-> "answered", item |-> run[w].item,
                     rev |-> run[w].draft.rev, formal |-> run[w].draft.formal,
                     spec |-> run[w].spec, said |-> said,
                     gate |-> run[w].gate, base |-> run[w].base]
    <3>1. run' = [run EXCEPT ![w] = r] /\ UNCHANGED store
      BY <2>8 DEF RunEngines, Answered, records
    <3>2. /\ r.pc = "answered" /\ r.spec = SpecNow'
          /\ r.said = Outcome(r.formal, TestSays(world'), world')
          /\ r.gate => Passing(r.base)
      BY <1>0, <2>0, <2>8 DEF RunEngines, RunHonest, At, SpecNow
    <3> HIDE DEF r
    <3>3. run'[w] = r
      BY <1>0, <3>1 DEF LoopOK
    <3>4. RunHonest(w)'
      BY <3>2, <3>3 DEF RunHonest, At, AnswerNow
    <3>. QED BY <1>0, <2>0, <2>2, <3>1, <3>4, OthersStayHonest
  <2>9. CASE Stamp(w)
    <3> DEFINE verdict == [said |-> run[w].said, rev |-> run[w].rev,
                           formal |-> run[w].formal,
                           at |-> Fingerprints(run[w].spec), source |-> head]
               mem == [store EXCEPT ![run[w].item] = verdict]
               r == [pc |-> "held", item |-> run[w].item, said |-> run[w].said,
                     gate |-> run[w].gate, prior |-> LabelsOf(store[run[w].item]),
                     mem |-> mem]
    <3>0. run[w] \in HasAnswer
      BY <2>0, <2>9, RunHolds DEF Stamp, At
    <3>1. run' = [run EXCEPT ![w] = r] /\ UNCHANGED store
      BY <2>9 DEF Stamp, records
    <3>2. /\ verdict.formal \in Formals \cup {NoFormal}
          /\ verdict.formal # NoFormal => run[w].spec = SpecNow
          /\ verdict.at = Fingerprints(run[w].spec)
          /\ verdict.said = AnswerNow(verdict.formal)
      BY <1>0, <2>9, <3>0 DEF Stamp, RunHonest, HasAnswer
    <3> HIDE DEF verdict
    <3>3. Earned(verdict)
      BY <1>0, <3>2, StampIsEarned
    <3>4. StoreEarned(mem)
      BY <1>0, <3>3 DEF StoreEarned, LoopOK, Store
    <3> HIDE DEF mem
    <3>5. r.pc = "held" /\ r.mem = mem
      OBVIOUS
    <3> HIDE DEF r
    <3>6. run'[w] = r
      BY <1>0, <3>1 DEF LoopOK
    <3>7. RunHonest(w)'
      BY <3>4, <3>5, <3>6 DEF RunHonest, At, StoreEarned
    <3>. QED BY <1>0, <2>0, <2>2, <3>1, <3>7, OthersStayHonest
  <2>10. CASE Save(w)
    <3> DEFINE r == [pc |-> "saved", item |-> run[w].item, said |-> run[w].said,
                     gate |-> run[w].gate, prior |-> run[w].prior]
    <3>1. run' = [run EXCEPT ![w] = r] /\ r.pc = "saved"
      BY <2>10 DEF Save
    <3>2. StoreEarned(store)'
      BY <1>0, <2>10 DEF Save, RunHonest, StoreEarned
    <3> HIDE DEF r
    <3>3. run'[w] = r
      BY <1>0, <3>1 DEF LoopOK
    <3>4. RunHonest(w)'
      BY <3>1, <3>3 DEF RunHonest, At
    <3>. QED BY <1>0, <2>0, <3>1, <3>2, <3>4, OthersStayHonest
  <2>11. CASE Announce(w) \/ Crash(w)
    BY <2>1, <2>2, <2>11 DEF Announce, Crash
  <2>12. ASSUME NEW strict \in BOOLEAN, GatePass(w, strict) \/ GateBlock(w, strict)
         PROVE  StoreEarned(store)' /\ \A x \in Workers : RunHonest(x)'
    BY <2>1, <2>2, <2>12 DEF GatePass, GateBlock, records
  <2>. QED BY <1>1, <2>3, <2>4, <2>5, <2>6, <2>7, <2>8, <2>9, <2>10, <2>11, <2>12 DEF Step
<1>2. ASSUME NEW a \in Axes, Move(a)
      PROVE  StoreEarned(store)' /\ \A x \in Workers : RunHonest(x)'
  <2>1. Quiet
    BY <1>2 DEF Move, StillUnderRuns
  <2>2. run' = run /\ store' = store
    BY <1>2 DEF Move, records
  <2>3. \A x \in Workers : RunHonest(x)'
    BY <2>1, <2>2 DEF Quiet, RunHonest, At, Idle
  <2>. QED BY <1>0, <2>2, <2>3 DEF StoreEarned
<1>3. ASSUME UNCHANGED <<world, run, store>>
      PROVE  StoreEarned(store)' /\ \A x \in Workers : RunHonest(x)'
  BY <1>0, <1>3 DEF StoreEarned, RunHonest, At, AnswerNow, SpecNow
<1>4. Commit \/ (\E i \in Items : EditProse(i) \/ Redraft(i)) \/ UNCHANGED vars
      => UNCHANGED <<world, run, store>>
  BY DEF Commit, EditProse, Redraft, vars, outside, records
<1>. QED BY <1>0, <1>1, <1>2, <1>3, <1>4 DEF Next, Honest

\* Every variable of the loop stays of its kind, whoever runs beside whom.
THEOREM LoopTypeCorrect == Spec => []LoopOK
  BY InitTyped, NextTyped, PTL DEF Spec

\* However the world moved between the runs and however many there are, what
\* the store holds is earned and what a run holds is so (src/verify.rs).
LEMMA HonestAlways ==
    ASSUME StillUnderRuns, AnswersAreFingerprinted
    PROVE  Spec => []Honest
<1>1. Honest /\ [Next]_vars => Honest'
  BY NextHonest
<1>. QED BY InitHonest, <1>1, PTL DEF Spec

\* A cached verdict is the one a run would reach: see ServedIsAnswer
\* (reusable in src/verdict_store.rs).
THEOREM CacheServesAnswers ==
    ASSUME StillUnderRuns, AnswersAreFingerprinted
    PROVE  Spec => ServedIsAnswer
<1>1. Honest => \A w \in Workers : ServeCached(w) =>
          store[run[w].item].said = AnswerNow(run[w].draft.formal)
  BY HitIsAnswer DEF Honest, ServeCached
<1>. QED BY HonestAlways, <1>1, PTL DEF Spec, ServedIsAnswer

\* A verdict that shows as fresh says what a run would say: see FreshIsAnswer
\* (view in src/verdict_store.rs).
THEOREM FreshVerdictsAreAnswers ==
    ASSUME StillUnderRuns, AnswersAreFingerprinted
    PROVE  Spec => []FreshIsAnswer
<1>1. ASSUME Honest PROVE FreshIsAnswer
  <2> SUFFICES ASSUME NEW i \in Items, store[i] # NoVerdict,
                      Fresh(store[i], i), Clean(store[i]),
                      NothingAdded(store[i], i),
                      head = [a \in Code |-> world[a]]
               PROVE  store[i].said = AnswerNow(store[i].formal)
    BY DEF FreshIsAnswer
  <2> DEFINE v == store[i]
  <2>1. \A a \in Code \ {"rest"} : v.at[a] = world[a]
    BY DEF Clean, Fresh
  <2>2. \A a \in Axes \cap {"spec", "trace", "ui"} : v.at[a] = world[a]
    BY DEF Fresh, NothingAdded, Optional
  <2>3. \A a \in Axes \cap {"engines", "tool"} : v.at[a] = world[a]
    BY DEF Fresh
  <2>4. \A a \in Fingerprinted : v.at[a] = world[a]
    BY <2>1, <2>2, <2>3, AxesAssumption DEF Fingerprinted, AllAxes, Code
  <2>5. world \in ItsWorlds(v)
    BY <1>1, <2>4 DEF ItsWorlds, Honest, LoopOK
  <2>. QED BY <1>1, <2>5 DEF Honest, StoreEarned, Earned, AnswerNow
<1>. QED BY HonestAlways, <1>1, PTL

\* The gate lets a commit pass only on what the tree proves now: see
\* GatePassIsEarned (run_gate in src/main.rs).
THEOREM GatePassesAreEarned ==
    ASSUME StillUnderRuns, AnswersAreFingerprinted
    PROVE  Spec => GatePassIsEarned
<1>1. Honest => \A w \in Workers, strict \in BOOLEAN : GatePass(w, strict) =>
          LET now == AnswerNow(run[w].formal) IN
          now.status = "holds" /\ (strict => ~TierDropped(run[w].base, now))
  <2> SUFFICES ASSUME Honest, NEW w \in Workers, NEW strict \in BOOLEAN,
                      GatePass(w, strict)
               PROVE  LET now == AnswerNow(run[w].formal) IN
                      /\ now.status = "holds"
                      /\ strict => ~TierDropped(run[w].base, now)
    OBVIOUS
  <2>1. Passing(run[w].base) /\ ~Regressed(run[w].base, run[w].said, strict)
    BY DEF Honest, RunHonest, GatePass, At
  <2>2. /\ run[w].said.status = "holds"
        /\ strict => ~TierDropped(run[w].base, run[w].said)
    BY <2>1 DEF Regressed, Passing
  <2>3. run[w].said # Unverified
    BY <2>2 DEF Unverified
  <2>4. run[w].said = AnswerNow(run[w].formal)
    BY <2>3 DEF Honest, RunHonest, GatePass
  <2>. QED BY <2>2, <2>4
<1>. QED BY HonestAlways, <1>1, PTL DEF Spec, GatePassIsEarned

-----------------------------------------------------------------------------
\* The record and the review log, with one run at a time.

LEMMA InitInStep == Init => InStep
<1> SUFFICES ASSUME Init PROVE InStep
  OBVIOUS
<1>1. \A w \in Workers : Recording(w)
  BY DEF Init, Idle, Recording, At
<1>2. LogFollowsStore
  BY DEF Init, LogFollowsStore, LabelsOf
<1>. QED BY <1>1, <1>2, InitTyped DEF InStep

LEMMA NextInStep ==
    ASSUME OneRunAtATime, InStep, [Next]_vars
    PROVE  InStep'
<1>0. LoopOK /\ LoopOK' /\ LogFollowsStore /\ \A x \in Workers : Recording(x)
  BY NextTyped DEF InStep
<1>1. ASSUME NEW w \in Workers, Step(w)
      PROVE  LogFollowsStore' /\ \A x \in Workers : Recording(x)'
  <2>0. run[w] \in RunStates /\ \A x \in Workers : x = w
    BY <1>0 DEF LoopOK, OneRunAtATime
  <2>1. ASSUME UNCHANGED records, ~At(w, "saved"), ~At(w, "saved")',
               ~At(w, "held")'
        PROVE  LogFollowsStore' /\ \A x \in Workers : Recording(x)'
    <3>1. \A i \in Items : log[i] = LabelsOf(store[i]) \/ i \in missed
      BY <1>0, <2>0, <2>1 DEF LogFollowsStore, At
    <3>. QED BY <2>0, <2>1, <3>1 DEF LogFollowsStore, Recording, At, records, LabelsOf
  <2>2. ASSUME End(w) PROVE ~At(w, "saved")' /\ ~At(w, "held")'
    BY <1>0, <2>2 DEF End, LoopOK, At, Idle
  <2>3. ASSUME NEW i \in Items, NEW gate \in BOOLEAN, NEW cache \in BOOLEAN,
               Begin(w, i, gate, cache)
        PROVE  LogFollowsStore' /\ \A x \in Workers : Recording(x)'
    <3>1. ~At(w, "saved") /\ ~At(w, "saved")' /\ ~At(w, "held")'
      BY <1>0, <2>3 DEF Begin, LoopOK, At, Idle
    <3>. QED BY <2>1, <2>3, <3>1 DEF Begin
  <2>4. CASE NothingToRun(w) \/ AssertedOnly(w) \/ Ground(w) \/ ServeCached(w) \/ RunEngines(w)
    <3>1. run'[w].pc \in {"idle", "answered", "grounded"}
      BY <1>0, <2>4 DEF NothingToRun, AssertedOnly, Ground, ServeCached,
         RunEngines, Answered, End, Idle, LoopOK
    <3>2. UNCHANGED records /\ ~At(w, "saved")
      BY <2>4 DEF NothingToRun, AssertedOnly, Ground, ServeCached, RunEngines, At
    <3>. QED BY <2>1, <3>1, <3>2 DEF At
  <2>5. CASE Stamp(w)
    <3> DEFINE verdict == [said |-> run[w].said, rev |-> run[w].rev,
                           formal |-> run[w].formal,
                           at |-> Fingerprints(run[w].spec), source |-> head]
               mem == [store EXCEPT ![run[w].item] = verdict]
               r == [pc |-> "held", item |-> run[w].item, said |-> run[w].said,
                     gate |-> run[w].gate, prior |-> LabelsOf(store[run[w].item]),
                     mem |-> mem]
    <3>0. run[w] \in HasAnswer
      BY <2>0, <2>5, RunHolds DEF Stamp, At
    <3>1. run' = [run EXCEPT ![w] = r] /\ UNCHANGED records /\ ~At(w, "saved")
      BY <2>5 DEF Stamp, At
    <3>2. run'[w] = r
      BY <1>0, <3>1 DEF LoopOK
    <3>3. r \in Held
      BY <1>0, <3>2, RunHolds DEF LoopOK
    <3>4. /\ verdict = mem[run[w].item] /\ mem \in Store
          /\ \A i \in Items \ {run[w].item} : mem[i] = store[i]
      BY <1>0, <3>0, <3>3 DEF HasAnswer, Held, LoopOK, Store
    <3>5. verdict # NoVerdict /\ verdict.said = run[w].said
      BY <1>0, <2>5, StampTyped, StoredAssumption
    <3> HIDE DEF verdict
    <3>6. /\ r.pc = "held" /\ r.item = run[w].item /\ r.said = run[w].said
          /\ r.prior = LabelsOf(store[run[w].item]) /\ r.mem = mem
      OBVIOUS
    <3> HIDE DEF r, mem
    <3>7. Recording(w)'
      BY <3>1, <3>2, <3>4, <3>5, <3>6 DEF Recording, At, records, LabelsOf
    <3>8. LogFollowsStore'
      BY <1>0, <2>0, <3>1 DEF LogFollowsStore, At, records
    <3>. QED BY <2>0, <3>8, <3>7
  <2>6. CASE Save(w)
    <3> DEFINE r == [pc |-> "saved", item |-> run[w].item, said |-> run[w].said,
                     gate |-> run[w].gate, prior |-> run[w].prior]
    <3>0. run[w] \in Held
      BY <2>0, <2>6, RunHolds DEF Save, At
    <3>1. /\ run' = [run EXCEPT ![w] = r] /\ store' = run[w].mem
          /\ UNCHANGED <<log, missed>> /\ At(w, "held")
      BY <2>6 DEF Save
    <3>2. run'[w] = r
      BY <1>0, <3>1 DEF LoopOK
    <3>3. \A i \in Items : log[i] = LabelsOf(store[i]) \/ i \in missed
      BY <1>0, <2>0, <3>1 DEF LogFollowsStore, At
    <3>4. /\ r.pc = "saved" /\ r.item = run[w].item /\ r.said = run[w].said
          /\ r.prior = run[w].prior /\ run[w].item \in Items
      BY <3>0 DEF Held
    <3>5. /\ run[w].prior = LabelsOf(store[run[w].item])
          /\ LabelsOf(run[w].mem[run[w].item]) = run[w].said
      BY <1>0, <3>1 DEF Recording
    <3> HIDE DEF r
    <3>6. LabelsOf(store'[run'[w].item]) = run'[w].said
      BY <3>1, <3>2, <3>4, <3>5
    <3>7. log'[run'[w].item] = run'[w].prior \/ run'[w].item \in missed'
      BY <3>1, <3>2, <3>3, <3>4, <3>5
    <3>8. Recording(w)'
      BY <3>2, <3>4, <3>6, <3>7 DEF Recording, At, LabelsOf
    <3>9. \A i \in Items \ {run[w].item} : log'[i] = LabelsOf(store'[i]) \/ i \in missed'
      BY <1>0, <3>1, <3>3 DEF Recording
    <3>10. LogFollowsStore'
      BY <3>2, <3>4, <3>9 DEF LogFollowsStore, At, LabelsOf
    <3>. QED BY <2>0, <3>8, <3>10
  <2>7. CASE Announce(w)
    <3>0. run[w] \in Saved
      BY <2>0, <2>7, RunHolds DEF Announce, At
    <3>1. ~At(w, "saved")' /\ ~At(w, "held")'
      BY <2>2, <2>7 DEF Announce
    <3>2. \A i \in Items \ {run[w].item} : log[i] = LabelsOf(store[i]) \/ i \in missed
      BY <1>0, <2>0 DEF LogFollowsStore
    <3>3. /\ LabelsOf(store[run[w].item]) = run[w].said
          /\ log[run[w].item] = run[w].prior \/ run[w].item \in missed
      BY <1>0, <2>7 DEF Recording, Announce
    <3>4. LogFollowsStore'
      BY <1>0, <2>7, <3>0, <3>2, <3>3
      DEF LogFollowsStore, Announce, IsEvent, LoopOK, Saved, LabelsOf
    <3>. QED BY <2>0, <3>1, <3>4 DEF Recording
  <2>8. CASE Crash(w)
    <3>1. ~At(w, "saved")' /\ ~At(w, "held")'
      BY <2>2, <2>8 DEF Crash
    <3>2. LogFollowsStore'
      <4>1. CASE At(w, "saved")
        <5>1. \A i \in Items \ {run[w].item} : log[i] = LabelsOf(store[i]) \/ i \in missed
          BY <1>0, <2>0 DEF LogFollowsStore
        <5>2. /\ LabelsOf(store[run[w].item]) = run[w].said
              /\ log[run[w].item] = run[w].prior \/ run[w].item \in missed
          BY <1>0, <4>1 DEF Recording
        <5>. QED BY <2>8, <4>1, <5>1, <5>2 DEF LogFollowsStore, Crash, IsEvent, LabelsOf
      <4>2. CASE ~At(w, "saved")
        BY <1>0, <2>0, <2>8, <4>2 DEF LogFollowsStore, Crash, At, LabelsOf
      <4>. QED BY <4>1, <4>2
    <3>. QED BY <2>0, <3>1, <3>2 DEF Recording
  <2>9. ASSUME NEW strict \in BOOLEAN, GatePass(w, strict) \/ GateBlock(w, strict)
        PROVE  LogFollowsStore' /\ \A x \in Workers : Recording(x)'
    BY <2>1, <2>2, <2>9 DEF GatePass, GateBlock, At
  <2>. QED BY <1>1, <2>3, <2>4, <2>5, <2>6, <2>7, <2>8, <2>9 DEF Step
<1>2. ASSUME UNCHANGED <<run, records>>
      PROVE  LogFollowsStore' /\ \A x \in Workers : Recording(x)'
  BY <1>0, <1>2 DEF LogFollowsStore, Recording, At, records, LabelsOf
<1>3. \/ \E a \in Axes : Move(a)
      \/ Commit \/ (\E i \in Items : EditProse(i) \/ Redraft(i)) \/ UNCHANGED vars
      => UNCHANGED <<run, records>>
  BY DEF Move, Commit, EditProse, Redraft, vars
<1>. QED BY <1>0, <1>1, <1>2, <1>3 DEF Next, InStep

\* The review log ends with the verdict on record: see LogFollowsStore
\* (finish and record_verdict_breadcrumb in src/verify.rs).
THEOREM LogsFollowTheStore ==
    ASSUME OneRunAtATime
    PROVE  Spec => []LogFollowsStore
<1>1. InStep /\ [Next]_vars => InStep'
  BY NextInStep
<1>2. InStep => LogFollowsStore
  BY DEF InStep
<1>. QED BY InitInStep, <1>1, <1>2, PTL DEF Spec

\* A verdict on record is replaced, never forgotten: see NothingForgotten
\* (record and save in src/verdict_store.rs).
THEOREM RecordsAreKept ==
    ASSUME OneRunAtATime
    PROVE  Spec => NothingForgotten
<1>1. InStep /\ [Next]_vars => InStep'
  BY NextInStep
<1>2. InStep /\ [Next]_vars =>
          [\A i \in Items : store[i] # NoVerdict => store'[i] # NoVerdict]_vars
  <2> SUFFICES ASSUME InStep, Next, NEW i \in Items, store[i] # NoVerdict
               PROVE  store'[i] # NoVerdict
    OBVIOUS
  <2>1. ASSUME NEW w \in Workers, Save(w) PROVE store'[i] # NoVerdict
    BY <2>1 DEF InStep, Recording, Save
  <2>2. UNCHANGED store \/ \E w \in Workers : Save(w)
    BY DEF Next, Step, Begin, NothingToRun, AssertedOnly, Ground, ServeCached,
       RunEngines, Stamp, Announce, Crash, GatePass, GateBlock, Move, Commit,
       EditProse, Redraft, records
  <2>. QED BY <2>1, <2>2
<1>. QED BY InitInStep, <1>1, <1>2, PTL DEF Spec, NothingForgotten

-----------------------------------------------------------------------------
(***************************************************************************)
(* What a run writes to the subject's tree and how its answer is read.     *)
(***************************************************************************)

USE EnginesAssumption

Engines == Writing \cup {"TLC", "MonPoly", "Selenium"}

Places == {Line(e, c) : e \in Writing, c \in Claims} \cup {Free, Operators}
Root == [text : Nat \cup {None}, mods : Seq(Places)]
Left == UNION {Litter(e) : e \in Writing}
Disk == [root : Root, there : SUBSET Left, src : [Claims -> Places],
         tests : [Claims -> Places]]
Mine == [text : Nat, there : SUBSET Left, src : [Claims -> {Free, Operators}]]
Piece == [says : Mechanical, of : SUBSET Claims]

Pcs == {"idle", "engine", "writing", "attaching", "appending", "proving",
        "restoring", "rewriting", "removing", "sweeping"}

\* Where the run has the crate root as it was read, and where the file is
\* open; where there is an outcome.
HoldsRoot == {"writing", "attaching", "appending", "proving", "restoring", "rewriting"}
RootOpen == {"appending", "rewriting"}
HasOutcome == {"restoring", "rewriting", "removing", "sweeping"}
Job == [pc : Pcs, claim : Claims \cup {None}, todo : SUBSET Engines,
        base : Root \cup {None}, made : SUBSET Left, out : Piece \cup {None},
        evidence : SUBSET Piece]

Active(r) == job[r].pc # "idle"

\* What the steps of a run have in their local variables.
JobOK(r) ==
    /\ Active(r) => /\ job[r].claim \in Claims
                    /\ job[r].todo # {} /\ job[r].todo \subseteq EnginesOf(job[r].claim)
    /\ job[r].pc \notin {"idle", "engine"} => Engine(r) \in Writing
    /\ job[r].pc \in {"attaching", "restoring"} \cup RootOpen => Engine(r) \in Deductive
    /\ job[r].pc \in HoldsRoot => job[r].base \in Root
    /\ job[r].pc \in HasOutcome => job[r].out \in Piece

RunsOK ==
    /\ disk \in Disk /\ mine \in Mine
    /\ disturbed \in BOOLEAN /\ cut \in BOOLEAN /\ edits \in Nat
    /\ job \in [Runs -> Job]
    /\ \A r \in Runs : JobOK(r)

\* Evidence that decides is about the claim, and is right.
Right(piece, c) ==
    /\ piece.says.status # "unknown" => c \in piece.of
    /\ piece.says.basis = "proven" => c \in True
    /\ piece.says.status = "fails" => c \notin True

OneRuns == \A r, s \in Runs : Active(r) /\ Active(s) => r = s

\* The engine that is about to run finds the claim in the build, whatever
\* runs that died have left there.
InTheBuild(r) ==
    job[r].pc = "proving" /\ Engine(r) \in Deductive =>
        \E i \in DOMAIN disk.root.mods : disk.root.mods[i] = Line(Engine(r), job[r].claim)

Decides(r) ==
    /\ InTheBuild(r)
    /\ job[r].pc \in HasOutcome =>
        Right(job[r].out, job[r].claim)
    /\ \A piece \in job[r].evidence : Right(piece, job[r].claim)

Decided == RunsOK /\ OneRuns /\ \A r \in Runs : Decides(r)

-----------------------------------------------------------------------------
(***************************************************************************)
(* Types.                                                                  *)
(***************************************************************************)

\* One of those whose turn is to come is the first.
LEMMA SomeEngineIsNext ==
    ASSUME NEW r \in Runs, job[r].todo # {}
    PROVE  Engine(r) \in job[r].todo
PROOF
  <1> DEFINE todo == job[r].todo
  <1>1. \E e \in todo : \A f \in todo : <<f, e>> \notin Before
    <2>1. CASE "Kani" \in todo
      BY <2>1 DEF Before
    <2>2. CASE "Kani" \notin todo /\ "Creusot" \in todo
      BY <2>2 DEF Before
    <2>3. CASE "Kani" \notin todo /\ "Creusot" \notin todo
      BY <2>3 DEF Before
    <2> QED
      BY <2>1, <2>2, <2>3
  <1> QED
    BY <1>1 DEF Engine

LEMMA EnginesTyped == \A c \in Claims : EnginesOf(c) \subseteq Engines
PROOF
  BY DEF EnginesOf, EnginesFor, Engines, Writing, Deductive

LEMMA EvidenceTyped ==
    /\ Inconclusive \in Mechanical
    /\ \A e, out : Classify(e, out) \in Mechanical
PROOF
  BY DEF Inconclusive, Classify, Mechanical, Says, HoldsIf, Refuting, Basis

LEMMA LitterTyped == \A e \in Writing : Litter(e) \subseteq Left
PROOF
  BY DEF Left

LEMMA NoJobTyped == NoJob \in Job /\ NoJob.pc = "idle" /\ NoJob.evidence = {}
PROOF
  BY DEF NoJob, Job, Pcs

LEMMA InitDecided == RunsInit => Decided
PROOF
  <1> SUFFICES ASSUME RunsInit PROVE Decided
    OBVIOUS
  <1>1. mine \in Mine /\ disk \in Disk
    <2>1. mine.there \in SUBSET Left
      BY DEF RunsInit, Left, Litter, Writing, Deductive
    <2>2. mine \in Mine
      BY <2>1 DEF RunsInit, Mine
    <2>3. <<>> \in Seq(Places)
      OBVIOUS
    <2> QED
      BY <2>1, <2>2, <2>3 DEF RunsInit, Mine, Disk, Root, Places
  <1>2. \A r \in Runs : job[r] = NoJob
    BY DEF RunsInit
  <1>3. RunsOK
    BY <1>1, <1>2, NoJobTyped DEF RunsOK, JobOK, RunsInit, Active, HoldsRoot, RootOpen,
       HasOutcome
  <1> QED
    BY <1>2, <1>3, NoJobTyped DEF Decided, OneRuns, Decides, InTheBuild, Active, HasOutcome

\* The engine of a run under way is one of those that answer for its claim.
LEMMA EngineTyped ==
    ASSUME RunsOK, NEW r \in Runs, Active(r)
    PROVE  /\ Engine(r) \in job[r].todo /\ Engine(r) \in Engines
           /\ job[r].claim \in Claims /\ job[r] \in Job
PROOF
  <1>1. JobOK(r) /\ job[r] \in Job
    BY DEF RunsOK
  <1>2. Engine(r) \in job[r].todo
    BY <1>1, SomeEngineIsNext DEF JobOK
  <1> QED
    BY <1>1, <1>2, EnginesTyped DEF JobOK

-----------------------------------------------------------------------------
(***************************************************************************)
(* Every step.                                                             *)
(***************************************************************************)

\* What a step leaves of the flags, and of the count of edits.
FlagsTyped == disturbed' \in BOOLEAN /\ cut' \in BOOLEAN /\ edits' = edits

\* A step of the one run under way, or the launch of one, has to answer for
\* that run only.
LEMMA MovesDecided ==
    ASSUME Decided, NEW r \in Runs, NEW j \in Job, job' = [job EXCEPT ![r] = j],
           Active(r) \/ AtRest, disk' \in Disk, mine' \in Mine,
           disturbed' \in BOOLEAN, cut' \in BOOLEAN, edits' \in Nat, JobOK(r)', Decides(r)'
    PROVE  Decided'
PROOF
  <1>1. job' \in [Runs -> Job] /\ job'[r] = j
    BY DEF Decided, RunsOK
  <1>2. \A s \in Runs \ {r} : job'[s] = job[s] /\ ~Active(s)
    BY DEF Decided, RunsOK, OneRuns, AtRest, Active
  <1>3. \A s \in Runs \ {r} : JobOK(s)' /\ Decides(s)'
    BY <1>2 DEF Decided, RunsOK, JobOK, Decides, InTheBuild, Active, Engine
  <1>4. RunsOK'
    BY <1>1, <1>3 DEF RunsOK
  <1>5. OneRuns'
    BY <1>2 DEF OneRuns, Active
  <1> QED
    BY <1>3, <1>4, <1>5 DEF Decided

\* The next engine's turn, or the end.
LEMMA AnswersDecided ==
    ASSUME Decided, NEW r \in Runs, Active(r), NEW says \in Mechanical,
           NEW of \in SUBSET Claims, Answers(r, says, of),
           Right([says |-> says, of |-> of], job[r].claim), disk' \in Disk, mine' = mine,
           disturbed' \in BOOLEAN, cut' \in BOOLEAN, edits' = edits
    PROVE  Decided'
PROOF
  <1> DEFINE todo == job[r].todo \ {Engine(r)}
             piece == [says |-> says, of |-> of]
             j == [NoJob EXCEPT !.pc = IF todo = {} THEN "idle" ELSE "engine",
                                !.claim = job[r].claim, !.todo = todo,
                                !.evidence = job[r].evidence \cup {piece}]
  <1>1. job' = [job EXCEPT ![r] = j]
    BY DEF Answers
  <1>2. piece \in Piece
    BY DEF Piece
  <1>3. /\ job[r] \in Job /\ JobOK(r) /\ Decides(r) /\ job[r].claim \in Claims
        /\ mine \in Mine /\ edits \in Nat
    BY EngineTyped DEF Decided, RunsOK
  <1>4. /\ j \in Job /\ j.pc \in {"idle", "engine"} /\ (j.pc # "idle" => todo # {})
        /\ j.todo = todo /\ j.claim = job[r].claim
        /\ j.evidence = job[r].evidence \cup {piece}
    BY <1>2, <1>3, NoJobTyped DEF Job, Pcs
  <1>5. job'[r] = j
    BY <1>1 DEF Decided, RunsOK
  <1> HIDE DEF piece, j
  <1>6. JobOK(r)'
    <2>1. job[r].todo \subseteq EnginesOf(job[r].claim)
      BY <1>3 DEF JobOK
    <2>2. j.todo \subseteq EnginesOf(j.claim)
      BY <1>4, <2>1
    <2> QED
      BY <1>3, <1>4, <1>5, <2>2 DEF JobOK, Active, EnginesOf, HoldsRoot, RootOpen, HasOutcome
  <1>7. Decides(r)'
    BY <1>3, <1>4, <1>5 DEF Decides, InTheBuild, HasOutcome, piece
  <1> QED
    BY <1>1, <1>3, <1>4, <1>6, <1>7, MovesDecided DEF Decided, RunsOK

\* Not being able to decide is never wrong.
LEMMA InconclusiveIsRight == \A c : Right([says |-> Inconclusive, of |-> {}], c)
PROOF
  BY DEF Right, Inconclusive, Says

LEMMA LaunchDecided ==
    ASSUME Decided, NEW r \in Runs, NEW c \in Claims, Launch(r, c), NothingOverlaps
    PROVE  Decided'
PROOF
  <1>1. PICK ready \in SUBSET EnginesOf(c) :
            /\ ready # {}
            /\ job' = [job EXCEPT ![r] = [NoJob EXCEPT !.pc = "engine", !.claim = c,
                                                      !.todo = ready]]
    BY DEF Launch
  <1> DEFINE j == [NoJob EXCEPT !.pc = "engine", !.claim = c, !.todo = ready]
  <1>2. job' = [job EXCEPT ![r] = j]
    BY <1>1
  <1>3. /\ j \in Job /\ j.pc = "engine" /\ j.claim = c /\ j.todo = ready
        /\ j.evidence = {}
    BY EnginesTyped, NoJobTyped DEF Job, Pcs
  <1>4. job'[r] = j
    BY <1>2 DEF Decided, RunsOK
  <1> HIDE DEF j
  <1>5. JobOK(r)' /\ Decides(r)'
    BY <1>1, <1>3, <1>4 DEF JobOK, Active, Decides, InTheBuild, EnginesOf, HoldsRoot, RootOpen,
       HasOutcome
  <1>6. /\ AtRest /\ disk' \in Disk /\ mine' \in Mine
        /\ disturbed' \in BOOLEAN /\ cut' \in BOOLEAN /\ edits' \in Nat
    BY DEF Launch, NothingOverlaps, Decided, RunsOK
  <1> QED
    BY <1>2, <1>3, <1>5, <1>6, MovesDecided

\* What is read off the output of an engine that writes nothing.
LEMMA ObservedIsRight ==
    ASSUME NEW e \in Engines \ Writing, NEW c \in Claims, NEW out \in Prints(e, c)
    PROVE  Right([says |-> Classify(e, out), of |-> {c}], c)
PROOF
  <1>1. e \in {"TLC", "MonPoly", "Selenium"}
    BY DEF Engines
  <1> DEFINE refuted == IF c \notin True THEN {{"refuted"}} ELSE {}
  <1>2. CASE e = "MonPoly"
    <2>1. out \in {{"refusal"}, {"no trace"}, {}} \cup refuted
      BY <1>2 DEF Prints, Writing, Deductive
    <2> QED
      BY <1>2, <2>1 DEF Right, Classify, HoldsIf, Refuting, Inconclusive, Says
  <1>3. CASE e \in {"TLC", "Selenium"}
    <2>1. out \in {{"successful"}, {}} \cup refuted
      BY <1>3 DEF Prints, Writing, Deductive
    <2> QED
      BY <1>3, <2>1 DEF Right, Classify, HoldsIf, Refuting, Inconclusive, Says
  <1> QED
    BY <1>1, <1>2, <1>3

LEMMA ObserveDecided ==
    ASSUME Decided, NEW r \in Runs, Observe(r)
    PROVE  Decided'
PROOF
  <1>1. Active(r) /\ RunsOK
    BY DEF Observe, Active, Decided
  <1>2. Engine(r) \in Engines \ Writing /\ job[r].claim \in Claims
    BY <1>1, EngineTyped DEF Observe
  <1>3. PICK out \in Prints(Engine(r), job[r].claim) :
            Answers(r, Classify(Engine(r), out), {job[r].claim})
    BY DEF Observe
  <1>4. Right([says |-> Classify(Engine(r), out), of |-> {job[r].claim}], job[r].claim)
    BY <1>2, ObservedIsRight
  <1>5. Classify(Engine(r), out) \in Mechanical
    BY EvidenceTyped
  <1>6. disk' \in Disk /\ mine' = mine /\ FlagsTyped
    BY <1>1 DEF Observe, bounds, RunsOK, FlagsTyped
  <1> QED
    BY <1>1, <1>2, <1>3, <1>4, <1>5, <1>6, AnswersDecided DEF FlagsTyped

\* A step that moves the run on within one engine's turn.
LEMMA TurnDecided ==
    ASSUME Decided, NEW r \in Runs, Active(r), job' \in [Runs -> Job],
           \A s \in Runs \ {r} : job'[s] = job[s],
           job'[r].claim = job[r].claim, job'[r].todo = job[r].todo,
           job'[r].evidence = job[r].evidence,
           job'[r].pc \notin {"idle", "engine"}, Engine(r) \in Writing,
           job'[r].pc \in {"attaching", "restoring"} \cup RootOpen => Engine(r) \in Deductive,
           job'[r].pc \in HoldsRoot => job'[r].base \in Root,
           job'[r].pc \in HasOutcome =>
                job'[r].out \in Piece /\ Right(job'[r].out, job[r].claim),
           job'[r].pc = "proving" /\ Engine(r) \in Deductive =>
                \E i \in DOMAIN disk'.root.mods :
                    disk'.root.mods[i] = Line(Engine(r), job[r].claim),
           disk' \in Disk, mine' = mine, FlagsTyped
    PROVE  Decided'
PROOF
  <1> DEFINE j == job'[r]
  <1>1. job' = [job EXCEPT ![r] = j]
    BY DEF Decided, RunsOK
  <1>2. Engine(r)' = Engine(r)
    BY DEF Engine
  <1>3. JobOK(r) /\ Decides(r)
    BY DEF Decided, RunsOK
  <1>4. JobOK(r)'
    BY <1>2, <1>3 DEF JobOK, Active, EnginesOf, RootOpen
  <1>5. Decides(r)'
    BY <1>2, <1>3 DEF Decides, InTheBuild, Right
  <1> QED
    BY <1>1, <1>4, <1>5, MovesDecided DEF Decided, RunsOK, FlagsTyped

LEMMA LookDecided ==
    ASSUME Decided, NEW r \in Runs, Look(r)
    PROVE  Decided'
PROOF
  <1>1. Active(r) /\ job[r].pc = "engine" /\ RunsOK
    BY DEF Look, Active, Decided
  <1>2. job[r] \in Job /\ Litter(Engine(r)) \subseteq Left /\ disk.root \in Root
    BY <1>1, LitterTyped DEF RunsOK, Disk, Look
  <1>3. /\ job' \in [Runs -> Job] /\ \A s \in Runs \ {r} : job'[s] = job[s]
        /\ job'[r].claim = job[r].claim /\ job'[r].todo = job[r].todo
        /\ job'[r].evidence = job[r].evidence
        /\ job'[r].pc = "writing" /\ job'[r].base = disk.root
    BY <1>1, <1>2 DEF Look, RunsOK, Job, Pcs
  <1>4. disk' \in Disk /\ mine' = mine /\ FlagsTyped
    BY <1>1 DEF Look, bounds, RunsOK, FlagsTyped
  <1> QED
    BY <1>1, <1>2, <1>3, <1>4, TurnDecided DEF Look, HoldsRoot, RootOpen, HasOutcome

LEMMA RefuseDecided ==
    ASSUME Decided, NEW r \in Runs, Refuse(r)
    PROVE  Decided'
PROOF
  <1>1. Active(r) /\ RunsOK
    BY DEF Refuse, Active, Decided
  <1>2. disk' \in Disk /\ mine' = mine /\ FlagsTyped
    BY <1>1 DEF Refuse, bounds, RunsOK, FlagsTyped
  <1> QED
    BY <1>1, <1>2, InconclusiveIsRight, EvidenceTyped, AnswersDecided DEF Refuse, FlagsTyped

\* The harness of a claim is a place on the disk.
LEMMA PlacesTyped ==
    \A e \in Writing, c \in Claims : Line(e, c) \in Places /\ Free \in Places
PROOF
  BY DEF Places

LEMMA WriteHarnessDecided ==
    ASSUME Decided, NEW r \in Runs, WriteHarness(r)
    PROVE  Decided'
PROOF
  <1> DEFINE e == Engine(r)
             c == job[r].claim
  <1>1. Active(r) /\ RunsOK /\ JobOK(r) /\ e \in Writing /\ c \in Claims /\ job[r] \in Job
    BY EngineTyped DEF WriteHarness, Active, Decided, RunsOK, JobOK
  <1>2. /\ job' \in [Runs -> Job] /\ \A s \in Runs \ {r} : job'[s] = job[s]
        /\ job'[r].claim = c /\ job'[r].todo = job[r].todo
        /\ job'[r].evidence = job[r].evidence /\ job'[r].base = job[r].base
        /\ job'[r].pc = IF e = "Kani" THEN "proving" ELSE "attaching"
    BY <1>1 DEF WriteHarness, RunsOK, Job, Pcs
  <1>3. "tests" \in Left
    BY DEF Left, Litter, Writing
  <1>4. Line(e, c) \in Places
    BY <1>1, PlacesTyped
  <1>5. disk' \in Disk
    <2>1. CASE e = "Kani"
      <3>1. disk' = [disk EXCEPT !["tests"][c] = Line(e, c), !.there = @ \cup {"tests"}]
        BY <2>1 DEF WriteHarness, Place
      <3> QED
        BY <1>1, <1>3, <1>4, <3>1 DEF Disk, RunsOK
    <2>2. CASE e # "Kani"
      <3>1. disk' = [disk EXCEPT !["src"][c] = Line(e, c), !.there = @ \cup {}]
        BY <2>2 DEF WriteHarness, Place
      <3> QED
        BY <1>1, <1>4, <3>1 DEF Disk, RunsOK
    <2> QED
      BY <2>1, <2>2
  <1>6. e # "Kani" => e \in Deductive
    BY <1>1 DEF Writing
  <1>7. mine' = mine /\ FlagsTyped
    BY <1>1 DEF WriteHarness, bounds, RunsOK, FlagsTyped
  <1>8. job[r].base \in Root /\ "Kani" \notin Deductive
    BY <1>1 DEF JobOK, WriteHarness, Deductive, HoldsRoot
  <1> QED
    BY <1>1, <1>2, <1>5, <1>6, <1>7, <1>8, TurnDecided DEF RootOpen, HasOutcome

LEMMA CannotWriteDecided ==
    ASSUME Decided, NEW r \in Runs, CannotWrite(r)
    PROVE  Decided'
PROOF
  <1> DEFINE e == Engine(r)
             c == job[r].claim
  <1>1. Active(r) /\ RunsOK /\ e \in Writing /\ c \in Claims
    BY EngineTyped DEF CannotWrite, Active, Decided, RunsOK, JobOK
  <1>2. {"tests"} \subseteq Left
    BY DEF Left, Litter, Writing
  <1>3. disk' \in Disk
    <2>1. PICK left \in {HarnessAt(r), Line(e, c)} :
            disk' = [disk EXCEPT ![Place(e)][c] = left,
                        !.there = @ \cup (IF e = "Kani" THEN {"tests"} ELSE {})]
      BY DEF CannotWrite
    <2>2. Place(e) \in {"tests", "src"} /\ HarnessAt(r) = disk[Place(e)][c]
      BY DEF Place, HarnessAt
    <2>3. disk.tests[c] \in Places /\ disk.src[c] \in Places /\ Line(e, c) \in Places
      BY <1>1, PlacesTyped DEF RunsOK, Disk
    <2>4. left \in Places
      BY <2>2, <2>3
    <2> HIDE DEF e, c
    <2> QED
      BY <1>1, <1>2, <2>1, <2>2, <2>4 DEF RunsOK, Disk
  <1>4. mine' = mine /\ FlagsTyped
    BY <1>1 DEF CannotWrite, RunsOK, FlagsTyped
  <1> QED
    BY <1>1, <1>3, <1>4, InconclusiveIsRight, EvidenceTyped, AnswersDecided
       DEF CannotWrite, FlagsTyped

\* An empty crate root is one, too.
LEMMA EmptiedTyped == Emptied \in Root
PROOF
  <1>1. <<>> \in Seq(Places)
    OBVIOUS
  <1> QED
    BY <1>1 DEF Emptied, Root

LEMMA OpenRootDecided ==
    ASSUME Decided, NEW r \in Runs, OpenRoot(r)
    PROVE  Decided'
PROOF
  <1>1. /\ Active(r) /\ RunsOK /\ JobOK(r) /\ Decides(r) /\ job[r] \in Job
        /\ job[r].pc \in {"attaching", "restoring"}
    BY DEF OpenRoot, Active, Decided, RunsOK
  <1>2. /\ job' \in [Runs -> Job] /\ \A s \in Runs \ {r} : job'[s] = job[s]
        /\ job'[r].claim = job[r].claim /\ job'[r].todo = job[r].todo
        /\ job'[r].evidence = job[r].evidence /\ job'[r].out = job[r].out
        /\ job'[r].base = job[r].base
        /\ job'[r].pc = (IF job[r].pc = "attaching" THEN "appending" ELSE "rewriting")
    BY <1>1 DEF OpenRoot, RunsOK, Job, Pcs
  <1>3. disk' \in Disk
    BY <1>1, EmptiedTyped DEF OpenRoot, RunsOK, Disk
  <1>4. mine' = mine /\ FlagsTyped
    BY <1>1 DEF OpenRoot, bounds, RunsOK, FlagsTyped
  <1>5. /\ Engine(r) \in Deductive /\ Engine(r) \in Writing /\ job[r].base \in Root
        /\ job[r].pc = "restoring" =>
            job[r].out \in Piece /\ Right(job[r].out, job[r].claim)
    BY <1>1 DEF JobOK, Decides, HoldsRoot, HasOutcome, Writing
  <1> QED
    BY <1>1, <1>2, <1>3, <1>4, <1>5, TurnDecided DEF HoldsRoot, RootOpen, HasOutcome

LEMMA AttachDecided ==
    ASSUME Decided, NEW r \in Runs, Attach(r)
    PROVE  Decided'
PROOF
  <1> DEFINE e == Engine(r)
             c == job[r].claim
             mods == Append(job[r].base.mods, Line(e, c))
  <1>1. Active(r) /\ RunsOK /\ JobOK(r) /\ e \in Deductive /\ c \in Claims /\ job[r] \in Job
    BY EngineTyped DEF Attach, Active, Decided, RunsOK, JobOK, RootOpen
  <1>2. job[r].base \in Root /\ e \in Writing
    BY <1>1 DEF Attach, JobOK, Writing, HoldsRoot
  <1>3. /\ job' \in [Runs -> Job] /\ \A s \in Runs \ {r} : job'[s] = job[s]
        /\ job'[r].claim = c /\ job'[r].todo = job[r].todo
        /\ job'[r].evidence = job[r].evidence /\ job'[r].base = job[r].base
        /\ job'[r].pc = "proving"
    BY <1>1 DEF Attach, RunsOK, Job, Pcs
  <1>4. /\ mods \in Seq(Places) /\ Len(mods) \in DOMAIN mods
        /\ mods[Len(mods)] = Line(e, c)
    <2>1. Line(e, c) \in Places /\ job[r].base.mods \in Seq(Places)
      BY <1>1, <1>2, PlacesTyped DEF Root
    <2> HIDE DEF e, c
    <2> QED
      BY <2>1
  <1>5. disk'.root.mods = mods /\ disk' \in Disk
    <2>1. {"why3find.json"} \subseteq Left
      BY DEF Left, Litter, Writing, Deductive
    <2>2. [job[r].base EXCEPT !.mods = mods] \in Root
      BY <1>2, <1>4 DEF Root
    <2>3. disk' = [disk EXCEPT !.root = [job[r].base EXCEPT !.mods = mods],
                !.there = @ \cup (IF e = "Creusot" THEN {"why3find.json"} ELSE {})]
      BY DEF Attach
    <2> HIDE DEF mods, e
    <2>4. disk' \in Disk
      BY <1>1, <2>1, <2>2, <2>3 DEF RunsOK, Disk
    <2>5. disk'.root = [job[r].base EXCEPT !.mods = mods]
      BY <1>1, <2>3 DEF RunsOK, Disk
    <2> QED
      BY <1>2, <2>4, <2>5 DEF Root
  <1>6. mine' = mine /\ FlagsTyped
    BY <1>1 DEF Attach, bounds, RunsOK, FlagsTyped
  <1> HIDE DEF mods
  <1> QED
    BY <1>1, <1>2, <1>3, <1>4, <1>5, <1>6, TurnDecided DEF RootOpen, HasOutcome

LEMMA CannotAttachDecided ==
    ASSUME Decided, NEW r \in Runs, CannotAttach(r)
    PROVE  Decided'
PROOF
  <1> DEFINE c == job[r].claim
  <1>1. Active(r) /\ RunsOK /\ c \in Claims /\ Engine(r) \in Deductive
    BY EngineTyped DEF CannotAttach, Active, Decided, RunsOK, JobOK, RootOpen
  <1>2. disk' \in Disk
    <2>1. PICK left \in {Free, HarnessAt(r)} : disk' = [disk EXCEPT !.src[c] = left]
      BY DEF CannotAttach
    <2>2. HarnessAt(r) = disk.src[c]
      BY <1>1 DEF HarnessAt, Place, Deductive
    <2>3. left \in Places
      BY <1>1, <2>1, <2>2 DEF RunsOK, Disk, Places
    <2> QED
      BY <1>1, <2>1, <2>3 DEF RunsOK, Disk
  <1>3. mine' = mine /\ FlagsTyped
    BY <1>1 DEF CannotAttach, RunsOK, FlagsTyped
  <1> QED
    BY <1>1, <1>2, <1>3, InconclusiveIsRight, EvidenceTyped, AnswersDecided
       DEF CannotAttach, FlagsTyped

\* What classify reads off the output of a proving engine that had the claim
\* before it.
LEMMA ProvedIsRight ==
    ASSUME NEW e \in Writing, NEW c \in Claims, NEW out \in Prints(e, c),
           e \in Deductive =>
             \E i \in DOMAIN disk.root.mods : disk.root.mods[i] = Line(e, c)
    PROVE  Right([says |-> Classify(e, out), of |-> Goals(e, c)], c)
PROOF
  <1> DEFINE goals == Goals(e, c)
             wrong == goals \ True
             refuted == IF c \in goals \ True THEN {{"refuted"}} ELSE {}
             says == Classify(e, out)
  <1>1. CASE e = "Kani"
    <2>1. out \in {{}} \cup refuted \cup (IF goals # {} THEN {{"successful"}} ELSE {})
      BY <1>1 DEF Prints, Writing, Deductive
    <2>2. goals \subseteq {c}
      BY <1>1 DEF Goals, Deductive
    <2>3. /\ says.status # "unknown" => goals # {}
          /\ says.basis # "proven"
          /\ says.status = "fails" => c \notin True
      <3> HIDE DEF goals
      <3> QED
        BY <1>1, <2>1 DEF Classify, HoldsIf, Refuting, Inconclusive, Says
    <2> QED
      BY <2>2, <2>3 DEF Right
  <1>2. CASE e \in Deductive
    <2>1. c \in goals
      BY <1>2 DEF Goals, Deductive
    <2>2. /\ says.status = "fails" => FALSE
          /\ says.basis = "proven" => c \in True
      <3>1. CASE ~Builds(e)
        <4>1. out = {"build"}
          BY <1>2, <3>1 DEF Prints, Deductive
        <4> QED
          BY <1>2, <4>1 DEF Classify, HoldsIf, Inconclusive, Says, Deductive
      <3>2. CASE Builds(e) /\ e = "Creusot"
        <4>1. out \in {{"panicked", "build"}, {"unsupported", "build"}, {"build"}} \cup
                      {m \in SUBSET {"proved", "unproved"} :
                        /\ wrong # {} => "unproved" \in m
                        /\ "proved" \in m => goals \cap True # {} \/ OwnGoals}
          BY <3>2 DEF Prints, Deductive, Writing
        <4>2. out = {"proved"} => wrong = {}
          BY <4>1
        <4> HIDE DEF goals
        <4> QED
          BY <3>2, <4>2, <2>1 DEF Classify, HoldsIf, Inconclusive, Says
      <3>3. CASE Builds(e) /\ e = "Prusti"
        <4>1. out \in {{"unproved", "build"}, {"build"}, {"ceiling"}, {}}
                      \cup (IF wrong = {} THEN {{"finished"}} ELSE {})
          BY <3>3 DEF Prints, Deductive, Writing
        <4>2. "finished" \in out => wrong = {}
          BY <4>1
        <4> HIDE DEF goals
        <4> QED
          BY <3>3, <4>2, <2>1 DEF Classify, HoldsIf, Inconclusive, Says
      <3> QED
        BY <1>2, <3>1, <3>2, <3>3 DEF Deductive
    <2> QED
      BY <2>1, <2>2 DEF Right
  <1> QED
    BY <1>1, <1>2 DEF Writing

LEMMA ProveDecided ==
    ASSUME Decided, NEW r \in Runs, Prove(r)
    PROVE  Decided'
PROOF
  <1> DEFINE e == Engine(r)
             c == job[r].claim
  <1>1. /\ Active(r) /\ RunsOK /\ JobOK(r) /\ Decides(r)
        /\ e \in Writing /\ c \in Claims /\ job[r] \in Job
    BY EngineTyped DEF Prove, Active, Decided, RunsOK, JobOK
  <1>2. PICK out \in Prints(e, c) :
            job' = [job EXCEPT ![r].pc = IF e = "Kani" THEN "removing" ELSE "restoring",
                               ![r].out = [says |-> Classify(e, out), of |-> Goals(e, c)]]
    BY DEF Prove
  <1> DEFINE piece == [says |-> Classify(e, out), of |-> Goals(e, c)]
  <1>3. Goals(e, c) \subseteq Claims
    BY <1>1 DEF Goals
  <1>4. piece \in Piece
    BY <1>3, EvidenceTyped DEF Piece
  <1>5. Right(piece, c)
    BY <1>1, ProvedIsRight DEF Decides, InTheBuild, Prove
  <1> HIDE DEF piece
  <1>6. /\ job' \in [Runs -> Job] /\ \A s \in Runs \ {r} : job'[s] = job[s]
        /\ job'[r].claim = c /\ job'[r].todo = job[r].todo
        /\ job'[r].evidence = job[r].evidence /\ job'[r].base = job[r].base
        /\ job'[r].pc = (IF e = "Kani" THEN "removing" ELSE "restoring")
        /\ job'[r].out = piece
    BY <1>1, <1>2, <1>4 DEF RunsOK, Job, Pcs, piece
  <1>7. disk' \in Disk
    BY <1>1, LitterTyped DEF Prove, RunsOK, Disk
  <1>8. mine' = mine /\ FlagsTyped
    BY <1>1 DEF Prove, bounds, RunsOK, FlagsTyped
  <1>9. /\ job'[r].pc = "restoring" => e \in Deductive
        /\ job[r].base \in Root
    BY <1>1, <1>6 DEF Writing, Prove, JobOK, HoldsRoot
  <1> QED
    BY <1>1, <1>4, <1>5, <1>6, <1>7, <1>8, <1>9, TurnDecided DEF RootOpen, HasOutcome

LEMMA RestoreDecided ==
    ASSUME Decided, NEW r \in Runs, Restore(r) \/ CannotRestore(r)
    PROVE  Decided'
PROOF
  <1>1. /\ Active(r) /\ RunsOK /\ JobOK(r) /\ Decides(r) /\ job[r] \in Job
        /\ job[r].pc \in {"restoring", "rewriting"}
    BY DEF Restore, CannotRestore, Active, Decided, RunsOK
  <1>2. /\ job' \in [Runs -> Job] /\ \A s \in Runs \ {r} : job'[s] = job[s]
        /\ job'[r].claim = job[r].claim /\ job'[r].todo = job[r].todo
        /\ job'[r].evidence = job[r].evidence /\ job'[r].out = job[r].out
        /\ job'[r].pc = "removing"
    <2>1. job' = [job EXCEPT ![r].pc = "removing"]
      BY DEF Restore, CannotRestore
    <2> QED
      BY <1>1, <2>1 DEF RunsOK, Job, Pcs
  <1>3. job[r].base \in Root /\ Engine(r) \in Deductive
    BY <1>1 DEF JobOK, HoldsRoot, RootOpen
  <1>4. disk' \in Disk
    BY <1>1, <1>3 DEF Restore, CannotRestore, RunsOK, Disk
  <1>5. mine' = mine /\ FlagsTyped
    BY <1>1 DEF Restore, CannotRestore, bounds, RunsOK, FlagsTyped
  <1>6. job[r].out \in Piece /\ Right(job[r].out, job[r].claim) /\ Engine(r) \in Writing
    BY <1>1, <1>3 DEF JobOK, Decides, HasOutcome, Writing
  <1> QED
    BY <1>1, <1>2, <1>4, <1>5, <1>6, TurnDecided DEF HoldsRoot, RootOpen, HasOutcome

LEMMA RemoveDecided ==
    ASSUME Decided, NEW r \in Runs, RemoveFile(r)
    PROVE  Decided'
PROOF
  <1> DEFINE c == job[r].claim
  <1>1. /\ Active(r) /\ RunsOK /\ JobOK(r) /\ Decides(r) /\ job[r] \in Job
        /\ c \in Claims
    BY EngineTyped DEF RemoveFile, Active, Decided, RunsOK
  <1>2. /\ job' \in [Runs -> Job] /\ \A s \in Runs \ {r} : job'[s] = job[s]
        /\ job'[r].claim = c /\ job'[r].todo = job[r].todo
        /\ job'[r].evidence = job[r].evidence /\ job'[r].out = job[r].out
        /\ job'[r].pc = "sweeping"
    BY <1>1 DEF RemoveFile, RunsOK, Job, Pcs
  <1>3. Place(Engine(r)) \in {"tests", "src"}
    BY DEF Place
  <1>4. disk' \in Disk
    <2>1. PICK left \in {Free, HarnessAt(r)} :
            disk' = [disk EXCEPT ![Place(Engine(r))][c] = left]
      BY DEF RemoveFile
    <2>2. left \in Places
      BY <1>1, <1>3, <2>1 DEF HarnessAt, RunsOK, Disk, Places
    <2> QED
      BY <1>1, <1>3, <2>1, <2>2 DEF RunsOK, Disk
  <1>5. mine' = mine /\ FlagsTyped
    BY <1>1 DEF RemoveFile, RunsOK, FlagsTyped
  <1>6. job[r].out \in Piece /\ Right(job[r].out, c) /\ Engine(r) \in Writing
    BY <1>1 DEF RemoveFile, JobOK, Decides, HasOutcome
  <1> QED
    BY <1>1, <1>2, <1>4, <1>5, <1>6, TurnDecided DEF HoldsRoot, RootOpen, HasOutcome

LEMMA SweepDecided ==
    ASSUME Decided, NEW r \in Runs, Sweep(r)
    PROVE  Decided'
PROOF
  <1>1. Active(r) /\ RunsOK /\ JobOK(r) /\ Decides(r)
    BY DEF Sweep, Active, Decided, RunsOK
  <1>2. /\ job[r].out \in Piece /\ Right(job[r].out, job[r].claim)
    BY <1>1 DEF Sweep, JobOK, Decides, HasOutcome
  <1>3. [says |-> job[r].out.says, of |-> job[r].out.of] = job[r].out
    BY <1>2 DEF Piece
  <1>4. disk' \in Disk /\ mine' = mine /\ FlagsTyped
    BY <1>1 DEF Sweep, RunsOK, Disk, FlagsTyped
  <1>5. job[r].out.says \in Mechanical /\ job[r].out.of \subseteq Claims
    BY <1>2 DEF Piece
  <1> QED
    BY <1>1, <1>2, <1>3, <1>4, <1>5, AnswersDecided DEF Sweep, FlagsTyped

LEMMA KillDecided ==
    ASSUME Decided, NEW r \in Runs, Kill(r)
    PROVE  Decided'
PROOF
  <1>1. Active(r) /\ RunsOK
    BY DEF Kill, Active, Decided
  <1>2. job'[r] = NoJob
    BY <1>1 DEF Kill, RunsOK
  <1>3. JobOK(r)' /\ Decides(r)'
    BY <1>2, NoJobTyped
       DEF JobOK, Active, Decides, InTheBuild, HoldsRoot, RootOpen, HasOutcome
  <1>4. /\ disk' \in Disk /\ mine' \in Mine
        /\ disturbed' \in BOOLEAN /\ cut' \in BOOLEAN /\ edits' \in Nat
    BY <1>1 DEF Kill, RunsOK
  <1> QED
    BY <1>1, <1>3, <1>4, NoJobTyped, MovesDecided DEF Kill

\* With every run at rest the tree may become anything.
LEMMA RestDecided ==
    ASSUME Decided, AtRest, UNCHANGED job, disk' \in Disk, mine' \in Mine,
           disturbed' \in BOOLEAN, cut' \in BOOLEAN, edits' \in Nat
    PROVE  Decided'
PROOF
  <1>1. \A r \in Runs : JobOK(r)' /\ Decides(r)'
    BY DEF Decided, RunsOK, AtRest, JobOK, Decides, InTheBuild, Active, Engine,
       HoldsRoot, RootOpen, HasOutcome
  <1> QED
    BY <1>1 DEF Decided, RunsOK, OneRuns, Active

LEMMA OperatorDecided ==
    ASSUME Decided, NothingOverlaps, Edit \/ Keep \/ Tidy
    PROVE  Decided'
PROOF
  <1>1. AtRest /\ RunsOK /\ UNCHANGED job
    BY DEF Edit, Keep, Tidy, NothingOverlaps, Decided
  <1>2. CASE Edit
    <2>1. edits + 1 \in Nat
      BY <1>1 DEF RunsOK
    <2>2. [disk.root EXCEPT !.text = edits + 1] \in Root
      BY <1>1, <2>1 DEF RunsOK, Disk, Root
    <2>3. disk' \in Disk
      BY <1>1, <1>2, <2>2 DEF Edit, RunsOK, Disk
    <2>4. mine' \in Mine
      BY <1>1, <1>2, <2>1 DEF Edit, RunsOK, Mine
    <2> QED
      BY <1>1, <1>2, <2>1, <2>3, <2>4, RestDecided DEF Edit, RunsOK
  <1>3. CASE Keep
    BY <1>1, <1>3, RestDecided DEF Keep, RunsOK, Disk, Mine, Left
  <1>4. CASE Tidy
    <2>1. {Free, Operators} \subseteq Places /\ <<>> \in Seq(Places)
      BY DEF Places
    <2>2. mine.src \in [Claims -> Places] /\ mine.text \in Nat /\ mine.there \in SUBSET Left
      BY <1>1, <2>1 DEF RunsOK, Mine
    <2>3. [c \in Claims |-> Free] \in [Claims -> Places]
      BY <2>1
    <2>4. disk' \in Disk
      BY <1>4, <2>1, <2>2, <2>3 DEF Tidy, Disk, Root
    <2> QED
      BY <1>1, <1>4, <2>4, RestDecided DEF Tidy, RunsOK, bounds
  <1> QED
    BY <1>2, <1>3, <1>4

LEMMA NextDecided ==
    NothingOverlaps => (Decided /\ [RunsNext]_runsVars => Decided')
PROOF
  <1> SUFFICES ASSUME NothingOverlaps, Decided, [RunsNext]_runsVars PROVE Decided'
    OBVIOUS
  <1>1. ASSUME NEW r \in Runs,
               \/ \E c \in Claims : Launch(r, c)
               \/ Observe(r) \/ Look(r) \/ Refuse(r) \/ WriteHarness(r) \/ CannotWrite(r)
               \/ OpenRoot(r) \/ Attach(r) \/ CannotAttach(r) \/ Prove(r)
               \/ Restore(r) \/ CannotRestore(r) \/ RemoveFile(r) \/ Sweep(r) \/ Kill(r)
        PROVE  Decided'
    BY <1>1, LaunchDecided, ObserveDecided, LookDecided, RefuseDecided,
       WriteHarnessDecided, CannotWriteDecided, OpenRootDecided, AttachDecided, CannotAttachDecided,
       ProveDecided, RestoreDecided, RemoveDecided, SweepDecided, KillDecided
  <1>2. CASE Edit \/ Keep \/ Tidy
    BY <1>2, OperatorDecided
  <1>3. CASE Rests \/ UNCHANGED runsVars
    BY <1>3 DEF Rests, runsVars, Decided, RunsOK, OneRuns, JobOK, Decides, InTheBuild,
       Right, Active, Engine
  <1> QED
    BY <1>1, <1>2, <1>3 DEF RunsNext

LEMMA DecidedAlways ==
    ASSUME NothingOverlaps
    PROVE  RunsSpec => []Decided
PROOF
  <1>1. RunsInit => Decided
    BY InitDecided
  <1>2. Decided /\ [RunsNext]_runsVars => Decided'
    BY NextDecided
  <1> QED
    BY <1>1, <1>2, PTL DEF RunsSpec

-----------------------------------------------------------------------------
(***************************************************************************)
(* The verdicts.                                                           *)
(***************************************************************************)

\* A verdict that decides has evidence of its status, and one that is called
\* proven has evidence that is.
LEMMA VerdictRestsOnEvidence ==
    ASSUME NEW E \in SUBSET Mechanical
    PROVE  /\ Aggregate(E).status # "unknown" => \E e \in E : e.status = Aggregate(E).status
           /\ Aggregate(E).basis = "proven" => \E e \in E : e.basis = "proven"
PROOF
  <1>1. Aggregate(E).status = CombinedStatus(E) /\ Aggregate(E).basis = CombinedBasis(E)
    BY DEF Aggregate, Says
  <1>2. CombinedStatus(E) # "unknown" => Some(E, CombinedStatus(E))
    BY DEF CombinedStatus
  <1>3. ASSUME CombinedBasis(E) = "proven"
        PROVE  \E e \in E : e.basis = "proven"
    <2>1. Some(E, "holds") /\ ~Some(E, "fails")
      BY <1>3 DEF CombinedBasis, CombinedStatus
    <2>2. E \in SUBSET Evidence
      BY DEF Evidence
    <2>3. IsStrongest("proven", E)
      BY <1>3, <2>1, <2>2, StrongestExists
    <2> QED
      BY <2>3 DEF IsStrongest
  <1> QED
    BY <1>1, <1>2, <1>3 DEF Some

\* A verdict that decides is about its requirement, whatever runs that died
\* have left in the subject's tree: what is called proven is true, and what
\* fails is not (classify and run of the engines, aggregate).
THEOREM VerdictsAreOfTheirClaims ==
    ASSUME NothingOverlaps
    PROVE  RunsSpec => []VerdictIsOfTheClaim
PROOF
  <1>1. Decided => VerdictIsOfTheClaim
    <2> SUFFICES ASSUME Decided, NEW r \in Runs
                 PROVE  LET v == VerdictOf(r)
                            c == job[r].claim
                        IN  /\ v.status # "unknown" =>
                                \E e \in job[r].evidence : e.says.status = v.status /\ c \in e.of
                            /\ v.basis = "proven" => c \in True
                            /\ v.status = "fails" => c \notin True
      BY DEF VerdictIsOfTheClaim
    <2> DEFINE E == {e.says : e \in job[r].evidence}
               v == Aggregate(E)
    <2>1. job[r].evidence \subseteq Piece /\ \A e \in job[r].evidence : Right(e, job[r].claim)
      BY DEF Decided, RunsOK, Job, Decides
    <2>2. E \in SUBSET Mechanical
      BY <2>1 DEF Piece
    <2>3. /\ v.status # "unknown" => \E e \in job[r].evidence : e.says.status = v.status
          /\ v.basis = "proven" => \E e \in job[r].evidence : e.says.basis = "proven"
      <3> HIDE DEF v
      <3>1. /\ v.status # "unknown" => \E s \in E : s.status = v.status
            /\ v.basis = "proven" => \E s \in E : s.basis = "proven"
        BY <2>2, VerdictRestsOnEvidence DEF v
      <3> QED
        BY <3>1
    <2>4. VerdictOf(r) = v
      BY DEF VerdictOf
    <2> HIDE DEF v, E
    <2> QED
      BY <2>1, <2>3, <2>4 DEF Right
  <1> QED
    BY <1>1, DecidedAlways, PTL

-----------------------------------------------------------------------------
(***************************************************************************)
(* The subject.                                                            *)
(***************************************************************************)

Under(r) == job[r].pc \notin {"idle", "engine"}

\* The text a crate root has where no run has it open.
RootText == IF cut THEN None ELSE mine.text
Opens(r) == job[r].pc \in RootOpen

\* What is the operator's is there, and what a run is going to write back or
\* to remove leaves it there.
OperatorsStands ==
    /\ disk.root.text = (IF \E r \in Runs : Opens(r) THEN None ELSE RootText)
    /\ mine.there \subseteq disk.there
    /\ \A c \in Claims : mine.src[c] = Operators => disk.src[c] = Operators
    /\ \A r \in Runs : Under(r) =>
        /\ job[r].made \cap mine.there = {}
        /\ Engine(r) \in Deductive => mine.src[job[r].claim] # Operators
        /\ job[r].pc \in HoldsRoot => job[r].base.text = RootText

\* The steps of a turn at which the crate root has the run's line, the path
\* its harness, and the directories its output.
HasLine(r) == job[r].pc \in {"proving", "restoring"} /\ Engine(r) \in Deductive
HasHarness(r, c) ==
    /\ job[r].pc \in {"attaching", "appending", "proving", "restoring", "rewriting", "removing"}
    /\ Engine(r) \in Deductive /\ job[r].claim = c
HasTest(r, c) ==
    job[r].pc \in {"proving", "removing"} /\ Engine(r) = "Kani" /\ job[r].claim = c
HasLitter(r, x) ==
    /\ job[r].pc \in {"proving", "restoring", "rewriting", "removing", "sweeping"}
    /\ x \in Litter(Engine(r))

\* Whatever is not the operator's is what a run under way has put there, and
\* it will take it away.
OthersGo ==
    /\ disk.root.mods # <<>> => \E r \in Runs : HasLine(r)
    /\ \A c \in Claims :
        /\ disk.src[c] # mine.src[c] => \E r \in Runs : HasHarness(r, c)
        /\ disk.tests[c] # Free => \E r \in Runs : HasTest(r, c)
    /\ \A x \in disk.there \ mine.there : \E r \in Runs : HasLitter(r, x)
    /\ \A r \in Runs : Under(r) =>
        /\ Litter(Engine(r)) \ mine.there \subseteq job[r].made
        /\ job[r].pc \in HoldsRoot => job[r].base.mods = <<>>

Kept == Decided /\ OperatorsStands /\ (~disturbed => OthersGo)

\* No run has anything on the disk.
TreeIsClean ==
    /\ disk.root.mods = <<>> /\ disk.there = mine.there /\ disk.src = mine.src
    /\ \A c \in Claims : disk.tests[c] = Free

LEMMA SrcIsMine ==
    ASSUME RunsOK
    PROVE  disk.src = mine.src <=> \A c \in Claims : disk.src[c] = mine.src[c]
PROOF
  BY DEF RunsOK, Disk, Mine

\* Between two turns what is not the operator's is gone.
LEMMA CleanBetweenTurns ==
    RunsOK /\ (\A r \in Runs : ~Under(r)) /\ mine.there \subseteq disk.there
        => (OthersGo <=> TreeIsClean)
PROOF
  <1> SUFFICES ASSUME RunsOK, \A r \in Runs : ~Under(r), mine.there \subseteq disk.there
               PROVE  OthersGo <=> TreeIsClean
    OBVIOUS
  <1>1. \A r \in Runs : /\ ~HasLine(r) /\ \A c : ~HasHarness(r, c) /\ ~HasTest(r, c)
                        /\ \A x : ~HasLitter(r, x)
    BY DEF Under, HasLine, HasHarness, HasTest, HasLitter
  <1> QED
    BY <1>1, SrcIsMine DEF OthersGo, TreeIsClean

LEMMA CleanAfterTurns ==
    (RunsOK /\ (\A r \in Runs : ~Under(r)) /\ mine.there \subseteq disk.there
        => (OthersGo <=> TreeIsClean))'
PROOF
  BY CleanBetweenTurns, PTL

LEMMA InitKept == RunsInit => Kept
PROOF
  <1> SUFFICES ASSUME RunsInit PROVE Kept
    OBVIOUS
  <1>1. Decided /\ RunsOK
    BY InitDecided DEF Decided
  <1>2. \A r \in Runs : ~Under(r)
    BY NoJobTyped DEF RunsInit, Under
  <1>3. OperatorsStands
    BY <1>2 DEF RunsInit, OperatorsStands, Opens, RootOpen, Under, RootText
  <1>4. TreeIsClean
    BY DEF RunsInit, TreeIsClean
  <1> QED
    BY <1>1, <1>2, <1>3, <1>4, CleanBetweenTurns DEF Kept, OperatorsStands

\* After a turn, and with every run at rest, it is enough that the
\* operator's is there and the rest is gone.
LEMMA TurnEndsKept ==
    ASSUME Decided', (\A s \in Runs : ~Under(s))',
           (disk.root.text = RootText)', (mine.there \subseteq disk.there)',
           (\A c \in Claims : mine.src[c] = Operators => disk.src[c] = Operators)',
           (~disturbed => TreeIsClean)'
    PROVE  Kept'
PROOF
  <1>1. OperatorsStands'
    BY DEF OperatorsStands, Opens, RootOpen, Under
  <1>2. RunsOK'
    BY DEF Decided
  <1> QED
    BY <1>1, <1>2, CleanAfterTurns DEF Kept

\* Only the run under way may be in a turn.
LEMMA OthersAreIdle ==
    ASSUME Decided, NEW r \in Runs, Active(r)
    PROVE  \A s \in Runs \ {r} : job[s].pc = "idle"
PROOF
  BY DEF Decided, OneRuns, Active

LEMMA AnswersEnd ==
    ASSUME Decided, NEW r \in Runs, Active(r), NEW says, NEW of, Answers(r, says, of)
    PROVE  (\A s \in Runs : ~Under(s))'
PROOF
  <1>1. \A s \in Runs \ {r} : job'[s].pc = "idle"
    BY OthersAreIdle DEF Answers, Decided, RunsOK
  <1> DEFINE todo == job[r].todo \ {Engine(r)}
             j == [NoJob EXCEPT !.pc = IF todo = {} THEN "idle" ELSE "engine",
                        !.claim = job[r].claim, !.todo = todo,
                        !.evidence = job[r].evidence \cup {[says |-> says, of |-> of]}]
  <1>2. job'[r] = j
    BY DEF Answers, Decided, RunsOK
  <1>3. j.pc \in {"idle", "engine"}
    BY NoJobTyped DEF Job
  <1> HIDE DEF j
  <1> QED
    BY <1>1, <1>2, <1>3 DEF Under

\* A step of a turn, but for the first: what is in the local variables stays.
LEMMA TurnLocals ==
    ASSUME Decided, NEW r \in Runs,
           \/ WriteHarness(r) \/ OpenRoot(r) \/ Attach(r) \/ Prove(r)
           \/ Restore(r) \/ CannotRestore(r) \/ RemoveFile(r)
    PROVE  /\ \A s \in Runs \ {r} : job'[s].pc = "idle"
           /\ job'[r].claim = job[r].claim /\ Engine(r)' = Engine(r)
           /\ job'[r].base = job[r].base /\ job'[r].made = job[r].made
           /\ Under(r) /\ Active(r) /\ Engine(r) \in Writing /\ job[r].claim \in Claims
PROOF
  <1>1. Active(r) /\ Under(r) /\ RunsOK /\ JobOK(r) /\ job[r] \in Job
    BY DEF WriteHarness, OpenRoot, Attach, Prove, Restore, CannotRestore, RemoveFile,
       Active, Under, Decided, RunsOK
  <1>2. \A s \in Runs \ {r} : job[s].pc = "idle"
    BY <1>1, OthersAreIdle
  <1>3. Engine(r) \in Writing /\ job[r].claim \in Claims
    BY <1>1 DEF JobOK, Under
  <1>4. /\ \A s \in Runs \ {r} : job'[s] = job[s]
        /\ job'[r].claim = job[r].claim /\ job'[r].todo = job[r].todo
        /\ job'[r].base = job[r].base /\ job'[r].made = job[r].made
    <2>1. CASE WriteHarness(r)
      BY <1>1, <2>1 DEF WriteHarness, RunsOK, Job
    <2>2. CASE Attach(r)
      BY <1>1, <2>2 DEF Attach, RunsOK, Job
    <2>3. CASE Prove(r)
      <3>1. PICK pc, out : job' = [job EXCEPT ![r].pc = pc, ![r].out = out]
        BY <2>3 DEF Prove
      <3> QED
        BY <1>1, <3>1 DEF RunsOK, Job
    <2>4. CASE OpenRoot(r) \/ Restore(r) \/ CannotRestore(r)
      <3>1. PICK pc : job' = [job EXCEPT ![r].pc = pc]
        BY <2>4 DEF OpenRoot, Restore, CannotRestore
      <3> QED
        BY <1>1, <3>1 DEF RunsOK, Job
    <2>5. CASE RemoveFile(r)
      BY <1>1, <2>5 DEF RemoveFile, RunsOK, Job
    <2> QED
      BY <2>1, <2>2, <2>3, <2>4, <2>5
  <1> QED
    BY <1>1, <1>2, <1>3, <1>4 DEF Engine

LEMMA LookKept ==
    ASSUME Kept, NEW r \in Runs, Look(r)
    PROVE  Kept'
PROOF
  <1> DEFINE e == Engine(r)
             c == job[r].claim
  <1>1. /\ Active(r) /\ RunsOK /\ ~Under(r) /\ e \in Writing /\ c \in Claims
        /\ job[r].pc = "engine" /\ job[r] \in Job /\ Decided'
    BY EngineTyped, LookDecided DEF Look, Active, Under, Kept, Decided, RunsOK
  <1>2. \A s \in Runs \ {r} : job'[s].pc = "idle" /\ job[s].pc = "idle"
    BY <1>1, OthersAreIdle DEF Kept, Look, RunsOK
  <1>3. /\ job'[r].claim = c /\ job'[r].todo = job[r].todo /\ job'[r].base = disk.root
        /\ job'[r].made = Litter(e) \ disk.there /\ job'[r].pc = "writing"
    BY <1>1 DEF Look, RunsOK, Job
  <1>4. Engine(r)' = e
    BY <1>3 DEF Engine
  <1>5. UNCHANGED <<disk, mine, disturbed, cut>>
    BY DEF Look
  <1>6. e \in Deductive => mine.src[c] # Operators
    <2>1. ASSUME e \in Deductive PROVE disk.src[c] # Operators
      <3>1. HarnessAt(r) = disk.src[c]
        BY <2>1 DEF HarnessAt, Place, Deductive
      <3> QED
        BY <2>1, <3>1 DEF Look, Refuses, Free, Operators, Line
    <2> QED
      BY <1>1, <2>1 DEF Kept, OperatorsStands
  <1>7. OperatorsStands'
    <2>1. disk.root.text = RootText
      BY <1>1, <1>2 DEF Kept, OperatorsStands, Opens, RootOpen
    <2>2. RootText' = RootText /\ ~\E s \in Runs : Opens(s)'
      BY <1>2, <1>3, <1>5 DEF RootText, Opens, RootOpen
    <2>3. /\ mine.there \subseteq disk.there
          /\ \A d \in Claims : mine.src[d] = Operators => disk.src[d] = Operators
      BY DEF Kept, OperatorsStands
    <2> QED
      BY <1>2, <1>3, <1>4, <1>5, <1>6, <2>1, <2>2, <2>3 DEF OperatorsStands, Under
  <1>8. ~disturbed => OthersGo'
    <2> SUFFICES ASSUME ~disturbed PROVE OthersGo'
      OBVIOUS
    <2>1. TreeIsClean
      BY <1>1, <1>2, CleanBetweenTurns DEF Kept, OperatorsStands, Under, RootText, Opens,
         RootOpen, HoldsRoot
    <2> QED
      BY <1>2, <1>3, <1>4, <1>5, <2>1 DEF OthersGo, TreeIsClean, Under, HoldsRoot
  <1> QED
    BY <1>1, <1>5, <1>7, <1>8 DEF Kept

LEMMA WriteHarnessKept ==
    ASSUME Kept, NEW r \in Runs, WriteHarness(r)
    PROVE  Kept'
PROOF
  <1> DEFINE e == Engine(r)
             c == job[r].claim
  <1>1. /\ \A s \in Runs \ {r} : job'[s].pc = "idle" /\ job[s].pc = "idle"
        /\ job'[r].claim = c /\ Engine(r)' = e
        /\ job'[r].base = job[r].base /\ job'[r].made = job[r].made
        /\ Under(r) /\ Active(r) /\ e \in Writing /\ c \in Claims
    BY TurnLocals, OthersAreIdle DEF Kept
  <1>2. /\ Decided' /\ disk \in Disk /\ job[r].pc = "writing"
        /\ job'[r].pc = IF e = "Kani" THEN "proving" ELSE "attaching"
    BY WriteHarnessDecided DEF Kept, WriteHarness, Decided, RunsOK, Job
  <1>3. UNCHANGED <<mine, disturbed, cut>>
    BY DEF WriteHarness
  <1>4. CASE e = "Kani"
    <2>1. disk' = [disk EXCEPT !["tests"][c] = Line(e, c), !.there = @ \cup {"tests"}]
      BY <1>4 DEF WriteHarness, Place
    <2>2. /\ disk'.root = disk.root /\ disk'.src = disk.src
          /\ disk'.there = disk.there \cup {"tests"}
          /\ disk'.tests = [disk.tests EXCEPT ![c] = Line(e, c)]
      BY <1>2, <2>1 DEF Disk
    <2>3. OperatorsStands'
      BY <1>1, <1>2, <1>3, <1>4, <2>2 DEF Kept, OperatorsStands, Under, RootText, Opens,
         RootOpen, HoldsRoot, Deductive
    <2>4. ~disturbed => OthersGo'
      BY <1>1, <1>2, <1>3, <1>4, <2>2 DEF Kept, OthersGo, Under, HoldsRoot, HasLine, HasHarness,
         HasTest, HasLitter, Litter, Deductive, Disk
    <2> QED
      BY <1>2, <1>3, <2>3, <2>4 DEF Kept
  <1>5. CASE e # "Kani"
    <2>1. disk' = [disk EXCEPT !["src"][c] = Line(e, c), !.there = @ \cup {}]
      BY <1>5 DEF WriteHarness, Place
    <2>2. /\ disk'.root = disk.root /\ disk'.tests = disk.tests
          /\ disk'.there = disk.there
          /\ disk'.src = [disk.src EXCEPT ![c] = Line(e, c)]
      BY <1>2, <2>1 DEF Disk
    <2>3. OperatorsStands'
      BY <1>1, <1>2, <1>3, <1>5, <2>2 DEF Kept, OperatorsStands, Under, RootText, Opens,
         RootOpen, HoldsRoot, Writing, Disk
    <2>4. ~disturbed => OthersGo'
      BY <1>1, <1>2, <1>3, <1>5, <2>2 DEF Kept, OthersGo, Under, HoldsRoot, HasLine, HasHarness,
         HasTest, HasLitter, Writing, Disk
    <2> QED
      BY <1>2, <1>3, <2>3, <2>4 DEF Kept
  <1> QED
    BY <1>4, <1>5

LEMMA OpenRootKept ==
    ASSUME Kept, NEW r \in Runs, OpenRoot(r)
    PROVE  Kept'
PROOF
  <1> DEFINE e == Engine(r)
             c == job[r].claim
  <1>1. /\ \A s \in Runs \ {r} : job'[s].pc = "idle" /\ job[s].pc = "idle"
        /\ job'[r].claim = c /\ Engine(r)' = e
        /\ job'[r].base = job[r].base /\ job'[r].made = job[r].made
        /\ Under(r) /\ Active(r) /\ e \in Writing /\ c \in Claims
    BY TurnLocals, OthersAreIdle DEF Kept
  <1>2. /\ Decided' /\ disk \in Disk /\ e \in Deductive
        /\ job[r].pc \in {"attaching", "restoring"}
        /\ job'[r].pc = (IF job[r].pc = "attaching" THEN "appending" ELSE "rewriting")
    BY OpenRootDecided DEF Kept, OpenRoot, Decided, RunsOK, Job, JobOK
  <1>3. UNCHANGED <<mine, disturbed, cut>>
    BY DEF OpenRoot
  <1>4. /\ disk'.root.text = None /\ disk'.root.mods = <<>> /\ disk'.src = disk.src
        /\ disk'.there = disk.there /\ disk'.tests = disk.tests
    BY <1>2 DEF OpenRoot, Disk, Emptied
  <1>5. OperatorsStands'
    BY <1>1, <1>2, <1>3, <1>4 DEF Kept, OperatorsStands, Under, RootText, Opens, RootOpen,
       HoldsRoot
  <1>6. ~disturbed => OthersGo'
    BY <1>1, <1>2, <1>3, <1>4 DEF Kept, OthersGo, Under, HoldsRoot, HasLine, HasHarness,
       HasTest, HasLitter
  <1> QED
    BY <1>2, <1>3, <1>5, <1>6 DEF Kept

LEMMA AttachKept ==
    ASSUME Kept, NEW r \in Runs, Attach(r)
    PROVE  Kept'
PROOF
  <1> DEFINE e == Engine(r)
             c == job[r].claim
             conf == IF e = "Creusot" THEN {"why3find.json"} ELSE {}
  <1>1. /\ \A s \in Runs \ {r} : job'[s].pc = "idle" /\ job[s].pc = "idle"
        /\ job'[r].claim = c /\ Engine(r)' = e
        /\ job'[r].base = job[r].base /\ job'[r].made = job[r].made
        /\ Under(r) /\ Active(r) /\ e \in Writing /\ c \in Claims
    BY TurnLocals, OthersAreIdle DEF Kept
  <1>2. /\ Decided' /\ disk \in Disk /\ job[r].pc = "appending" /\ job'[r].pc = "proving"
        /\ e \in Deductive /\ job[r].base \in Root
    BY AttachDecided DEF Kept, Attach, Decided, RunsOK, Job, JobOK, HoldsRoot, RootOpen
  <1>3. UNCHANGED <<mine, disturbed, cut>>
    BY DEF Attach
  <1>4. /\ disk'.root.text = job[r].base.text /\ disk'.src = disk.src
        /\ disk'.there = disk.there \cup conf /\ disk'.tests = disk.tests
    BY <1>2 DEF Attach, Disk, Root
  <1>5. conf \subseteq Litter(e)
    BY DEF Litter
  <1>6. OperatorsStands'
    BY <1>1, <1>2, <1>3, <1>4 DEF Kept, OperatorsStands, Under, RootText, Opens, RootOpen,
       HoldsRoot
  <1>7. ~disturbed => OthersGo'
    <2> HIDE DEF conf
    <2> QED
      BY <1>1, <1>2, <1>3, <1>4, <1>5 DEF Kept, OthersGo, Under, HoldsRoot, HasLine, HasHarness,
         HasTest, HasLitter
  <1> QED
    BY <1>2, <1>3, <1>6, <1>7 DEF Kept

LEMMA ProveKept ==
    ASSUME Kept, NEW r \in Runs, Prove(r)
    PROVE  Kept'
PROOF
  <1> DEFINE e == Engine(r)
             c == job[r].claim
  <1>1. /\ \A s \in Runs \ {r} : job'[s].pc = "idle" /\ job[s].pc = "idle"
        /\ job'[r].claim = c /\ Engine(r)' = e
        /\ job'[r].base = job[r].base /\ job'[r].made = job[r].made
        /\ Under(r) /\ Active(r) /\ e \in Writing /\ c \in Claims
    BY TurnLocals, OthersAreIdle DEF Kept
  <1>2. /\ Decided' /\ disk \in Disk /\ job[r].pc = "proving"
        /\ job'[r].pc = IF e = "Kani" THEN "removing" ELSE "restoring"
    <2>1. PICK out : job' = [job EXCEPT
                ![r].pc = IF e = "Kani" THEN "removing" ELSE "restoring", ![r].out = out]
      BY DEF Prove
    <2> QED
      BY <2>1, ProveDecided DEF Kept, Prove, Decided, RunsOK, Job
  <1>3. UNCHANGED <<mine, disturbed, cut>>
    BY DEF Prove
  <1>4. /\ disk'.root = disk.root /\ disk'.src = disk.src
        /\ disk'.there = disk.there \cup Litter(e) /\ disk'.tests = disk.tests
    BY <1>2 DEF Prove, Disk
  <1>5. OperatorsStands'
    BY <1>1, <1>2, <1>3, <1>4 DEF Kept, OperatorsStands, Under, RootText, Opens, RootOpen,
       HoldsRoot
  <1>6. ~disturbed => OthersGo'
    BY <1>1, <1>2, <1>3, <1>4 DEF Kept, OthersGo, Under, HoldsRoot, HasLine, HasHarness,
       HasTest, HasLitter, Deductive, Writing
  <1> QED
    BY <1>2, <1>3, <1>5, <1>6 DEF Kept

LEMMA RestoreKept ==
    ASSUME Kept, NEW r \in Runs, Restore(r)
    PROVE  Kept'
PROOF
  <1> DEFINE e == Engine(r)
             c == job[r].claim
  <1>1. /\ \A s \in Runs \ {r} : job'[s].pc = "idle" /\ job[s].pc = "idle"
        /\ job'[r].claim = c /\ Engine(r)' = e
        /\ job'[r].base = job[r].base /\ job'[r].made = job[r].made
        /\ Under(r) /\ Active(r) /\ e \in Writing /\ c \in Claims
    BY TurnLocals, OthersAreIdle DEF Kept
  <1>2. /\ Decided' /\ disk \in Disk /\ job[r].pc = "rewriting" /\ job'[r].pc = "removing"
        /\ e \in Deductive
    BY RestoreDecided DEF Kept, Restore, Decided, RunsOK, Job, JobOK, RootOpen
  <1>3. UNCHANGED <<mine, disturbed, cut>>
    BY DEF Restore
  <1>4. /\ disk'.root = job[r].base /\ disk'.src = disk.src
        /\ disk'.there = disk.there /\ disk'.tests = disk.tests
    BY <1>2 DEF Restore, Disk
  <1>5. OperatorsStands'
    BY <1>1, <1>2, <1>3, <1>4 DEF Kept, OperatorsStands, Under, RootText, Opens, RootOpen,
       HoldsRoot
  <1>6. ~disturbed => OthersGo'
    BY <1>1, <1>2, <1>3, <1>4 DEF Kept, OthersGo, Under, HoldsRoot, HasLine, HasHarness,
       HasTest, HasLitter
  <1> QED
    BY <1>2, <1>3, <1>5, <1>6 DEF Kept

LEMMA CannotRestoreKept ==
    ASSUME Kept, NEW r \in Runs, CannotRestore(r)
    PROVE  Kept'
PROOF
  <1> DEFINE e == Engine(r)
             c == job[r].claim
  <1>1. /\ \A s \in Runs \ {r} : job'[s].pc = "idle" /\ job[s].pc = "idle"
        /\ job'[r].claim = c /\ Engine(r)' = e
        /\ job'[r].base = job[r].base /\ job'[r].made = job[r].made
        /\ Under(r) /\ Active(r) /\ e \in Writing /\ c \in Claims
    BY TurnLocals, OthersAreIdle DEF Kept
  <1>2. /\ Decided' /\ disk \in Disk /\ job[r].pc \in {"restoring", "rewriting"}
        /\ job'[r].pc = "removing"
    BY RestoreDecided DEF Kept, CannotRestore, Decided, RunsOK, Job, JobOK
  <1>3. /\ disturbed' /\ UNCHANGED <<disk, mine>>
        /\ cut' = (cut \/ job[r].pc = "rewriting")
    BY DEF CannotRestore
  <1>4. OperatorsStands'
    <2>1. /\ disk.root.text = (IF Opens(r) THEN None ELSE RootText)
          /\ Opens(r) <=> job[r].pc = "rewriting"
      BY <1>1, <1>2 DEF Kept, OperatorsStands, Opens, RootOpen
    <2>2. disk'.root.text = RootText' /\ ~\E s \in Runs : Opens(s)'
      BY <1>1, <1>2, <1>3, <2>1 DEF RootText, Opens, RootOpen
    <2>3. /\ mine.there \subseteq disk.there
          /\ \A d \in Claims : mine.src[d] = Operators => disk.src[d] = Operators
          /\ job[r].made \cap mine.there = {}
          /\ e \in Deductive => mine.src[c] # Operators
      BY <1>1 DEF Kept, OperatorsStands
    <2> QED
      BY <1>1, <1>2, <1>3, <2>2, <2>3 DEF OperatorsStands, Under, HoldsRoot
  <1> QED
    BY <1>2, <1>3, <1>4 DEF Kept

LEMMA RemoveKept ==
    ASSUME Kept, NEW r \in Runs, RemoveFile(r)
    PROVE  Kept'
PROOF
  <1> DEFINE e == Engine(r)
             c == job[r].claim
  <1>1. /\ \A s \in Runs \ {r} : job'[s].pc = "idle" /\ job[s].pc = "idle"
        /\ job'[r].claim = c /\ Engine(r)' = e
        /\ job'[r].base = job[r].base /\ job'[r].made = job[r].made
        /\ Under(r) /\ Active(r) /\ e \in Writing /\ c \in Claims
    BY TurnLocals, OthersAreIdle DEF Kept
  <1>2. /\ Decided' /\ disk \in Disk /\ job[r].pc = "removing" /\ job'[r].pc = "sweeping"
        /\ mine \in Mine
    BY RemoveDecided DEF Kept, RemoveFile, Decided, RunsOK, Job, JobOK
  <1>3. PICK left \in {Free, HarnessAt(r)} :
            /\ disk' = [disk EXCEPT ![Place(e)][c] = left]
            /\ disturbed' = (disturbed \/ left # Free)
    BY DEF RemoveFile
  <1>4. UNCHANGED <<mine, cut>>
    BY DEF RemoveFile
  <1>5. CASE left # Free
    <2>1. left = disk[Place(e)][c] /\ Place(e) \in {"tests", "src"}
      BY <1>3, <1>5 DEF HarnessAt, Place
    <2>2. /\ disk'.root = disk.root /\ disk'.src = disk.src /\ disk'.there = disk.there
          /\ disk'.tests = disk.tests
      BY <1>1, <1>2, <1>3, <2>1 DEF Disk
    <2>3. OperatorsStands'
      BY <1>1, <1>2, <1>4, <2>2 DEF Kept, OperatorsStands, Under, RootText, Opens, RootOpen,
         HoldsRoot
    <2> QED
      BY <1>2, <1>3, <1>5, <2>3 DEF Kept
  <1>6. CASE left = Free /\ e = "Kani"
    <2>1. disk' = [disk EXCEPT !["tests"][c] = Free]
      BY <1>3, <1>6 DEF Place
    <2>2. /\ disk'.root = disk.root /\ disk'.src = disk.src /\ disk'.there = disk.there
          /\ disk'.tests = [disk.tests EXCEPT ![c] = Free]
      BY <1>2, <2>1 DEF Disk
    <2>3. OperatorsStands'
      BY <1>1, <1>2, <1>4, <1>6, <2>2 DEF Kept, OperatorsStands, Under, RootText, Opens,
         RootOpen, HoldsRoot
    <2>4. ~disturbed => OthersGo'
      BY <1>1, <1>2, <1>4, <1>6, <2>2 DEF Kept, OthersGo, Under, HoldsRoot, HasLine,
         HasHarness, HasTest, HasLitter, Deductive, Disk
    <2> QED
      BY <1>2, <1>3, <2>3, <2>4 DEF Kept
  <1>7. CASE left = Free /\ e # "Kani"
    <2>1. disk' = [disk EXCEPT !["src"][c] = Free] /\ e \in Deductive
      BY <1>1, <1>3, <1>7 DEF Place, Writing
    <2>2. /\ disk'.root = disk.root /\ disk'.tests = disk.tests /\ disk'.there = disk.there
          /\ disk'.src = [disk.src EXCEPT ![c] = Free]
      BY <1>2, <2>1 DEF Disk
    <2>3. mine.src[c] = Free
      BY <1>1, <1>2, <2>1 DEF Kept, OperatorsStands, Mine
    <2>4. OperatorsStands'
      BY <1>1, <1>2, <1>4, <2>1, <2>2, <2>3 DEF Kept, OperatorsStands, Under, RootText, Opens,
         RootOpen, HoldsRoot, Disk
    <2>5. ~disturbed => OthersGo'
      BY <1>1, <1>2, <1>4, <2>1, <2>2, <2>3, <1>7 DEF Kept, OthersGo, Under, HoldsRoot,
         HasLine, HasHarness, HasTest, HasLitter, Disk
    <2> QED
      BY <1>2, <1>3, <2>4, <2>5 DEF Kept
  <1> QED
    BY <1>5, <1>6, <1>7

\* A run that writes nothing, or launches, or was not let near the tree.
LEMMA NothingWrittenKept ==
    ASSUME Kept, Decided', (\A s \in Runs : ~Under(s))', \A s \in Runs : ~Under(s),
           UNCHANGED <<disk, mine, disturbed, cut>>
    PROVE  Kept'
PROOF
  <1>1. ~disturbed => TreeIsClean
    BY CleanBetweenTurns DEF Kept, OperatorsStands, Decided
  <1>2. ~disturbed' => TreeIsClean'
    BY <1>1 DEF TreeIsClean
  <1> QED
    BY <1>2, TurnEndsKept DEF Kept, OperatorsStands, RootText, Opens, RootOpen, Under

LEMMA BetweenTurnsKept ==
    ASSUME Kept, NothingOverlaps, NEW r \in Runs,
           (\E c \in Claims : Launch(r, c)) \/ Observe(r) \/ Refuse(r)
    PROVE  Kept'
PROOF
  <1>1. Decided'
    BY LaunchDecided, ObserveDecided, RefuseDecided DEF Kept
  <1>2. UNCHANGED <<disk, mine, disturbed, cut>>
    BY DEF Launch, Observe, Refuse
  <1>3. CASE \E c \in Claims : Launch(r, c)
    <2>1. \A s \in Runs : ~Under(s)
      BY <1>3 DEF Launch, NothingOverlaps, AtRest, Under
    <2>2. PICK c, ready :
            job' = [job EXCEPT ![r] = [NoJob EXCEPT !.pc = "engine", !.claim = c,
                                                  !.todo = ready]]
      BY <1>3 DEF Launch
    <2>3. (\A s \in Runs : ~Under(s))'
      BY <2>1, <2>2, NoJobTyped DEF Under, Kept, Decided, RunsOK, Job
    <2> QED
      BY <1>1, <1>2, <2>1, <2>3, NothingWrittenKept
  <1>4. CASE Observe(r) \/ Refuse(r)
    <2>1. Active(r) /\ job[r].pc = "engine"
      BY <1>4 DEF Observe, Refuse, Active
    <2>2. \A s \in Runs : ~Under(s)
      BY <2>1, OthersAreIdle DEF Kept, Under
    <2>3. (\A s \in Runs : ~Under(s))'
      BY <1>4, <2>1, AnswersEnd DEF Observe, Refuse, Kept
    <2> QED
      BY <1>1, <1>2, <2>2, <2>3, NothingWrittenKept
  <1> QED
    BY <1>3, <1>4

LEMMA CannotWriteKept ==
    ASSUME Kept, NEW r \in Runs, CannotWrite(r)
    PROVE  Kept'
PROOF
  <1> DEFINE e == Engine(r)
             c == job[r].claim
  <1>1. /\ Decided' /\ Active(r) /\ Under(r) /\ disk \in Disk /\ mine \in Mine
        /\ job[r].pc = "writing" /\ e \in Writing /\ c \in Claims
    BY CannotWriteDecided DEF Kept, Decided, RunsOK, JobOK, CannotWrite, Active, Under
  <1>2. (\A s \in Runs : ~Under(s))'
    BY <1>1, AnswersEnd DEF CannotWrite, Kept
  <1>3. \A s \in Runs \ {r} : job[s].pc = "idle"
    BY <1>1, OthersAreIdle DEF Kept
  <1>4. PICK left \in {HarnessAt(r), Line(e, c)} :
            disk' = [disk EXCEPT ![Place(e)][c] = left,
                        !.there = @ \cup (IF e = "Kani" THEN {"tests"} ELSE {})]
    BY DEF CannotWrite
  <1>5. mine' = mine /\ cut' = cut /\ disturbed' = (disturbed \/ disk' # disk)
    BY DEF CannotWrite
  <1>6. disk'.root = disk.root /\ disk.there \subseteq disk'.there
    BY <1>1, <1>4 DEF Disk, Place
  <1>7. \A d \in Claims : mine.src[d] = Operators => disk'.src[d] = Operators
    <2>1. CASE e = "Kani"
      <3>1. disk'.src = disk.src
        BY <1>1, <1>4, <2>1 DEF Disk, Place
      <3> QED
        BY <3>1 DEF Kept, OperatorsStands
    <2>2. CASE e # "Kani"
      <3>1. e \in Deductive
        BY <1>1, <2>2 DEF Writing
      <3>2. mine.src[c] # Operators
        BY <1>1, <3>1 DEF Kept, OperatorsStands
      <3>3. disk' = [disk EXCEPT !["src"][c] = left, !.there = @ \cup {}]
        BY <1>4, <2>2 DEF Place
      <3>4. disk'.src = [disk.src EXCEPT ![c] = left]
        BY <1>1, <3>3 DEF Disk
      <3> QED
        BY <1>1, <3>2, <3>4 DEF Kept, OperatorsStands, Disk
    <2> QED
      BY <2>1, <2>2
  <1>8. disk.root.text = RootText
    BY <1>1, <1>3 DEF Kept, OperatorsStands, Opens, RootOpen
  <1>9. ~disturbed' => TreeIsClean'
    <2>1. ~disturbed => TreeIsClean
      BY ZenonT(30), <1>1, <1>3, SrcIsMine DEF Kept, OthersGo, HasLine, HasHarness,
         HasTest, HasLitter,
         TreeIsClean, OperatorsStands, Decided
    <2> QED
      BY <1>5, <2>1 DEF TreeIsClean
  <1> QED
    BY <1>1, <1>2, <1>5, <1>6, <1>7, <1>8, <1>9, TurnEndsKept DEF Kept, OperatorsStands,
       RootText

LEMMA CannotAttachKept ==
    ASSUME Kept, NEW r \in Runs, CannotAttach(r)
    PROVE  Kept'
PROOF
  <1> DEFINE c == job[r].claim
             opened == job[r].pc = "appending"
  <1>1. /\ Decided' /\ Active(r) /\ disk \in Disk /\ mine \in Mine
        /\ job[r].pc \in {"attaching", "appending"}
        /\ Engine(r) \in Deductive /\ c \in Claims /\ Under(r)
    BY CannotAttachDecided
       DEF Kept, Decided, RunsOK, CannotAttach, Active, JobOK, Under, RootOpen
  <1>2. (\A s \in Runs : ~Under(s))'
    BY <1>1, AnswersEnd DEF CannotAttach, Kept
  <1>3. \A s \in Runs \ {r} : job[s].pc = "idle"
    BY <1>1, OthersAreIdle DEF Kept
  <1>4. PICK left \in {Free, HarnessAt(r)} :
            /\ disk' = [disk EXCEPT !.src[c] = left]
            /\ disturbed' = (disturbed \/ opened \/ left # Free)
    BY DEF CannotAttach
  <1>5. /\ disk'.root = disk.root /\ disk'.src = [disk.src EXCEPT ![c] = left]
        /\ disk'.tests = disk.tests /\ disk'.there = disk.there
        /\ mine' = mine /\ cut' = (cut \/ opened)
    BY <1>1, <1>4 DEF CannotAttach, Disk
  <1>6. mine.src[c] = Free
    BY <1>1 DEF Kept, OperatorsStands, Mine
  <1>7. ~disturbed' => TreeIsClean'
    <2> SUFFICES ASSUME ~disturbed, ~opened, left = Free PROVE TreeIsClean'
      BY <1>4
    <2>1. /\ \A s \in Runs : ~HasLine(s) /\ \A d \in Claims : ~HasTest(s, d)
          /\ \A s \in Runs : \A x : ~HasLitter(s, x)
          /\ \A s \in Runs, d \in Claims : HasHarness(s, d) => d = c
      BY <1>1, <1>3 DEF HasLine, HasTest, HasLitter, HasHarness
    <2>2. \A d \in Claims \ {c} : disk.src[d] = mine.src[d]
      BY <2>1 DEF Kept, OthersGo
    <2>3. disk'.src = mine.src
      BY <1>1, <1>5, <1>6, <2>2 DEF Disk, Mine
    <2> QED
      BY <1>5, <2>1, <2>3 DEF TreeIsClean, Kept, OthersGo, OperatorsStands
  <1>8. (\A d \in Claims : mine.src[d] = Operators => disk.src[d] = Operators)'
    BY <1>1, <1>5, <1>6 DEF Kept, OperatorsStands, Disk, Free, Operators, Line
  <1>9. (disk.root.text = RootText)'
    <2>1. disk.root.text = (IF opened THEN None ELSE RootText)
      BY <1>1, <1>3 DEF Kept, OperatorsStands, Opens, RootOpen
    <2> QED
      BY <1>5, <2>1 DEF RootText
  <1> QED
    BY <1>1, <1>2, <1>5, <1>7, <1>8, <1>9, TurnEndsKept DEF Kept, OperatorsStands

LEMMA SweepKept ==
    ASSUME Kept, NEW r \in Runs, Sweep(r)
    PROVE  Kept'
PROOF
  <1>1. /\ Decided' /\ Active(r) /\ disk \in Disk /\ job[r].pc = "sweeping" /\ Under(r)
    BY SweepDecided DEF Kept, Decided, RunsOK, Sweep, Active, Under
  <1>2. (\A s \in Runs : ~Under(s))'
    BY <1>1, AnswersEnd DEF Sweep, Kept
  <1>3. \A s \in Runs \ {r} : job[s].pc = "idle"
    BY <1>1, OthersAreIdle DEF Kept
  <1> DEFINE kept == IF \E c \in Claims : disk.tests[c] # Free THEN {"tests"} ELSE {}
  <1>4. PICK left \in SUBSET job[r].made :
            /\ disk' = [disk EXCEPT !.there = @ \ (job[r].made \ (kept \cup left))]
            /\ disturbed' = (disturbed \/ left # {})
    BY DEF Sweep
  <1>5. /\ disk'.root = disk.root /\ disk'.src = disk.src /\ disk'.tests = disk.tests
        /\ disk'.there = disk.there \ (job[r].made \ (kept \cup left))
        /\ UNCHANGED <<mine, cut>>
    BY <1>1, <1>4 DEF Sweep, Disk
  <1>6. mine.there \subseteq disk'.there
    BY <1>1, <1>5 DEF Kept, OperatorsStands
  <1>7. ~disturbed' => TreeIsClean'
    <2> SUFFICES ASSUME ~disturbed, left = {} PROVE TreeIsClean'
      BY <1>4
    <2>1. /\ \A s \in Runs : ~HasLine(s) /\ \A d \in Claims : ~HasTest(s, d) /\ ~HasHarness(s, d)
          /\ \A s \in Runs : \A x : HasLitter(s, x) => x \in Litter(Engine(r))
      BY <1>1, <1>3 DEF HasLine, HasTest, HasLitter, HasHarness
    <2>2. /\ disk.root.mods = <<>> /\ \A d \in Claims : disk.tests[d] = Free
          /\ disk.src = mine.src
      BY <2>1, SrcIsMine DEF Kept, OthersGo, Decided
    <2>3. disk.there \ mine.there \subseteq job[r].made
      BY <1>1, <2>1 DEF Kept, OthersGo
    <2>4. kept = {}
      BY <2>2
    <2>5. disk'.there = mine.there
      <3> HIDE DEF kept
      <3> QED
        BY <1>5, <1>6, <2>3, <2>4
    <2> QED
      BY <1>5, <2>2, <2>5 DEF TreeIsClean
  <1>8. disk.root.text = RootText
    BY <1>1, <1>3 DEF Kept, OperatorsStands, Opens, RootOpen
  <1> HIDE DEF kept
  <1> QED
    BY <1>1, <1>2, <1>5, <1>6, <1>7, <1>8, TurnEndsKept DEF Kept, OperatorsStands, RootText

LEMMA KillKept ==
    ASSUME Kept, NEW r \in Runs, Kill(r)
    PROVE  Kept'
PROOF
  <1>1. Decided' /\ Active(r)
    BY KillDecided DEF Kept, Kill, Active
  <1>2. (\A s \in Runs : ~Under(s))'
    BY <1>1, OthersAreIdle, NoJobTyped DEF Kill, Kept, Decided, RunsOK, Under
  <1>3. /\ disturbed' /\ UNCHANGED <<disk, mine>>
        /\ cut' = (cut \/ Opens(r))
    BY DEF Kill, Opens, RootOpen
  <1>4. disk.root.text = (IF Opens(r) THEN None ELSE RootText)
    BY <1>1, OthersAreIdle DEF Kept, OperatorsStands, Opens, RootOpen
  <1> QED
    BY <1>1, <1>2, <1>3, <1>4, TurnEndsKept DEF Kept, OperatorsStands, RootText

LEMMA OperatorKept ==
    ASSUME Kept, NothingOverlaps, Edit \/ Keep \/ Tidy
    PROVE  Kept'
PROOF
  <1>1. Decided' /\ AtRest /\ disk \in Disk /\ mine \in Mine
    BY OperatorDecided DEF Kept, Decided, RunsOK, Edit, Keep, Tidy, NothingOverlaps
  <1>2. (\A s \in Runs : ~Under(s)) /\ (\A s \in Runs : ~Under(s))'
    BY <1>1 DEF AtRest, Under, Edit, Keep, Tidy
  <1>3. ~disturbed => TreeIsClean
    BY <1>2, CleanBetweenTurns DEF Kept, OperatorsStands, Decided
  <1>4. CASE Edit
    <2>1. /\ disk'.root.text = mine'.text /\ disk'.root.mods = disk.root.mods
          /\ disk'.there = disk.there /\ disk'.src = disk.src /\ disk'.tests = disk.tests
          /\ mine'.there = mine.there /\ mine'.src = mine.src /\ disturbed' = disturbed
          /\ ~cut'
      BY <1>1, <1>4 DEF Edit, Disk, Mine, Root
    <2> QED
      BY <1>1, <1>2, <1>3, <2>1, TurnEndsKept
         DEF Kept, OperatorsStands, RootText, TreeIsClean
  <1>5. CASE Keep
    <2>1. PICK kept \in UNION {Litter(e) : e \in Writing} :
            /\ disk' = [disk EXCEPT !.there = @ \cup {kept}]
            /\ mine' = [mine EXCEPT !.there = @ \cup {kept}]
      BY <1>5 DEF Keep
    <2>2. /\ disk'.root = disk.root /\ disk'.there = disk.there \cup {kept}
          /\ disk'.src = disk.src /\ disk'.tests = disk.tests /\ mine'.text = mine.text
          /\ mine'.there = mine.there \cup {kept} /\ mine'.src = mine.src
          /\ disturbed' = disturbed /\ cut' = cut
      BY <1>1, <1>5, <2>1 DEF Keep, Disk, Mine
    <2>3. disk.root.text = RootText
      BY <1>2 DEF Kept, OperatorsStands, Opens, RootOpen, Under
    <2> QED
      BY <1>1, <1>2, <1>3, <2>2, <2>3, TurnEndsKept
         DEF Kept, OperatorsStands, RootText, TreeIsClean
  <1>6. CASE Tidy
    <2>1. /\ mine' = mine /\ disk'.root.text = mine.text /\ disk'.there = mine.there
          /\ disk'.src = mine.src /\ disk'.root.mods = <<>>
          /\ \A c \in Claims : disk'.tests[c] = Free
          /\ ~cut'
      BY <1>6 DEF Tidy
    <2> QED
      BY <1>1, <1>2, <2>1, TurnEndsKept DEF RootText, TreeIsClean
  <1> QED
    BY <1>4, <1>5, <1>6

LEMMA NextKept ==
    NothingOverlaps => (Kept /\ [RunsNext]_runsVars => Kept')
PROOF
  <1> SUFFICES ASSUME NothingOverlaps, Kept, [RunsNext]_runsVars PROVE Kept'
    OBVIOUS
  <1>1. ASSUME NEW r \in Runs,
               \/ \E c \in Claims : Launch(r, c)
               \/ Observe(r) \/ Look(r) \/ Refuse(r) \/ WriteHarness(r) \/ CannotWrite(r)
               \/ OpenRoot(r) \/ Attach(r) \/ CannotAttach(r) \/ Prove(r)
               \/ Restore(r) \/ CannotRestore(r) \/ RemoveFile(r) \/ Sweep(r) \/ Kill(r)
        PROVE  Kept'
    BY <1>1, BetweenTurnsKept, LookKept, WriteHarnessKept, CannotWriteKept, OpenRootKept,
       AttachKept, CannotAttachKept, ProveKept, RestoreKept, CannotRestoreKept, RemoveKept, SweepKept, KillKept
  <1>2. CASE Edit \/ Keep \/ Tidy
    BY <1>2, OperatorKept
  <1>3. CASE Rests \/ UNCHANGED runsVars
    <2>1. UNCHANGED runsVars /\ Decided'
      BY <1>3, NextDecided DEF Rests, Kept
    <2>2. UNCHANGED <<disk, job, mine, disturbed, cut>>
      BY <2>1 DEF runsVars
    <2>3. OperatorsStands'
      BY <2>2 DEF Kept, OperatorsStands, Under, RootText, Opens, RootOpen,
         HoldsRoot, Engine
    <2>4. OthersGo => OthersGo'
      <3> SUFFICES ASSUME OthersGo PROVE OthersGo'
        OBVIOUS
      <3>1. \A r \in Runs : Engine(r)' = Engine(r) /\ (Under(r)' <=> Under(r))
        BY <2>2 DEF Engine, Under
      <3>2. (disk.root.mods # <<>> => \E r \in Runs : HasLine(r))'
        BY <2>2, <3>1 DEF OthersGo, HasLine
      <3>3. (\A c \in Claims :
                /\ disk.src[c] # mine.src[c] => \E r \in Runs : HasHarness(r, c)
                /\ disk.tests[c] # Free => \E r \in Runs : HasTest(r, c))'
        BY <2>2, <3>1 DEF OthersGo, HasHarness, HasTest
      <3>4. (\A x \in disk.there \ mine.there : \E r \in Runs : HasLitter(r, x))'
        BY ZenonT(30), <2>2, <3>1 DEF OthersGo, HasLitter, Litter
      <3>5. (\A r \in Runs : Under(r) =>
                /\ Litter(Engine(r)) \ mine.there \subseteq job[r].made
                /\ job[r].pc \in HoldsRoot => job[r].base.mods = <<>>)'
        BY <2>2, <3>1 DEF OthersGo, Litter
      <3> QED
        BY <3>2, <3>3, <3>4, <3>5 DEF OthersGo
    <2> QED
      BY <2>1, <2>2, <2>3, <2>4 DEF Kept
  <1> QED
    BY <1>1, <1>2, <1>3 DEF RunsNext

LEMMA WhatIsKept == ASSUME Kept PROVE SubjectAsItWas
PROOF
  <1> SUFFICES ASSUME AtRest
               PROVE  /\ disk.root.text = RootText
                      /\ OperatorsStands
                      /\ ~disturbed => TreeIsClean
    BY DEF SubjectAsItWas, OperatorsStands, RootText, TreeIsClean
  <1>1. \A r \in Runs : ~Under(r) /\ ~Opens(r)
    BY DEF AtRest, Under, Opens, RootOpen
  <1> QED
    BY <1>1, CleanBetweenTurns DEF Kept, OperatorsStands, Decided

\* "Restore the subject exactly as it was": between runs the operator's files
\* and directories are all there, the text of the crate root is unless a write
\* of it died or failed half way, and unless a run died or could not write or
\* remove, nothing else is there (run of kani.rs, creusot.rs and prusti.rs).
THEOREM TheSubjectIsRestored ==
    ASSUME NothingOverlaps
    PROVE  RunsSpec => []SubjectAsItWas
PROOF
  <1>1. RunsInit => Kept
    BY InitKept
  <1>2. Kept /\ [RunsNext]_runsVars => Kept'
    BY NextKept
  <1>3. Kept => SubjectAsItWas
    BY WhatIsKept
  <1> QED
    BY <1>1, <1>2, <1>3, PTL DEF RunsSpec

\* The variables of the runs keep their types.
THEOREM RunsTypeCorrect ==
    ASSUME NothingOverlaps
    PROVE  RunsSpec => []RunsOK
PROOF
  <1>1. Decided => RunsOK
    BY DEF Decided
  <1> QED
    BY <1>1, DecidedAlways, PTL

-----------------------------------------------------------------------------
(***************************************************************************)
(* Sources a model drafts for: between the steps of the command they are   *)
(* whole, and what it has drafted is keyed to lines that are there.        *)
(***************************************************************************)

SigOnce(t) == \A i, j \in DOMAIN t : t[i].k = "sig" /\ t[i] = t[j] => i = j

Whole(t) == t \in Seq(SourceLine) /\ SigOnce(t) /\ InnerFirst(t) /\ EachAboveItsOwn(t)

\* The operator's lines are there, and all others are provreq's, or an inner
\* attribute.
Keeps(f, t) ==
    /\ ToSet(subject.text[f]) \subseteq ToSet(t)
    /\ \A l \in ToSet(t) : l \in ToSet(subject.text[f]) \/ l.k \in Drafted \cup {"use", "inner"}
    /\ subject.dialect = "Pure" => \A l \in ToSet(t) : l.k \notin {"link", "mirror"}

SourcesStand(sources) ==
    /\ DOMAIN sources = DOMAIN subject.text
    /\ \A f \in DOMAIN subject.text :
          Whole(sources[f]) /\ Keeps(f, sources[f]) /\ InScope(f, sources[f])
    /\ MirrorsAreChecked(sources)

Semantic == {"requires", "ensures", "link", "mirror"}
Undrafted(sources) ==
    \A f \in DOMAIN subject.text : \A l \in ToSet(sources[f]) :
        l.k \in Semantic => l \in ToSet(subject.text[f])

\* Where the functions were found, and that they are there still.
Found(at) ==
    /\ at = [fn \in Targets |-> at[fn]]
    /\ \A fn \in Targets : at[fn].file = FileOf(fn)
    /\ \A fn, gn \in Targets : at[fn].file = at[gn].file /\ at[fn].line = at[gn].line => fn = gn
Finds(at, sources) ==
    \A fn \in Targets : /\ at[fn].line \in DOMAIN sources[FileOf(fn)]
                        /\ sources[FileOf(fn)][at[fn].line] = Sig(fn)

\* Clauses are keyed to a signature each, and are of this round.
ClausesOf(fn, round) ==
    {[i \in DOMAIN cs |-> [k |-> cs[i], fn |-> fn, round |-> round]] : cs \in Clauses \ {<<>>}}
DraftsAre(c, done) ==
    /\ IsFiniteSet(c.drafts)
    /\ \A d \in c.drafts : \E fn \in done :
          /\ d.file = c.at[fn].file /\ d.line = c.at[fn].line
          /\ d.line \in DOMAIN c.sources[d.file] /\ c.sources[d.file][d.line].k = "sig"
          /\ d.lines \in ClausesOf(c.sources[d.file][d.line].fn, c.attempts)
    /\ \A d, e \in c.drafts : d.file = e.file /\ d.line = e.line => d = e
MirrorsAre(c, done) ==
    /\ IsFiniteSet(c.mirrors)
    /\ \A m \in c.mirrors : \E fn \in done, calls \in SUBSET (Targets \cup {"ghost", "old"}), int \in BOOLEAN :
          m = [fn |-> fn, file |-> c.at[fn].file, line |-> c.at[fn].line,
               calls |-> QualifyPeerCalls(fn, calls), int |-> int]
    /\ \A m, o \in c.mirrors : m.fn = o.fn => m = o

ToDo(todo) == todo \in Seq(Targets) /\ IsInjective(todo)
Flags(c) == DOMAIN c = {"pc", "semantic", "repair", "at"} /\ Found(c.at)
Session(c) ==
    /\ DOMAIN c = {"pc", "repair", "at", "sources", "todo", "mirrors", "drafts", "attempts"}
    /\ c.attempts \in Nat
    /\ Found(c.at) /\ SourcesStand(c.sources) /\ Undrafted(c.sources)
    /\ subject.dialect \in {"Logic", "Pure"}
    /\ subject.dialect = "Logic" => c.drafts = {} /\ Finds(c.at, c.sources)
    /\ subject.dialect = "Pure" => c.mirrors = {}

CliIs(c) ==
    \/ c.pc = "idle"
    \/ c.pc = "markers" /\ Flags(c) /\ Undrafted(tree) /\ Finds(c.at, tree)
    \/ c.pc = "load" /\ Flags(c) /\ Undrafted(tree) /\ (subject.dialect # "Pure" => Finds(c.at, tree))
    \/ /\ c.pc = "mirrors" /\ Session(c) /\ ToDo(c.todo) /\ subject.dialect = "Logic"
       /\ MirrorsAre(c, Targets \ ToSet(c.todo))
    \/ /\ c.pc = "clauses" /\ Session(c) /\ ToDo(c.todo) /\ subject.dialect = "Pure"
       /\ DraftsAre(c, Targets \ ToSet(c.todo))
    \/ /\ c.pc = "stage" /\ Session(c) /\ DraftsAre(c, Targets) /\ MirrorsAre(c, Targets)
       /\ c.mirrors = Standing(c.mirrors, Declared(c.sources))
       /\ DOMAIN tree = DOMAIN subject.text /\ c.todo \subseteq DOMAIN tree
       /\ \A f \in DOMAIN tree \ c.todo :
             tree[f] = StagedSource(f, c.drafts, c.mirrors, subject.dialect)
    \/ c.pc = "verify" /\ Session(c)

DraftingInv ==
    /\ subject \in Subjects
    /\ ~touched =>
          /\ CliIs(cli)
          /\ cli.pc # "stage" => SourcesStand(tree)
          /\ cli.pc # "idle" => ~told.proved
          /\ ToldIsProved

-----------------------------------------------------------------------------
(***************************************************************************)
(* Lines put into a text.                                                  *)
(***************************************************************************)

LEMMA InsertedIs ==
    ASSUME NEW X, NEW t \in Seq(X), NEW ls \in Seq(X), NEW n \in 1..Len(t) + 1
    PROVE  /\ InsertAbove(t, n, ls) \in Seq(X)
           /\ Len(InsertAbove(t, n, ls)) = Len(t) + Len(ls)
           /\ \A i \in 1..n - 1 : InsertAbove(t, n, ls)[i] = t[i]
           /\ \A i \in 1..Len(ls) : InsertAbove(t, n, ls)[n - 1 + i] = ls[i]
           /\ \A i \in n..Len(t) : InsertAbove(t, n, ls)[i + Len(ls)] = t[i]
PROOF
  <1> DEFINE a == SubSeq(t, 1, n - 1)
             b == SubSeq(t, n, Len(t))
  <1>1. /\ Len(t) \in Nat /\ Len(ls) \in Nat /\ n \in Nat /\ 1 <= n /\ n <= Len(t) + 1
    OBVIOUS
  <1>2. /\ a \in Seq(X) /\ Len(a) = n - 1 /\ \A i \in 1..n - 1 : a[i] = t[i]
    <2>1. \A i \in 1..n - 1 : t[i] \in X
      BY <1>1
    <2>2. a = [i \in 1..n - 1 |-> t[i]]
      BY <1>1
    <2> QED
      BY <1>1, <2>1, <2>2
  <1>3. /\ b \in Seq(X) /\ Len(b) = Len(t) - n + 1
        /\ \A i \in 1..Len(t) - n + 1 : b[i] = t[n - 1 + i]
    BY <1>1
  <1> DEFINE c == a \o ls
  <1> HIDE DEF a, b
  <1>4. /\ c \in Seq(X) /\ Len(c) = n - 1 + Len(ls)
        /\ \A i \in 1..n - 1 : c[i] = t[i]
        /\ \A i \in 1..Len(ls) : c[n - 1 + i] = ls[i]
    <2>1. /\ c \in Seq(X) /\ Len(c) = Len(a) + Len(ls)
          /\ \A i \in 1..Len(a) + Len(ls) : c[i] = IF i <= Len(a) THEN a[i] ELSE ls[i - Len(a)]
      BY <1>2, ConcatProperties
    <2>2. \A i \in 1..n - 1 : i \in 1..Len(a) + Len(ls) /\ i <= Len(a)
      BY <1>1, <1>2
    <2>3. \A i \in 1..Len(ls) : /\ n - 1 + i \in 1..Len(a) + Len(ls) /\ ~(n - 1 + i <= Len(a))
                                /\ (n - 1 + i) - Len(a) = i
      BY <1>1, <1>2
    <2> QED
      BY <1>1, <1>2, <2>1, <2>2, <2>3
  <1>5. InsertAbove(t, n, ls) = c \o b
    BY DEF InsertAbove, a, b
  <1> HIDE DEF c
  <1>6. /\ c \o b \in Seq(X) /\ Len(c \o b) = Len(c) + Len(b)
        /\ \A i \in 1..Len(c) + Len(b) : (c \o b)[i] = IF i <= Len(c) THEN c[i] ELSE b[i - Len(c)]
    <2>1. b \in Seq(X) /\ c \in Seq(X)
      BY <1>3, <1>4
    <2> HIDE DEF b
    <2> QED
      BY <2>1, ConcatProperties
  <1>7. Len(c) + Len(b) = Len(t) + Len(ls)
    BY <1>1, <1>3, <1>4
  <1>8. \A i \in 1..n - 1 : (c \o b)[i] = t[i]
    <2>1. \A i \in 1..n - 1 : i \in 1..Len(c) + Len(b) /\ i <= Len(c)
      BY <1>1, <1>3, <1>4
    <2> QED
      BY <1>4, <1>6, <2>1
  <1>9. \A i \in 1..Len(ls) : (c \o b)[n - 1 + i] = ls[i]
    <2>1. \A i \in 1..Len(ls) : n - 1 + i \in 1..Len(c) + Len(b) /\ n - 1 + i <= Len(c)
      BY <1>1, <1>3, <1>4
    <2> QED
      BY <1>4, <1>6, <2>1
  <1>10. \A i \in n..Len(t) : (c \o b)[i + Len(ls)] = t[i]
    <2> TAKE i \in n..Len(t)
    <2>1. /\ i + Len(ls) \in 1..Len(c) + Len(b) /\ ~(i + Len(ls) <= Len(c))
          /\ (i + Len(ls)) - Len(c) = i - n + 1 /\ i - n + 1 \in 1..Len(t) - n + 1
          /\ n - 1 + (i - n + 1) = i
      BY <1>1, <1>3, <1>4
    <2>2. (c \o b)[i + Len(ls)] = b[i - n + 1]
      BY <1>6, <2>1
    <2> QED
      BY <1>3, <2>1, <2>2
  <1> QED
    BY <1>5, <1>6, <1>7, <1>8, <1>9, <1>10

\* Where a line of the text has gone, and where one that is there came from.
Shifted(n, k, i) == IF i < n THEN i ELSE i + k

IsInserted(r, t, n, ls) ==
    /\ r \in Seq(SourceLine)
    /\ \A i \in DOMAIN t : Shifted(n, Len(ls), i) \in DOMAIN r /\ r[Shifted(n, Len(ls), i)] = t[i]
    /\ \A i \in DOMAIN ls : n - 1 + i \in DOMAIN r /\ r[n - 1 + i] = ls[i]
    /\ \A j \in DOMAIN r : \/ \E i \in DOMAIN t : j = Shifted(n, Len(ls), i)
                           \/ \E i \in DOMAIN ls : j = n - 1 + i
    /\ ToSet(r) = ToSet(t) \cup ToSet(ls)

LEMMA InsertedMoves ==
    ASSUME NEW t \in Seq(SourceLine), NEW ls \in Seq(SourceLine), NEW n \in 1..Len(t) + 1
    PROVE  IsInserted(InsertAbove(t, n, ls), t, n, ls)
PROOF
  <1> DEFINE r == InsertAbove(t, n, ls)
  <1>1. /\ r \in Seq(SourceLine) /\ Len(r) = Len(t) + Len(ls)
        /\ \A i \in 1..n - 1 : r[i] = t[i]
        /\ \A i \in 1..Len(ls) : r[n - 1 + i] = ls[i]
        /\ \A i \in n..Len(t) : r[i + Len(ls)] = t[i]
    <2>1. /\ InsertAbove(t, n, ls) \in Seq(SourceLine)
          /\ Len(InsertAbove(t, n, ls)) = Len(t) + Len(ls)
          /\ \A i \in 1..n - 1 : InsertAbove(t, n, ls)[i] = t[i]
          /\ \A i \in 1..Len(ls) : InsertAbove(t, n, ls)[n - 1 + i] = ls[i]
          /\ \A i \in n..Len(t) : InsertAbove(t, n, ls)[i + Len(ls)] = t[i]
      BY InsertedIs
    <2> QED
      BY <2>1
  <1> HIDE DEF r
  <1>2. /\ Len(t) \in Nat /\ Len(ls) \in Nat /\ n \in Nat /\ 1 <= n /\ n <= Len(t) + 1
        /\ DOMAIN t = 1..Len(t) /\ DOMAIN ls = 1..Len(ls) /\ DOMAIN r = 1..(Len(t) + Len(ls))
    BY <1>1
  <1>3. ASSUME NEW i \in DOMAIN t
        PROVE  Shifted(n, Len(ls), i) \in DOMAIN r /\ r[Shifted(n, Len(ls), i)] = t[i]
    <2>1. CASE i < n
      BY <1>1, <1>2, <2>1 DEF Shifted
    <2>2. CASE ~(i < n)
      <3>1. i \in n..Len(t) /\ i + Len(ls) \in 1..(Len(t) + Len(ls))
        BY <1>2, <2>2
      <3> QED
        BY <1>1, <1>2, <2>2, <3>1 DEF Shifted
    <2> QED
      BY <2>1, <2>2
  <1>4. \A i \in DOMAIN ls : n - 1 + i \in DOMAIN r /\ r[n - 1 + i] = ls[i]
    BY <1>1, <1>2
  <1>5. ASSUME NEW j \in DOMAIN r
        PROVE  \/ \E i \in DOMAIN t : j = Shifted(n, Len(ls), i)
               \/ \E i \in DOMAIN ls : j = n - 1 + i
    <2>1. CASE j < n
      <3>1. j \in DOMAIN t /\ j = Shifted(n, Len(ls), j)
        BY <1>2, <2>1 DEF Shifted
      <3> QED
        BY <3>1
    <2>2. CASE n <= j /\ j < n + Len(ls)
      <3>1. (j - n) + 1 \in DOMAIN ls /\ j = n - 1 + ((j - n) + 1)
        BY <1>2, <2>2
      <3> QED
        BY <3>1
    <2>3. CASE n + Len(ls) <= j
      <3>1. j - Len(ls) \in DOMAIN t /\ ~(j - Len(ls) < n) /\ j = (j - Len(ls)) + Len(ls)
        BY <1>2, <2>3
      <3>2. j = Shifted(n, Len(ls), j - Len(ls))
        BY <3>1 DEF Shifted
      <3> QED
        BY <3>1, <3>2
    <2> QED
      BY <1>2, <2>1, <2>2, <2>3
  <1>6. ToSet(r) = ToSet(t) \cup ToSet(ls)
    <2>1. ASSUME NEW x \in ToSet(r) PROVE x \in ToSet(t) \cup ToSet(ls)
      <3>1. PICK j \in DOMAIN r : x = r[j]
        BY <2>1 DEF ToSet
      <3>2. CASE \E i \in DOMAIN t : j = Shifted(n, Len(ls), i)
        BY <1>3, <3>1, <3>2 DEF ToSet
      <3>3. CASE \E i \in DOMAIN ls : j = n - 1 + i
        BY <1>4, <3>1, <3>3 DEF ToSet
      <3> QED
        BY <1>5, <3>2, <3>3
    <2>2. ASSUME NEW x \in ToSet(t) PROVE x \in ToSet(r)
      <3>1. PICK i \in DOMAIN t : x = t[i]
        BY <2>2 DEF ToSet
      <3>2. Shifted(n, Len(ls), i) \in DOMAIN r /\ r[Shifted(n, Len(ls), i)] = x
        BY <1>3, <3>1
      <3> QED
        BY <3>2 DEF ToSet
    <2>3. ASSUME NEW x \in ToSet(ls) PROVE x \in ToSet(r)
      <3>1. PICK i \in DOMAIN ls : x = ls[i]
        BY <2>3 DEF ToSet
      <3>2. n - 1 + i \in DOMAIN r /\ r[n - 1 + i] = x
        BY <1>4, <3>1
      <3> QED
        BY <3>2 DEF ToSet
    <2> QED
      BY <2>1, <2>2, <2>3
  <1> QED
    BY <1>1, <1>3, <1>4, <1>5, <1>6 DEF r, IsInserted

-----------------------------------------------------------------------------
(***************************************************************************)
(* Texts that stay whole.                                                  *)
(***************************************************************************)

\* EachAboveItsOwn by positions.
Attached(t) ==
    \A n \in DOMAIN t : t[n].k \in Drafted =>
        /\ \E p \in DOMAIN t :
              /\ t[p] = Sig(t[n].fn)
              /\ t[n].k # "mirror" => n < p /\ \A i \in n..p - 1 : t[i].k \in Drafted \cup {"doc"}
        /\ \A o \in DOMAIN t : /\ SameDraft(t[o], t[n]) => o = n
                               /\ OfOneRound(t[o], t[n])

LEMMA SigIs == \A fn : Sig(fn) = [k |-> "sig", fn |-> fn] /\ Sig(fn).k = "sig" /\ Sig(fn).fn = fn
PROOF
  BY DEF Sig, TextLine

LEMMA LineIs ==
    ASSUME NEW t, SigOnce(t), NEW p \in DOMAIN t, NEW fn, t[p] = Sig(fn)
    PROVE  LineOf(t, fn) = p
PROOF
  <1>1. /\ LineOf(t, fn) \in DOMAIN t /\ t[LineOf(t, fn)] = Sig(fn)
    BY DEF LineOf
  <1>2. t[p].k = "sig"
    BY SigIs
  <1> QED
    BY <1>1, <1>2 DEF SigOnce

LEMMA AttachedIs ==
    ASSUME NEW t \in Seq(SourceLine), SigOnce(t)
    PROVE  EachAboveItsOwn(t) <=> Attached(t)
PROOF
  <1>1. DOMAIN t = 1..Len(t) /\ Len(t) \in Nat
    OBVIOUS
  <1>2. ASSUME EachAboveItsOwn(t) PROVE Attached(t)
    <2> SUFFICES ASSUME NEW n \in DOMAIN t, t[n].k \in Drafted
                 PROVE  \E p \in DOMAIN t :
                            /\ t[p] = Sig(t[n].fn)
                            /\ t[n].k # "mirror"
                               => n < p /\ \A i \in n..p - 1 : t[i].k \in Drafted \cup {"doc"}
      BY <1>2 DEF EachAboveItsOwn, Attached
    <2>1. /\ Sig(t[n].fn) \in ToSet(t)
          /\ t[n].k # "mirror" => t[n] \in AboveIt(t, LineOf(t, t[n].fn))
          /\ \A o \in DOMAIN t : SameDraft(t[o], t[n]) => o = n
      BY <1>2 DEF EachAboveItsOwn
    <2>2. PICK p \in DOMAIN t : t[p] = Sig(t[n].fn)
      BY <2>1 DEF ToSet
    <2>3. LineOf(t, t[n].fn) = p
      BY <2>2, LineIs
    <2>4. ASSUME t[n].k # "mirror"
          PROVE  n < p /\ \A i \in n..p - 1 : t[i].k \in Drafted \cup {"doc"}
      <3>1. PICK j \in 1..p - 1 : /\ t[n] = t[j]
                                  /\ \A i \in j..p - 1 : t[i].k \in Drafted \cup {"doc"}
        BY <2>1, <2>3, <2>4 DEF AboveIt
      <3>2. j \in DOMAIN t
        BY <1>1, <2>2
      <3>3. j = n
        BY <2>1, <3>1, <3>2 DEF SameDraft
      <3> QED
        BY <1>1, <3>1, <3>3
    <2> QED
      BY <2>2, <2>4
  <1>3. ASSUME Attached(t) PROVE EachAboveItsOwn(t)
    <2> SUFFICES ASSUME NEW n \in DOMAIN t, t[n].k \in Drafted
                 PROVE  /\ Sig(t[n].fn) \in ToSet(t)
                        /\ t[n].k # "mirror" => t[n] \in AboveIt(t, LineOf(t, t[n].fn))
      BY <1>3 DEF EachAboveItsOwn, Attached
    <2>1. PICK p \in DOMAIN t :
              /\ t[p] = Sig(t[n].fn)
              /\ t[n].k # "mirror" => n < p /\ \A i \in n..p - 1 : t[i].k \in Drafted \cup {"doc"}
      BY <1>3 DEF Attached
    <2>2. LineOf(t, t[n].fn) = p
      BY <2>1, LineIs
    <2>3. t[n].k # "mirror" => n \in 1..p - 1
      BY <1>1, <2>1
    <2>4. t[n].k # "mirror" => t[n] \in AboveIt(t, p)
      BY <2>1, <2>3 DEF AboveIt
    <2> QED
      BY <2>1, <2>2, <2>4 DEF ToSet
  <1> QED
    BY <1>2, <1>3

\* Lines that go above the signature at n: attributes of its function, of which
\* the text has none yet.
Fitting(t, n, ls) ==
    /\ n \in DOMAIN t /\ t[n].k = "sig" /\ ls \in Seq(SourceLine)
    /\ \A i \in DOMAIN ls :
          /\ ls[i].k \in Drafted \ {"mirror"} /\ ls[i].fn = t[n].fn
          /\ \A j \in DOMAIN ls : (SameDraft(ls[i], ls[j]) => i = j) /\ OfOneRound(ls[i], ls[j])
          /\ \A l \in ToSet(t) : ~SameDraft(l, ls[i]) /\ OfOneRound(l, ls[i])

LEMMA SigLine == ASSUME NEW l \in SourceLine, l.k = "sig" PROVE l = Sig(l.fn)
PROOF
  BY DEF SourceLine, Sig, TextLine

LEMMA RoundsAgree == \A a, b : OfOneRound(a, b) => OfOneRound(b, a)
PROOF
  BY DEF OfOneRound

LEMMA InsertKeeps ==
    ASSUME NEW t, Whole(t), NEW n, NEW ls, Fitting(t, n, ls), NEW r, r = InsertAbove(t, n, ls)
    PROVE  Whole(r)
PROOF
  <1> DEFINE k == Len(ls)
             M(i) == Shifted(n, k, i)
  <1>1. /\ t \in Seq(SourceLine) /\ ls \in Seq(SourceLine) /\ n \in DOMAIN t
        /\ DOMAIN t = 1..Len(t) /\ Len(t) \in Nat /\ DOMAIN ls = 1..k /\ k \in Nat /\ n \in Nat
        /\ n \in 1..Len(t) + 1
    BY DEF Whole, Fitting
  <1>2. /\ r \in Seq(SourceLine)
        /\ \A i \in DOMAIN t : M(i) \in DOMAIN r /\ r[M(i)] = t[i]
        /\ \A i \in DOMAIN ls : n - 1 + i \in DOMAIN r /\ r[n - 1 + i] = ls[i]
        /\ \A j \in DOMAIN r : \/ \E i \in DOMAIN t : j = M(i)
                               \/ \E i \in DOMAIN ls : j = n - 1 + i
        /\ ToSet(r) = ToSet(t) \cup ToSet(ls)
    <2> HIDE DEF M, k
    <2>1. IsInserted(r, t, n, ls)
      BY <1>1, InsertedMoves
    <2> QED
      BY <2>1 DEF M, k, IsInserted
  <1>3. /\ \A i, j \in DOMAIN t : (M(i) = M(j) => i = j) /\ (i < j => M(i) < M(j))
        /\ \A i \in DOMAIN t : M(i) \in Nat /\ (i < n => M(i) = i) /\ (n <= i => M(i) = i + k)
    BY <1>1 DEF Shifted
  <1>4. SigOnce(t) /\ InnerFirst(t) /\ Attached(t)
    BY <1>1, AttachedIs DEF Whole
  <1>5. \A i \in DOMAIN ls : ls[i].k \in Drafted \ {"mirror"} /\ ls[i].k # "sig" /\ ls[i].k # "inner"
    BY DEF Fitting, Drafted
  <1>6. t[n].k = "sig" /\ t[n] = Sig(t[n].fn)
    BY <1>1, SigLine DEF Fitting
  <1> HIDE DEF M, k
  <1>7. SigOnce(r)
    <2> SUFFICES ASSUME NEW i \in DOMAIN r, NEW j \in DOMAIN r, r[i].k = "sig", r[i] = r[j]
                 PROVE  i = j
      BY DEF SigOnce
    <2>1. PICK a \in DOMAIN t : i = M(a)
      BY <1>2, <1>5
    <2>2. PICK b \in DOMAIN t : j = M(b)
      BY <1>2, <1>5
    <2>3. a = b
      BY <1>2, <1>4, <2>1, <2>2 DEF SigOnce
    <2> QED
      BY <2>1, <2>2, <2>3
  <1>8. InnerFirst(r)
    <2> SUFFICES ASSUME NEW i \in DOMAIN r, r[i].k = "inner", NEW j \in 1..i - 1
                 PROVE  r[j].k = "inner"
      BY DEF InnerFirst
    <2>1. PICK a \in DOMAIN t : i = M(a)
      BY <1>2, <1>5
    <2>2. t[a].k = "inner" /\ \A b \in 1..a - 1 : t[b].k = "inner"
      BY <1>2, <1>4, <2>1 DEF InnerFirst
    <2>3. ~(n < a) /\ n # a
      <3>1. n < a => n \in 1..a - 1
        BY <1>1
      <3> QED
        BY <1>6, <2>2, <3>1
    <2>4. a < n /\ i = a
      BY <1>1, <1>3, <2>1, <2>3
    <2>5. j \in DOMAIN t /\ j < n
      BY <1>1, <2>4
    <2>6. r[j] = t[j]
      BY <1>2, <1>3, <2>5
    <2> QED
      BY <2>2, <2>4, <2>6
  <1>9. Attached(r)
    <2> SUFFICES ASSUME NEW i \in DOMAIN r, r[i].k \in Drafted
                 PROVE  /\ \E p \in DOMAIN r :
                              /\ r[p] = Sig(r[i].fn)
                              /\ r[i].k # "mirror"
                                 => i < p /\ \A j \in i..p - 1 : r[j].k \in Drafted \cup {"doc"}
                        /\ \A o \in DOMAIN r : /\ SameDraft(r[o], r[i]) => o = i
                                               /\ OfOneRound(r[o], r[i])
      BY DEF Attached
    <2>1. M(n) = n + k /\ M(n) \in DOMAIN r /\ r[M(n)] = t[n]
      BY <1>1, <1>2, <1>3
    <2>2. CASE \E a \in DOMAIN t : i = M(a)
      <3>1. PICK a \in DOMAIN t : i = M(a)
        BY <2>2
      <3>2. r[i] = t[a]
        BY <1>2, <3>1
      <3>3. PICK p \in DOMAIN t :
                /\ t[p] = Sig(t[a].fn)
                /\ t[a].k # "mirror" => a < p /\ \A j \in a..p - 1 : t[j].k \in Drafted \cup {"doc"}
        BY <1>4, <3>2 DEF Attached
      <3>4. M(p) \in DOMAIN r /\ r[M(p)] = Sig(r[i].fn)
        BY <1>2, <3>2, <3>3
      <3>5. ASSUME r[i].k # "mirror", NEW j \in M(a)..M(p) - 1
            PROVE  r[j].k \in Drafted \cup {"doc"}
        <4>1. a < p /\ \A b \in a..p - 1 : t[b].k \in Drafted \cup {"doc"}
          BY <3>2, <3>3, <3>5
        <4>2. ~(n \in a..p - 1)
          BY <1>6, <4>1 DEF Drafted
        <4>3. j \in DOMAIN r
          <5>1. DOMAIN r = 1..Len(r) /\ Len(r) \in Nat
            BY <1>2
          <5>2. M(a) \in DOMAIN r /\ M(p) \in DOMAIN r
            BY <1>2
          <5> QED
            BY <5>1, <5>2
        <4>4. CASE \E b \in DOMAIN t : j = M(b)
          <5>1. PICK b \in DOMAIN t : j = M(b)
            BY <4>4
          <5>2. b \in a..p - 1
            <6>1. a <= b
              <7>1. b < a => M(b) < M(a)
                BY <1>3
              <7>2. M(a) <= M(b) /\ M(a) \in Nat /\ M(b) \in Nat
                BY <1>3, <5>1
              <7> QED
                BY <1>1, <7>1, <7>2
            <6>2. b < p
              <7>1. p < b => M(p) < M(b)
                BY <1>3
              <7>2. M(b) < M(p) /\ M(p) \in Nat /\ M(b) \in Nat
                BY <1>3, <5>1
              <7>3. b # p
                BY <7>2
              <7> QED
                BY <1>1, <7>1, <7>2, <7>3
            <6> QED
              BY <1>1, <6>1, <6>2
          <5> QED
            BY <1>2, <4>1, <5>1, <5>2
        <4>5. CASE \E b \in DOMAIN ls : j = n - 1 + b
          BY <1>2, <1>5, <4>5
        <4> QED
          BY <1>2, <4>3, <4>4, <4>5
      <3>6. r[i].k # "mirror" => i < M(p)
        BY <1>3, <3>1, <3>2, <3>3
      <3>7. ASSUME NEW o \in DOMAIN r
            PROVE  (SameDraft(r[o], r[i]) => o = i) /\ OfOneRound(r[o], r[i])
        <4>1. CASE \E b \in DOMAIN t : o = M(b)
          <5>1. PICK b \in DOMAIN t : o = M(b)
            BY <4>1
          <5>2. r[o] = t[b]
            BY <1>2, <5>1
          <5>3. (SameDraft(t[b], t[a]) => b = a) /\ OfOneRound(t[b], t[a])
            BY <1>4, <3>2 DEF Attached
          <5> QED
            BY <3>1, <3>2, <5>1, <5>2, <5>3
        <4>2. CASE \E b \in DOMAIN ls : o = n - 1 + b
          <5>1. PICK b \in DOMAIN ls : o = n - 1 + b
            BY <4>2
          <5>2. r[o] = ls[b] /\ t[a] \in ToSet(t)
            BY <1>2, <5>1 DEF ToSet
          <5>3. ~SameDraft(t[a], ls[b]) /\ OfOneRound(t[a], ls[b])
            BY <5>2 DEF Fitting
          <5> QED
            BY <3>2, <5>2, <5>3, RoundsAgree DEF SameDraft
        <4> QED
          BY <1>2, <4>1, <4>2
      <3> QED
        BY <3>1, <3>4, <3>5, <3>6, <3>7
    <2>3. CASE \E a \in DOMAIN ls : i = n - 1 + a
      <3>1. PICK a \in DOMAIN ls : i = n - 1 + a
        BY <2>3
      <3>2. r[i] = ls[a] /\ ls[a].fn = t[n].fn
        BY <1>2, <3>1 DEF Fitting
      <3>3. r[M(n)] = Sig(r[i].fn)
        BY <1>6, <2>1, <3>2
      <3>4. i < M(n)
        BY <1>1, <2>1, <3>1
      <3>5. ASSUME NEW j \in i..M(n) - 1 PROVE r[j].k \in Drafted \cup {"doc"}
        <4>1. j - n + 1 \in DOMAIN ls /\ j = n - 1 + (j - n + 1)
          BY <1>1, <2>1, <3>1
        <4> QED
          BY <1>2, <1>5, <4>1
      <3>6. ASSUME NEW o \in DOMAIN r
            PROVE  (SameDraft(r[o], r[i]) => o = i) /\ OfOneRound(r[o], r[i])
        <4>1. CASE \E b \in DOMAIN t : o = M(b)
          <5>1. PICK b \in DOMAIN t : o = M(b)
            BY <4>1
          <5>2. r[o] = t[b] /\ t[b] \in ToSet(t)
            BY <1>2, <5>1 DEF ToSet
          <5>3. ~SameDraft(t[b], ls[a]) /\ OfOneRound(t[b], ls[a])
            BY <5>2 DEF Fitting
          <5> QED
            BY <3>2, <5>2, <5>3
        <4>2. CASE \E b \in DOMAIN ls : o = n - 1 + b
          <5>1. PICK b \in DOMAIN ls : o = n - 1 + b
            BY <4>2
          <5>2. r[o] = ls[b]
            BY <1>2, <5>1
          <5>3. (SameDraft(ls[b], ls[a]) => b = a) /\ OfOneRound(ls[b], ls[a])
            BY DEF Fitting
          <5> QED
            BY <3>1, <3>2, <5>1, <5>2, <5>3
        <4> QED
          BY <1>2, <4>1, <4>2
      <3> QED
        BY <2>1, <3>3, <3>4, <3>5, <3>6
    <2> QED
      BY <1>2, <2>2, <2>3
  <1> QED
    BY <1>2, <1>7, <1>8, <1>9, AttachedIs DEF Whole

LEMMA LeastOne == ASSUME NEW S \in SUBSET Nat, S # {} PROVE \E n \in S : \A m \in S : n <= m
PROOF
  <1> DEFINE R == {ss \in Nat \X Nat : ss[1] < ss[2]}
  <1>1. IsWellFoundedOn(R, Nat)
    <2>1. R = OpToRel(<, Nat)
      BY DEF OpToRel
    <2> QED
      BY <2>1, NatLessThanWellFounded
  <1> HIDE DEF R
  <1>2. PICK n \in S : \A m \in S : <<m, n>> \notin R
    BY <1>1, WFMin, Zenon
  <1>3. \A m \in S : <<m, n>> \in Nat \X Nat /\ (m < n => <<m, n>> \in R)
    BY DEF R
  <1>4. \A m \in S : m \in Nat /\ n \in Nat /\ ~(m < n)
    BY <1>2, <1>3
  <1>5. \A m \in S : n <= m
    BY <1>4
  <1> QED
    BY <1>5

\* A line of no function goes after the inner attributes, or is one of them.
LEMMA PlainKeeps ==
    ASSUME NEW t, Whole(t), NEW n \in 1..Len(t) + 1, NEW l \in SourceLine, l.k \in {"use", "inner"},
           \A i \in DOMAIN t : i < n => t[i].k = "inner",
           \A i \in DOMAIN t : n <= i /\ t[i].k = "inner" => l.k = "inner"
    PROVE  /\ Whole(InsertAbove(t, n, <<l>>))
           /\ ToSet(InsertAbove(t, n, <<l>>)) = ToSet(t) \cup {l}
PROOF
  <1> DEFINE r == InsertAbove(t, n, <<l>>)
             M(i) == Shifted(n, 1, i)
  <1>1. /\ t \in Seq(SourceLine) /\ <<l>> \in Seq(SourceLine) /\ Len(<<l>>) = 1 /\ DOMAIN <<l>> = {1}
        /\ <<l>>[1] = l /\ DOMAIN t = 1..Len(t) /\ Len(t) \in Nat
    BY DEF Whole
  <1>2. IsInserted(r, t, n, <<l>>)
    BY <1>1, InsertedMoves
  <1> HIDE DEF r
  <1>3. /\ r \in Seq(SourceLine) /\ DOMAIN r = 1..Len(r) /\ Len(r) \in Nat
        /\ \A i \in DOMAIN t : M(i) \in DOMAIN r /\ r[M(i)] = t[i]
        /\ n \in DOMAIN r /\ r[n] = l
        /\ \A j \in DOMAIN r : j = n \/ \E i \in DOMAIN t : j = M(i)
        /\ ToSet(r) = ToSet(t) \cup ToSet(<<l>>)
    BY <1>1, <1>2 DEF IsInserted
  <1>4. /\ \A i \in DOMAIN t : M(i) \in Nat /\ (i < n => M(i) = i) /\ (n <= i => M(i) = i + 1)
        /\ \A i, j \in DOMAIN t : M(i) = M(j) => i = j
    BY <1>1 DEF Shifted
  <1> HIDE DEF M
  <1>5. SigOnce(t) /\ InnerFirst(t) /\ Attached(t)
    BY <1>1, AttachedIs DEF Whole
  <1>6. l.k \notin Drafted \cup {"sig"}
    BY DEF Drafted
  <1>7. SigOnce(r)
    <2> SUFFICES ASSUME NEW i \in DOMAIN r, NEW j \in DOMAIN r, r[i].k = "sig", r[i] = r[j]
                 PROVE  i = j
      BY DEF SigOnce
    <2>1. PICK a \in DOMAIN t : i = M(a)
      BY <1>3, <1>6
    <2>2. PICK b \in DOMAIN t : j = M(b)
      BY <1>3, <1>6
    <2>3. a = b
      BY <1>3, <1>5, <2>1, <2>2 DEF SigOnce
    <2> QED
      BY <2>1, <2>2, <2>3
  <1>8. InnerFirst(r)
    <2> SUFFICES ASSUME NEW i \in DOMAIN r, r[i].k = "inner", NEW j \in 1..i - 1
                 PROVE  r[j].k = "inner"
      BY DEF InnerFirst
    <2>1. CASE j < n
      <3>1. j \in DOMAIN t /\ M(j) = j
        BY <1>1, <1>4, <2>1
      <3> QED
        BY <1>3, <2>1, <3>1
    <2>2. CASE ~(j < n)
      <3>1. n < i /\ i # n
        BY <1>3, <2>2
      <3>2. PICK a \in DOMAIN t : i = M(a)
        BY <1>3, <3>1
      <3>3. ~(a < n) /\ i = a + 1 /\ n <= a
        BY <1>1, <1>4, <3>1, <3>2
      <3>4. t[a].k = "inner" /\ l.k = "inner"
        BY <1>3, <3>2, <3>3
      <3>5. CASE j = n
        BY <1>3, <3>4, <3>5
      <3>6. CASE j # n
        <4>1. /\ j - 1 \in 1..a - 1 /\ j - 1 \in DOMAIN t /\ n <= j - 1 /\ (j - 1) + 1 = j
          BY <1>1, <1>3, <2>2, <3>3, <3>6
        <4>2. t[j - 1].k = "inner" /\ M(j - 1) = j
          BY <1>4, <1>5, <3>4, <4>1 DEF InnerFirst
        <4> QED
          BY <1>3, <4>1, <4>2
      <3> QED
        BY <3>5, <3>6
    <2> QED
      BY <2>1, <2>2
  <1>9. Attached(r)
    <2> SUFFICES ASSUME NEW i \in DOMAIN r, r[i].k \in Drafted
                 PROVE  /\ \E p \in DOMAIN r :
                              /\ r[p] = Sig(r[i].fn)
                              /\ r[i].k # "mirror"
                                 => i < p /\ \A j \in i..p - 1 : r[j].k \in Drafted \cup {"doc"}
                        /\ \A o \in DOMAIN r : /\ SameDraft(r[o], r[i]) => o = i
                                               /\ OfOneRound(r[o], r[i])
      BY DEF Attached
    <2>1. PICK a \in DOMAIN t : i = M(a)
      BY <1>3, <1>6
    <2>2. r[i] = t[a]
      BY <1>3, <2>1
    <2>3. PICK p \in DOMAIN t :
              /\ t[p] = Sig(t[a].fn)
              /\ t[a].k # "mirror" => a < p /\ \A j \in a..p - 1 : t[j].k \in Drafted \cup {"doc"}
      BY <1>5, <2>2 DEF Attached
    <2>4. ~(a < n) /\ ~(p < n) /\ n \in Nat /\ n <= a /\ n <= p
      <3>1. t[a].k # "inner" /\ t[p].k # "inner"
        BY <2>2, <2>3, SigIs DEF Drafted
      <3> QED
        BY <1>1, <3>1
    <2>5. M(a) = a + 1 /\ M(p) = p + 1
      BY <1>4, <2>4
    <2>6. M(p) \in DOMAIN r /\ r[M(p)] = Sig(r[i].fn)
      BY <1>3, <2>2, <2>3
    <2>7. r[i].k # "mirror" => i < M(p)
      BY <1>1, <2>1, <2>2, <2>3, <2>5
    <2>8. ASSUME r[i].k # "mirror", NEW j \in i..M(p) - 1
          PROVE  r[j].k \in Drafted \cup {"doc"}
      <3>1. j - 1 \in a..p - 1 /\ j - 1 \in DOMAIN t /\ n <= j - 1 /\ (j - 1) + 1 = j
        BY <1>1, <2>1, <2>4, <2>5, <2>8
      <3>2. M(j - 1) = j
        BY <1>4, <3>1
      <3> QED
        BY <1>3, <2>2, <2>3, <2>8, <3>1, <3>2
    <2>9. ASSUME NEW o \in DOMAIN r
          PROVE  (SameDraft(r[o], r[i]) => o = i) /\ OfOneRound(r[o], r[i])
      <3>1. CASE o = n
        <4>1. r[o].k \notin Drafted
          BY <1>3, <1>6, <3>1
        <4> QED
          BY <4>1 DEF SameDraft, OfOneRound, Drafted
      <3>2. CASE \E b \in DOMAIN t : o = M(b)
        <4>1. PICK b \in DOMAIN t : o = M(b)
          BY <3>2
        <4>2. (SameDraft(t[b], t[a]) => b = a) /\ OfOneRound(t[b], t[a]) /\ r[o] = t[b]
          BY <1>3, <1>5, <2>2, <4>1 DEF Attached
        <4> QED
          BY <2>1, <2>2, <4>1, <4>2
      <3> QED
        BY <1>3, <3>1, <3>2
    <2> QED
      BY <2>6, <2>7, <2>8, <2>9
  <1>10. ToSet(<<l>>) = {l}
    BY <1>1 DEF ToSet
  <1> QED
    BY <1>3, <1>7, <1>8, <1>9, <1>10, AttachedIs DEF Whole, r

LEMMA ImportKeeps ==
    ASSUME NEW t, Whole(t), NEW crate \in Names
    PROVE  /\ Whole(EnsureImport(t, crate))
           /\ ToSet(EnsureImport(t, crate)) = ToSet(t) \cup {TextLine("use", crate)}
PROOF
  <1> DEFINE use == TextLine("use", crate)
             Fits(n) == /\ n = Len(t) + 1 \/ t[n].k # "inner"
                        /\ \A j \in 1..n - 1 : t[j].k = "inner"
             at == CHOOSE n \in 1..Len(t) + 1 : Fits(n)
  <1>1. /\ t \in Seq(SourceLine) /\ DOMAIN t = 1..Len(t) /\ Len(t) \in Nat /\ InnerFirst(t)
    BY DEF Whole
  <1>2. \E n \in 1..Len(t) + 1 : Fits(n)
    <2> DEFINE S == {n \in 1..Len(t) + 1 : n = Len(t) + 1 \/ t[n].k # "inner"}
    <2>1. S \in SUBSET Nat /\ Len(t) + 1 \in S
      BY <1>1
    <2>2. PICK n \in S : \A m \in S : n <= m
      <3> HIDE DEF S
      <3> QED
        BY <2>1, LeastOne
    <2>3. ASSUME NEW j \in 1..n - 1 PROVE t[j].k = "inner"
      <3>1. j \in 1..Len(t) + 1 /\ ~(n <= j)
        BY <1>1, <2>2
      <3> QED
        BY <2>2, <3>1
    <2> QED
      BY <2>2, <2>3
  <1>3. at \in 1..Len(t) + 1 /\ Fits(at)
    <2> HIDE DEF Fits
    <2> QED
      BY <1>2
  <1>4. use \in SourceLine /\ use.k = "use"
    BY DEF TextLine, SourceLine
  <1>5. CASE use \in ToSet(t)
    BY <1>5 DEF EnsureImport
  <1>6. CASE use \notin ToSet(t)
    <2>1. EnsureImport(t, crate) = InsertAbove(t, at, <<use>>)
      BY <1>6 DEF EnsureImport
    <2>2. \A i \in DOMAIN t : i < at => t[i].k = "inner"
      BY <1>1, <1>3
    <2>3. ASSUME NEW i \in DOMAIN t, at <= i, t[i].k = "inner" PROVE FALSE
      <3>1. at # Len(t) + 1 /\ t[at].k # "inner"
        BY <1>1, <1>3, <2>3
      <3>2. at < i => at \in 1..i - 1
        BY <1>1, <1>3
      <3>3. at = i
        BY <1>1, <1>3, <2>3, <3>1, <3>2 DEF InnerFirst
      <3> QED
        BY <2>3, <3>1, <3>3
    <2> HIDE DEF at, use
    <2>4. /\ Whole(InsertAbove(t, at, <<use>>))
          /\ ToSet(InsertAbove(t, at, <<use>>)) = ToSet(t) \cup {use}
      BY <1>3, <1>4, <2>2, <2>3, PlainKeeps
    <2> QED
      BY <2>1, <2>4 DEF use
  <1> QED
    BY <1>5, <1>6

LEMMA TouchKeeps ==
    ASSUME NEW t, Whole(t), NEW l \in SourceLine, l.k = "inner"
    PROVE  Whole(<<l>> \o t) /\ ToSet(<<l>> \o t) = ToSet(t) \cup {l}
PROOF
  <1>1. t \in Seq(SourceLine) /\ DOMAIN t = 1..Len(t) /\ Len(t) \in Nat
    BY DEF Whole
  <1>2. SubSeq(t, 1, 1 - 1) = <<>> /\ SubSeq(t, 1, Len(t)) = t
    BY <1>1
  <1>3. <<>> \o <<l>> = <<l>>
    BY <1>1
  <1>4. InsertAbove(t, 1, <<l>>) = <<l>> \o t
    BY <1>2, <1>3 DEF InsertAbove
  <1>5. 1 \in 1..Len(t) + 1 /\ \A i \in DOMAIN t : ~(i < 1)
    BY <1>1
  <1>6. /\ Whole(InsertAbove(t, 1, <<l>>))
        /\ ToSet(InsertAbove(t, 1, <<l>>)) = ToSet(t) \cup {l}
    BY <1>5, PlainKeeps
  <1> QED
    BY <1>4, <1>6

\* What EnsurePrelude adds: the crate's macros, and Int where a mirror is of it.
LEMMA PreludeKeeps ==
    ASSUME NEW t, Whole(t), NEW dialect
    PROVE  LET r == EnsurePrelude(t, dialect)
               use == {TextLine("use", ImportOf(dialect))}
           IN  /\ Whole(r)
               /\ \/ ToSet(r) = ToSet(t) \cup use /\ ~(dialect = "Logic" /\ MentionsInt(t))
                  \/ /\ ToSet(r) = ToSet(t) \cup use \cup {TextLine("use", "Int")}
                     /\ dialect = "Logic" /\ MentionsInt(t)
PROOF
  <1> DEFINE macros == EnsureImport(t, ImportOf(dialect))
             use == {TextLine("use", ImportOf(dialect))}
  <1>1. ImportOf(dialect) \in Names
    BY DEF ImportOf, Names
  <1>2. Whole(macros) /\ ToSet(macros) = ToSet(t) \cup use
    BY <1>1, ImportKeeps
  <1>3. TextLine("use", ImportOf(dialect)).k # "mirror"
    BY DEF TextLine
  <1> HIDE DEF macros
  <1>4. MentionsInt(macros) <=> MentionsInt(t)
    BY <1>2, <1>3 DEF MentionsInt, Mirrors
  <1>5. /\ Whole(EnsureImport(macros, "Int"))
        /\ ToSet(EnsureImport(macros, "Int")) = ToSet(macros) \cup {TextLine("use", "Int")}
    <2>1. "Int" \in Names
      BY DEF Names
    <2> QED
      BY <1>2, <2>1, ImportKeeps
  <1>6. EnsurePrelude(t, dialect) = IF dialect = "Logic" /\ MentionsInt(macros)
                                    THEN EnsureImport(macros, "Int") ELSE macros
    BY DEF EnsurePrelude, macros
  <1> QED
    BY <1>2, <1>4, <1>5, <1>6

-----------------------------------------------------------------------------
(***************************************************************************)
(* Drafts applied to a text.                                               *)
(***************************************************************************)

LEMMA TopmostIs ==
    ASSUME NEW S, S # {}, \A d \in S : d.line \in Nat
    PROVE  Topmost(S) \in S /\ \A e \in S : Topmost(S).line <= e.line
PROOF
  <1> DEFINE N == {d.line : d \in S}
  <1>1. N \in SUBSET Nat /\ N # {}
    OBVIOUS
  <1>2. PICK n \in N : \A m \in N : n <= m
    <2> HIDE DEF N
    <2> QED
      BY <1>1, LeastOne
  <1>3. PICK d \in S : d.line = n
    BY <1>2
  <1>4. \A e \in S : d.line <= e.line
    BY <1>2, <1>3
  <1> QED
    BY <1>3, <1>4, Zenon DEF Topmost

\* The texts with ever more of the drafts in them.
IsAfter(after, t, drafts) ==
    after = [S \in SUBSET drafts |-> IF S = {} THEN t ELSE Put(after[S \ {Topmost(S)}], Topmost(S))]

LEMMA AppliesAll ==
    ASSUME NEW t, NEW drafts, IsFiniteSet(drafts), \A d \in drafts : d.line \in Nat
    PROVE  \E after : IsAfter(after, t, drafts) /\ ApplyToSource(t, drafts) = after[drafts]
PROOF
  <1> DEFINE Small(n) == {S \in SUBSET drafts : Cardinality(S) <= n}
             Upto(n, g) == g = [S \in Small(n) |->
                                  IF S = {} THEN t ELSE Put(g[S \ {Topmost(S)}], Topmost(S))]
             Bad == {n \in Nat : ~\E g : Upto(n, g)}
  <1>1. \A S \in SUBSET drafts : IsFiniteSet(S) /\ Cardinality(S) \in Nat
    BY FS_Subset, FS_CardinalityType
  <1>2. \A S \in SUBSET drafts : S # {} => /\ S \ {Topmost(S)} \in SUBSET drafts
                                           /\ Cardinality(S \ {Topmost(S)}) = Cardinality(S) - 1
    <2> SUFFICES ASSUME NEW S \in SUBSET drafts, S # {}
                 PROVE  Cardinality(S \ {Topmost(S)}) = Cardinality(S) - 1
      OBVIOUS
    <2>1. Topmost(S) \in S
      BY TopmostIs
    <2> QED
      BY <1>1, <2>1, FS_RemoveElement
  <1>3. Bad = {}
    <2> SUFFICES ASSUME Bad # {} PROVE FALSE
      OBVIOUS
    <2>1. PICK n \in Bad : \A m \in Bad : n <= m
      <3>1. Bad \in SUBSET Nat
        OBVIOUS
      <3> HIDE DEF Bad
      <3> QED
        BY <3>1, LeastOne
    <2>2. n \in Nat /\ ~\E g : Upto(n, g)
      BY <2>1
    <2>3. n # 0
      <3> SUFFICES ASSUME n = 0 PROVE FALSE
        OBVIOUS
      <3> DEFINE g == [S \in Small(n) |-> t]
      <3>1. \A S \in Small(n) : S = {}
        BY <1>1, FS_EmptySet
      <3>2. g = [S \in Small(n) |-> IF S = {} THEN t ELSE Put(g[S \ {Topmost(S)}], Topmost(S))]
        BY <3>1
      <3>3. Upto(n, g)
        BY <3>2, Zenon
      <3> QED
        BY <2>2, <3>3
    <2>4. n - 1 \in Nat /\ ~(n <= n - 1)
      BY <2>2, <2>3
    <2>5. PICK h : Upto(n - 1, h)
      BY <2>1, <2>4
    <2> DEFINE g == [S \in Small(n) |-> IF S = {} THEN t ELSE Put(h[S \ {Topmost(S)}], Topmost(S))]
    <2>6. \A S \in Small(n) : S # {} => S \ {Topmost(S)} \in Small(n - 1) /\ S \ {Topmost(S)} \in Small(n)
      BY <1>1, <1>2, <2>2
    <2>7. \A S \in Small(n - 1) : S \in Small(n) /\ g[S] = h[S]
      <3> SUFFICES ASSUME NEW S \in Small(n - 1) PROVE S \in Small(n) /\ g[S] = h[S]
        OBVIOUS
      <3>1. S \in Small(n)
        BY <1>1, <2>2, <2>4
      <3>2. h[S] = IF S = {} THEN t ELSE Put(h[S \ {Topmost(S)}], Topmost(S))
        <4> HIDE DEF Small
        <4> QED
          BY <2>5
      <3> HIDE DEF Small
      <3> QED
        BY <3>1, <3>2
    <2>8. \A S \in Small(n) : S # {} => g[S \ {Topmost(S)}] = h[S \ {Topmost(S)}]
      <3> HIDE DEF Small, g
      <3> QED
        BY <2>6, <2>7
    <2>9. g = [S \in Small(n) |-> IF S = {} THEN t ELSE Put(g[S \ {Topmost(S)}], Topmost(S))]
      <3>1. \A S \in Small(n) :
                (IF S = {} THEN t ELSE Put(h[S \ {Topmost(S)}], Topmost(S)))
                = (IF S = {} THEN t ELSE Put(g[S \ {Topmost(S)}], Topmost(S)))
        <4> HIDE DEF Small, g
        <4> QED
          BY <2>8
      <3> HIDE DEF Small
      <3> QED
        BY <3>1, Zenon
    <2>10. Upto(n, g)
      <3> HIDE DEF g, Small
      <3> QED
        BY <2>9
    <2> QED
      BY <2>2, <2>10, Zenon
  <1>4. Cardinality(drafts) \in Nat /\ Small(Cardinality(drafts)) = SUBSET drafts
    BY <1>1, FS_Subset
  <1>5. PICK g : Upto(Cardinality(drafts), g)
    <2> HIDE DEF Upto
    <2> QED
      BY <1>3, <1>4
  <1>6. IsAfter(g, t, drafts)
    BY <1>4, <1>5 DEF IsAfter
  <1> DEFINE a == CHOOSE a : IsAfter(a, t, drafts)
  <1>7. IsAfter(a, t, drafts)
    BY <1>6
  <1>8. ApplyToSource(t, drafts) = a[drafts]
    BY DEF ApplyToSource, IsAfter
  <1> QED
    BY <1>7, <1>8

\* What is drafted for a text, line by line.
Drafts(t, drafts) ==
    /\ IsFiniteSet(drafts)
    /\ \A d \in drafts : Fitting(t, d.line, d.lines)
    /\ \A d, e \in drafts : d.line = e.line => d = e

\* The text with those drafts in it, and all lines above them where they were.
WithThem(r, t, S) ==
    /\ Whole(r)
    /\ ToSet(r) = ToSet(t) \cup UNION {ToSet(d.lines) : d \in S}
    /\ \A n \in DOMAIN t : (\A d \in S : n < d.line) => n \in DOMAIN r /\ r[n] = t[n]

LEMMA OneMore ==
    ASSUME NEW t, Whole(t), NEW drafts, Drafts(t, drafts), NEW S \in SUBSET drafts, NEW d \in drafts,
           d \notin S, \A e \in S : d.line <= e.line,
           NEW r, WithThem(r, t, S)
    PROVE  WithThem(Put(r, d), t, S \cup {d})
PROOF
  <1> DEFINE n == d.line
             ls == d.lines
  <1>1. /\ t \in Seq(SourceLine) /\ DOMAIN t = 1..Len(t) /\ Len(t) \in Nat
        /\ \A i, j \in DOMAIN t : t[i].k = "sig" /\ t[i] = t[j] => i = j
    BY DEF Whole, SigOnce
  <1>2. \A e \in drafts : /\ e.line \in DOMAIN t /\ t[e.line].k = "sig" /\ e.lines \in Seq(SourceLine)
                          /\ t[e.line] = Sig(t[e.line].fn)
                          /\ \A l \in ToSet(e.lines) : l.fn = t[e.line].fn
    <2> SUFFICES ASSUME NEW e \in drafts
                 PROVE  /\ e.line \in DOMAIN t /\ t[e.line].k = "sig" /\ e.lines \in Seq(SourceLine)
                        /\ t[e.line] = Sig(t[e.line].fn)
                        /\ \A l \in ToSet(e.lines) : l.fn = t[e.line].fn
      OBVIOUS
    <2>1. Fitting(t, e.line, e.lines)
      BY DEF Drafts
    <2>2. e.line \in DOMAIN t /\ t[e.line].k = "sig" /\ e.lines \in Seq(SourceLine)
      BY <2>1 DEF Fitting
    <2>3. t[e.line] = Sig(t[e.line].fn)
      BY <1>1, <2>2, SigLine
    <2>4. \A l \in ToSet(e.lines) : l.fn = t[e.line].fn
      BY <2>1 DEF Fitting, ToSet
    <2> QED
      BY <2>2, <2>3, <2>4
  <1>3. n \in DOMAIN t /\ ls \in Seq(SourceLine) /\ n \in 1..Len(t)
    BY <1>1, <1>2
  <1>4. \A e \in S : n < e.line /\ t[e.line].fn # t[n].fn
    <2> SUFFICES ASSUME NEW e \in S PROVE n < e.line /\ t[e.line].fn # t[n].fn
      OBVIOUS
    <2>1. e \in drafts /\ e # d
      OBVIOUS
    <2>2. e.line # n
      BY <2>1 DEF Drafts
    <2>3. t[e.line] # t[n]
      BY <1>1, <1>2, <2>1, <2>2
    <2>4. e.line \in Nat /\ n \in Nat
      BY <1>1, <1>2
    <2> QED
      BY <1>2, <2>1, <2>2, <2>3, <2>4
  <1>5. n \in DOMAIN r /\ r[n] = t[n]
    BY <1>3, <1>4 DEF WithThem
  <1>6. /\ r \in Seq(SourceLine) /\ DOMAIN r = 1..Len(r) /\ Len(r) \in Nat /\ Whole(r)
        /\ ToSet(r) = ToSet(t) \cup UNION {ToSet(e.lines) : e \in S}
    BY DEF WithThem, Whole
  <1>7. Put(r, d) = InsertAbove(r, n, ls)
    BY <1>5 DEF Put
  <1>8. Fitting(r, n, ls)
    <2>1. /\ n \in DOMAIN t /\ t[n].k = "sig" /\ ls \in Seq(SourceLine)
          /\ \A i \in DOMAIN ls :
                /\ ls[i].k \in Drafted \ {"mirror"} /\ ls[i].fn = t[n].fn
                /\ \A j \in DOMAIN ls : (SameDraft(ls[i], ls[j]) => i = j) /\ OfOneRound(ls[i], ls[j])
                /\ \A l \in ToSet(t) : ~SameDraft(l, ls[i]) /\ OfOneRound(l, ls[i])
      <3>1. Fitting(t, n, ls)
        BY DEF Drafts
      <3> QED
        BY <3>1 DEF Fitting
    <2>2. ASSUME NEW i \in DOMAIN ls, NEW l \in ToSet(r)
          PROVE  ~SameDraft(l, ls[i]) /\ OfOneRound(l, ls[i])
      <3>1. CASE l \in ToSet(t)
        BY <2>1, <3>1
      <3>2. CASE \E e \in S : l \in ToSet(e.lines)
        <4>1. PICK e \in S : l \in ToSet(e.lines)
          BY <3>2
        <4>2. l.fn = t[e.line].fn
          BY <1>2, <4>1
        <4>3. l.fn # ls[i].fn
          BY <1>4, <2>1, <4>1, <4>2
        <4> QED
          BY <4>3 DEF SameDraft, OfOneRound
      <3> QED
        BY <1>6, <3>1, <3>2
    <2> HIDE DEF n, ls
    <2> QED
      BY <1>5, <2>1, <2>2 DEF Fitting
  <1>9. Whole(InsertAbove(r, n, ls))
    <2> HIDE DEF n, ls
    <2> QED
      BY <1>6, <1>8, InsertKeeps
  <1>10. IsInserted(InsertAbove(r, n, ls), r, n, ls)
    <2> HIDE DEF n, ls
    <2>1. n \in 1..Len(r) + 1
      BY <1>5, <1>6
    <2> QED
      BY <1>3, <1>6, <2>1, InsertedMoves
  <1>11. ToSet(Put(r, d)) = ToSet(t) \cup UNION {ToSet(e.lines) : e \in S \cup {d}}
    <2>1. ToSet(Put(r, d)) = ToSet(r) \cup ToSet(ls)
      BY <1>7, <1>10 DEF IsInserted
    <2> QED
      BY <1>6, <2>1
  <1>12. ASSUME NEW i \in DOMAIN t, \A e \in S \cup {d} : i < e.line
         PROVE  i \in DOMAIN Put(r, d) /\ Put(r, d)[i] = t[i]
    <2>1. i < n /\ i \in DOMAIN r /\ r[i] = t[i]
      BY <1>12 DEF WithThem
    <2>2. Shifted(n, Len(ls), i) = i
      BY <2>1 DEF Shifted
    <2> HIDE DEF n, ls
    <2> QED
      BY <1>7, <1>10, <2>1, <2>2 DEF IsInserted
  <1> QED
    BY <1>7, <1>9, <1>11, <1>12 DEF WithThem

LEMMA ApplyKeeps ==
    ASSUME NEW t, Whole(t), NEW drafts, Drafts(t, drafts)
    PROVE  /\ Whole(ApplyToSource(t, drafts))
           /\ ToSet(ApplyToSource(t, drafts)) = ToSet(t) \cup UNION {ToSet(d.lines) : d \in drafts}
PROOF
  <1>1. IsFiniteSet(drafts) /\ \A d \in drafts : d.line \in Nat
    <2>1. DOMAIN t = 1..Len(t) /\ Len(t) \in Nat
      BY DEF Whole
    <2>2. \A d \in drafts : d.line \in DOMAIN t
      BY DEF Drafts, Fitting
    <2> QED
      BY <2>1, <2>2 DEF Drafts
  <1>2. PICK after : IsAfter(after, t, drafts) /\ ApplyToSource(t, drafts) = after[drafts]
    BY <1>1, AppliesAll
  <1> DEFINE Bad == {S \in SUBSET drafts : ~WithThem(after[S], t, S)}
             Sizes == {Cardinality(S) : S \in Bad}
  <1>3. \A S \in SUBSET drafts : IsFiniteSet(S) /\ Cardinality(S) \in Nat
    BY <1>1, FS_Subset, FS_CardinalityType
  <1>4. Bad = {}
    <2> SUFFICES ASSUME Bad # {} PROVE FALSE
      OBVIOUS
    <2>1. PICK n \in Sizes : \A m \in Sizes : n <= m
      <3>1. Sizes \in SUBSET Nat /\ Sizes # {}
        BY <1>3
      <3> HIDE DEF Sizes
      <3> QED
        BY <3>1, LeastOne
    <2>2. PICK S \in Bad : Cardinality(S) = n
      BY <2>1
    <2>3. \A R \in SUBSET drafts : Cardinality(R) < n => WithThem(after[R], t, R)
      <3> SUFFICES ASSUME NEW R \in SUBSET drafts, Cardinality(R) < n, R \in Bad PROVE FALSE
        OBVIOUS
      <3>1. Cardinality(R) \in Sizes
        OBVIOUS
      <3>2. n <= Cardinality(R) /\ n \in Nat /\ Cardinality(R) \in Nat
        BY <1>3, <2>1, <2>2, <3>1
      <3> QED
        BY <3>2
    <2>4. after[S] = IF S = {} THEN t ELSE Put(after[S \ {Topmost(S)}], Topmost(S))
      <3>1. S \in SUBSET drafts
        BY <2>2
      <3> QED
        BY <1>2, <3>1 DEF IsAfter
    <2>5. CASE S = {}
      <3>1. WithThem(t, t, {})
        BY DEF WithThem
      <3> QED
        BY <2>2, <2>4, <2>5, <3>1
    <2>6. CASE S # {}
      <3> DEFINE d == Topmost(S)
                 R == S \ {d}
      <3>1. d \in S /\ \A e \in S : d.line <= e.line
        BY <1>1, <2>2, <2>6, TopmostIs
      <3>2. Cardinality(R) < n
        BY <1>3, <2>2, <3>1, FS_RemoveElement
      <3>3. WithThem(after[R], t, R)
        BY <2>2, <2>3, <3>2
      <3>4. after[S] = Put(after[R], d)
        BY <2>4, <2>6
      <3>5. R \in SUBSET drafts /\ d \in drafts /\ d \notin R /\ \A e \in R : d.line <= e.line
        BY <2>2, <3>1
      <3>6. R \cup {d} = S
        BY <3>1
      <3> HIDE DEF d, R
      <3>7. WithThem(Put(after[R], d), t, R \cup {d})
        BY <3>3, <3>5, OneMore
      <3> QED
        BY <2>2, <3>4, <3>6, <3>7
    <2> QED
      BY <2>5, <2>6
  <1>5. WithThem(after[drafts], t, drafts)
    BY <1>4
  <1> QED
    BY <1>2, <1>5 DEF WithThem

LEMMA ApplyNothing == ASSUME NEW t PROVE ApplyToSource(t, {}) = t
PROOF
  <1>1. PICK after : IsAfter(after, t, {}) /\ ApplyToSource(t, {}) = after[{}]
    BY FS_EmptySet, AppliesAll
  <1> QED
    BY <1>1 DEF IsAfter

LEMMA AsSequence ==
    ASSUME NEW S, IsFiniteSet(S)
    PROVE  SetToSeq(S) \in Seq(S) /\ ToSet(SetToSeq(S)) = S /\ IsInjective(SetToSeq(S))
PROOF
  <1> DEFINE n == Cardinality(S)
             q == SetToSeq(S)
  <1>1. n \in Nat /\ \E f \in [1..n -> S] : IsInjective(f)
    <2>1. n \in Nat /\ ExistsBijection(1..n, S)
      BY FS_CardinalityType
    <2>2. PICK f : f \in Bijection(1..n, S)
      BY <2>1, Fun_ExistsBij
    <2>3. f \in [1..n -> S] /\ \A a, b \in 1..n : f[a] = f[b] => a = b
      BY <2>2, Fun_BijectionProperties
    <2>4. IsInjective(f)
      BY <2>3 DEF IsInjective
    <2> QED
      BY <2>1, <2>3, <2>4
  <1>2. q \in [1..n -> S] /\ IsInjective(q)
    BY <1>1, Zenon DEF SetToSeq
  <1> HIDE DEF q
  <1>3. q \in Injection(1..n, S)
    BY <1>2 DEF Injection
  <1>4. Cardinality(1..n) = n
    BY <1>1, FS_Interval
  <1>5. q \in Surjection(1..n, S)
    BY <1>3, <1>4, FS_Injection
  <1>6. \A s \in S : \E i \in 1..n : q[i] = s
    BY <1>5 DEF Surjection
  <1>7. q \in Seq(S) /\ DOMAIN q = 1..n
    BY <1>1, <1>2
  <1>8. ToSet(q) = S
    BY <1>2, <1>6, <1>7 DEF ToSet
  <1> QED
    BY <1>2, <1>7, <1>8 DEF q

\* Mirrors at the end of a text that has their functions and no mirror of them.
LEMMA AppendKeeps ==
    ASSUME NEW t, Whole(t), NEW ms, ms \subseteq SourceLine, IsFiniteSet(ms),
           \A m \in ms : /\ m.k = "mirror" /\ Sig(m.fn) \in ToSet(t)
                         /\ \A l \in ToSet(t) : ~SameDraft(l, m)
                         /\ \A o \in ms : o.fn = m.fn => o = m
    PROVE  Whole(t \o SetToSeq(ms)) /\ ToSet(t \o SetToSeq(ms)) = ToSet(t) \cup ms
PROOF
  <1> DEFINE q == SetToSeq(ms)
             r == t \o q
  <1>1. q \in Seq(ms) /\ ToSet(q) = ms /\ IsInjective(q)
    BY AsSequence
  <1> HIDE DEF q
  <1>2. /\ t \in Seq(SourceLine) /\ DOMAIN t = 1..Len(t) /\ Len(t) \in Nat
        /\ SigOnce(t) /\ InnerFirst(t) /\ Attached(t)
    BY AttachedIs DEF Whole
  <1>3. /\ DOMAIN q = 1..Len(q) /\ Len(q) \in Nat /\ \A i \in DOMAIN q : q[i] \in ms
        /\ q \in Seq(SourceLine)
    <2>1. DOMAIN q = 1..Len(q) /\ Len(q) \in Nat /\ \A i \in 1..Len(q) : q[i] \in ms
      BY <1>1
    <2>2. \A i \in 1..Len(q) : q[i] \in SourceLine
      BY <2>1
    <2>3. q \in Seq(SourceLine)
      BY <1>1, <2>1, <2>2
    <2> QED
      BY <2>1, <2>3
  <1>4. /\ r \in Seq(SourceLine) /\ DOMAIN r = 1..(Len(t) + Len(q))
        /\ \A i \in 1..(Len(t) + Len(q)) : r[i] = IF i <= Len(t) THEN t[i] ELSE q[i - Len(t)]
    BY <1>2, <1>3
  <1>5. /\ \A i \in DOMAIN t : i \in DOMAIN r /\ r[i] = t[i]
        /\ \A i \in DOMAIN q : Len(t) + i \in DOMAIN r /\ r[Len(t) + i] = q[i]
    <2>1. \A i \in DOMAIN t : i \in 1..(Len(t) + Len(q)) /\ i <= Len(t)
      BY <1>2, <1>3
    <2>2. \A i \in DOMAIN q : /\ Len(t) + i \in 1..(Len(t) + Len(q)) /\ ~(Len(t) + i <= Len(t))
                              /\ (Len(t) + i) - Len(t) = i
      BY <1>2, <1>3
    <2>3. \A i \in DOMAIN t : i \in DOMAIN r /\ r[i] = t[i]
      <3> HIDE DEF r
      <3> QED
        BY <1>4, <2>1
    <2>4. \A i \in DOMAIN q : Len(t) + i \in DOMAIN r /\ r[Len(t) + i] = q[i]
      <3> SUFFICES ASSUME NEW i \in DOMAIN q
                   PROVE  Len(t) + i \in DOMAIN r /\ r[Len(t) + i] = q[i]
        OBVIOUS
      <3> HIDE DEF r
      <3> QED
        BY <1>4, <2>2
    <2> QED
      BY <2>3, <2>4
  <1>6. ASSUME NEW j \in DOMAIN r
        PROVE  j \in DOMAIN t \/ \E i \in DOMAIN q : j = Len(t) + i
    <2> HIDE DEF r
    <2>1. j \in 1..(Len(t) + Len(q))
      BY <1>4
    <2>2. ~(j <= Len(t)) => j - Len(t) \in 1..Len(q) /\ j = Len(t) + (j - Len(t))
      BY <1>2, <1>3, <2>1
    <2> QED
      BY <1>2, <1>3, <2>1, <2>2
  <1> HIDE DEF r
  <1>7. ToSet(r) = ToSet(t) \cup ms
    <2>1. ToSet(r) \subseteq ToSet(t) \cup ms
      BY <1>3, <1>5, <1>6 DEF ToSet
    <2>2. ToSet(t) \subseteq ToSet(r)
      BY <1>5 DEF ToSet
    <2>3. ASSUME NEW m \in ms PROVE m \in ToSet(r)
      <3>1. PICK i \in DOMAIN q : m = q[i]
        BY <1>1 DEF ToSet
      <3> QED
        BY <1>5, <3>1 DEF ToSet
    <2> QED
      BY <2>1, <2>2, <2>3
  <1>8. \A i \in DOMAIN q : /\ q[i] \in ms /\ q[i].k = "mirror"
                            /\ q[i].k # "sig" /\ q[i].k # "inner"
    BY <1>3
  <1>9. SigOnce(r)
    <2> SUFFICES ASSUME NEW i \in DOMAIN r, NEW j \in DOMAIN r, r[i].k = "sig", r[i] = r[j]
                 PROVE  i = j
      BY DEF SigOnce
    <2>1. i \in DOMAIN t /\ j \in DOMAIN t
      BY <1>5, <1>6, <1>8
    <2> QED
      BY <1>2, <1>5, <2>1 DEF SigOnce
  <1>10. InnerFirst(r)
    <2> SUFFICES ASSUME NEW i \in DOMAIN r, r[i].k = "inner", NEW j \in 1..i - 1
                 PROVE  r[j].k = "inner"
      BY DEF InnerFirst
    <2>1. i \in DOMAIN t
      BY <1>5, <1>6, <1>8
    <2>2. j \in DOMAIN t
      BY <1>2, <2>1
    <2> QED
      BY <1>2, <1>5, <2>1, <2>2 DEF InnerFirst
  <1>11. Attached(r)
    <2> SUFFICES ASSUME NEW i \in DOMAIN r, r[i].k \in Drafted
                 PROVE  /\ \E p \in DOMAIN r :
                              /\ r[p] = Sig(r[i].fn)
                              /\ r[i].k # "mirror"
                                 => i < p /\ \A j \in i..p - 1 : r[j].k \in Drafted \cup {"doc"}
                        /\ \A o \in DOMAIN r : /\ SameDraft(r[o], r[i]) => o = i
                                               /\ OfOneRound(r[o], r[i])
      BY DEF Attached
    <2>1. CASE i \in DOMAIN t
      <3>1. r[i] = t[i]
        BY <1>5, <2>1
      <3>2. PICK p \in DOMAIN t :
                /\ t[p] = Sig(t[i].fn)
                /\ t[i].k # "mirror" => i < p /\ \A j \in i..p - 1 : t[j].k \in Drafted \cup {"doc"}
        BY <1>2, <2>1, <3>1 DEF Attached
      <3>3. \A j \in i..p - 1 : j \in DOMAIN t
        BY <1>2, <2>1
      <3>4. \A j \in i..p - 1 : r[j] = t[j]
        BY <1>5, <3>3
      <3>5. ASSUME NEW o \in DOMAIN r
            PROVE  (SameDraft(r[o], r[i]) => o = i) /\ OfOneRound(r[o], r[i])
        <4>1. CASE o \in DOMAIN t
          BY <1>2, <1>5, <2>1, <3>1, <4>1 DEF Attached
        <4>2. CASE \E a \in DOMAIN q : o = Len(t) + a
          <5>1. PICK a \in DOMAIN q : o = Len(t) + a
            BY <4>2
          <5>2. r[o] = q[a] /\ q[a] \in ms /\ q[a].k = "mirror" /\ t[i] \in ToSet(t)
            BY <1>5, <1>8, <2>1, <5>1 DEF ToSet
          <5>3. ~SameDraft(t[i], q[a])
            BY <5>2
          <5> QED
            BY <3>1, <5>2, <5>3 DEF SameDraft, OfOneRound
        <4> QED
          BY <1>6, <4>1, <4>2
      <3>6. p \in DOMAIN r /\ r[p] = Sig(r[i].fn)
        BY <1>5, <3>1, <3>2
      <3>7. r[i].k # "mirror" => i < p /\ \A j \in i..p - 1 : r[j].k \in Drafted \cup {"doc"}
        BY <3>1, <3>2, <3>4
      <3> QED
        BY <3>5, <3>6, <3>7
    <2>2. CASE \E b \in DOMAIN q : i = Len(t) + b
      <3>1. PICK b \in DOMAIN q : i = Len(t) + b
        BY <2>2
      <3>2. r[i] = q[b] /\ q[b] \in ms /\ q[b].k = "mirror"
        BY <1>5, <1>8, <3>1
      <3>3. PICK p \in DOMAIN t : t[p] = Sig(r[i].fn)
        BY <3>2 DEF ToSet
      <3>4. ASSUME NEW o \in DOMAIN r
            PROVE  (SameDraft(r[o], r[i]) => o = i) /\ OfOneRound(r[o], r[i])
        <4>1. CASE o \in DOMAIN t
          <5>1. r[o] = t[o] /\ t[o] \in ToSet(t)
            BY <1>5, <4>1 DEF ToSet
          <5> QED
            BY <3>2, <5>1 DEF OfOneRound
        <4>2. CASE \E a \in DOMAIN q : o = Len(t) + a
          <5>1. PICK a \in DOMAIN q : o = Len(t) + a
            BY <4>2
          <5>2. r[o] = q[a] /\ q[a] \in ms /\ q[a].k = "mirror"
            BY <1>5, <1>8, <5>1
          <5>3. SameDraft(q[a], q[b]) => a = b
            BY <1>1, <3>2, <5>2 DEF SameDraft, IsInjective
          <5> QED
            BY <3>1, <3>2, <5>1, <5>2, <5>3 DEF OfOneRound
        <4> QED
          BY <1>6, <4>1, <4>2
      <3> QED
        BY <1>5, <3>2, <3>3, <3>4
    <2> QED
      BY <1>6, <2>1, <2>2
  <1> QED
    BY <1>4, <1>7, <1>9, <1>10, <1>11, AttachedIs DEF Whole, q, r

-----------------------------------------------------------------------------
(***************************************************************************)
(* Texts that have grown.                                                  *)
(***************************************************************************)

Grows(r, t, new) ==
    /\ ToSet(t) \cup new \subseteq ToSet(r)
    /\ \A l \in ToSet(r) : l \in ToSet(t) \/ l \in new \/ l.k = "use"

Imported(r, dialect) ==
    /\ TextLine("use", ImportOf(dialect)) \in ToSet(r)
    /\ dialect = "Logic" /\ MentionsInt(r) => TextLine("use", "Int") \in ToSet(r)

LEMMA PreludeGrows ==
    ASSUME NEW t, NEW new, NEW x, Whole(x), ToSet(x) = ToSet(t) \cup new, NEW dialect
    PROVE  /\ Whole(EnsurePrelude(x, dialect)) /\ Grows(EnsurePrelude(x, dialect), t, new)
           /\ Imported(EnsurePrelude(x, dialect), dialect)
PROOF
  <1> DEFINE r == EnsurePrelude(x, dialect)
  <1>1. /\ Whole(r)
        /\ \/ /\ ToSet(r) = ToSet(x) \cup {TextLine("use", ImportOf(dialect))}
              /\ ~(dialect = "Logic" /\ MentionsInt(x))
           \/ ToSet(r) = ToSet(x) \cup {TextLine("use", ImportOf(dialect))} \cup {TextLine("use", "Int")}
    BY PreludeKeeps
  <1> HIDE DEF r
  <1>2. \A c : TextLine("use", c).k = "use"
    BY DEF TextLine
  <1>3. MentionsInt(r) => MentionsInt(x)
    BY <1>1, <1>2 DEF MentionsInt, Mirrors
  <1> QED
    BY <1>1, <1>2, <1>3 DEF r, Grows, Imported

LEMMA NewInScope ==
    ASSUME NEW f, NEW r, Whole(r), Imported(r, subject.dialect),
           subject.dialect # "Logic" => ~MentionsInt(r),
           NEW l \in ToSet(r), l.k \in Drafted, l \notin ToSet(subject.text[f])
    PROVE  InScope(f, r)
PROOF
  <1>1. ~(Proposed(r) \subseteq ToSet(subject.text[f]))
    BY DEF Proposed
  <1>2. \A c : TextLine("use", c) \in ToSet(r) => c \in UsesOf(r)
    <2> SUFFICES ASSUME NEW c, TextLine("use", c) \in ToSet(r) PROVE c \in UsesOf(r)
      OBVIOUS
    <2>1. TextLine("use", c).k = "use" /\ TextLine("use", c).fn = c
      BY DEF TextLine
    <2> QED
      BY <2>1 DEF UsesOf
  <1> QED
    BY <1>1, <1>2 DEF InScope, Imported, Whole

LEMMA KeepsGrown ==
    ASSUME NEW f, NEW t, Keeps(f, t), NEW r, NEW new, Grows(r, t, new),
           \A l \in new : /\ l.k \in Drafted
                          /\ subject.dialect = "Pure" => l.k \notin {"link", "mirror"}
    PROVE  Keeps(f, r)
PROOF
  BY DEF Keeps, Grows

\* What of earlier proposals there is in the sources.
LEMMA NothingOfATarget ==
    ASSUME subject \in Subjects, DraftedOnce, NEW sources, Undrafted(sources),
           NEW f \in DOMAIN subject.text, NEW l \in ToSet(sources[f])
    PROVE  /\ l.fn \in Targets => l.k \notin Semantic
           /\ subject.dialect = "Pure" => l.k \notin Semantic
PROOF
  BY DEF DraftedOnce, Undrafted, Semantic, Targets

LEMMA TheFunctions ==
    ASSUME subject \in Subjects, NEW fn \in Targets
    PROVE  /\ FileOf(fn) \in DOMAIN subject.text
           /\ Sig(fn) \in ToSet(subject.text[FileOf(fn)])
           /\ fn \in Names
PROOF
  <1>1. \E f \in DOMAIN subject.text : Sig(fn) \in ToSet(subject.text[f])
    BY DraftingAssumption DEF Targets
  <1>2. fn \in Names
    BY DEF Names, Targets
  <1> QED
    BY <1>1, <1>2 DEF FileOf

LEMMA TheirLines ==
    ASSUME subject \in Subjects, NEW sources, SourcesStand(sources), NEW fn \in Targets
    PROVE  /\ LineOf(sources[FileOf(fn)], fn) \in DOMAIN sources[FileOf(fn)]
           /\ sources[FileOf(fn)][LineOf(sources[FileOf(fn)], fn)] = Sig(fn)
PROOF
  <1>1. Sig(fn) \in ToSet(sources[FileOf(fn)])
    BY TheFunctions DEF SourcesStand, Keeps
  <1> QED
    BY <1>1 DEF LineOf, ToSet

\* A Pure subject has no mirrors.
LEMMA NoMirrors ==
    ASSUME NEW sources,
           \A f \in DOMAIN sources : \A l \in ToSet(sources[f]) : l.k \notin {"link", "mirror"}
    PROVE  MirrorsAreChecked(sources)
PROOF
  BY DEF MirrorsAreChecked

LEMMA PureGrows ==
    ASSUME subject \in Subjects, subject.dialect = "Pure",
           NEW f \in DOMAIN subject.text, NEW t, Whole(t), Keeps(f, t),
           NEW here, Drafts(t, here), here # {},
           \A d \in here : /\ d.lines # <<>>
                           /\ \A l \in ToSet(d.lines) : /\ l.k \in {"pure", "requires", "ensures"}
                                                        /\ l \notin ToSet(t)
    PROVE  LET r == EnsurePrelude(ApplyToSource(t, here), "Pure")
           IN  /\ Whole(r) /\ Keeps(f, r) /\ InScope(f, r)
               /\ Grows(r, t, UNION {ToSet(d.lines) : d \in here})
PROOF
  <1> DEFINE x == ApplyToSource(t, here)
             new == UNION {ToSet(d.lines) : d \in here}
             r == EnsurePrelude(x, "Pure")
  <1>1. Whole(x) /\ ToSet(x) = ToSet(t) \cup new
    BY ApplyKeeps
  <1>2. \A l \in new : l.k \in {"pure", "requires", "ensures"} /\ l \notin ToSet(t)
    OBVIOUS
  <1>3. \E l : l \in new
    <2>1. PICK d \in here : TRUE
      OBVIOUS
    <2>2. d.lines \in Seq(SourceLine) /\ d.lines # <<>>
      BY DEF Drafts, Fitting
    <2>3. 1 \in DOMAIN d.lines
      <3> DEFINE q == d.lines
      <3>1. q \in Seq(SourceLine) /\ q # <<>>
        BY <2>2
      <3> HIDE DEF q
      <3>2. Len(q) # 0 /\ Len(q) \in Nat /\ DOMAIN q = 1..Len(q)
        BY <3>1, EmptySeq
      <3>3. 1 \in DOMAIN q
        BY <3>2
      <3> QED
        BY <3>3 DEF q
    <2>4. d.lines[1] \in ToSet(d.lines)
      BY <2>3 DEF ToSet
    <2>5. d.lines[1] \in new
      BY <2>4
    <2> QED
      BY <2>5, Zenon
  <1> HIDE DEF x, new
  <1>4. Whole(r) /\ Grows(r, t, new) /\ Imported(r, "Pure")
    BY <1>1, PreludeGrows
  <1> HIDE DEF r
  <1>5. Keeps(f, r)
    <2>1. \A l \in new : l.k \in Drafted /\ l.k \notin {"link", "mirror"}
      BY <1>2 DEF Drafted
    <2> QED
      BY <1>4, <2>1, KeepsGrown
  <1>6. ~MentionsInt(r)
    BY <1>5 DEF Keeps, MentionsInt, Mirrors
  <1>7. InScope(f, r)
    <2>1. PICK l : l \in new
      BY <1>3
    <2>2. l \in ToSet(r) /\ l.k \in Drafted /\ l \notin ToSet(subject.text[f])
      BY <1>2, <1>4, <2>1 DEF Grows, Drafted, Keeps
    <2> QED
      BY <1>4, <1>6, <2>2, NewInScope
  <1> QED
    BY <1>4, <1>5, <1>7 DEF r, x, new

-----------------------------------------------------------------------------
(***************************************************************************)
(* What is staged stands.                                                  *)
(***************************************************************************)

LEMMA AppendNothing == ASSUME NEW t, Whole(t) PROVE t \o SetToSeq({}) = t
PROOF
  <1>1. t \in Seq(SourceLine)
    BY DEF Whole
  <1>2. SetToSeq({}) \in Seq({})
    BY FS_EmptySet, AsSequence
  <1>3. SetToSeq({}) = <<>>
    BY <1>2
  <1> QED
    BY <1>1, <1>3

LEMMA LineNames == ASSUME NEW l \in SourceLine PROVE l.fn \in Names
PROOF
  BY DEF SourceLine

LEMMA ClausesFit ==
    ASSUME NEW fn \in Names, NEW round \in Nat, NEW ls \in ClausesOf(fn, round)
    PROVE  /\ ls \in Seq(SourceLine) /\ ls # <<>>
           /\ \A i \in DOMAIN ls :
                 /\ ls[i].k \in {"requires", "ensures"} /\ ls[i].fn = fn
                 /\ \A j \in DOMAIN ls : (SameDraft(ls[i], ls[j]) => i = j) /\ OfOneRound(ls[i], ls[j])
PROOF
  <1> DEFINE L(k) == [k |-> k, fn |-> fn, round |-> round]
  <1>1. PICK cs \in Clauses \ {<<>>} : ls = [i \in DOMAIN cs |-> L(cs[i])]
    BY DEF ClausesOf
  <1>2. cs = <<"ensures">> \/ cs = <<"requires", "ensures">>
    BY <1>1 DEF Clauses
  <1>3. \A k \in {"requires", "ensures"} :
            L(k) \in SourceLine /\ L(k).k = k /\ L(k).fn = fn /\ L(k).round = round
    BY DEF SourceLine
  <1> HIDE DEF L
  <1>4. CASE cs = <<"ensures">>
    <2>1. ls = <<L("ensures")>>
      BY <1>1, <1>4
    <2>2. ls \in Seq(SourceLine) /\ ls # <<>> /\ DOMAIN ls = {1} /\ ls[1] = L("ensures")
      BY <1>3, <2>1
    <2> QED
      BY <1>3, <2>2 DEF SameDraft, OfOneRound
  <1>5. CASE cs = <<"requires", "ensures">>
    <2>1. ls = <<L("requires"), L("ensures")>>
      BY <1>1, <1>5
    <2>2. /\ ls \in Seq(SourceLine) /\ ls # <<>> /\ DOMAIN ls = {1, 2}
          /\ ls[1] = L("requires") /\ ls[2] = L("ensures")
      BY <1>3, <2>1
    <2>3. \A i, j \in {1, 2} : SameDraft(ls[i], ls[j]) => i = j
      BY <1>3, <2>2 DEF SameDraft
    <2>4. \A i \in {1, 2} : ls[i].k \in {"requires", "ensures"} /\ ls[i].fn = fn /\ ls[i].round = round
      BY <1>3, <2>2
    <2> QED
      BY <2>2, <2>3, <2>4 DEF OfOneRound
  <1> QED
    BY <1>2, <1>4, <1>5

SourceStands(f, r) == Whole(r) /\ Keeps(f, r) /\ InScope(f, r)

LEMMA PureStaged ==
    ASSUME subject \in Subjects, DraftedOnce, subject.dialect = "Pure",
           Session(cli), DraftsAre(cli, Targets), NEW f \in DOMAIN subject.text
    PROVE  SourceStands(f, StagedSource(f, cli.drafts, cli.mirrors, subject.dialect))
PROOF
  <1> DEFINE t == cli.sources[f]
             here == {d \in cli.drafts : d.file = f}
  <1>1. cli.mirrors = {} /\ cli.attempts \in Nat
    BY DEF Session
  <1>2. SourceStands(f, t) /\ t \in Seq(SourceLine) /\ DOMAIN t = 1..Len(t) /\ Len(t) \in Nat
    BY DEF Session, SourcesStand, SourceStands, Whole
  <1>3. \A l \in ToSet(t) : l.k \notin Semantic
    BY NothingOfATarget DEF Session
  <1>4. ASSUME NEW d \in here
        PROVE  /\ Fitting(t, d.line, d.lines) /\ d.lines # <<>>
               /\ \A l \in ToSet(d.lines) : l.k \in {"pure", "requires", "ensures"} /\ l \notin ToSet(t)
    <2>1. /\ d.line \in DOMAIN t /\ t[d.line].k = "sig"
          /\ d.lines \in ClausesOf(t[d.line].fn, cli.attempts)
      BY DEF DraftsAre
    <2>2. t[d.line].fn \in Names
      <3>1. t[d.line] \in SourceLine
        BY <1>2, <2>1
      <3> QED
        BY <3>1, LineNames
    <2>3. /\ d.lines \in Seq(SourceLine) /\ d.lines # <<>>
          /\ \A i \in DOMAIN d.lines :
                /\ d.lines[i].k \in {"requires", "ensures"} /\ d.lines[i].fn = t[d.line].fn
                /\ \A j \in DOMAIN d.lines : /\ SameDraft(d.lines[i], d.lines[j]) => i = j
                                             /\ OfOneRound(d.lines[i], d.lines[j])
      <3> HIDE DEF t, here
      <3> QED
        BY <1>1, <2>1, <2>2, ClausesFit
    <2>4. \A l \in ToSet(t), i \in DOMAIN d.lines :
              ~SameDraft(l, d.lines[i]) /\ OfOneRound(l, d.lines[i])
      BY <1>3, <2>3 DEF SameDraft, OfOneRound, Semantic
    <2>5. Fitting(t, d.line, d.lines)
      <3> HIDE DEF t, here
      <3>1. \A i \in DOMAIN d.lines : d.lines[i].k \in Drafted \ {"mirror"}
        BY <2>3 DEF Drafted
      <3> QED
        BY <2>1, <2>3, <2>4, <3>1 DEF Fitting
    <2>6. \A l \in ToSet(d.lines) : l.k \in {"requires", "ensures"}
      BY <2>3 DEF ToSet
    <2>7. \A l \in ToSet(d.lines) : l \notin ToSet(t)
      BY <1>3, <2>6 DEF Semantic
    <2> QED
      BY <2>3, <2>5, <2>6, <2>7
  <1>5. Drafts(t, here)
    <2>1. IsFiniteSet(here)
      BY FS_Subset DEF DraftsAre
    <2>2. \A d, e \in here : d.line = e.line => d = e
      BY DEF DraftsAre
    <2> QED
      BY <1>4, <2>1, <2>2 DEF Drafts
  <1>6. /\ {m \in cli.mirrors : m.file = f} = {}
        /\ StagedSource(f, cli.drafts, cli.mirrors, subject.dialect) =
              IF here = {} THEN ApplyToSource(t, here) \o SetToSeq({})
              ELSE EnsurePrelude(ApplyToSource(t, here) \o SetToSeq({}), "Pure")
    <2> DEFINE links(S) == {[file |-> f, line |-> m.line, lines |-> <<TextLine("link", m.fn)>>] : m \in S}
               items(S) == {[k |-> "mirror", fn |-> m.fn, calls |-> m.calls, int |-> m.int] : m \in S}
    <2>1. {m \in cli.mirrors : m.file = f} = {} /\ links({}) = {} /\ items({}) = {}
      BY <1>1
    <2>2. here \cup {} = here
      OBVIOUS
    <2> QED
      BY <2>1, <2>2 DEF StagedSource
  <1>7. ApplyToSource(t, here) \o SetToSeq({}) = ApplyToSource(t, here)
    <2>1. Whole(ApplyToSource(t, here))
      <3> HIDE DEF t, here
      <3> QED
        BY <1>2, <1>5, ApplyKeeps DEF SourceStands
    <2> QED
      BY <2>1, AppendNothing
  <1> HIDE DEF t, here
  <1>8. CASE here = {}
    BY <1>2, <1>6, <1>7, <1>8, ApplyNothing
  <1>9. CASE here # {}
    <2> DEFINE r == EnsurePrelude(ApplyToSource(t, here), "Pure")
    <2>1. Whole(r) /\ Keeps(f, r) /\ InScope(f, r)
      BY <1>2, <1>4, <1>5, <1>9, PureGrows DEF SourceStands
    <2> QED
      BY <1>6, <1>7, <1>9, <2>1 DEF SourceStands
  <1> QED
    BY <1>8, <1>9

\* What a mirror puts into its source.
LinkOf(m) == TextLine("link", m.fn)
ItemOf(m) == [k |-> "mirror", fn |-> m.fn, calls |-> m.calls, int |-> m.int]
NewOf(mirrors, f) == UNION {{LinkOf(m), ItemOf(m)} : m \in {m \in mirrors : m.file = f}}

LEMMA MirrorIs ==
    ASSUME subject \in Subjects, NEW c, c.at = [fn \in Targets |-> c.at[fn]],
           \A fn \in Targets : c.at[fn].file = FileOf(fn),
           MirrorsAre(c, Targets), NEW m \in c.mirrors
    PROVE  /\ m.fn \in Targets /\ m.fn \in Names /\ m.int \in BOOLEAN
           /\ m.file = FileOf(m.fn) /\ m.line = c.at[m.fn].line
           /\ \E calls : m.calls = QualifyPeerCalls(m.fn, calls)
           /\ m.calls \in SUBSET (Names \X Names)
PROOF
  <1>1. PICK fn \in Targets, calls \in SUBSET (Targets \cup {"ghost", "old"}), int \in BOOLEAN :
            m = [fn |-> fn, file |-> c.at[fn].file, line |-> c.at[fn].line,
                 calls |-> QualifyPeerCalls(fn, calls), int |-> int]
    BY DEF MirrorsAre
  <1>2. /\ m.fn = fn /\ m.int = int /\ m.file = FileOf(fn) /\ m.line = c.at[fn].line
        /\ m.calls = QualifyPeerCalls(fn, calls)
    BY <1>1
  <1>3. QualifyPeerCalls(fn, calls) \in SUBSET (Names \X Names)
    <2>1. {"ghost", "old", "here"} \subseteq Names
      BY DEF Names
    <2>2. \A x \in Targets : x \in Names /\ FileOf(x) \in Names
      <3>1. \A x \in Targets : x \in Names /\ FileOf(x) \in DOMAIN subject.text
        BY TheFunctions
      <3>2. \A x \in DOMAIN subject.text : x \in Names
        BY DEF Names
      <3> QED
        BY <3>1, <3>2
    <2>3. \A x \in calls : (IF x \in Targets \ {fn} THEN <<FileOf(x), x>> ELSE <<"here", x>>) \in Names \X Names
      BY <2>1, <2>2
    <2> DEFINE Q(x) == IF x \in Targets \ {fn} THEN <<FileOf(x), x>> ELSE <<"here", x>>
    <2>4. QualifyPeerCalls(fn, calls) = {Q(x) : x \in calls}
      BY DEF QualifyPeerCalls
    <2>5. \A x \in calls : Q(x) \in Names \X Names
      BY <2>3
    <2> HIDE DEF Q
    <2> QED
      BY <2>4, <2>5
  <1>4. fn \in Names
    BY TheFunctions
  <1> QED
    BY <1>2, <1>3, <1>4

LEMMA LogicStaged ==
    ASSUME subject \in Subjects, DraftedOnce, subject.dialect = "Logic",
           Session(cli), MirrorsAre(cli, Targets), NEW f \in DOMAIN subject.text
    PROVE  LET r == StagedSource(f, cli.drafts, cli.mirrors, subject.dialect)
           IN  SourceStands(f, r) /\ Grows(r, cli.sources[f], NewOf(cli.mirrors, f))
PROOF
  <1> DEFINE t == cli.sources[f]
             itsOwn == {m \in cli.mirrors : m.file = f}
             links == {[file |-> f, line |-> m.line, lines |-> <<TextLine("link", m.fn)>>] : m \in itsOwn}
             items == {[k |-> "mirror", fn |-> m.fn, calls |-> m.calls, int |-> m.int] : m \in itsOwn}
             r == StagedSource(f, cli.drafts, cli.mirrors, subject.dialect)
  <1>1. /\ cli.drafts = {} /\ Finds(cli.at, cli.sources) /\ Found(cli.at)
        /\ cli.at = [fn \in Targets |-> cli.at[fn]]
        /\ \A fn \in Targets : cli.at[fn].file = FileOf(fn)
    BY DEF Session, Found
  <1>2. SourceStands(f, t) /\ t \in Seq(SourceLine) /\ DOMAIN t = 1..Len(t) /\ Len(t) \in Nat
    BY DEF Session, SourcesStand, SourceStands, Whole
  <1>3. \A l \in ToSet(t) : l.fn \in Targets => l.k \notin Semantic
    BY NothingOfATarget DEF Session
  <1>4. \A m \in itsOwn : /\ m.fn \in Targets /\ m.fn \in Names /\ m.int \in BOOLEAN
                        /\ m.line \in DOMAIN t /\ t[m.line] = Sig(m.fn)
                        /\ m.calls \in SUBSET (Names \X Names)
    <2> SUFFICES ASSUME NEW m \in itsOwn
                 PROVE  /\ m.fn \in Targets /\ m.fn \in Names /\ m.int \in BOOLEAN
                        /\ m.line \in DOMAIN t /\ t[m.line] = Sig(m.fn)
                        /\ m.calls \in SUBSET (Names \X Names)
      OBVIOUS
    <2>1. /\ m.fn \in Targets /\ m.fn \in Names /\ m.int \in BOOLEAN
          /\ m.file = FileOf(m.fn) /\ m.line = cli.at[m.fn].line
          /\ m.calls \in SUBSET (Names \X Names)
      <3>1. m \in cli.mirrors
        OBVIOUS
      <3> HIDE DEF itsOwn
      <3> QED
        BY <1>1, <3>1, MirrorIs
    <2>2. f = FileOf(m.fn)
      BY <2>1
    <2>3. m.line \in DOMAIN t /\ t[m.line] = Sig(m.fn)
      BY <1>1, <2>1, <2>2 DEF Finds
    <2> QED
      BY <2>1, <2>3
  <1>5. \A m, o \in itsOwn : m.fn = o.fn => m = o
    BY DEF MirrorsAre
  <1>6. IsFiniteSet(itsOwn)
    BY FS_Subset DEF MirrorsAre
  <1>7. IsFiniteSet(links) /\ IsFiniteSet(items)
    <2> DEFINE L == [m \in itsOwn |-> [file |-> f, line |-> m.line, lines |-> <<TextLine("link", m.fn)>>]]
               I == [m \in itsOwn |-> [k |-> "mirror", fn |-> m.fn, calls |-> m.calls, int |-> m.int]]
    <2>1. L \in [itsOwn -> links] /\ \A d \in links : \E m \in itsOwn : L[m] = d
      OBVIOUS
    <2>2. I \in [itsOwn -> items] /\ \A d \in items : \E m \in itsOwn : I[m] = d
      OBVIOUS
    <2> HIDE DEF L, I, itsOwn, links, items
    <2>3. L \in Surjection(itsOwn, links) /\ I \in Surjection(itsOwn, items)
      BY <2>1, <2>2, Fun_IsSurj
    <2> QED
      BY <1>6, <2>3, FS_Surjection
  <1>8. \A d \in links : \E m \in itsOwn : /\ d.line = m.line /\ d.lines = <<LinkOf(m)>>
                                         /\ d.lines \in Seq(SourceLine) /\ DOMAIN d.lines = {1}
                                         /\ d.lines[1] = LinkOf(m)
                                         /\ d = [file |-> f, line |-> m.line, lines |-> <<LinkOf(m)>>]
    <2> TAKE d \in links
    <2>1. PICK m \in itsOwn : d = [file |-> f, line |-> m.line, lines |-> <<LinkOf(m)>>]
      BY DEF LinkOf
    <2>2. LinkOf(m) \in SourceLine
      BY <1>4 DEF LinkOf, TextLine, SourceLine
    <2>3. /\ d.line = m.line /\ d.lines = <<LinkOf(m)>>
      BY <2>1
    <2> DEFINE l == LinkOf(m)
    <2> HIDE DEF l
    <2>4. l \in SourceLine => <<l>> \in Seq(SourceLine) /\ DOMAIN <<l>> = {1} /\ <<l>>[1] = l
      OBVIOUS
    <2>5. d.lines \in Seq(SourceLine) /\ DOMAIN d.lines = {1} /\ d.lines[1] = LinkOf(m)
      BY <2>2, <2>3, <2>4 DEF l
    <2> HIDE DEF itsOwn
    <2> QED
      BY <2>1, <2>3, <2>5
  <1>9. \A m : LinkOf(m).k = "link" /\ LinkOf(m).fn = m.fn /\ ItemOf(m).k = "mirror" /\ ItemOf(m).fn = m.fn
    BY DEF LinkOf, ItemOf, TextLine
  <1>10. Drafts(t, links)
    <2>1. ASSUME NEW d \in links PROVE Fitting(t, d.line, d.lines)
      <3>1. PICK m \in itsOwn : /\ d.line = m.line /\ d.lines \in Seq(SourceLine)
                              /\ DOMAIN d.lines = {1} /\ d.lines[1] = LinkOf(m)
        BY <1>8
      <3>2. /\ d.line \in DOMAIN t /\ t[d.line].k = "sig" /\ t[d.line].fn = m.fn /\ m.fn \in Targets
        BY <1>4, <3>1, SigIs
      <3>3. \A l \in ToSet(t) : ~SameDraft(l, LinkOf(m)) /\ OfOneRound(l, LinkOf(m))
        BY <1>3, <1>9, <3>2 DEF SameDraft, OfOneRound, Semantic
      <3>4. OfOneRound(LinkOf(m), LinkOf(m)) /\ LinkOf(m).k \in Drafted \ {"mirror"}
        BY <1>9 DEF OfOneRound, Drafted
      <3> QED
        BY <1>9, <3>1, <3>2, <3>3, <3>4 DEF Fitting
    <2>2. ASSUME NEW d \in links, NEW e \in links, d.line = e.line PROVE d = e
      <3>1. PICK m \in itsOwn : d.line = m.line /\ d = [file |-> f, line |-> m.line, lines |-> <<LinkOf(m)>>]
        BY <1>8
      <3>2. PICK o \in itsOwn : e.line = o.line /\ e = [file |-> f, line |-> o.line, lines |-> <<LinkOf(o)>>]
        BY <1>8
      <3>3. Sig(m.fn) = Sig(o.fn)
        BY <1>4, <2>2, <3>1, <3>2
      <3>4. m.fn = o.fn
        BY <3>3, SigIs
      <3> QED
        BY <1>5, <3>1, <3>2, <3>4
    <2> QED
      BY <1>7, <2>1, <2>2 DEF Drafts
  <1> DEFINE x == ApplyToSource(t, links)
             y == x \o SetToSeq(items)
  <1>11. Whole(x) /\ ToSet(x) = ToSet(t) \cup {LinkOf(m) : m \in itsOwn}
    <2>1. Whole(x) /\ ToSet(x) = ToSet(t) \cup UNION {ToSet(d.lines) : d \in links}
      <3> HIDE DEF t, links
      <3> QED
        BY <1>2, <1>10, ApplyKeeps DEF SourceStands
    <2>2. \A m : ToSet(<<LinkOf(m)>>) = {LinkOf(m)}
      BY DEF ToSet
    <2>3. UNION {ToSet(d.lines) : d \in links} = {LinkOf(m) : m \in itsOwn}
      <3>1. ASSUME NEW m \in itsOwn PROVE \E d \in links : ToSet(d.lines) = {LinkOf(m)}
        <4> DEFINE d == [file |-> f, line |-> m.line, lines |-> <<TextLine("link", m.fn)>>]
        <4>1. d \in links /\ d.lines = <<LinkOf(m)>>
          BY DEF LinkOf
        <4> QED
          BY <2>2, <4>1
      <3>2. ASSUME NEW d \in links PROVE \E m \in itsOwn : ToSet(d.lines) = {LinkOf(m)}
        <4>1. PICK m \in itsOwn : d.lines = <<LinkOf(m)>>
          BY <1>8
        <4> QED
          BY <2>2, <4>1
      <3> HIDE DEF links, itsOwn
      <3>3. ASSUME NEW z
            PROVE  z \in UNION {ToSet(d.lines) : d \in links} <=> z \in {LinkOf(m) : m \in itsOwn}
        <4>1. z \in UNION {ToSet(d.lines) : d \in links} <=> \E d \in links : z \in ToSet(d.lines)
          OBVIOUS
        <4>2. z \in {LinkOf(m) : m \in itsOwn} <=> \E m \in itsOwn : z \in {LinkOf(m)}
          OBVIOUS
        <4> QED
          BY <3>1, <3>2, <4>1, <4>2
      <3> QED
        BY <3>3
    <2> QED
      BY <2>1, <2>3
  <1>12. Whole(y) /\ ToSet(y) = ToSet(x) \cup items
    <2>1. ASSUME NEW i \in items
          PROVE  /\ i.k = "mirror" /\ i \in SourceLine /\ Sig(i.fn) \in ToSet(x)
                 /\ \A l \in ToSet(x) : ~SameDraft(l, i)
                 /\ \A o \in items : o.fn = i.fn => o = i
      <3>1. PICK m \in itsOwn : i = ItemOf(m)
        BY DEF ItemOf
      <3>2. i \in SourceLine
        BY <1>4, <3>1 DEF ItemOf, SourceLine
      <3>3. Sig(i.fn) \in ToSet(x)
        <4>1. i.fn = m.fn /\ Sig(m.fn) \in ToSet(t)
          <5>1. m.line \in DOMAIN t /\ t[m.line] = Sig(m.fn)
            BY <1>4
          <5> QED
            BY <1>9, <3>1, <5>1 DEF ToSet
        <4> HIDE DEF t, x, itsOwn
        <4> QED
          BY <1>11, <4>1
      <3>4. ASSUME NEW l \in ToSet(x) PROVE ~SameDraft(l, i)
        <4>1. CASE l \in ToSet(t)
          BY <1>3, <1>4, <1>9, <3>1, <4>1 DEF SameDraft, Semantic
        <4>2. CASE \E o \in itsOwn : l = LinkOf(o)
          BY <1>9, <3>1, <4>2 DEF SameDraft
        <4> QED
          BY <1>11, <4>1, <4>2
      <3>5. ASSUME NEW o \in items, o.fn = i.fn PROVE o = i
        <4>1. PICK p \in itsOwn : o = ItemOf(p)
          BY DEF ItemOf
        <4> QED
          BY <1>5, <1>9, <3>1, <3>5, <4>1
      <3> QED
        BY <1>9, <3>1, <3>2, <3>3, <3>4, <3>5
    <2> HIDE DEF items, x
    <2> QED
      BY <1>7, <1>11, <2>1, AppendKeeps
  <1>13. ToSet(y) = ToSet(t) \cup NewOf(cli.mirrors, f)
    <2>1. items = {ItemOf(m) : m \in itsOwn}
      BY DEF ItemOf
    <2>2. NewOf(cli.mirrors, f) = {LinkOf(m) : m \in itsOwn} \cup {ItemOf(m) : m \in itsOwn}
      BY DEF NewOf
    <2> HIDE DEF y, x, items
    <2> QED
      BY <1>11, <1>12, <2>1, <2>2
  <1>14. r = IF links = {} THEN y ELSE EnsurePrelude(y, "Logic")
    <2>1. {d \in cli.drafts : d.file = f} \cup links = links
      BY <1>1
    <2> QED
      BY <2>1 DEF StagedSource
  <1>15. CASE itsOwn = {}
    <2>1. links = {} /\ items = {} /\ NewOf(cli.mirrors, f) = {}
      BY <1>15 DEF NewOf
    <2>2. x = t /\ y = t
      <3>1. x = t
        BY <2>1, ApplyNothing
      <3>2. y = x
        <4> HIDE DEF x, items
        <4> QED
          BY <1>11, <2>1, AppendNothing
      <3> QED
        BY <3>1, <3>2
    <2>3. r = t
      BY <1>14, <2>1, <2>2
    <2> QED
      BY <1>2, <2>1, <2>3 DEF Grows
  <1>16. CASE itsOwn # {}
    <2>1. PICK m \in itsOwn : TRUE
      BY <1>16
    <2>2. links # {}
      <3>1. [file |-> f, line |-> m.line, lines |-> <<TextLine("link", m.fn)>>] \in links
        OBVIOUS
      <3> HIDE DEF links
      <3> QED
        BY <3>1
    <2>3. r = EnsurePrelude(y, "Logic")
      BY <1>14, <2>2
    <2>4. Whole(r) /\ Grows(r, t, NewOf(cli.mirrors, f)) /\ Imported(r, "Logic")
      <3> HIDE DEF y, t, r
      <3> QED
        BY <1>12, <1>13, <2>3, PreludeGrows
    <2>5. \A l \in NewOf(cli.mirrors, f) : l.k \in Drafted
      BY <1>9 DEF NewOf, Drafted
    <2>6. LinkOf(m) \in NewOf(cli.mirrors, f)
      BY <2>1 DEF NewOf
    <2>7. LinkOf(m) \notin ToSet(t)
      BY <1>3, <1>4, <1>9, <2>1 DEF Semantic
    <2> HIDE DEF t, itsOwn, r
    <2>8. Keeps(f, r)
      BY <1>2, <2>4, <2>5, KeepsGrown DEF SourceStands
    <2>9. LinkOf(m) \in ToSet(r) /\ LinkOf(m).k \in Drafted /\ LinkOf(m) \notin ToSet(subject.text[f])
      BY <1>2, <2>4, <2>5, <2>6, <2>7 DEF Grows, SourceStands, Keeps
    <2>10. InScope(f, r)
      BY <2>4, <2>9, NewInScope
    <2> QED
      BY <2>4, <2>8, <2>10 DEF SourceStands, r, t
  <1> QED
    BY <1>15, <1>16

LEMMA StandingIs ==
    ASSUME NEW mirrors, NEW declared
    PROVE  LET U == Standing(mirrors, declared)
           IN  /\ U \subseteq mirrors
               /\ \A m \in U : CallsOf(m) \subseteq {o.fn : o \in U} \cup declared
               /\ U = Standing(U, declared)
PROOF
  <1> DEFINE Closed(S) == \A m \in S : CallsOf(m) \subseteq {o.fn : o \in S} \cup declared
             U == Standing(mirrors, declared)
  <1>1. \A ms : Standing(ms, declared) = UNION {S \in SUBSET ms : Closed(S)}
    BY DEF Standing
  <1> HIDE DEF U
  <1>2. U \subseteq mirrors
    BY <1>1 DEF U
  <1>3. Closed(U)
    <2> SUFFICES ASSUME NEW m \in U PROVE CallsOf(m) \subseteq {o.fn : o \in U} \cup declared
      OBVIOUS
    <2>1. PICK S \in SUBSET mirrors : Closed(S) /\ m \in S
      BY <1>1 DEF U
    <2>2. S \subseteq U
      BY <1>1, <2>1 DEF U
    <2> QED
      BY <2>1, <2>2
  <1>4. U = Standing(U, declared)
    <2> HIDE DEF Closed
    <2>1. Standing(U, declared) \subseteq U
      BY <1>1
    <2>2. U \in {S \in SUBSET U : Closed(S)}
      BY <1>3
    <2> QED
      BY <1>1, <2>1, <2>2
  <1> QED
    BY <1>2, <1>3, <1>4 DEF U

LEMMA StagedMirrors ==
    ASSUME subject \in Subjects, DraftedOnce, subject.dialect = "Logic",
           Session(cli), MirrorsAre(cli, Targets),
           cli.mirrors = Standing(cli.mirrors, Declared(cli.sources)),
           NEW s, DOMAIN s = DOMAIN subject.text,
           \A f \in DOMAIN s : Grows(s[f], cli.sources[f], NewOf(cli.mirrors, f))
    PROVE  MirrorsAreChecked(s)
PROOF
  <1> DEFINE Has(g, l, k) == \E o \in ToSet(g) : o.k = k /\ o.fn = l.fn
             src == cli.sources
  <1>1. /\ MirrorsAreChecked(src) /\ DOMAIN src = DOMAIN s /\ Undrafted(src)
        /\ cli.at = [fn \in Targets |-> cli.at[fn]] /\ \A fn \in Targets : cli.at[fn].file = FileOf(fn)
    BY DEF Session, SourcesStand, Found
  <1>2. \A f \in DOMAIN s : \A l \in ToSet(src[f]) :
            /\ l.fn \in Targets => l.k \notin Semantic
            /\ l \in ToSet(s[f])
    BY <1>1, NothingOfATarget DEF Grows
  <1>3. \A f \in DOMAIN s : \A l \in ToSet(s[f]) :
            \/ l \in ToSet(src[f]) \/ l.k = "use"
            \/ \E m \in cli.mirrors : m.file = f /\ (l = LinkOf(m) \/ l = ItemOf(m))
    BY DEF Grows, NewOf
  <1>4. \A m \in cli.mirrors : /\ m.fn \in Targets /\ m.file \in DOMAIN s /\ m.file = FileOf(m.fn)
                               /\ LinkOf(m) \in ToSet(s[m.file]) /\ ItemOf(m) \in ToSet(s[m.file])
                               /\ \E calls : m.calls = QualifyPeerCalls(m.fn, calls)
    <2> SUFFICES ASSUME NEW m \in cli.mirrors
                 PROVE  /\ m.fn \in Targets /\ m.file \in DOMAIN s /\ m.file = FileOf(m.fn)
                        /\ LinkOf(m) \in ToSet(s[m.file]) /\ ItemOf(m) \in ToSet(s[m.file])
                        /\ \E calls : m.calls = QualifyPeerCalls(m.fn, calls)
      OBVIOUS
    <2>1. /\ m.fn \in Targets /\ m.file = FileOf(m.fn)
          /\ \E calls : m.calls = QualifyPeerCalls(m.fn, calls)
      BY <1>1, MirrorIs
    <2>2. m.file \in DOMAIN s
      BY <2>1, TheFunctions
    <2>3. LinkOf(m) \in NewOf(cli.mirrors, m.file) /\ ItemOf(m) \in NewOf(cli.mirrors, m.file)
      BY DEF NewOf
    <2> QED
      BY <2>1, <2>2, <2>3 DEF Grows
  <1>5. \A m : /\ LinkOf(m).k = "link" /\ LinkOf(m).fn = m.fn
               /\ ItemOf(m).k = "mirror" /\ ItemOf(m).fn = m.fn /\ ItemOf(m).calls = m.calls
    BY DEF LinkOf, ItemOf, TextLine
  <1> HIDE DEF src
  <1> SUFFICES ASSUME NEW f \in DOMAIN s, NEW l \in ToSet(s[f])
               PROVE  /\ l.k = "mirror" => /\ Has(s[f], l, "link")
                                           /\ \A c \in l.calls : \E g \in DOMAIN s :
                                                 /\ c[1] \in {"here", g}
                                                 /\ \E m \in Mirrors(s[g]) : m.fn = c[2]
                      /\ l.k = "link" => Has(s[f], l, "mirror") /\ ~Has(s[f], l, "requires")
    BY DEF MirrorsAreChecked
  <1>6. CASE l \in ToSet(src[f])
    <2>1. /\ l.k = "mirror" => /\ Has(src[f], l, "link")
                               /\ \A c \in l.calls : \E g \in DOMAIN src :
                                     /\ c[1] \in {"here", g}
                                     /\ \E m \in Mirrors(src[g]) : m.fn = c[2]
          /\ l.k = "link" => Has(src[f], l, "mirror") /\ ~Has(src[f], l, "requires")
      BY <1>1, <1>6 DEF MirrorsAreChecked
    <2>2. \A k : Has(src[f], l, k) => Has(s[f], l, k)
      BY <1>2
    <2>3. \A g \in DOMAIN s : Mirrors(src[g]) \subseteq Mirrors(s[g])
      BY <1>2 DEF Mirrors
    <2>4. l.k = "link" => ~Has(s[f], l, "requires")
      BY <1>3, <1>5, <2>1
    <2> HIDE DEF Has
    <2> QED
      BY <1>1, <2>1, <2>2, <2>3, <2>4
  <1>7. CASE l.k = "use"
    BY <1>7
  <1>8. CASE \E m \in cli.mirrors : m.file = f /\ (l = LinkOf(m) \/ l = ItemOf(m))
    <2>1. PICK m \in cli.mirrors : m.file = f /\ (l = LinkOf(m) \/ l = ItemOf(m))
      BY <1>8
    <2>2. Has(s[f], l, "link") /\ Has(s[f], l, "mirror") /\ l.fn = m.fn /\ m.fn \in Targets
      BY <1>4, <1>5, <2>1
    <2>3. ~Has(s[f], l, "requires")
      <3> SUFFICES ASSUME NEW o \in ToSet(s[f]), o.k = "requires", o.fn = l.fn PROVE FALSE
        OBVIOUS
      <3>1. o \in ToSet(src[f])
        BY <1>3, <1>5
      <3> QED
        BY <1>2, <2>2, <3>1 DEF Semantic
    <2>4. ASSUME l.k = "mirror", NEW c \in l.calls
          PROVE  \E g \in DOMAIN s : c[1] \in {"here", g} /\ \E o \in Mirrors(s[g]) : o.fn = c[2]
      <3>1. l = ItemOf(m) /\ c \in m.calls
        BY <1>5, <2>1, <2>4
      <3>2. PICK calls : m.calls = QualifyPeerCalls(m.fn, calls)
        BY <1>4, <2>1
      <3>3. c = <<"here", c[2]>> \/ (c[2] \in Targets /\ c = <<FileOf(c[2]), c[2]>>)
        BY <3>1, <3>2 DEF QualifyPeerCalls
      <3>4. c[2] \in {o.fn : o \in cli.mirrors} \cup Declared(src)
        <4>1. c[2] \in CallsOf(m)
          BY <3>1 DEF CallsOf
        <4>2. CallsOf(m) \subseteq {o.fn : o \in cli.mirrors} \cup Declared(src)
          BY <2>1, StandingIs DEF src
        <4> QED
          BY <4>1, <4>2
      <3>5. CASE c[2] \in {o.fn : o \in cli.mirrors}
        <4>1. PICK o \in cli.mirrors : o.fn = c[2]
          BY <3>5
        <4>2. o.file \in DOMAIN s /\ o.file = FileOf(c[2]) /\ ItemOf(o) \in Mirrors(s[o.file])
              /\ ItemOf(o).fn = c[2]
          BY <1>4, <1>5, <4>1 DEF Mirrors
        <4>3. c[1] \in {"here", o.file}
          BY <3>3, <4>2
        <4> QED
          BY <4>2, <4>3
      <3>6. CASE c[2] \in Declared(src)
        <4>1. PICK g \in DOMAIN src : \E o \in Mirrors(src[g]) : o.fn = c[2]
          BY <3>6 DEF Declared
        <4>2. PICK o \in Mirrors(src[g]) : o.fn = c[2]
          BY <4>1
        <4>3. o \in ToSet(src[g]) /\ o.k = "mirror" /\ o \in Mirrors(s[g])
          BY <1>1, <1>2, <4>1, <4>2 DEF Mirrors
        <4>4. c[2] \notin Targets
          BY <1>1, <1>2, <4>1, <4>2, <4>3 DEF Semantic
        <4>5. c[1] = "here"
          BY <3>3, <4>4
        <4> QED
          BY <1>1, <4>1, <4>2, <4>3, <4>5
      <3> QED
        BY <3>4, <3>5, <3>6
    <2> HIDE DEF Has
    <2> QED
      BY <2>2, <2>3, <2>4
  <1> QED
    BY <1>3, <1>6, <1>7, <1>8

LEMMA StagedStands ==
    ASSUME subject \in Subjects, DraftedOnce, Session(cli), DraftsAre(cli, Targets), MirrorsAre(cli, Targets),
           cli.mirrors = Standing(cli.mirrors, Declared(cli.sources)),
           DOMAIN tree = DOMAIN subject.text,
           \A f \in DOMAIN tree : tree[f] = StagedSource(f, cli.drafts, cli.mirrors, subject.dialect)
    PROVE  SourcesStand(tree)
PROOF
  <1>1. DOMAIN tree = DOMAIN subject.text
    OBVIOUS
  <1>2. CASE subject.dialect = "Pure"
    <2>1. \A f \in DOMAIN subject.text : SourceStands(f, tree[f])
      BY <1>1, <1>2, PureStaged
    <2>2. \A f \in DOMAIN tree : \A l \in ToSet(tree[f]) : l.k \notin {"link", "mirror"}
      BY <1>1, <1>2, <2>1 DEF SourceStands, Keeps
    <2>3. MirrorsAreChecked(tree)
      BY <2>2, NoMirrors
    <2> QED
      BY <2>1, <2>3 DEF SourcesStand, SourceStands
  <1>3. CASE subject.dialect = "Logic"
    <2>1. \A f \in DOMAIN subject.text :
              SourceStands(f, tree[f]) /\ Grows(tree[f], cli.sources[f], NewOf(cli.mirrors, f))
      BY <1>1, <1>3, LogicStaged
    <2>2. MirrorsAreChecked(tree)
      BY <1>1, <1>3, <2>1, StagedMirrors
    <2> QED
      BY <2>1, <2>2 DEF SourcesStand, SourceStands
  <1> QED
    BY <1>2, <1>3 DEF Session

-----------------------------------------------------------------------------
(***************************************************************************)
(* The steps of the command.                                               *)
(***************************************************************************)

\* Nothing but the tree and the command change, and the predicates on them are
\* of one subject.
LEMMA OneSubject ==
    ASSUME subject' = subject, NEW x, NEW y
    PROVE  /\ Found(x)' <=> Found(x)
           /\ Finds(x, y)' <=> Finds(x, y)
           /\ SourcesStand(x)' <=> SourcesStand(x)
           /\ Undrafted(x)' <=> Undrafted(x)
           /\ MirrorsAre(x, y)' <=> MirrorsAre(x, y)
           /\ Targets' = Targets
PROOF
  <1>1. Targets' = Targets /\ \A fn : FileOf(fn)' = FileOf(fn)
    BY DEF Targets, FileOf
  <1>2. \A fn, calls : QualifyPeerCalls(fn, calls)' = QualifyPeerCalls(fn, calls)
    BY <1>1 DEF QualifyPeerCalls
  <1>3. \A f, t : (Keeps(f, t)' <=> Keeps(f, t)) /\ (InScope(f, t)' <=> InScope(f, t))
    BY DEF Keeps, InScope
  <1>4. Found(x)' <=> Found(x)
    BY <1>1 DEF Found
  <1>5. Finds(x, y)' <=> Finds(x, y)
    BY <1>1 DEF Finds
  <1>6. SourcesStand(x)' <=> SourcesStand(x)
    BY <1>3 DEF SourcesStand
  <1>7. Undrafted(x)' <=> Undrafted(x)
    BY DEF Undrafted
  <1>8. MirrorsAre(x, y)' <=> MirrorsAre(x, y)
    BY <1>1, <1>2 DEF MirrorsAre
  <1> QED
    BY <1>1, <1>4, <1>5, <1>6, <1>7, <1>8

LEMMA OneSession ==
    ASSUME subject' = subject, NEW x
    PROVE  (Session(x)' <=> Session(x)) /\ (Flags(x)' <=> Flags(x))
PROOF
  <1>1. \A at, s : /\ Found(at)' <=> Found(at)
                   /\ Finds(at, s)' <=> Finds(at, s)
                   /\ SourcesStand(s)' <=> SourcesStand(s)
                   /\ Undrafted(s)' <=> Undrafted(s)
    BY OneSubject
  <1> QED
    BY <1>1 DEF Session, Flags

LEMMA ThenInv ==
    ASSUME subject \in Subjects, subject' = subject,
           ~touched' => /\ CliIs(cli)'
                        /\ cli'.pc # "stage" => SourcesStand(tree)'
                        /\ cli'.pc # "idle" => ~told'.proved
                        /\ ToldIsProved'
    PROVE  DraftingInv'
PROOF
  BY DEF DraftingInv

LEMMA NowIdle ==
    ASSUME subject \in Subjects, subject' = subject, cli' = Resting,
           ~touched' => SourcesStand(tree') /\ ToldIsProved'
    PROVE  DraftingInv'
PROOF
  <1>1. cli'.pc = "idle"
    BY DEF Resting
  <1>2. CliIs(cli)'
    BY <1>1 DEF CliIs
  <1>3. SourcesStand(tree') => SourcesStand(tree)'
    BY OneSubject
  <1> QED
    BY <1>1, <1>2, <1>3, ThenInv

LEMMA ToldNothing == ~NothingTold.proved
PROOF
  BY DEF NothingTold

\* A subject is whole before anything is drafted.
LEMMA SubjectStands ==
    ASSUME subject \in Subjects, DraftedOnce
    PROVE  SourcesStand(subject.text)
PROOF
  <1>1. SUFFICES ASSUME NEW f \in DOMAIN subject.text
                 PROVE  /\ Whole(subject.text[f]) /\ Keeps(f, subject.text[f])
                        /\ InScope(f, subject.text[f])
    BY DraftingAssumption DEF SourcesStand
  <1>2. Whole(subject.text[f])
    BY DraftingAssumption DEF Whole, SigOnce
  <1>3. Keeps(f, subject.text[f])
    BY DEF Keeps, DraftedOnce
  <1>4. InScope(f, subject.text[f])
    BY <1>2 DEF InScope, Proposed, Whole
  <1> QED
    BY <1>2, <1>3, <1>4

LEMMA InitInv == ASSUME DraftingInit, DraftedOnce PROVE DraftingInv
PROOF
  <1>1. subject \in Subjects /\ cli.pc = "idle" /\ SourcesStand(tree) /\ ~told.proved
    BY SubjectStands, ToldNothing DEF DraftingInit, Resting
  <1> QED
    BY <1>1 DEF DraftingInv, CliIs, ToldIsProved

LEMMA TargetsAreFinite == ASSUME subject \in Subjects PROVE IsFiniteSet(Targets)
PROOF
  <1> DEFINE q == subject.targets
  <1>1. q \in Seq(Names)
    BY DraftingAssumption
  <1> HIDE DEF q
  <1>2. DOMAIN q = 1..Len(q) /\ Len(q) \in Nat
    BY <1>1
  <1>3. q \in [1..Len(q) -> ToSet(q)] /\ \A x \in ToSet(q) : \E i \in 1..Len(q) : q[i] = x
    BY <1>1, <1>2 DEF ToSet
  <1>4. q \in Surjection(1..Len(q), ToSet(q))
    BY <1>3, Fun_IsSurj
  <1>5. IsFiniteSet(1..Len(q))
    BY <1>2, FS_Interval
  <1>6. IsFiniteSet(ToSet(q))
    BY <1>4, <1>5, FS_Surjection
  <1> QED
    BY <1>6 DEF q, Targets

LEMMA ToDoAll == ASSUME subject \in Subjects PROVE ToDo(subject.targets) /\ ToSet(subject.targets) = Targets
PROOF
  <1> DEFINE q == subject.targets
  <1>1. q \in Seq(Names) /\ IsInjective(q)
    BY DraftingAssumption
  <1>2. q \in Seq(ToSet(q))
    <2> HIDE DEF q
    <2>1. DOMAIN q = 1..Len(q) /\ Len(q) \in Nat /\ \A i \in 1..Len(q) : q[i] \in ToSet(q)
      BY <1>1 DEF ToSet
    <2> QED
      BY <1>1, <2>1
  <1> QED
    BY <1>1, <1>2 DEF ToDo, Targets

LEMMA NextToDo ==
    ASSUME NEW todo, ToDo(todo), todo # <<>>
    PROVE  /\ Head(todo) \in Targets /\ Head(todo) \in ToSet(todo)
           /\ ToDo(Tail(todo)) /\ ToSet(Tail(todo)) = ToSet(todo) \ {Head(todo)}
PROOF
  <1>1. todo \in Seq(Targets) /\ IsInjective(todo)
    BY DEF ToDo
  <1> DEFINE tl == Tail(todo)
  <1>2. /\ Len(todo) \in Nat /\ Len(todo) # 0 /\ DOMAIN todo = 1..Len(todo) /\ Head(todo) = todo[1]
        /\ 1 \in DOMAIN todo
    BY <1>1, EmptySeq
  <1>3. /\ tl \in Seq(Targets) /\ DOMAIN tl = 1..(Len(todo) - 1)
        /\ \A i \in 1..(Len(todo) - 1) : tl[i] = todo[i + 1] /\ i + 1 \in DOMAIN todo
    BY <1>1, <1>2
  <1> HIDE DEF tl
  <1>4. IsInjective(tl)
    <2> SUFFICES ASSUME NEW a \in DOMAIN tl, NEW b \in DOMAIN tl, tl[a] = tl[b] PROVE a = b
      BY DEF IsInjective
    <2>1. a + 1 = b + 1
      BY <1>1, <1>3 DEF IsInjective
    <2> QED
      BY <1>2, <1>3, <2>1
  <1>5. Head(todo) \in Targets /\ Head(todo) \in ToSet(todo)
    BY <1>1, <1>2 DEF ToSet
  <1>6. ToSet(tl) \subseteq ToSet(todo)
    BY <1>3 DEF ToSet
  <1>7. Head(todo) \notin ToSet(tl)
    <2> SUFFICES ASSUME NEW i \in DOMAIN tl, tl[i] = todo[1] PROVE FALSE
      BY <1>2 DEF ToSet
    <2>1. i + 1 = 1
      BY <1>1, <1>2, <1>3 DEF IsInjective
    <2> QED
      BY <1>2, <1>3, <2>1
  <1>8. ASSUME NEW x \in ToSet(todo), x # Head(todo) PROVE x \in ToSet(tl)
    <2>1. PICK i \in DOMAIN todo : x = todo[i]
      BY DEF ToSet
    <2>2. i # 1
      BY <1>2, <1>8, <2>1
    <2>3. i - 1 \in DOMAIN tl /\ tl[i - 1] = todo[i]
      <3>1. i - 1 \in 1..(Len(todo) - 1) /\ (i - 1) + 1 = i
        BY <1>2, <2>1, <2>2
      <3> QED
        BY <1>3, <3>1
    <2> QED
      BY <2>1, <2>3 DEF ToSet
  <1> QED
    BY <1>3, <1>4, <1>5, <1>6, <1>7, <1>8 DEF tl, ToDo

LEMMA RunVerifyStep ==
    ASSUME DraftingInv, DraftedOnce, NEW flags, NEW repair, RunVerify(flags, repair)
    PROVE  DraftingInv'
PROOF
  <1> DEFINE at == [fn \in Targets |-> [file |-> FileOf(fn), line |-> LineOf(tree[FileOf(fn)], fn)]]
  <1>1. /\ subject' = subject /\ tree' = tree /\ touched' = touched /\ told' = NothingTold
        /\ cli' = [pc |-> IF "contracts" \in flags THEN "markers" ELSE "load",
                   semantic |-> "semantic" \in flags, repair |-> repair, at |-> at]
        /\ cli.pc = "idle" /\ NothingStaged
    BY DEF RunVerify, DraftedOnce
  <1> SUFFICES ASSUME ~touched PROVE DraftingInv'
    BY <1>1 DEF DraftingInv
  <1>2. subject \in Subjects /\ SourcesStand(tree)
    BY <1>1 DEF DraftingInv
  <1> HIDE DEF at
  <1>3. \A fn \in Targets : /\ at[fn].file = FileOf(fn) /\ at[fn].line = LineOf(tree[FileOf(fn)], fn)
                            /\ at[fn].line \in DOMAIN tree[FileOf(fn)]
                            /\ tree[FileOf(fn)][at[fn].line] = Sig(fn)
    BY <1>2, TheirLines DEF at
  <1>4. Found(at)
    <2>1. ASSUME NEW fn \in Targets, NEW gn \in Targets, at[fn].file = at[gn].file, at[fn].line = at[gn].line
          PROVE  fn = gn
      <3>1. Sig(fn) = Sig(gn)
        BY <1>3, <2>1
      <3> QED
        BY <3>1, SigIs
    <2>2. at = [fn \in Targets |-> at[fn]]
      BY DEF at
    <2> QED
      BY <1>3, <2>1, <2>2 DEF Found
  <1>5. Finds(at, tree)
    BY <1>3 DEF Finds
  <1>6. Undrafted(tree)
    <2>1. DOMAIN tree = DOMAIN subject.text
      BY <1>2 DEF SourcesStand
    <2> QED
      BY <1>1, <2>1 DEF Undrafted, NothingStaged, Sources, Semantic, Drafted
  <1>7. /\ DOMAIN cli' = {"pc", "semantic", "repair", "at"} /\ cli'.at = at
        /\ cli'.pc \in {"markers", "load"}
    BY <1>1
  <1>8. Flags(cli)'
    <2>1. Found(cli.at)'
      BY <1>1, <1>4, <1>7, OneSubject
    <2> QED
      BY <1>7, <2>1 DEF Flags
  <1>9. Undrafted(tree)' /\ Finds(cli.at, tree)' /\ SourcesStand(tree)'
    BY <1>1, <1>2, <1>5, <1>6, <1>7, OneSubject
  <1>10. CliIs(cli)'
    BY <1>7, <1>8, <1>9 DEF CliIs
  <1>11. ~told'.proved /\ ToldIsProved'
    BY <1>1, ToldNothing DEF ToldIsProved
  <1> QED
    BY <1>1, <1>2, <1>9, <1>10, <1>11, ThenInv

\* Markers: no function has one yet that is drafted one.
LEMMA MarkersFit ==
    ASSUME subject \in Subjects, subject.dialect = "Pure", SourcesStand(tree),
           Found(cli.at), Finds(cli.at, tree), NEW f \in DOMAIN subject.text
    PROVE  LET here == {d \in PlanMarkers(tree, cli.at) : d.file = f}
               r == IF here = {} THEN tree[f]
                    ELSE EnsurePrelude(ApplyToSource(tree[f], here), "Pure")
           IN  /\ SourceStands(f, r)
               /\ \A l \in ToSet(r) : l.k \in Semantic => l \in ToSet(tree[f])
PROOF
  <1> DEFINE at == cli.at
             t == tree[f]
             here == {d \in PlanMarkers(tree, cli.at) : d.file = f}
             r == EnsurePrelude(ApplyToSource(t, here), "Pure")
  <1>1. SourceStands(f, t) /\ t \in Seq(SourceLine) /\ DOMAIN t = 1..Len(t) /\ Len(t) \in Nat /\ EachAboveItsOwn(t)
        /\ SigOnce(t)
    BY DEF SourcesStand, SourceStands, Whole
  <1>2. ASSUME NEW d \in here
        PROVE  \E fn \in Targets :
                  /\ f = FileOf(fn) /\ d.line = at[fn].line
                  /\ d = [file |-> f, line |-> at[fn].line, lines |-> <<TextLine("pure", fn)>>]
                  /\ t[d.line] = Sig(fn) /\ d.line \in DOMAIN t
                  /\ ~AlreadyMarked(t, d.line)
    <2>1. PICK fn \in Targets :
              /\ ~AlreadyMarked(tree[at[fn].file], at[fn].line)
              /\ d = [file |-> at[fn].file, line |-> at[fn].line, lines |-> <<TextLine("pure", fn)>>]
      BY DEF PlanMarkers
    <2>2. at[fn].file = FileOf(fn) /\ FileOf(fn) = f
      BY <2>1 DEF Found
    <2>3. at[fn].line \in DOMAIN t /\ t[at[fn].line] = Sig(fn)
      BY <2>2 DEF Finds
    <2> QED
      BY <2>1, <2>2, <2>3
  <1>3. ASSUME NEW fn \in Targets, NEW n \in DOMAIN t, t[n] = Sig(fn), ~AlreadyMarked(t, n),
               NEW l \in ToSet(t), l.k = "pure", l.fn = fn
        PROVE  FALSE
    <2>1. PICK i \in DOMAIN t : l = t[i]
      BY DEF ToSet
    <2>2. l.k \in Drafted /\ l.k # "mirror"
      BY <1>3 DEF Drafted
    <2>3. l \in AboveIt(t, LineOf(t, fn))
      BY <1>1, <1>3, <2>1, <2>2 DEF EachAboveItsOwn
    <2>4. LineOf(t, fn) = n
      BY <1>1, <1>3, LineIs
    <2> QED
      BY <1>3, <2>3, <2>4 DEF AlreadyMarked
  <1>4. \A fn : TextLine("pure", fn).k = "pure" /\ TextLine("pure", fn).fn = fn
    BY DEF TextLine
  <1>5. ASSUME NEW d \in here
        PROVE  /\ Fitting(t, d.line, d.lines) /\ d.lines # <<>>
               /\ \A l \in ToSet(d.lines) : l.k \in {"pure", "requires", "ensures"} /\ l \notin ToSet(t)
    <2>1. PICK fn \in Targets :
              /\ f = FileOf(fn) /\ d.line = at[fn].line
              /\ d = [file |-> f, line |-> at[fn].line, lines |-> <<TextLine("pure", fn)>>]
              /\ t[d.line] = Sig(fn) /\ d.line \in DOMAIN t
              /\ ~AlreadyMarked(t, d.line)
      BY <1>2
    <2> DEFINE p == TextLine("pure", fn)
    <2>2. p \in SourceLine
      <3>1. fn \in Names
        BY TheFunctions
      <3> QED
        BY <3>1 DEF TextLine, SourceLine
    <2>3. d.lines = <<p>>
      BY <2>1
    <2> HIDE DEF p
    <2>4. /\ d.lines \in Seq(SourceLine) /\ DOMAIN d.lines = {1} /\ d.lines[1] = p /\ d.lines # <<>>
          /\ ToSet(d.lines) = {p}
      <3>1. <<p>> \in Seq(SourceLine) /\ DOMAIN <<p>> = {1} /\ <<p>>[1] = p /\ <<p>> # <<>>
        BY <2>2
      <3> QED
        BY <2>3, <3>1 DEF ToSet
    <2>5. p.k = "pure" /\ p.fn = fn /\ t[d.line].k = "sig" /\ t[d.line].fn = fn
      BY <1>4, <2>1, SigIs DEF p
    <2>6. \A l \in ToSet(t) : ~(l.k = "pure" /\ l.fn = fn)
      BY <1>3, <2>1
    <2>7. \A l \in ToSet(t) : ~SameDraft(l, p) /\ OfOneRound(l, p)
      BY <2>5, <2>6 DEF SameDraft, OfOneRound
    <2>8. OfOneRound(p, p) /\ p.k \in Drafted \ {"mirror"}
      BY <2>5 DEF OfOneRound, Drafted
    <2>9. Fitting(t, d.line, d.lines)
      BY <2>1, <2>4, <2>5, <2>7, <2>8 DEF Fitting
    <2> QED
      BY <2>4, <2>5, <2>6, <2>9
  <1>6. Drafts(t, here)
    <2>1. IsFiniteSet(here)
      <3> DEFINE Ms == {fn \in Targets : ~AlreadyMarked(tree[at[fn].file], at[fn].line)}
                 Ds == PlanMarkers(tree, cli.at)
                 D == [fn \in Ms |-> [file |-> at[fn].file, line |-> at[fn].line,
                                      lines |-> <<TextLine("pure", fn)>>]]
      <3>1. IsFiniteSet(Ms)
        BY TargetsAreFinite, FS_Subset
      <3>2. D \in [Ms -> Ds] /\ \A d \in Ds : \E fn \in Ms : D[fn] = d
        BY DEF PlanMarkers
      <3> HIDE DEF Ms, Ds, D
      <3>3. D \in Surjection(Ms, Ds)
        BY <3>2, Fun_IsSurj
      <3>4. IsFiniteSet(Ds)
        BY <3>1, <3>3, FS_Surjection
      <3> QED
        BY <3>4, FS_Subset DEF Ds
    <2>2. ASSUME NEW d \in here, NEW e \in here, d.line = e.line PROVE d = e
      <3>1. PICK fn \in Targets :
                /\ d = [file |-> f, line |-> at[fn].line, lines |-> <<TextLine("pure", fn)>>]
                /\ t[d.line] = Sig(fn)
        BY <1>2
      <3>2. PICK gn \in Targets :
                /\ e = [file |-> f, line |-> at[gn].line, lines |-> <<TextLine("pure", gn)>>]
                /\ t[e.line] = Sig(gn)
        BY <1>2
      <3>3. fn = gn
        BY <2>2, <3>1, <3>2, SigIs
      <3> QED
        BY <3>1, <3>2, <3>3
    <2> QED
      BY <1>5, <2>1, <2>2 DEF Drafts
  <1> HIDE DEF t, here
  <1>7. CASE here = {}
    BY <1>1, <1>7 DEF t, here
  <1>8. CASE here # {}
    <2>1. /\ Whole(r) /\ Keeps(f, r) /\ InScope(f, r)
          /\ Grows(r, t, UNION {ToSet(d.lines) : d \in here})
      BY <1>1, <1>5, <1>6, <1>8, PureGrows DEF SourceStands
    <2>2. \A l \in ToSet(r) : l.k \in Semantic => l \in ToSet(t)
      <3>1. \A d \in here : \A l \in ToSet(d.lines) : l.k = "pure"
        <4> SUFFICES ASSUME NEW d \in here PROVE \A l \in ToSet(d.lines) : l.k = "pure"
          OBVIOUS
        <4>1. PICK fn \in Targets : d.lines = <<TextLine("pure", fn)>>
          BY <1>2
        <4>2. ToSet(d.lines) = {TextLine("pure", fn)}
          BY <4>1 DEF ToSet
        <4> QED
          BY <1>4, <4>2
      <3> HIDE DEF r
      <3> QED
        BY <2>1, <3>1 DEF Grows, Semantic
    <2> QED
      BY <1>8, <2>1, <2>2 DEF SourceStands, t, here, r
  <1> QED
    BY <1>7, <1>8 DEF t, here

LEMMA ThenSemanticInv ==
    ASSUME subject \in Subjects, subject' = subject, Flags(cli), cli' = ThenSemantic(cli),
           told' = told, ~told.proved, SourcesStand(tree'), Undrafted(tree'),
           subject.dialect # "Pure" => Finds(cli.at, tree')
    PROVE  DraftingInv'
PROOF
  <1>1. ToldIsProved'
    BY DEF ToldIsProved
  <1>2. CASE cli.semantic
    <2>1. /\ cli'.pc = "load" /\ DOMAIN cli' = DOMAIN cli /\ cli'.at = cli.at
      BY <1>2 DEF ThenSemantic, Flags
    <2>2. Flags(cli)'
      <3>1. Found(cli.at)'
        BY <2>1, OneSubject DEF Flags
      <3> QED
        BY <2>1, <3>1 DEF Flags
    <2>3. Undrafted(tree)' /\ SourcesStand(tree)' /\ (subject'.dialect # "Pure" => Finds(cli.at, tree)')
      BY <2>1, OneSubject
    <2>4. CliIs(cli)'
      BY <2>1, <2>2, <2>3 DEF CliIs
    <2> QED
      BY <1>1, <2>3, <2>4, ThenInv
  <1>3. CASE ~cli.semantic
    BY <1>1, <1>3, NowIdle DEF ThenSemantic
  <1> QED
    BY <1>2, <1>3

LEMMA MarkerStep == ASSUME DraftingInv, DraftedOnce, StageMarkerDrafts PROVE DraftingInv'
PROOF
  <1>1. /\ cli.pc = "markers" /\ cli' = ThenSemantic(cli)
        /\ subject' = subject /\ told' = told /\ touched' = touched
    BY DEF StageMarkerDrafts
  <1> SUFFICES ASSUME ~touched PROVE DraftingInv'
    BY <1>1 DEF DraftingInv
  <1>2. /\ subject \in Subjects /\ SourcesStand(tree) /\ ~told.proved
        /\ Flags(cli) /\ Undrafted(tree) /\ Finds(cli.at, tree) /\ Found(cli.at)
    BY <1>1 DEF DraftingInv, CliIs, Flags
  <1>3. CASE subject.dialect # "Pure"
    <2>1. tree' = tree
      BY <1>3 DEF StageMarkerDrafts
    <2> QED
      BY <1>1, <1>2, <2>1, ThenSemanticInv
  <1>4. CASE subject.dialect = "Pure"
    <2> DEFINE here(f) == {d \in PlanMarkers(tree, cli.at) : d.file = f}
               r(f) == IF here(f) = {} THEN tree[f]
                       ELSE EnsurePrelude(ApplyToSource(tree[f], here(f)), "Pure")
    <2>1. tree' = [f \in Sources |-> r(f)]
      BY <1>4 DEF StageMarkerDrafts
    <2>2. Sources = DOMAIN subject.text
      BY <1>2 DEF SourcesStand, Sources
    <2>3. \A f \in DOMAIN subject.text :
              SourceStands(f, r(f)) /\ \A l \in ToSet(r(f)) : l.k \in Semantic => l \in ToSet(tree[f])
      BY <1>2, <1>4, MarkersFit
    <2> HIDE DEF r
    <2>4. DOMAIN tree' = DOMAIN subject.text /\ \A f \in DOMAIN subject.text : tree'[f] = r(f)
      BY <2>1, <2>2
    <2>5. \A f \in DOMAIN tree' : \A l \in ToSet(tree'[f]) : l.k \notin {"link", "mirror"}
      BY <1>4, <2>3, <2>4 DEF SourceStands, Keeps
    <2>6. SourcesStand(tree')
      BY <2>3, <2>4, <2>5, NoMirrors DEF SourcesStand, SourceStands
    <2>7. Undrafted(tree')
      BY <1>2, <2>3, <2>4 DEF Undrafted
    <2> QED
      BY <1>1, <1>2, <1>4, <2>6, <2>7, ThenSemanticInv
  <1> QED
    BY <1>3, <1>4

LEMMA LoadStep == ASSUME DraftingInv, DraftedOnce, LoadPredicateSources PROVE DraftingInv'
PROOF
  <1>1. /\ cli.pc = "load" /\ tree' = tree
        /\ subject' = subject /\ told' = told /\ touched' = touched
    BY DEF LoadPredicateSources
  <1> SUFFICES ASSUME ~touched PROVE DraftingInv'
    BY <1>1 DEF DraftingInv
  <1>2. /\ subject \in Subjects /\ SourcesStand(tree) /\ ~told.proved /\ Undrafted(tree) /\ Found(cli.at)
        /\ subject.dialect # "Pure" => Finds(cli.at, tree)
    BY <1>1 DEF DraftingInv, CliIs, Flags
  <1>3. ToldIsProved'
    BY <1>1, <1>2 DEF ToldIsProved
  <1>4. CASE subject.dialect = "None"
    BY <1>1, <1>2, <1>3, <1>4, NowIdle DEF LoadPredicateSources
  <1>5. CASE subject.dialect # "None"
    <2>1. subject.dialect \in {"Logic", "Pure"}
      BY <1>2, <1>5, DraftingAssumption
    <2>2. cli' = [pc |-> IF subject.dialect = "Logic" THEN "mirrors" ELSE "clauses",
                  repair |-> cli.repair, at |-> cli.at, sources |-> tree,
                  todo |-> subject.targets, mirrors |-> {}, drafts |-> {}, attempts |-> 1]
      BY <1>5 DEF LoadPredicateSources
    <2>3. /\ DOMAIN cli' = {"pc", "repair", "at", "sources", "todo", "mirrors", "drafts", "attempts"}
          /\ cli'.pc = IF subject.dialect = "Logic" THEN "mirrors" ELSE "clauses"
          /\ cli'.at = cli.at /\ cli'.sources = tree /\ cli'.todo = subject.targets
          /\ cli'.mirrors = {} /\ cli'.drafts = {} /\ cli'.attempts = 1
      BY <2>2
    <2>4. Session(cli)'
      <3>1. /\ Found(cli.at)' /\ SourcesStand(cli.sources)' /\ Undrafted(cli.sources)'
            /\ subject'.dialect # "Pure" => Finds(cli.at, cli.sources)'
        BY <1>1, <1>2, <2>3, OneSubject
      <3> QED
        BY <1>1, <2>1, <2>3, <3>1 DEF Session
    <2>5. ToDo(cli.todo)'
      <3>1. Targets' = Targets
        BY <1>1, OneSubject
      <3> QED
        BY <1>2, <2>3, <3>1, ToDoAll DEF ToDo
    <2>6. MirrorsAre(cli, Targets \ ToSet(cli.todo))' /\ DraftsAre(cli, Targets \ ToSet(cli.todo))'
      BY <2>3, FS_EmptySet DEF MirrorsAre, DraftsAre
    <2>7. CliIs(cli)'
      BY <1>1, <2>1, <2>3, <2>4, <2>5, <2>6 DEF CliIs
    <2>8. SourcesStand(tree)'
      BY <1>1, <1>2, OneSubject
    <2> QED
      BY <1>1, <1>2, <1>3, <2>7, <2>8, ThenInv
  <1> QED
    BY <1>4, <1>5

\* A session goes on: what it read, and where, is as it was.
SessionGoesOn ==
    /\ subject' = subject /\ tree' = tree /\ told' = told /\ touched' = touched
    /\ DOMAIN cli' = DOMAIN cli
    /\ cli'.at = cli.at /\ cli'.sources = cli.sources /\ cli'.attempts = cli.attempts

LEMMA SessionOn ==
    ASSUME Session(cli), SessionGoesOn,
           subject.dialect = "Logic" => cli'.drafts = {},
           subject.dialect = "Pure" => cli'.mirrors = {}
    PROVE  Session(cli)' /\ Targets' = Targets
PROOF
  <1>1. subject' = subject
    BY DEF SessionGoesOn
  <1>2. /\ Found(cli.at)' /\ SourcesStand(cli.sources)' /\ Undrafted(cli.sources)'
        /\ subject'.dialect = "Logic" => Finds(cli.at, cli.sources)'
    BY <1>1, OneSubject DEF Session, SessionGoesOn
  <1>3. Targets' = Targets
    BY <1>1, OneSubject
  <1> QED
    BY <1>2, <1>3 DEF Session, SessionGoesOn

LEMMA DraftMirrorStep == ASSUME DraftingInv, DraftedOnce, DraftMirror PROVE DraftingInv'
PROOF
  <1> DEFINE fn == Head(cli.todo)
             done == Targets \ ToSet(cli.todo)
  <1>1. /\ cli.pc = "mirrors" /\ cli.todo # <<>>
        /\ subject' = subject /\ tree' = tree /\ told' = told /\ touched' = touched
        /\ \/ cli' = Onward(cli)
           \/ \E r \in Replies : r.form = "body" /\ cli' = [Onward(cli) EXCEPT !.mirrors = @ \cup {MirrorOf(fn, r)}]
    BY DEF DraftMirror
  <1> SUFFICES ASSUME ~touched PROVE DraftingInv'
    BY <1>1 DEF DraftingInv
  <1>2. /\ subject \in Subjects /\ SourcesStand(tree) /\ ~told.proved /\ Session(cli)
        /\ ToDo(cli.todo) /\ subject.dialect = "Logic" /\ MirrorsAre(cli, done)
    BY <1>1 DEF DraftingInv, CliIs
  <1>3. /\ fn \in Targets /\ fn \in ToSet(cli.todo) /\ ToDo(Tail(cli.todo))
        /\ Targets \ ToSet(Tail(cli.todo)) = done \cup {fn} /\ fn \notin done
    BY <1>1, <1>2, NextToDo
  <1>4. DOMAIN cli = {"pc", "repair", "at", "sources", "todo", "mirrors", "drafts", "attempts"}
    BY <1>2 DEF Session
  <1>5. /\ SessionGoesOn /\ cli'.pc = "mirrors" /\ cli'.todo = Tail(cli.todo) /\ cli'.drafts = cli.drafts
        /\ \/ cli'.mirrors = cli.mirrors
           \/ \E r \in Replies : r.form = "body" /\ cli'.mirrors = cli.mirrors \cup {MirrorOf(fn, r)}
    <2>1. CASE cli' = Onward(cli)
      BY <1>1, <1>4, <2>1 DEF Onward, SessionGoesOn
    <2>2. CASE \E r \in Replies : r.form = "body" /\ cli' = [Onward(cli) EXCEPT !.mirrors = @ \cup {MirrorOf(fn, r)}]
      <3>1. PICK r \in Replies : r.form = "body" /\ cli' = [Onward(cli) EXCEPT !.mirrors = @ \cup {MirrorOf(fn, r)}]
        BY <2>2
      <3>2. cli'.mirrors = cli.mirrors \cup {MirrorOf(fn, r)}
        BY <1>4, <3>1 DEF Onward
      <3>3. /\ DOMAIN cli' = DOMAIN cli /\ cli'.at = cli.at /\ cli'.sources = cli.sources
            /\ cli'.attempts = cli.attempts /\ cli'.pc = "mirrors" /\ cli'.todo = Tail(cli.todo)
            /\ cli'.drafts = cli.drafts
        BY <1>1, <1>4, <3>1 DEF Onward
      <3> QED
        BY <1>1, <3>1, <3>2, <3>3 DEF SessionGoesOn
    <2> QED
      BY <1>1, <2>1, <2>2
  <1>6. Session(cli)' /\ Targets' = Targets
    BY <1>2, <1>5, SessionOn DEF Session
  <1> DEFINE Is(m, f) == \E calls \in SUBSET (Targets \cup {"ghost", "old"}), int \in BOOLEAN :
                m = [fn |-> f, file |-> cli.at[f].file, line |-> cli.at[f].line,
                     calls |-> QualifyPeerCalls(f, calls), int |-> int]
  <1>7. /\ IsFiniteSet(cli'.mirrors) /\ \A m \in cli'.mirrors : \E f \in done \cup {fn} : Is(m, f)
        /\ \A m, o \in cli'.mirrors : m.fn = o.fn => m = o
    <2>1. /\ IsFiniteSet(cli.mirrors) /\ \A m \in cli.mirrors : \E f \in done : Is(m, f)
          /\ \A m, o \in cli.mirrors : m.fn = o.fn => m = o
      BY <1>2 DEF MirrorsAre
    <2>2. \A m, f : Is(m, f) => m.fn = f
      OBVIOUS
    <2>3. CASE cli'.mirrors = cli.mirrors
      <3> HIDE DEF Is, done, fn
      <3> QED
        BY <2>1, <2>3
    <2>4. CASE \E r \in Replies : r.form = "body" /\ cli'.mirrors = cli.mirrors \cup {MirrorOf(fn, r)}
      <3>1. PICK r \in Replies : r.form = "body" /\ cli'.mirrors = cli.mirrors \cup {MirrorOf(fn, r)}
        BY <2>4
      <3>2. r.calls \in SUBSET (Targets \cup {"ghost", "old"}) /\ r.int \in BOOLEAN
        BY <3>1 DEF Replies
      <3>3. Is(MirrorOf(fn, r), fn)
        BY <3>2 DEF MirrorOf
      <3> DEFINE n == MirrorOf(fn, r)
      <3> HIDE DEF Is, done, fn, n
      <3>4. IsFiniteSet(cli'.mirrors)
        BY <2>1, <3>1, FS_AddElement DEF n
      <3>5. \A m \in cli.mirrors : m.fn # fn
        BY <1>3, <2>1, <2>2
      <3>6. n.fn = fn
        BY <2>2, <3>3 DEF n
      <3>7. cli'.mirrors = cli.mirrors \cup {n} /\ Is(n, fn)
        BY <3>1, <3>3 DEF n
      <3> QED
        BY <2>1, <3>4, <3>5, <3>6, <3>7
    <2> HIDE DEF Is, done, fn
    <2> QED
      BY <1>5, <2>3, <2>4
  <1>8. MirrorsAre(cli, Targets \ ToSet(cli.todo))'
    <2>1. MirrorsAre(cli', done \cup {fn})
      <3>1. cli'.at = cli.at
        BY <1>5 DEF SessionGoesOn
      <3> HIDE DEF done, fn
      <3> QED
        BY <1>7, <3>1 DEF MirrorsAre
    <2>2. (Targets \ ToSet(cli.todo))' = done \cup {fn}
      BY <1>3, <1>5, <1>6
    <2> HIDE DEF done, fn
    <2> QED
      BY <1>1, <2>1, <2>2, OneSubject
  <1>9. ToDo(cli.todo)'
    BY <1>3, <1>5, <1>6 DEF ToDo
  <1>10. CliIs(cli)'
    BY <1>1, <1>2, <1>5, <1>6, <1>8, <1>9 DEF CliIs
  <1>11. SourcesStand(tree)' /\ ToldIsProved' /\ ~told'.proved
    BY <1>1, <1>2, OneSubject DEF ToldIsProved
  <1> QED
    BY <1>1, <1>2, <1>10, <1>11, ThenInv

LEMMA DropStep == ASSUME DraftingInv, DraftedOnce, DropMirrorsCallingNothing PROVE DraftingInv'
PROOF
  <1> DEFINE declared == Declared(cli.sources)
  <1>1. /\ cli.pc = "mirrors" /\ cli.todo = <<>>
        /\ subject' = subject /\ tree' = tree /\ told' = told /\ touched' = touched
        /\ cli' = [cli EXCEPT !.pc = "stage", !.todo = Sources, !.mirrors = Standing(@, declared)]
    BY DEF DropMirrorsCallingNothing
  <1> SUFFICES ASSUME ~touched PROVE DraftingInv'
    BY <1>1 DEF DraftingInv
  <1>2. /\ subject \in Subjects /\ SourcesStand(tree) /\ ~told.proved /\ Session(cli)
        /\ subject.dialect = "Logic" /\ MirrorsAre(cli, Targets \ ToSet(cli.todo))
    BY <1>1 DEF DraftingInv, CliIs
  <1>3. /\ DOMAIN cli = {"pc", "repair", "at", "sources", "todo", "mirrors", "drafts", "attempts"}
        /\ cli.drafts = {}
    BY <1>2 DEF Session
  <1>4. /\ SessionGoesOn /\ cli'.pc = "stage" /\ cli'.todo = Sources /\ cli'.drafts = {}
        /\ cli'.mirrors = Standing(cli.mirrors, declared)
    BY <1>1, <1>3 DEF SessionGoesOn
  <1>5. Session(cli)' /\ Targets' = Targets
    BY <1>2, <1>4, SessionOn
  <1>6. /\ cli'.mirrors \subseteq cli.mirrors
        /\ cli'.mirrors = Standing(cli'.mirrors, declared)
    BY <1>4, StandingIs
  <1>7. Targets \ ToSet(cli.todo) = Targets
    BY <1>1 DEF ToSet
  <1>8. MirrorsAre(cli, Targets)'
    <2>1. MirrorsAre(cli', Targets)
      <3>1. IsFiniteSet(cli'.mirrors)
        BY <1>2, <1>6, FS_Subset DEF MirrorsAre
      <3>2. cli'.at = cli.at
        BY <1>4 DEF SessionGoesOn
      <3> QED
        BY <1>2, <1>6, <1>7, <3>1, <3>2 DEF MirrorsAre
    <2> QED
      BY <1>1, <1>5, <2>1, OneSubject
  <1>9. DraftsAre(cli, Targets)'
    BY <1>4, FS_EmptySet DEF DraftsAre
  <1>10. cli'.sources = cli.sources /\ Sources = DOMAIN tree /\ DOMAIN tree = DOMAIN subject.text
    BY <1>2, <1>4 DEF SessionGoesOn, Sources, SourcesStand
  <1>11. CliIs(cli)'
    BY <1>1, <1>4, <1>5, <1>6, <1>8, <1>9, <1>10 DEF CliIs
  <1>12. ToldIsProved' /\ ~told'.proved
    BY <1>1, <1>2 DEF ToldIsProved
  <1> QED
    BY <1>1, <1>2, <1>4, <1>11, <1>12, ThenInv

LEMMA DraftClausesStep == ASSUME DraftingInv, DraftedOnce, DraftClauses PROVE DraftingInv'
PROOF
  <1> DEFINE fn == Head(cli.todo)
             at == cli.at[fn]
             shown == FnSourceAt(cli.sources, at)
             done == Targets \ ToSet(cli.todo)
             New(cs) == [file |-> at.file, line |-> at.line,
                         lines |-> [i \in DOMAIN cs |->
                                      [k |-> cs[i], fn |-> shown, round |-> cli.attempts]]]
  <1>1. /\ cli.pc = "clauses" /\ cli.todo # <<>>
        /\ subject' = subject /\ tree' = tree /\ told' = told /\ touched' = touched
        /\ \/ cli' = Onward(cli)
           \/ /\ ~Skips(fn)
              /\ \E cs \in Clauses \ {<<>>} : cli' = [Onward(cli) EXCEPT !.drafts = @ \cup {New(cs)}]
    BY DEF DraftClauses
  <1> SUFFICES ASSUME ~touched PROVE DraftingInv'
    BY <1>1 DEF DraftingInv
  <1>2. /\ subject \in Subjects /\ SourcesStand(tree) /\ ~told.proved /\ Session(cli)
        /\ ToDo(cli.todo) /\ subject.dialect = "Pure" /\ DraftsAre(cli, done)
    BY <1>1 DEF DraftingInv, CliIs
  <1>3. /\ fn \in Targets /\ fn \in ToSet(cli.todo) /\ ToDo(Tail(cli.todo))
        /\ Targets \ ToSet(Tail(cli.todo)) = done \cup {fn} /\ fn \notin done
    BY <1>1, <1>2, NextToDo
  <1>4. /\ DOMAIN cli = {"pc", "repair", "at", "sources", "todo", "mirrors", "drafts", "attempts"}
        /\ cli.mirrors = {} /\ Found(cli.at)
    BY <1>2 DEF Session
  <1> HIDE DEF New, fn, at, shown, done
  <1>5. /\ SessionGoesOn /\ cli'.pc = "clauses" /\ cli'.todo = Tail(cli.todo) /\ cli'.mirrors = cli.mirrors
        /\ \/ cli'.drafts = cli.drafts
           \/ /\ ~Skips(fn)
              /\ \E cs \in Clauses \ {<<>>} : cli'.drafts = cli.drafts \cup {New(cs)}
    <2>1. CASE cli' = Onward(cli)
      BY <1>1, <1>4, <2>1 DEF Onward, SessionGoesOn
    <2>2. CASE /\ ~Skips(fn)
               /\ \E cs \in Clauses \ {<<>>} : cli' = [Onward(cli) EXCEPT !.drafts = @ \cup {New(cs)}]
      <3>1. PICK cs \in Clauses \ {<<>>} : cli' = [Onward(cli) EXCEPT !.drafts = @ \cup {New(cs)}]
        BY <2>2
      <3>2. cli'.drafts = cli.drafts \cup {New(cs)}
        BY <1>4, <3>1 DEF Onward
      <3>3. /\ DOMAIN cli' = DOMAIN cli /\ cli'.at = cli.at /\ cli'.sources = cli.sources
            /\ cli'.attempts = cli.attempts /\ cli'.pc = "clauses" /\ cli'.todo = Tail(cli.todo)
            /\ cli'.mirrors = cli.mirrors
        BY <1>1, <1>4, <3>1 DEF Onward
      <3> QED
        BY <1>1, <2>2, <3>2, <3>3 DEF SessionGoesOn
    <2> QED
      BY <1>1, <2>1, <2>2
  <1>6. Session(cli)' /\ Targets' = Targets
    BY <1>2, <1>4, <1>5, SessionOn
  <1> DEFINE Is(d, f) == /\ d.file = cli.at[f].file /\ d.line = cli.at[f].line
                         /\ d.line \in DOMAIN cli.sources[d.file] /\ cli.sources[d.file][d.line].k = "sig"
                         /\ d.lines \in ClausesOf(cli.sources[d.file][d.line].fn, cli.attempts)
  <1>7. /\ IsFiniteSet(cli'.drafts) /\ \A d \in cli'.drafts : \E f \in done \cup {fn} : Is(d, f)
        /\ \A d, e \in cli'.drafts : d.file = e.file /\ d.line = e.line => d = e
    <2>1. /\ IsFiniteSet(cli.drafts) /\ \A d \in cli.drafts : \E f \in done : Is(d, f)
          /\ \A d, e \in cli.drafts : d.file = e.file /\ d.line = e.line => d = e
      BY <1>2 DEF DraftsAre
    <2>2. \A d, f : Is(d, f) => d.file = cli.at[f].file /\ d.line = cli.at[f].line
      OBVIOUS
    <2>3. CASE cli'.drafts = cli.drafts
      <3> HIDE DEF Is
      <3> QED
        BY <2>1, <2>3
    <2>4. CASE /\ ~Skips(fn)
               /\ \E cs \in Clauses \ {<<>>} : cli'.drafts = cli.drafts \cup {New(cs)}
      <3>1. PICK cs \in Clauses \ {<<>>} : cli'.drafts = cli.drafts \cup {New(cs)}
        BY <2>4
      <3>2. /\ at.line \in DOMAIN cli.sources[at.file] /\ cli.sources[at.file][at.line].k = "sig"
            /\ shown = cli.sources[at.file][at.line].fn
        BY <2>4 DEF Skips, FnSourceAt, at, shown
      <3> DEFINE n == New(cs)
      <3>3. n.file = at.file /\ n.line = at.line /\ n.lines \in ClausesOf(shown, cli.attempts)
        BY DEF New, ClausesOf
      <3>4. Is(n, fn)
        <4> HIDE DEF n
        <4> QED
          BY <3>2, <3>3 DEF at
      <3> HIDE DEF Is, n
      <3>5. IsFiniteSet(cli'.drafts)
        BY <2>1, <3>1, FS_AddElement DEF n
      <3>6. \A f \in done : ~(cli.at[f].file = at.file /\ cli.at[f].line = at.line)
        BY <1>3, <1>4 DEF Found, at, done
      <3>7. \A d \in cli.drafts : ~(d.file = n.file /\ d.line = n.line)
        BY <2>1, <2>2, <3>3, <3>6
      <3>8. cli'.drafts = cli.drafts \cup {n}
        BY <3>1 DEF n
      <3> QED
        BY <2>1, <3>4, <3>5, <3>7, <3>8
    <2> HIDE DEF Is
    <2> QED
      BY <1>5, <2>3, <2>4
  <1>8. DraftsAre(cli, Targets \ ToSet(cli.todo))'
    <2>1. DraftsAre(cli', done \cup {fn})
      <3>1. cli'.at = cli.at /\ cli'.sources = cli.sources /\ cli'.attempts = cli.attempts
        BY <1>5 DEF SessionGoesOn
      <3> QED
        BY <1>7, <3>1 DEF DraftsAre
    <2>2. (Targets \ ToSet(cli.todo))' = done \cup {fn}
      BY <1>3, <1>5, <1>6
    <2> QED
      BY <2>1, <2>2
  <1>9. ToDo(cli.todo)'
    BY <1>3, <1>5, <1>6 DEF ToDo
  <1>10. CliIs(cli)'
    BY <1>1, <1>2, <1>5, <1>6, <1>8, <1>9 DEF CliIs
  <1>11. SourcesStand(tree)' /\ ToldIsProved' /\ ~told'.proved
    BY <1>1, <1>2, OneSubject DEF ToldIsProved
  <1> QED
    BY <1>1, <1>2, <1>10, <1>11, ThenInv

LEMMA RoundStep == ASSUME DraftingInv, DraftedOnce, RoundDrafted PROVE DraftingInv'
PROOF
  <1>1. /\ cli.pc = "clauses" /\ cli.todo = <<>>
        /\ subject' = subject /\ tree' = tree /\ told' = told /\ touched' = touched
        /\ cli' = [cli EXCEPT !.pc = "stage", !.todo = Sources]
    BY DEF RoundDrafted
  <1> SUFFICES ASSUME ~touched PROVE DraftingInv'
    BY <1>1 DEF DraftingInv
  <1>2. /\ subject \in Subjects /\ SourcesStand(tree) /\ ~told.proved /\ Session(cli)
        /\ subject.dialect = "Pure" /\ DraftsAre(cli, Targets \ ToSet(cli.todo))
    BY <1>1 DEF DraftingInv, CliIs
  <1>3. /\ DOMAIN cli = {"pc", "repair", "at", "sources", "todo", "mirrors", "drafts", "attempts"}
        /\ cli.mirrors = {}
    BY <1>2 DEF Session
  <1>4. /\ SessionGoesOn /\ cli'.pc = "stage" /\ cli'.todo = Sources
        /\ cli'.mirrors = {} /\ cli'.drafts = cli.drafts
    BY <1>1, <1>3 DEF SessionGoesOn
  <1>5. Session(cli)' /\ Targets' = Targets
    BY <1>2, <1>4, SessionOn
  <1>6. Targets \ ToSet(cli.todo) = Targets
    BY <1>1 DEF ToSet
  <1>7. DraftsAre(cli, Targets)'
    BY <1>2, <1>4, <1>5, <1>6 DEF DraftsAre, SessionGoesOn
  <1>8. MirrorsAre(cli, Targets)'
    BY <1>4, FS_EmptySet DEF MirrorsAre
  <1>9. cli'.mirrors = Standing(cli'.mirrors, Declared(cli'.sources))
    <2>1. Standing({}, Declared(cli'.sources)) \subseteq {}
      BY StandingIs
    <2> QED
      BY <1>4, <2>1
  <1>10. Sources = DOMAIN tree /\ DOMAIN tree = DOMAIN subject.text
    BY <1>2 DEF Sources, SourcesStand
  <1>11. CliIs(cli)'
    BY <1>1, <1>4, <1>5, <1>7, <1>8, <1>9, <1>10 DEF CliIs
  <1>12. ToldIsProved' /\ ~told'.proved
    BY <1>1, <1>2 DEF ToldIsProved
  <1> QED
    BY <1>1, <1>2, <1>4, <1>11, <1>12, ThenInv

LEMMA StageStep == ASSUME DraftingInv, DraftedOnce, NEW f, Stage(f) PROVE DraftingInv'
PROOF
  <1>1. /\ cli.pc = "stage" /\ f \in cli.todo
        /\ subject' = subject /\ told' = told /\ touched' = touched
        /\ tree' = [tree EXCEPT ![f] = StagedSource(f, cli.drafts, cli.mirrors, subject.dialect)]
        /\ cli' = [cli EXCEPT !.todo = @ \ {f}]
    BY DEF Stage
  <1> SUFFICES ASSUME ~touched PROVE DraftingInv'
    BY <1>1 DEF DraftingInv
  <1>2. /\ subject \in Subjects /\ ~told.proved /\ Session(cli)
        /\ DraftsAre(cli, Targets) /\ MirrorsAre(cli, Targets)
        /\ cli.mirrors = Standing(cli.mirrors, Declared(cli.sources))
        /\ DOMAIN tree = DOMAIN subject.text /\ cli.todo \subseteq DOMAIN tree
        /\ \A g \in DOMAIN tree \ cli.todo :
              tree[g] = StagedSource(g, cli.drafts, cli.mirrors, subject.dialect)
    BY <1>1 DEF DraftingInv, CliIs
  <1>3. /\ DOMAIN cli = {"pc", "repair", "at", "sources", "todo", "mirrors", "drafts", "attempts"}
        /\ subject.dialect = "Logic" => cli.drafts = {}
        /\ subject.dialect = "Pure" => cli.mirrors = {}
    BY <1>2 DEF Session
  <1>4. /\ cli'.pc = "stage" /\ cli'.todo = cli.todo \ {f} /\ DOMAIN cli' = DOMAIN cli
        /\ cli'.at = cli.at /\ cli'.sources = cli.sources /\ cli'.attempts = cli.attempts
        /\ cli'.mirrors = cli.mirrors /\ cli'.drafts = cli.drafts
    BY <1>1, <1>3
  <1>5. Session(cli)' /\ MirrorsAre(cli, Targets)' /\ DraftsAre(cli, Targets)'
    <2>1. /\ Found(cli.at)' /\ SourcesStand(cli.sources)' /\ Undrafted(cli.sources)'
          /\ subject'.dialect = "Logic" => Finds(cli.at, cli.sources)'
          /\ Targets' = Targets
      BY <1>1, <1>2, <1>4, OneSubject DEF Session
    <2>2. Session(cli)'
      BY <1>1, <1>2, <1>3, <1>4, <2>1 DEF Session
    <2>3. MirrorsAre(cli', Targets) /\ DraftsAre(cli', Targets)
      BY <1>2, <1>4 DEF MirrorsAre, DraftsAre
    <2> QED
      BY <1>1, <2>1, <2>2, <2>3, OneSubject
  <1>6. \A g, d, m, dialect : StagedSource(g, d, m, dialect)' = StagedSource(g, d, m, dialect)
    BY <1>4 DEF StagedSource
  <1>7. /\ DOMAIN tree' = DOMAIN subject.text /\ cli'.todo \subseteq DOMAIN tree'
        /\ \A g \in DOMAIN tree' \ cli'.todo :
              tree'[g] = StagedSource(g, cli.drafts, cli.mirrors, subject.dialect)
    <2> DEFINE S(g) == StagedSource(g, cli.drafts, cli.mirrors, subject.dialect)
    <2> HIDE DEF S
    <2>1. tree' = [tree EXCEPT ![f] = S(f)] /\ \A g \in DOMAIN tree \ cli.todo : tree[g] = S(g)
      BY <1>1, <1>2 DEF S
    <2>2. \A g \in DOMAIN tree' \ cli'.todo : tree'[g] = S(g)
      BY <1>1, <1>2, <1>4, <2>1
    <2> QED
      BY <1>1, <1>2, <1>4, <2>2 DEF S
  <1>8. \A g \in (DOMAIN tree \ cli.todo)' :
            tree'[g] = StagedSource(g, cli.drafts, cli.mirrors, subject.dialect)'
    BY <1>1, <1>4, <1>6, <1>7
  <1>9. CliIs(cli)'
    BY <1>1, <1>2, <1>4, <1>5, <1>7, <1>8 DEF CliIs
  <1>10. ToldIsProved' /\ ~told'.proved
    BY <1>1, <1>2 DEF ToldIsProved
  <1> QED
    BY <1>1, <1>2, <1>4, <1>9, <1>10, ThenInv

\* When every file is written, the tree stands.
LEMMA AllIsStaged ==
    ASSUME subject \in Subjects, DraftedOnce, CliIs(cli), cli.pc = "stage", cli.todo = {}
    PROVE  SourcesStand(tree)
PROOF
  <1>1. /\ Session(cli) /\ DraftsAre(cli, Targets) /\ MirrorsAre(cli, Targets)
        /\ cli.mirrors = Standing(cli.mirrors, Declared(cli.sources))
        /\ DOMAIN tree = DOMAIN subject.text
        /\ \A f \in DOMAIN tree \ cli.todo :
              tree[f] = StagedSource(f, cli.drafts, cli.mirrors, subject.dialect)
    BY DEF CliIs
  <1>2. DOMAIN tree \ cli.todo = DOMAIN tree
    OBVIOUS
  <1> QED
    BY <1>1, <1>2, StagedStands

LEMMA StagedStep == ASSUME DraftingInv, DraftedOnce, Staged PROVE DraftingInv'
PROOF
  <1>1. /\ cli.pc = "stage" /\ cli.todo = {}
        /\ subject' = subject /\ tree' = tree /\ told' = told /\ touched' = touched
        /\ cli' = Resting \/ cli' = [cli EXCEPT !.pc = "verify"]
    BY DEF Staged
  <1> SUFFICES ASSUME ~touched PROVE DraftingInv'
    BY <1>1 DEF DraftingInv
  <1>2. subject \in Subjects /\ ~told.proved /\ CliIs(cli)
    BY <1>1 DEF DraftingInv
  <1>3. Session(cli)
    BY <1>1, <1>2 DEF CliIs
  <1>4. SourcesStand(tree)
    BY <1>1, <1>2, AllIsStaged
  <1>5. ToldIsProved' /\ ~told'.proved
    BY <1>1, <1>2 DEF ToldIsProved
  <1>6. CASE cli' = Resting
    BY <1>1, <1>2, <1>4, <1>5, <1>6, NowIdle
  <1>7. CASE cli' = [cli EXCEPT !.pc = "verify"]
    <2>1. /\ DOMAIN cli = {"pc", "repair", "at", "sources", "todo", "mirrors", "drafts", "attempts"}
          /\ subject.dialect = "Logic" => cli.drafts = {}
          /\ subject.dialect = "Pure" => cli.mirrors = {}
      BY <1>3 DEF Session
    <2>2. /\ SessionGoesOn /\ cli'.pc = "verify" /\ cli'.drafts = cli.drafts /\ cli'.mirrors = cli.mirrors
      BY <1>1, <1>7, <2>1 DEF SessionGoesOn
    <2>3. Session(cli)'
      BY <1>3, <2>1, <2>2, SessionOn
    <2>4. CliIs(cli)'
      BY <2>2, <2>3 DEF CliIs
    <2>5. SourcesStand(tree)'
      BY <1>1, <1>4, OneSubject
    <2> QED
      BY <1>1, <1>2, <1>5, <2>4, <2>5, ThenInv
  <1> QED
    BY <1>1, <1>6, <1>7

LEMMA VerifyStep ==
    ASSUME DraftingInv, DraftedOnce, NEW holding, VerifyRound(holding) PROVE DraftingInv'
PROOF
  <1> DEFINE proved == VerdictToProofStep(holding, subject.dialect)
  <1>1. /\ cli.pc = "verify"
        /\ subject' = subject /\ tree' = tree /\ touched' = touched
        /\ \/ /\ cli' = Resting
              /\ told' = [proved |-> proved, tree |-> tree, held |-> Prover(subject.dialect) \in holding]
           \/ /\ cli' = [cli EXCEPT !.pc = "clauses", !.todo = subject.targets,
                                    !.drafts = {}, !.attempts = @ + 1]
              /\ told' = told /\ subject.dialect # "Logic"
    BY DEF VerifyRound
  <1> SUFFICES ASSUME ~touched PROVE DraftingInv'
    BY <1>1 DEF DraftingInv
  <1>2. subject \in Subjects /\ ~told.proved /\ Session(cli) /\ SourcesStand(tree)
    BY <1>1 DEF DraftingInv, CliIs
  <1>3. CASE /\ cli' = Resting
             /\ told' = [proved |-> proved, tree |-> tree, held |-> Prover(subject.dialect) \in holding]
    <2>1. ToldIsProved'
      BY <1>1, <1>3 DEF ToldIsProved, VerdictToProofStep
    <2> QED
      BY <1>1, <1>2, <1>3, <2>1, NowIdle
  <1>4. CASE /\ cli' = [cli EXCEPT !.pc = "clauses", !.todo = subject.targets,
                                    !.drafts = {}, !.attempts = @ + 1]
             /\ told' = told /\ subject.dialect # "Logic"
    <2>1. /\ DOMAIN cli = {"pc", "repair", "at", "sources", "todo", "mirrors", "drafts", "attempts"}
          /\ subject.dialect = "Pure" /\ cli.mirrors = {} /\ cli.attempts \in Nat
      BY <1>2, <1>4 DEF Session
    <2>2. /\ DOMAIN cli' = DOMAIN cli /\ cli'.pc = "clauses" /\ cli'.todo = subject.targets
          /\ cli'.drafts = {} /\ cli'.mirrors = {} /\ cli'.attempts \in Nat
          /\ cli'.at = cli.at /\ cli'.sources = cli.sources
      BY <1>4, <2>1
    <2>3. /\ Found(cli.at)' /\ SourcesStand(cli.sources)' /\ Undrafted(cli.sources)' /\ Targets' = Targets
      BY <1>1, <1>2, <2>2, OneSubject DEF Session
    <2>4. Session(cli)'
      BY <1>1, <2>1, <2>2, <2>3 DEF Session
    <2>5. ToDo(cli.todo)'
      BY <1>2, <2>2, <2>3, ToDoAll DEF ToDo
    <2>6. DraftsAre(cli, Targets \ ToSet(cli.todo))'
      BY <2>2, FS_EmptySet DEF DraftsAre
    <2>7. CliIs(cli)'
      BY <1>1, <2>1, <2>2, <2>4, <2>5, <2>6 DEF CliIs
    <2>8. SourcesStand(tree)' /\ ToldIsProved' /\ ~told'.proved
      BY <1>1, <1>2, <1>4, OneSubject DEF ToldIsProved
    <2> QED
      BY <1>1, <1>2, <2>7, <2>8, ThenInv
  <1> QED
    BY <1>1, <1>3, <1>4

LEMMA FailsStep == ASSUME DraftingInv, DraftedOnce, DraftingFails PROVE DraftingInv'
PROOF
  <1>1. /\ cli' = Resting /\ touched' = (touched \/ (cli.pc = "stage" /\ cli.todo # {}))
        /\ subject' = subject /\ tree' = tree /\ told' = told /\ cli.pc \in {"mirrors", "clauses", "stage", "verify"}
    BY DEF DraftingFails
  <1>2. subject \in Subjects
    BY DEF DraftingInv
  <1>3. ASSUME ~touched' PROVE SourcesStand(tree') /\ ToldIsProved'
    <2>1. /\ ~touched /\ (cli.pc = "stage" => cli.todo = {})
          /\ CliIs(cli) /\ (cli.pc # "stage" => SourcesStand(tree)) /\ ~told.proved
      BY <1>1, <1>3 DEF DraftingInv
    <2>2. SourcesStand(tree)
      BY <1>2, <2>1, AllIsStaged
    <2> QED
      BY <1>1, <2>1, <2>2 DEF ToldIsProved
  <1> QED
    BY <1>1, <1>2, <1>3, NowIdle

LEMMA RevertStep == ASSUME DraftingInv, DraftedOnce, Revert PROVE DraftingInv'
PROOF
  <1>1. /\ cli.pc = "idle" /\ cli' = cli /\ tree' = subject.text /\ told' = NothingTold
        /\ subject' = subject
    BY DEF Revert
  <1>2. subject \in Subjects
    BY DEF DraftingInv
  <1>3. SourcesStand(tree)'
    BY <1>1, <1>2, SubjectStands, OneSubject
  <1>4. CliIs(cli)' /\ cli'.pc = "idle" /\ ToldIsProved'
    BY <1>1, ToldNothing DEF CliIs, ToldIsProved
  <1> QED
    BY <1>1, <1>2, <1>3, <1>4, ThenInv

LEMMA TouchStep == ASSUME DraftingInv, DraftedOnce, NEW f \in Sources, Touch(f) PROVE DraftingInv'
PROOF
  <1> DEFINE l == TextLine("inner", Outside)
  <1>1. /\ cli.pc = "idle" /\ cli' = cli /\ told' = NothingTold /\ subject' = subject /\ touched' = touched
        /\ tree' = [tree EXCEPT ![f] = <<l>> \o @]
    BY DEF Touch, DraftedOnce
  <1> SUFFICES ASSUME ~touched PROVE DraftingInv'
    BY <1>1 DEF DraftingInv
  <1>2. subject \in Subjects /\ SourcesStand(tree)
    BY <1>1 DEF DraftingInv
  <1>3. l \in SourceLine /\ l.k = "inner"
    BY DEF TextLine, SourceLine, Names
  <1> HIDE DEF l
  <1>4. DOMAIN tree = DOMAIN subject.text /\ f \in DOMAIN subject.text /\ SourceStands(f, tree[f])
    BY <1>2 DEF SourcesStand, Sources, SourceStands
  <1>5. Whole(<<l>> \o tree[f]) /\ ToSet(<<l>> \o tree[f]) = ToSet(tree[f]) \cup {l}
    BY <1>3, <1>4, TouchKeeps DEF SourceStands
  <1> DEFINE r == <<l>> \o tree[f]
  <1> HIDE DEF r
  <1>6. /\ DOMAIN tree' = DOMAIN tree /\ tree'[f] = r /\ \A g \in DOMAIN tree : g # f => tree'[g] = tree[g]
        /\ Whole(r) /\ ToSet(r) = ToSet(tree[f]) \cup {l}
    BY <1>1, <1>4, <1>5 DEF r
  <1>7. SourceStands(f, r)
    <2>1. Keeps(f, r)
      BY <1>3, <1>4, <1>6 DEF SourceStands, Keeps
    <2>2. /\ Proposed(r) = Proposed(tree[f]) /\ UsesOf(r) = UsesOf(tree[f])
          /\ MentionsInt(r) <=> MentionsInt(tree[f])
      <3>1. \A x : x \in ToSet(r) /\ x.k # "inner" <=> x \in ToSet(tree[f]) /\ x.k # "inner"
        BY <1>3, <1>6
      <3>2. Proposed(r) = Proposed(tree[f])
        BY <3>1 DEF Proposed, Drafted
      <3>3. {x \in ToSet(r) : x.k = "use"} = {x \in ToSet(tree[f]) : x.k = "use"}
        BY <3>1
      <3>4. Mirrors(r) = Mirrors(tree[f])
        BY <3>1 DEF Mirrors
      <3> QED
        BY <3>2, <3>3, <3>4 DEF UsesOf, MentionsInt
    <2>3. InScope(f, r)
      BY <1>4, <1>6, <2>2 DEF SourceStands, InScope, Whole
    <2> QED
      BY <1>6, <2>1, <2>3 DEF SourceStands
  <1>8. MirrorsAreChecked(tree')
    <2>1. \A g \in DOMAIN tree' : \A x : x \in ToSet(tree'[g]) /\ x.k # "inner"
                                         <=> x \in ToSet(tree[g]) /\ x.k # "inner"
      BY <1>3, <1>6
    <2>2. \A g \in DOMAIN tree : Mirrors(tree'[g]) = Mirrors(tree[g])
      BY <1>6, <2>1 DEF Mirrors
    <2> DEFINE Has(t, x, k) == \E o \in ToSet(t) : o.k = k /\ o.fn = x.fn
    <2>3. \A g \in DOMAIN tree : \A x, k : k # "inner" => (Has(tree'[g], x, k) <=> Has(tree[g], x, k))
      BY <1>6, <2>1
    <2>4. MirrorsAreChecked(tree)
      BY <1>2 DEF SourcesStand
    <2> SUFFICES ASSUME NEW g \in DOMAIN tree', NEW x \in ToSet(tree'[g]), x.k \in {"mirror", "link"}
                 PROVE  /\ x.k = "mirror" => /\ Has(tree'[g], x, "link")
                                             /\ \A c \in x.calls : \E h \in DOMAIN tree' :
                                                   /\ c[1] \in {"here", h}
                                                   /\ \E m \in Mirrors(tree'[h]) : m.fn = c[2]
                        /\ x.k = "link" => Has(tree'[g], x, "mirror") /\ ~Has(tree'[g], x, "requires")
      BY DEF MirrorsAreChecked
    <2>5. x \in ToSet(tree[g]) /\ g \in DOMAIN tree
      BY <1>6, <2>1
    <2>6. /\ x.k = "mirror" => /\ Has(tree[g], x, "link")
                               /\ \A c \in x.calls : \E h \in DOMAIN tree :
                                     /\ c[1] \in {"here", h}
                                     /\ \E m \in Mirrors(tree[h]) : m.fn = c[2]
          /\ x.k = "link" => Has(tree[g], x, "mirror") /\ ~Has(tree[g], x, "requires")
      BY <2>4, <2>5 DEF MirrorsAreChecked
    <2> HIDE DEF Has
    <2> QED
      BY <1>6, <2>2, <2>3, <2>5, <2>6
  <1>9. SourcesStand(tree')
    BY <1>2, <1>4, <1>6, <1>7, <1>8 DEF SourcesStand, SourceStands
  <1>10. SourcesStand(tree)' /\ CliIs(cli)' /\ cli'.pc = "idle" /\ ToldIsProved'
    BY <1>1, <1>9, ToldNothing, OneSubject DEF CliIs, ToldIsProved
  <1> QED
    BY <1>1, <1>2, <1>10, ThenInv

LEMMA Untouched == ASSUME DraftingInv, UNCHANGED draftingVars PROVE DraftingInv'
PROOF
  <1>1. /\ subject' = subject /\ cli' = cli /\ tree' = tree /\ told' = told /\ touched' = touched
    BY DEF draftingVars
  <1> SUFFICES ASSUME ~touched PROVE DraftingInv'
    BY <1>1 DEF DraftingInv
  <1>2. subject \in Subjects /\ CliIs(cli)
    BY DEF DraftingInv
  <1>3. ToldIsProved' /\ (cli.pc # "idle" => ~told.proved) /\ (cli.pc # "stage" => SourcesStand(tree))
    BY <1>1 DEF DraftingInv, ToldIsProved
  <1>4. CliIs(cli)'
    <2>1. Targets' = Targets /\ \A x : /\ (Session(x)' <=> Session(x)) /\ (Flags(x)' <=> Flags(x))
                   /\ \A y : /\ Undrafted(y)' <=> Undrafted(y)
                             /\ Finds(x, y)' <=> Finds(x, y)
                             /\ MirrorsAre(x, y)' <=> MirrorsAre(x, y)
      BY <1>1, OneSubject, OneSession
    <2>2. \A g, d, m, dialect : StagedSource(g, d, m, dialect)' = StagedSource(g, d, m, dialect)
      BY <1>1 DEF StagedSource
    <2> QED
      BY <1>1, <1>2, <2>1, <2>2 DEF CliIs, ToDo
  <1>5. cli.pc # "stage" => SourcesStand(tree)'
    BY <1>1, <1>3, OneSubject
  <1> QED
    BY <1>1, <1>2, <1>3, <1>4, <1>5, ThenInv

\* No step of the command or of the operator disturbs it.
LEMMA DraftingStep == ASSUME DraftingInv, DraftedOnce, DraftingNext PROVE DraftingInv'
PROOF
  <1>1. CASE \E flags \in (SUBSET {"contracts", "semantic"}) \ {{}}, repair \in BOOLEAN :
                 (repair => "semantic" \in flags) /\ RunVerify(flags, repair)
    BY <1>1, RunVerifyStep
  <1>2. CASE StageMarkerDrafts \/ LoadPredicateSources
    BY <1>2, MarkerStep, LoadStep
  <1>3. CASE DraftMirror \/ DropMirrorsCallingNothing
    BY <1>3, DraftMirrorStep, DropStep
  <1>4. CASE DraftClauses \/ RoundDrafted \/ Staged
    BY <1>4, DraftClausesStep, RoundStep, StagedStep
  <1>5. CASE \E holding \in SUBSET {"Kani", "Creusot", "Prusti"} : VerifyRound(holding)
    BY <1>5, VerifyStep
  <1>6. CASE DraftingFails \/ Revert
    BY <1>6, FailsStep, RevertStep
  <1>7. CASE DraftingOver
    BY <1>7, Untouched DEF DraftingOver
  <1>8. CASE \E f \in Sources : Stage(f) \/ Touch(f)
    BY <1>8, StageStep, TouchStep
  <1> QED
    BY <1>1, <1>2, <1>3, <1>4, <1>5, <1>6, <1>7, <1>8 DEF DraftingNext

LEMMA WhatStands == ASSUME DraftingInv PROVE ProposalStands
PROOF
  <1> SUFFICES ASSUME cli.pc \in {"idle", "verify"}, ~touched
               PROVE  /\ \A f \in Sources : EachAboveItsOwn(tree[f]) /\ InScope(f, tree[f])
                      /\ MirrorsAreChecked(tree) /\ ToldIsProved
    BY DEF ProposalStands
  <1>1. SourcesStand(tree) /\ ToldIsProved
    BY DEF DraftingInv
  <1> QED
    BY <1>1 DEF SourcesStand, Whole, Sources

\* A proposal that waits or is verified stands as it was drafted, whatever was
\* drafted before, failed or was taken back: nothing is there twice, under
\* another function or out of scope, no mirror is unchecked, and what the
\* command says is proved is the text that is staged (proof_draft.rs and
\* semantic_draft.rs).
THEOREM TheProposalStands ==
    ASSUME DraftedOnce
    PROVE  DraftingInit /\ [][DraftingNext]_draftingVars => []ProposalStands
PROOF
  <1>1. DraftingInit => DraftingInv
    BY InitInv
  <1>2. DraftingInv /\ [DraftingNext]_draftingVars => DraftingInv'
    BY DraftingStep, Untouched
  <1>3. DraftingInv => ProposalStands
    BY WhatStands
  <1> QED
    BY <1>1, <1>2, <1>3, PTL

\* Nothing of provreq's stays in the sources of a subject but what a
\* verification leaves by its code and a proposal that is whole.
THEOREM TheSubjectIsSound ==
    ASSUME NothingOverlaps, DraftedOnce
    PROVE  VerdictsSpec => []SubjectIsSound
PROOF
  <1>1. VerdictsInit => Kept /\ DraftingInv
    <2>1. VerdictsInit => RunsInit /\ DraftingInit
      BY DEF VerdictsInit, RunsStart, RunsRest, DraftingRests
    <2> QED
      BY <2>1, InitKept, InitInv
  <1>2. Kept /\ DraftingInv /\ [VerdictsNext]_<<studied, runsVars, historyVars, vars, draftingVars>>
        => (Kept /\ DraftingInv)'
    <2>1. [VerdictsNext]_<<studied, runsVars, historyVars, vars, draftingVars>>
          => (RunsNext \/ runsVars' = runsVars) /\ (DraftingNext \/ draftingVars' = draftingVars)
      BY DEF VerdictsNext
    <2>2. Kept /\ (RunsNext \/ runsVars' = runsVars) => Kept'
      BY NextKept
    <2>3. DraftingInv /\ (DraftingNext \/ draftingVars' = draftingVars) => DraftingInv'
      BY DraftingStep, Untouched
    <2> QED
      BY <2>1, <2>2, <2>3
  <1>3. Kept /\ DraftingInv => SubjectIsSound
    BY WhatIsKept, WhatStands DEF SubjectIsSound
  <1> QED
    BY <1>1, <1>2, <1>3, PTL DEF VerdictsSpec
=============================================================================
