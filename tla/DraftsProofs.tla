---------------------------- MODULE DraftsProofs ----------------------------
(***************************************************************************)
(* Proofs about Drafts, for any number of items, requests, builds and      *)
(* candidates, and that requests that come one at a time implement the     *)
(* ledger of DraftLedger; and about Screens, the pages a draft, a review   *)
(* and an artifact are edited on, for any texts, any number of versions    *)
(* and of requests.                                                        *)
(***************************************************************************)
EXTENDS DraftsRefinement, Screens, TLAPS

\* A map every draft of which is sound.
SoundMap(st) == \A i \in Items : Sound(st[i])

-----------------------------------------------------------------------------
\* The operators of DraftState: what they return is a map, and a sound one.

\* A pending draft with nothing bound is a draft, and a sound one provided it
\* is ungated when it has no candidate (open, set_candidate).
LEMMA UnadmittedSound ==
    ASSUME NEW r \in Revisions, NEW c \in Candidates \cup {NoCandidate},
           NEW g \in {"ungated"} \cup GateResult,
           c = NoCandidate => g = "ungated"
    PROVE  /\ Unadmitted(r, c, g) \in Draft
           /\ Sound(Unadmitted(r, c, g))
<1>1. Unadmitted(r, c, g) \in Draft
  BY DEF Unadmitted, Draft, Review, Surface
<1>2. Sound(Unadmitted(r, c, g))
  BY DraftAssumption DEF Unadmitted, Sound, Admitted
<1>. QED  BY <1>1, <1>2

\* Putting a sound draft, or none, in a sound map keeps the map sound.
LEMMA PutSound ==
    ASSUME NEW st \in DraftMap, NEW i \in Items, SoundMap(st),
           NEW d \in Draft \cup {NoDraft}, Sound(d)
    PROVE  /\ [st EXCEPT ![i] = d] \in DraftMap
           /\ SoundMap([st EXCEPT ![i] = d])
  BY DEF DraftMap, SoundMap

\* open keeps a sound map sound.
LEMMA OpenSound ==
    ASSUME NEW st \in DraftMap, NEW i \in Items, NEW r \in Revisions,
           SoundMap(st)
    PROVE  Open(st, i, r) \in DraftMap /\ SoundMap(Open(st, i, r))
  BY UnadmittedSound, PutSound DEF Open

\* set_candidate keeps a sound map sound.
LEMMA SetCandidateSound ==
    ASSUME NEW st \in DraftMap, NEW i \in Items, NEW r \in Revisions,
           NEW c \in Candidates, NEW b \in Builds, SoundMap(st)
    PROVE  /\ SetCandidate(st, i, r, c, GateOf[b][c]) \in DraftMap
           /\ SoundMap(SetCandidate(st, i, r, c, GateOf[b][c]))
<1>1. GateOf[b][c] \in {"ungated"} \cup GateResult /\ c # NoCandidate
  BY DraftAssumption
<1>. QED  BY <1>1, UnadmittedSound, PutSound DEF SetCandidate

\* A re-check of a candidate keeps a sound map sound.
LEMMA SetGateSound ==
    ASSUME NEW st \in DraftMap, NEW i \in Items, NEW b \in Builds,
           HasCandidate(st[i]), SoundMap(st)
    PROVE  /\ SetGate(st, i, GateOf[b][st[i].candidate]) \in DraftMap
           /\ SoundMap(SetGate(st, i, GateOf[b][st[i].candidate]))
<1>. DEFINE g == GateOf[b][st[i].candidate]
            d == [st[i] EXCEPT !.gate = g]
<1>1. st[i] \in Draft /\ st[i].candidate \in Candidates
  BY DEF HasCandidate, DraftMap, Draft
<1>2. g \in GateResult
  BY <1>1, DraftAssumption
<1>3. d \in Draft
  BY <1>1, <1>2 DEF Draft
<1>4. Sound(d)
  <2>1. Sound(st[i]) /\ st[i] # NoDraft
    BY DEF SoundMap, HasCandidate
  <2>2. /\ d.review = st[i].review /\ d.candidate = st[i].candidate
        /\ d.bindings = st[i].bindings
    BY <1>1 DEF Draft
  <2>. QED  BY <2>1, <2>2, <1>1, DraftAssumption DEF Sound, Admitted
<1>5. SetGate(st, i, g) = [st EXCEPT ![i] = d]
  BY DEF SetGate, HasCandidate
<1>. HIDE DEF d
<1>. QED  BY <1>3, <1>4, <1>5, PutSound

\* A binding to a symbol the candidate declares keeps a sound map sound.
LEMMA SetBindingSound ==
    ASSUME NEW st \in DraftMap, NEW i \in Items, NEW b \in Builds,
           NEW s \in Symbols, CanGround(st[i], b, s), SoundMap(st)
    PROVE  SetBinding(st, i, s) \in DraftMap /\ SoundMap(SetBinding(st, i, s))
<1>. DEFINE d == [st[i] EXCEPT !.bindings = @ \cup {s}]
<1>1. st[i] \in Draft /\ st[i].candidate \in Candidates /\ st[i] # NoDraft
  BY DEF CanGround, HasCandidate, DraftMap, Draft
<1>2. d \in Draft
  BY <1>1 DEF Draft
<1>3. Sound(d)
  <2>1. Sound(st[i])
    BY DEF SoundMap
  <2>2. /\ d.review = st[i].review /\ d.candidate = st[i].candidate
        /\ d.bindings = st[i].bindings \cup {s}
    BY <1>1 DEF Draft
  <2>3. s \in VocabOf[d.candidate]
    BY <2>2 DEF CanGround
  <2>. QED
    BY <2>1, <2>2, <2>3, <1>1, DraftAssumption DEF Sound, Admitted
<1>4. SetBinding(st, i, s) = [st EXCEPT ![i] = d]
  BY <1>1 DEF SetBinding
<1>. HIDE DEF d
<1>. QED  BY ZenonT(30), <1>2, <1>3, <1>4, PutSound

\* An admission admit_gated may grant keeps a sound map sound: the tier is
\* the one the gate gives the candidate.
LEMMA AdmitSound ==
    ASSUME NEW st \in DraftMap, NEW i \in Items, NEW b \in Builds,
           NEW who \in Surface, NEW c \in Candidates \cup {NoCandidate},
           NEW confirmed \in BOOLEAN,
           CanAdmit(st[i], b, confirmed), SoundMap(st)
    PROVE  /\ AdmitGated(st, i, b, who, c) \in DraftMap
           /\ SoundMap(AdmitGated(st, i, b, who, c))
<1>. DEFINE t == Tier(GateOf[b][st[i].candidate])
            d == [st[i] EXCEPT !.review = t, !.by = who,
                               !.shown = (c = st[i].candidate)]
<1>1. st[i] \in Draft /\ st[i].candidate \in Candidates /\ st[i] # NoDraft
  BY DEF CanAdmit, HasCandidate, DraftMap, Draft
<1>2. t \in Review /\ Earned(st[i].candidate, t)
  BY <1>1 DEF Tier, Review, Earned, CanAdmit
<1>3. d \in Draft
  BY <1>1, <1>2 DEF Draft
<1>4. Sound(d)
  <2>1. Sound(st[i])
    BY DEF SoundMap
  <2>2. /\ d.review = t /\ d.candidate = st[i].candidate
        /\ d.bindings = st[i].bindings
    BY <1>1 DEF Draft
  <2>. QED  BY <2>1, <2>2, <1>1, <1>2, DraftAssumption DEF Sound
<1>5. AdmitGated(st, i, b, who, c) = [st EXCEPT ![i] = d]
  BY <1>1 DEF AdmitGated, DraftMap
<1>. HIDE DEF d
<1>6. [st EXCEPT ![i] = d] \in DraftMap /\ SoundMap([st EXCEPT ![i] = d])
  BY <1>3, <1>4, PutSound
<1>. QED  BY <1>5, <1>6

\* discard keeps a sound map sound.
LEMMA DiscardSound ==
    ASSUME NEW st \in DraftMap, NEW i \in Items, SoundMap(st)
    PROVE  Discard(st, i) \in DraftMap /\ SoundMap(Discard(st, i))
  BY PutSound DEF Discard, Sound

-----------------------------------------------------------------------------
\* The requests.

\* Only a translation waits for the model.
AskingTranslates ==
    \A w \in Workers : job[w].pc = "asking" => job[w].op = "translate"

\* The inductive invariant: the types, and soundness of every copy of the
\* map, the one in the file and the one in the memory of each request.
Inv ==
    /\ TypeOK
    /\ SoundMap(drafts)
    /\ \A w \in Workers : SoundMap(job[w].mem)
    /\ AnnotationsEarned
    /\ AskingTranslates

\* A request that is over holds the empty map.
LEMMA NoJobSound ==
    ASSUME NEW f \in [Items -> Revisions]
    PROVE  NoJob \in Job /\ SoundMap(NoJob.mem)
<1>1. NoDrafts \in DraftMap /\ SoundMap(NoDrafts)
  BY DEF NoDrafts, DraftMap, SoundMap, Sound
<1>2. AnyItem \in Items /\ AnyRevision \in Revisions
  BY ItemAssumption DEF AnyItem, AnyRevision
<1>3. 0 \in 0 .. MaxAttempts
  BY AttemptAssumption
<1>4. NoJob \in Job
  BY <1>1, <1>2, <1>3 DEF NoJob, Job, Pc, Op
<1>. QED  BY <1>1, <1>4 DEF NoJob

\* A request that computes a sound map leaves the invariant alone.
LEMMA HoldInv ==
    ASSUME Inv, NEW w \in Workers, NEW st \in DraftMap, SoundMap(st),
           Hold(w, st)
    PROVE  Inv'
<1>1. job' \in [Workers -> Job]
  BY ZenonT(30) DEF Inv, TypeOK, Hold, Job, Pc
<1>2. \A v \in Workers : job'[v].mem = IF v = w THEN st ELSE job[v].mem
  BY DEF Inv, TypeOK, Hold, Job
<1>3. TypeOK'
  BY <1>1 DEF Inv, TypeOK, Hold, world, file
<1>4. (\A v \in Workers : SoundMap(job[v].mem))'
  BY <1>2 DEF Inv, SoundMap
<1>5. SoundMap(drafts)' /\ AnnotationsEarned'
  BY DEF Inv, Hold, world, file, SoundMap, AnnotationsEarned
<1>6. AskingTranslates'
  BY DEF Inv, TypeOK, Hold, Job, AskingTranslates
<1>. QED  BY <1>3, <1>4, <1>5, <1>6 DEF Inv

\* A request that ends without touching anything leaves the invariant alone.
LEMMA EndInv ==
    ASSUME Inv, NEW w \in Workers, End(w), UNCHANGED <<world, file, started>>
    PROVE  Inv'
<1>1. job' \in [Workers -> Job]
  BY NoJobSound DEF Inv, TypeOK, End
<1>2. \A v \in Workers : SoundMap(job'[v].mem)
  BY NoJobSound DEF Inv, TypeOK, End
<1>3. AskingTranslates'
  BY DEF Inv, TypeOK, End, NoJob, AskingTranslates
<1>. QED
  BY <1>1, <1>2, <1>3 DEF Inv, TypeOK, world, file, AnnotationsEarned, SoundMap

(* No drafts and no request under way: the invariant holds to begin with. *)
LEMMA InitInv == Init => Inv
<1>. SUFFICES ASSUME Init PROVE Inv
  OBVIOUS
<1>1. NoJob \in Job /\ SoundMap(NoJob.mem)
  BY NoJobSound DEF Init
<1>2. NoDrafts \in DraftMap /\ SoundMap(NoDrafts)
  BY DEF NoDrafts, DraftMap, SoundMap, Sound
<1>3. job \in [Workers -> Job] /\ \A w \in Workers : SoundMap(job[w].mem)
  BY <1>1 DEF Init
<1>4. TypeOK
  BY <1>2, <1>3, AttemptAssumption DEF Init, TypeOK
<1>5. AskingTranslates
  BY DEF Init, NoJob, AskingTranslates
<1>. QED  BY <1>2, <1>3, <1>4, <1>5 DEF Init, Inv, AnnotationsEarned

\* Every step of a request that reads the file and computes a new map.
LEMMA HandleInv ==
    ASSUME Inv, NEW w \in Workers, Handle(w)
    PROVE  Inv'
<1>. USE DEF Inv, TypeOK
<1>1. /\ job[w].item \in Items /\ job[w].rev \in Revisions
      /\ job[w].seen \in Candidates \cup {NoCandidate}
      /\ job[w].mem \in DraftMap
  BY DEF Job
<1>2. CASE OpenDraft(w)
  <2>. DEFINE st == Open(drafts, job[w].item, job[w].rev)
  <2>1. st \in DraftMap /\ SoundMap(st)
    BY <1>1, OpenSound
  <2>2. Hold(w, st)
    BY <1>2 DEF OpenDraft
  <2>. HIDE DEF st
  <2>. QED  BY <2>1, <2>2, HoldInv
<1>3. CASE SetDraftCandidate(w)
  <2>1. PICK c \in Candidates :
          Hold(w, SetCandidate(drafts, job[w].item, job[w].rev, c,
                               GateOf[build][c]))
    BY <1>3 DEF SetDraftCandidate
  <2>. DEFINE st == SetCandidate(drafts, job[w].item, job[w].rev, c,
                                 GateOf[build][c])
  <2>2. st \in DraftMap /\ SoundMap(st)
    BY <1>1, SetCandidateSound
  <2>. HIDE DEF st
  <2>. QED  BY <2>1, <2>2, HoldInv DEF st
<1>4. CASE CheckDraft(w)
  BY <1>1, <1>4, SetGateSound, HoldInv DEF CheckDraft, Found
<1>5. CASE GroundDraft(w)
  BY <1>1, <1>5, SetBindingSound, HoldInv DEF GroundDraft, Found
<1>6. CASE AdmitDraft(w)
  <2>1. "web" \in Surface
    BY DEF Surface
  <2>. QED  BY <1>1, <1>6, <2>1, AdmitSound, HoldInv DEF AdmitDraft, Found
<1>7. CASE AdmitCandidate(w)
  <2>1. "console" \in Surface
    BY DEF Surface
  <2>2. Found(w).candidate \in Candidates \cup {NoCandidate}
    BY <1>1, <1>7
       DEF AdmitCandidate, CanAdmit, HasCandidate, Found, DraftMap, Draft
  <2>. QED
    BY <1>1, <1>7, <2>1, <2>2, AdmitSound, HoldInv DEF AdmitCandidate, Found
<1>8. CASE DiscardDraft(w)
  BY <1>1, <1>8, DiscardSound, HoldInv DEF DiscardDraft
<1>9. CASE Writeback(w)
  <2>1. Found(w) \in Draft /\ Sound(Found(w)) /\ Admitted(Found(w))
    BY <1>1, <1>9
       DEF Writeback, CanWriteBack, Found, DraftMap, SoundMap, Admitted
  <2>2. AnnotationOf(Found(w)) \in Annotation
    BY <2>1 DEF AnnotationOf, Annotation, Draft
  <2>3. Earned(AnnotationOf(Found(w)).prl, AnnotationOf(Found(w)).review)
    BY <2>1 DEF AnnotationOf, Sound, Admitted
  <2>4. /\ annot' \in [Items -> Annotation \cup {NoAnnotation}]
        /\ AnnotationsEarned'
    BY <1>1, <1>9, <2>2, <2>3 DEF Writeback, AnnotationsEarned
  <2>5. job' \in [Workers -> Job] /\ \A v \in Workers : SoundMap(job'[v].mem)
    BY <1>9, NoJobSound DEF Writeback, End
  <2>6. AskingTranslates'
    BY <1>9 DEF Writeback, End, NoJob, AskingTranslates
  <2>. QED  BY <1>9, <2>4, <2>5, <2>6 DEF Writeback, file, SoundMap
<1>10. CASE Ask(w)
  <2>1. job' \in [Workers -> Job]
    BY ZenonT(30), <1>10 DEF Ask, Job, Pc
  <2>2. \A v \in Workers : job'[v].mem = IF v = w THEN drafts ELSE job[v].mem
    BY <1>10 DEF Ask, Job
  <2>3. AskingTranslates'
    BY <1>10 DEF Ask, Loads, Job, AskingTranslates
  <2>. QED
    BY <1>10, <2>1, <2>2, <2>3 DEF Ask, world, file, SoundMap, AnnotationsEarned
<1>11. ASSUME NEW c \in Candidates, Propose(w, c) PROVE Inv'
  <2>. DEFINE m == SetCandidate(job[w].mem, job[w].item, job[w].rev, c,
                                GateOf[build][c])
  <2>1. m \in DraftMap /\ SoundMap(m)
    BY <1>1, SetCandidateSound
  <2>2. job[w].calls \in Nat /\ job[w].calls + 1 \in 0 .. MaxAttempts
    BY <1>11, AttemptAssumption DEF Propose, Job
  <2>3. CASE GateOf[build][c] = "rejected" /\ job[w].calls + 1 < MaxAttempts
    <3>1. job' = [job EXCEPT ![w].calls = @ + 1]
      BY <1>11, <2>3 DEF Propose
    <3>2. job' \in [Workers -> Job]
      BY <3>1, <2>2 DEF Job
    <3>3. \A v \in Workers : job'[v].mem = job[v].mem
      BY <3>1 DEF Job
    <3>4. AskingTranslates'
      BY <3>1 DEF Job, AskingTranslates
    <3>. QED
      BY <1>11, <3>2, <3>3, <3>4
         DEF Propose, world, file, SoundMap, AnnotationsEarned
  <2>4. CASE ~(GateOf[build][c] = "rejected" /\ job[w].calls + 1 < MaxAttempts)
    <3>1. job' = [job EXCEPT ![w].pc = "loaded", ![w].calls = @ + 1,
                             ![w].mem = m]
      BY <1>11, <2>4 DEF Propose
    <3>2. job' \in [Workers -> Job]
      BY <3>1, <2>1, <2>2 DEF Job, Pc
    <3>3. \A v \in Workers : job'[v].mem = IF v = w THEN m ELSE job[v].mem
      BY <3>1 DEF Job
    <3>4. AskingTranslates'
      BY <3>1 DEF Job, AskingTranslates
    <3>. QED
      BY <1>11, <2>1, <3>2, <3>3, <3>4
         DEF Propose, world, file, SoundMap, AnnotationsEarned
  <2>. QED  BY <2>3, <2>4
<1>12. CASE NoAnswer(w)
  BY <1>12, EndInv DEF NoAnswer
<1>. QED
  BY <1>2, <1>3, <1>4, <1>5, <1>6, <1>7, <1>8, <1>9, <1>10, <1>11, <1>12
     DEF Handle

\* Every step of the system.
LEMMA NextInv == Inv /\ [Next]_vars => Inv'
<1>. SUFFICES ASSUME Inv, [Next]_vars PROVE Inv'
  OBVIOUS
<1>. USE DEF Inv, TypeOK
<1>1. ASSUME NEW w \in Workers, NEW o \in Op, NEW i \in Items, Begin(w, o, i)
      PROVE  Inv'
  <2>1. Displayed(i) \in Candidates \cup {NoCandidate}
    BY DEF Displayed, HasCandidate, DraftMap, Draft
  <2>. DEFINE j == [job[w] EXCEPT !.pc = "resolved", !.op = o, !.item = i,
                                  !.rev = prose[i], !.seen = Displayed(i)]
  <2>2. job' \in [Workers -> Job]
    <3>1. j \in Job
      BY <2>1 DEF Job, Pc
    <3>2. job' = [job EXCEPT ![w] = j]
      BY <1>1 DEF Begin
    <3>. QED  BY <3>1, <3>2
  <2>3. \A v \in Workers : job'[v].mem = job[v].mem
    BY <1>1 DEF Begin, Job
  <2>4. started' \in 0 .. MaxRequests
    BY <1>1, AttemptAssumption DEF Begin
  <2>5. AskingTranslates'
    BY <1>1 DEF Begin, Job, AskingTranslates
  <2>. QED
    BY <1>1, <2>2, <2>3, <2>4, <2>5
       DEF Begin, world, file, SoundMap, AnnotationsEarned
<1>2. ASSUME NEW w \in Workers, Refuse(w) \/ Crash(w) PROVE Inv'
  BY <1>2, EndInv DEF Refuse, Crash
<1>3. ASSUME NEW w \in Workers, Truncate(w) PROVE Inv'
  <2>1. job' \in [Workers -> Job]
    BY <1>3 DEF Truncate, Job, Pc
  <2>2. \A v \in Workers : job'[v].mem = job[v].mem
    BY <1>3 DEF Truncate, Job
  <2>3. AskingTranslates'
    BY <1>3 DEF Truncate, Job, AskingTranslates
  <2>. QED
    BY <1>3, <2>1, <2>2, <2>3 DEF Truncate, world, SoundMap, AnnotationsEarned
<1>4. ASSUME NEW w \in Workers, Write(w) PROVE Inv'
  <2>1. job' \in [Workers -> Job] /\ \A v \in Workers : SoundMap(job'[v].mem)
    BY <1>4, NoJobSound DEF Write, End
  <2>2. drafts' \in DraftMap /\ SoundMap(drafts')
    BY <1>4 DEF Write, Job
  <2>3. AskingTranslates'
    BY <1>4 DEF Write, End, NoJob, AskingTranslates
  <2>. QED
    BY <1>4, <2>1, <2>2, <2>3 DEF Write, world, SoundMap, AnnotationsEarned
<1>5. ASSUME NEW i \in Items, EditProse(i) PROVE Inv'
  BY <1>5 DEF EditProse, file, SoundMap, AnnotationsEarned, AskingTranslates
<1>6. CASE Upgrade
  <2>1. job' \in [Workers -> Job] /\ \A v \in Workers : SoundMap(job'[v].mem)
    BY <1>6, NoJobSound DEF Upgrade
  <2>2. AskingTranslates'
    BY <1>6 DEF Upgrade, NoJob, AskingTranslates
  <2>. QED
    BY <1>6, <2>1, <2>2 DEF Upgrade, file, SoundMap, AnnotationsEarned
<1>7. CASE UNCHANGED vars
  BY <1>7
     DEF vars, world, file, SoundMap, AnnotationsEarned, AskingTranslates
<1>. QED
  BY <1>1, <1>2, <1>3, <1>4, <1>5, <1>6, <1>7, HandleInv DEF Next

(* In every state the file and what each request holds in memory are sound. *)
THEOREM Invariance == Spec => []Inv
  BY InitInv, NextInv, PTL DEF Spec

\* The types of the files, the requests and the subject, for any number of
\* items, requests and builds.
THEOREM TypeCorrect == Spec => []TypeOK
<1>1. Inv => TypeOK
  BY DEF Inv
<1>. QED  BY <1>1, Invariance, PTL

\* Admissions and bindings always belong to the text they were made for: in
\* the file and in the memory of every request, whatever overlaps or dies.
THEOREM DraftsStaySound == Spec => []DraftsSound
<1>1. Inv => DraftsSound
  BY DEF Inv, DraftsSound, SoundMap
<1>. QED  BY <1>1, Invariance, PTL

\* The subject's own files only ever receive an admitted formalization, under
\* the tier the gate gave it.
THEOREM AnnotationsStayEarned == Spec => []AnnotationsEarned
<1>1. Inv => AnnotationsEarned
  BY DEF Inv
<1>. QED  BY <1>1, Invariance, PTL

\* The step that grants an admission ran the gate of the running build.
LEMMA GrantGated ==
    ASSUME Inv, Next, NEW w \in Workers, NEW i \in Items, Granted(w, i)
    PROVE  /\ GateOf[build][job'[w].mem[i].candidate] # "rejected"
           /\ job'[w].mem[i].review = Tier(GateOf[build][job'[w].mem[i].candidate])
<1>. DEFINE Goal ==
       /\ GateOf[build][job'[w].mem[i].candidate] # "rejected"
       /\ job'[w].mem[i].review = Tier(GateOf[build][job'[w].mem[i].candidate])
<1>1. /\ job \in [Workers -> Job] /\ drafts \in DraftMap
      /\ job'[w].pc = "loaded" /\ job[w].pc # "loaded"
      /\ job'[w].op \in {"admit-web", "admit-console"}
      /\ job'[w].mem[i] # drafts[i]
  BY DEF Inv, TypeOK, Granted
<1>2. ASSUME NEW v \in Workers, NEW b \in Surface, NEW c, NEW yes \in BOOLEAN,
             CanAdmit(Found(v), build, yes),
             Hold(v, AdmitGated(drafts, job[v].item, build, b, c))
      PROVE  Goal
  <2>1. v = w
    BY <1>1, <1>2 DEF Hold
  <2>2. job'[w].mem = AdmitGated(drafts, job[w].item, build, b, c)
    BY <1>1, <1>2, <2>1 DEF Hold, Job
  <2>3. i = job[w].item
    BY <1>1, <2>2 DEF AdmitGated, DraftMap
  <2>4. drafts[i] \in Draft
    BY <1>2, <2>1, <2>3 DEF CanAdmit, HasCandidate, Found, Inv, TypeOK, DraftMap
  <2>5. /\ job'[w].mem[i].candidate = drafts[i].candidate
        /\ job'[w].mem[i].review = Tier(GateOf[build][drafts[i].candidate])
    BY <2>2, <2>3, <2>4 DEF AdmitGated, DraftMap, Draft, Inv, TypeOK
  <2>. QED  BY <1>2, <2>1, <2>3, <2>5 DEF CanAdmit, Found
<1>3. ASSUME NEW v \in Workers, AdmitDraft(v) PROVE Goal
  <2>1. "web" \in Surface
    BY DEF Surface
  <2>. QED  BY <1>2, <1>3, <2>1 DEF AdmitDraft
<1>4. ASSUME NEW v \in Workers, AdmitCandidate(v) PROVE Goal
  <2>1. "console" \in Surface
    BY DEF Surface
  <2>. QED  BY <1>2, <1>4, <2>1 DEF AdmitCandidate
<1>5. ASSUME NEW v \in Workers, NEW o \in Op \ {"admit-web", "admit-console"},
             NEW st, Loads(v, o), Hold(v, st)
      PROVE  FALSE
  BY <1>1, <1>5 DEF Hold, Loads, Job
<1>6. ASSUME NEW v \in Workers,
             \/ OpenDraft(v) \/ SetDraftCandidate(v) \/ CheckDraft(v)
             \/ GroundDraft(v) \/ DiscardDraft(v)
      PROVE  FALSE
  BY <1>5, <1>6 DEF OpenDraft, SetDraftCandidate, CheckDraft, GroundDraft,
                    DiscardDraft, Op
<1>7. ASSUME NEW v \in Workers,
             \/ Writeback(v) \/ NoAnswer(v) \/ Refuse(v) \/ Write(v) \/ Crash(v)
      PROVE  FALSE
  BY <1>1, <1>7 DEF Writeback, NoAnswer, Refuse, Write, Crash, End, NoJob
<1>8. ASSUME NEW v \in Workers,
             Ask(v) \/ Truncate(v) \/ \E o \in Op, k \in Items : Begin(v, o, k)
      PROVE  FALSE
  <2>1. CASE Ask(v)
    BY <1>1, <2>1 DEF Ask, Job
  <2>2. CASE Truncate(v)
    BY <1>1, <2>2 DEF Truncate, Job
  <2>3. ASSUME NEW o \in Op, NEW k \in Items, Begin(v, o, k) PROVE FALSE
    <3>. DEFINE j == [job[v] EXCEPT !.pc = "resolved", !.op = o, !.item = k,
                                    !.rev = prose[k], !.seen = Displayed(k)]
    <3>1. job' = [job EXCEPT ![v] = j]
      BY <2>3 DEF Begin
    <3>2. j.pc = "resolved"
      BY <1>1 DEF Job
    <3>. HIDE DEF j
    <3>. QED  BY <1>1, <3>1, <3>2
  <2>. QED  BY <1>8, <2>1, <2>2, <2>3
<1>9. ASSUME NEW v \in Workers, NEW c \in Candidates, Propose(v, c)
      PROVE  FALSE
  <2>1. job'[v].op = job[v].op /\ job[v].op = "translate"
    BY <1>1, <1>9 DEF Propose, Job, Inv, AskingTranslates
  <2>2. v # w => job'[w] = job[w]
    BY <1>1, <1>9 DEF Propose
  <2>. QED  BY <1>1, <2>1, <2>2
<1>10. ASSUME NEW k \in Items, EditProse(k) PROVE FALSE
  BY <1>1, <1>10 DEF EditProse
<1>11. CASE Upgrade
  BY <1>1, <1>11 DEF Upgrade, NoJob
<1>. QED
  BY <1>3, <1>4, <1>6, <1>7, <1>8, <1>9, <1>10, <1>11 DEF Next, Handle

\* Admissions are granted to what the running gate accepts, never on the
\* strength of the outcome a draft carries from another build.
THEOREM AdmissionsAreGated == Spec => NoAdmissionPastTheGate
<1>1. ASSUME Inv, [Next]_vars
      PROVE  \A w \in Workers, i \in Items :
               Granted(w, i) =>
                 /\ GateOf[build][job'[w].mem[i].candidate] # "rejected"
                 /\ job'[w].mem[i].review =
                      Tier(GateOf[build][job'[w].mem[i].candidate])
  <2>1. CASE Next
    BY <1>1, <2>1, GrantGated
  <2>2. CASE UNCHANGED vars
    BY <2>2 DEF vars, Granted
  <2>. QED  BY <1>1, <2>1, <2>2
<1>. QED  BY <1>1, Invariance, PTL DEF Spec, NoAdmissionPastTheGate

-----------------------------------------------------------------------------
\* What a request does to the map it loaded.

\* new is st after one request on item i: the operators of DraftState, each
\* under its preconditions.  The console shows what it admits.
Applied(st, i, new) ==
    \/ \E r \in Revisions : new = Open(st, i, r)
    \/ \E r \in Revisions, c \in Candidates, b \in Builds :
        new = SetCandidate(st, i, r, c, GateOf[b][c])
    \/ \E b \in Builds :
        /\ HasCandidate(st[i])
        /\ new = SetGate(st, i, GateOf[b][st[i].candidate])
    \/ \E s \in Symbols, b \in Builds :
        CanGround(st[i], b, s) /\ new = SetBinding(st, i, s)
    \/ \E b \in Builds, who \in {"web", "console"},
          seen \in Candidates \cup {NoCandidate} :
        /\ CanAdmit(st[i], b, TRUE)
        /\ who = "console" => seen = st[i].candidate
        /\ new = AdmitGated(st, i, b, who, seen)
    \/ new = Discard(st, i)

\* A step of a handler: it computes the map it is about to save from the one
\* in the file, or from the one it kept while it waited for the model, or it
\* goes on waiting, or it is over.  The file stays as it is.
LEMMA HandleApplies ==
    ASSUME Inv, NEW w \in Workers, Handle(w)
    PROVE  /\ UNCHANGED file
           /\ \A v \in Workers \ {w} : job'[v] = job[v]
           /\ \/ job'[w] = NoJob
              \/ /\ job'[w].item = job[w].item
                 /\ job[w].pc = "resolved" /\ readable
                 /\ \/ /\ job'[w].pc = "loaded"
                       /\ Applied(drafts, job[w].item, job'[w].mem)
                    \/ job'[w].pc = "asking" /\ job'[w].mem = drafts
              \/ /\ job'[w].item = job[w].item
                 /\ job[w].pc = "asking"
                 /\ \/ /\ job'[w].pc = "loaded"
                       /\ Applied(job[w].mem, job[w].item, job'[w].mem)
                    \/ job'[w].pc = "asking" /\ job'[w].mem = job[w].mem
<1>. DEFINE Goal ==
       /\ UNCHANGED file
       /\ \A v \in Workers \ {w} : job'[v] = job[v]
       /\ \/ job'[w] = NoJob
          \/ /\ job'[w].item = job[w].item
             /\ job[w].pc = "resolved" /\ readable
             /\ \/ /\ job'[w].pc = "loaded"
                   /\ Applied(drafts, job[w].item, job'[w].mem)
                \/ job'[w].pc = "asking" /\ job'[w].mem = drafts
          \/ /\ job'[w].item = job[w].item
             /\ job[w].pc = "asking"
             /\ \/ /\ job'[w].pc = "loaded"
                   /\ Applied(job[w].mem, job[w].item, job'[w].mem)
                \/ job'[w].pc = "asking" /\ job'[w].mem = job[w].mem
<1>1. /\ job \in [Workers -> Job] /\ build \in Builds /\ drafts \in DraftMap
      /\ job[w].item \in Items /\ job[w].rev \in Revisions
      /\ job[w].seen \in Candidates \cup {NoCandidate}
  BY DEF Inv, TypeOK, Job
<1>2. ASSUME NEW st, NEW o, Loads(w, o), Hold(w, st),
             Applied(drafts, job[w].item, st)
      PROVE  Goal
  <2>1. /\ job'[w].pc = "loaded" /\ job'[w].item = job[w].item
        /\ job'[w].mem = st /\ \A v \in Workers \ {w} : job'[v] = job[v]
    BY <1>1, <1>2 DEF Hold, Job
  <2>. QED BY <1>2, <2>1 DEF Hold, Loads
<1>3. ASSUME End(w), UNCHANGED file PROVE Goal
  BY <1>1, <1>3 DEF End
<1>4. CASE OpenDraft(w)
  <2>1. Applied(drafts, job[w].item, Open(drafts, job[w].item, job[w].rev))
    BY <1>1 DEF Applied
  <2>. QED BY <1>2, <1>4, <2>1 DEF OpenDraft
<1>5. CASE SetDraftCandidate(w)
  <2>1. PICK c \in Candidates :
          Hold(w, SetCandidate(drafts, job[w].item, job[w].rev, c, GateOf[build][c]))
    BY <1>5 DEF SetDraftCandidate
  <2>2. Applied(drafts, job[w].item,
                SetCandidate(drafts, job[w].item, job[w].rev, c, GateOf[build][c]))
    BY <1>1 DEF Applied
  <2>. QED BY <1>2, <1>5, <2>1, <2>2 DEF SetDraftCandidate
<1>6. CASE CheckDraft(w)
  <2>1. Applied(drafts, job[w].item,
                SetGate(drafts, job[w].item, GateOf[build][Found(w).candidate]))
    BY <1>1, <1>6 DEF CheckDraft, Found, Applied
  <2>. QED BY <1>2, <1>6, <2>1 DEF CheckDraft
<1>7. CASE GroundDraft(w)
  <2>1. PICK s \in Symbols :
          CanGround(Found(w), build, s) /\ Hold(w, SetBinding(drafts, job[w].item, s))
    BY <1>7 DEF GroundDraft
  <2>2. Applied(drafts, job[w].item, SetBinding(drafts, job[w].item, s))
    BY <1>1, <2>1 DEF Found, Applied
  <2>. QED BY <1>2, <1>7, <2>1, <2>2 DEF GroundDraft
<1>8. ASSUME NEW who \in {"web", "console"},
             NEW seen \in Candidates \cup {NoCandidate},
             NEW yes \in BOOLEAN, CanAdmit(Found(w), build, yes),
             who = "console" => seen = Found(w).candidate,
             NEW o, Loads(w, o),
             Hold(w, AdmitGated(drafts, job[w].item, build, who, seen))
      PROVE  Goal
  <2>1. CanAdmit(drafts[job[w].item], build, TRUE)
    BY <1>8 DEF CanAdmit, Found
  <2>2. Applied(drafts, job[w].item, AdmitGated(drafts, job[w].item, build, who, seen))
    BY <1>1, <1>8, <2>1 DEF Applied, Found
  <2>. QED BY <1>2, <1>8, <2>2
<1>9. CASE AdmitDraft(w)
  BY <1>1, <1>8, <1>9 DEF AdmitDraft
<1>10. CASE AdmitCandidate(w)
  <2>1. Found(w).candidate \in Candidates \cup {NoCandidate}
    BY <1>1, <1>10
       DEF AdmitCandidate, CanAdmit, HasCandidate, Found, DraftMap, Draft
  <2>. QED BY <1>8, <1>10, <2>1 DEF AdmitCandidate
<1>11. CASE DiscardDraft(w)
  <2>1. Applied(drafts, job[w].item, Discard(drafts, job[w].item))
    BY DEF Applied
  <2>. QED BY <1>2, <1>11, <2>1 DEF DiscardDraft
<1>12. CASE Writeback(w) \/ NoAnswer(w)
  BY <1>3, <1>12 DEF Writeback, NoAnswer, file
<1>13. CASE Ask(w)
  <2>1. /\ job'[w].pc = "asking" /\ job'[w].mem = drafts
        /\ job'[w].item = job[w].item
        /\ \A v \in Workers \ {w} : job'[v] = job[v]
    BY <1>1, <1>13 DEF Ask, Job
  <2>. QED BY <1>13, <2>1 DEF Ask, Loads
<1>14. ASSUME NEW c \in Candidates, Propose(w, c) PROVE Goal
  <2>. DEFINE m == SetCandidate(job[w].mem, job[w].item, job[w].rev, c,
                                GateOf[build][c])
  <2>1. Applied(job[w].mem, job[w].item, m)
    BY <1>1 DEF Applied
  <2>2. CASE GateOf[build][c] = "rejected" /\ job[w].calls + 1 < MaxAttempts
    BY <1>1, <1>14, <2>2 DEF Propose, Job
  <2>3. CASE ~(GateOf[build][c] = "rejected" /\ job[w].calls + 1 < MaxAttempts)
    <3>1. job' = [job EXCEPT ![w].pc = "loaded", ![w].calls = @ + 1, ![w].mem = m]
      BY <1>14, <2>3 DEF Propose
    <3>. HIDE DEF m
    <3>2. /\ job'[w].pc = "loaded" /\ job'[w].mem = m
          /\ job'[w].item = job[w].item
          /\ \A v \in Workers \ {w} : job'[v] = job[v]
      BY <1>1, <3>1 DEF Job
    <3>. QED BY <1>14, <2>1, <3>2 DEF Propose
  <2>. QED BY <2>2, <2>3
<1>. QED
  BY <1>4, <1>5, <1>6, <1>7, <1>9, <1>10, <1>11, <1>12, <1>13, <1>14 DEF Handle

-----------------------------------------------------------------------------
\* The read-back at the console.

ReadBack(d) ==
    d # NoDraft => (d.review = "mandatory" /\ d.by = "console" => d.shown)

ReadMap(st) == \A i \in Items : ReadBack(st[i])

\* No request leaves an admission the console gave without its read-back.
LEMMA AppliedReadBack ==
    ASSUME NEW st \in DraftMap, NEW i \in Items, NEW new, Applied(st, i, new),
           ReadMap(st)
    PROVE  ReadMap(new)
<1>1. ASSUME NEW d, ReadBack(d), new = [st EXCEPT ![i] = d] PROVE ReadMap(new)
  BY <1>1 DEF ReadMap, DraftMap
<1>2. ASSUME NEW r, NEW c, NEW g PROVE ReadBack(Unadmitted(r, c, g))
  BY DEF ReadBack, Unadmitted
<1>3. ReadBack(st[i]) /\ (st[i] # NoDraft => st[i] \in Draft)
  BY DEF ReadMap, DraftMap
<1>4. ASSUME NEW r \in Revisions, new = Open(st, i, r) PROVE ReadMap(new)
  BY <1>1, <1>2, <1>4 DEF Open
<1>5. ASSUME NEW r \in Revisions, NEW c \in Candidates, NEW b \in Builds,
             new = SetCandidate(st, i, r, c, GateOf[b][c])
      PROVE  ReadMap(new)
  BY <1>1, <1>2, <1>5 DEF SetCandidate
<1>6. ASSUME NEW g, st[i] # NoDraft, new = SetGate(st, i, g) PROVE ReadMap(new)
  <2>. DEFINE d == [st[i] EXCEPT !.gate = g]
  <2>1. ReadBack(d)
    BY <1>3, <1>6 DEF ReadBack, Draft
  <2>2. new = [st EXCEPT ![i] = d]
    BY <1>6 DEF SetGate
  <2>. HIDE DEF d
  <2>. QED BY <1>1, <2>1, <2>2
<1>7. ASSUME NEW s \in Symbols, st[i] # NoDraft, new = SetBinding(st, i, s)
      PROVE  ReadMap(new)
  <2>. DEFINE d == [st[i] EXCEPT !.bindings = @ \cup {s}]
  <2>1. ReadBack(d)
    BY <1>3, <1>7 DEF ReadBack, Draft
  <2>2. new = [st EXCEPT ![i] = d]
    BY <1>7 DEF SetBinding
  <2>. HIDE DEF d
  <2>. QED BY <1>1, <2>1, <2>2
<1>8. ASSUME NEW b \in Builds, NEW who \in {"web", "console"}, NEW seen,
             st[i] # NoDraft, who = "console" => seen = st[i].candidate,
             new = AdmitGated(st, i, b, who, seen)
      PROVE  ReadMap(new)
  <2>. DEFINE d == [st[i] EXCEPT !.review = Tier(GateOf[b][st[i].candidate]),
                                 !.by = who, !.shown = (seen = st[i].candidate)]
  <2>1. ReadBack(d)
    BY <1>3, <1>8 DEF ReadBack, Draft
  <2>2. new = [st EXCEPT ![i] = d]
    BY <1>3, <1>8 DEF AdmitGated, DraftMap
  <2>. HIDE DEF d
  <2>. QED BY <1>1, <2>1, <2>2
<1>9. new = Discard(st, i) => ReadMap(new)
  BY <1>1 DEF Discard, ReadBack
<1>. QED BY <1>4, <1>5, <1>6, <1>7, <1>8, <1>9
        DEF Applied, HasCandidate, CanGround, CanAdmit

ReadInv ==
    /\ Inv
    /\ ReadMap(drafts)
    /\ \A w \in Workers : ReadMap(job[w].mem)

LEMMA NoJobRead == ReadMap(NoJob.mem)
  BY DEF NoJob, NoDrafts, ReadMap, ReadBack

LEMMA NextRead ==
    ASSUME ReadInv, [Next]_vars
    PROVE  ReadInv'
<1>0. /\ Inv /\ Inv' /\ job \in [Workers -> Job] /\ drafts \in DraftMap
      /\ ReadMap(drafts) /\ \A w \in Workers : ReadMap(job[w].mem)
  BY NextInv DEF ReadInv, Inv, TypeOK
<1>1. ASSUME NEW w \in Workers, ReadMap(job'[w].mem), UNCHANGED file,
             \A v \in Workers \ {w} : job'[v] = job[v]
      PROVE  ReadInv'
  BY <1>0, <1>1 DEF ReadInv, file, ReadMap
<1>2. ASSUME NEW w \in Workers, Handle(w) PROVE ReadInv'
  <2>1. job[w].item \in Items /\ job[w].mem \in DraftMap
    BY <1>0 DEF Job
  <2>2. ReadMap(job'[w].mem)
    BY <1>0, <1>2, <2>1, HandleApplies, AppliedReadBack, NoJobRead
  <2>. QED BY <1>0, <1>1, <1>2, <2>2, HandleApplies
<1>3. ASSUME NEW w \in Workers, Refuse(w) \/ Crash(w) PROVE ReadInv'
  BY <1>0, <1>1, <1>3, NoJobRead DEF Refuse, Crash, End
<1>4. ASSUME NEW w \in Workers, NEW o \in Op, NEW i \in Items, Begin(w, o, i)
      PROVE  ReadInv'
  <2>. DEFINE j == [job[w] EXCEPT !.pc = "resolved", !.op = o, !.item = i,
                                  !.rev = prose[i], !.seen = Displayed(i)]
  <2>1. job' = [job EXCEPT ![w] = j] /\ UNCHANGED file
    BY <1>4 DEF Begin
  <2>2. j.mem = job[w].mem
    BY <1>0 DEF Job
  <2>. HIDE DEF j
  <2>. QED BY <1>0, <1>1, <2>1, <2>2
<1>5. ASSUME NEW w \in Workers, Truncate(w) PROVE ReadInv'
  <2>1. \A v \in Workers : job'[v].mem = job[v].mem
    BY <1>0, <1>5 DEF Truncate, Job
  <2>. QED BY <1>0, <1>5, <2>1 DEF Truncate, ReadInv, ReadMap
<1>6. ASSUME NEW w \in Workers, Write(w) PROVE ReadInv'
  <2>1. \A v \in Workers : ReadMap(job'[v].mem)
    BY <1>0, <1>6, NoJobRead DEF Write, End
  <2>. QED BY <1>0, <1>6, <2>1 DEF Write, ReadInv, ReadMap
<1>7. CASE Upgrade
  <2>1. \A v \in Workers : ReadMap(job'[v].mem)
    BY <1>7, NoJobRead DEF Upgrade
  <2>. QED BY <1>0, <1>7, <2>1 DEF Upgrade, file, ReadInv, ReadMap
<1>8. ASSUME UNCHANGED <<job, file>> PROVE ReadInv'
  BY <1>0, <1>8 DEF file, ReadInv, ReadMap
<1>9. (\E i \in Items : EditProse(i)) \/ UNCHANGED vars => UNCHANGED <<job, file>>
  BY DEF EditProse, vars
<1>. QED
  BY <1>2, <1>3, <1>4, <1>5, <1>6, <1>7, <1>8, <1>9 DEF Next

\* A mandatory review at the console was of the text it admits: see
\* ConsoleReadBack (admit_candidate in src/main.rs).
THEOREM ConsoleReadsBack == Spec => []ConsoleReadBack
<1>1. ASSUME Init PROVE ReadInv
  BY <1>1, InitInv DEF Init, ReadInv, ReadMap, ReadBack, NoJob, NoDrafts
<1>2. ReadInv /\ [Next]_vars => ReadInv'
  BY NextRead
<1>3. ReadInv => ConsoleReadBack
  BY DEF ReadInv, ReadMap, ReadBack, ConsoleReadBack
<1>. QED BY <1>1, <1>2, <1>3, PTL DEF Spec

-----------------------------------------------------------------------------
\* The ledger, when requests come one at a time.

OneRequestAtATime == \A v, w \in Workers : v = w

\* What the one request holds is what its operator makes of the file as it
\* still is, and only the request that truncated the file finds it so.
SerialJob(w) ==
    /\ job[w].pc = "asking" => readable /\ job[w].mem = drafts
    /\ job[w].pc = "loaded" => readable
    /\ job[w].pc = "writing" => ~readable
    /\ job[w].pc \in {"loaded", "writing"} =>
           Applied(drafts, job[w].item, job[w].mem)

Serial == Inv /\ \A w \in Workers : SerialJob(w)

\* The ledger's requests are made of the operators the handlers use.
LEMMA SameOperators ==
    ASSUME NEW st, NEW i, NEW r, NEW c, NEW g, NEW b, NEW s, NEW who, NEW d
    PROVE  /\ Ledger!Open(st, i, r) = Open(st, i, r)
           /\ Ledger!SetCandidate(st, i, r, c, g) = SetCandidate(st, i, r, c, g)
           /\ Ledger!SetGate(st, i, g) = SetGate(st, i, g)
           /\ Ledger!SetBinding(st, i, s) = SetBinding(st, i, s)
           /\ Ledger!AdmitGated(st, i, b, who, c) = AdmitGated(st, i, b, who, c)
           /\ Ledger!Discard(st, i) = Discard(st, i)
           /\ Ledger!HasCandidate(d) <=> HasCandidate(d)
           /\ Ledger!CanGround(d, b, s) <=> CanGround(d, b, s)
           /\ Ledger!CanAdmit(d, b, TRUE) <=> CanAdmit(d, b, TRUE)
<1>1. Ledger!Unadmitted(r, c, g) = Unadmitted(r, c, g)
      /\ Ledger!Unadmitted(r, NoCandidate, "ungated") = Unadmitted(r, NoCandidate, "ungated")
  BY DEF Ledger!Unadmitted, Unadmitted
<1>2. Ledger!Tier(GateOf[b][st[i].candidate]) = Tier(GateOf[b][st[i].candidate])
  BY DEF Ledger!Tier, Tier
<1>3. Ledger!HasCandidate(d) <=> HasCandidate(d)
  BY DEF Ledger!HasCandidate, HasCandidate
<1>. QED
  BY <1>1, <1>2, <1>3
  DEF Ledger!Open, Open, Ledger!SetCandidate, SetCandidate, Ledger!SetGate,
      SetGate, Ledger!SetBinding, SetBinding, Ledger!AdmitGated, AdmitGated,
      Ledger!Discard, Discard, Ledger!CanGround, CanGround, Ledger!CanAdmit,
      CanAdmit

\* One request applied to the file is one request of the ledger.
LEMMA AppliedIsRequest ==
    ASSUME NEW i \in Items, Applied(drafts, i, drafts')
    PROVE  Ledger!Request(i)
<1>1. (\E r \in Revisions : drafts' = Open(drafts, i, r)) => Ledger!Start(i)
  BY SameOperators DEF Ledger!Start
<1>2. (\E r \in Revisions, c \in Candidates, b \in Builds :
          drafts' = SetCandidate(drafts, i, r, c, GateOf[b][c])) => Ledger!Author(i)
  BY SameOperators DEF Ledger!Author
<1>3. (\E b \in Builds :
          /\ HasCandidate(drafts[i])
          /\ drafts' = SetGate(drafts, i, GateOf[b][drafts[i].candidate]))
      => Ledger!Recheck(i)
  BY SameOperators DEF Ledger!Recheck
<1>4. (\E s \in Symbols, b \in Builds :
          CanGround(drafts[i], b, s) /\ drafts' = SetBinding(drafts, i, s))
      => Ledger!Bind(i)
  BY SameOperators DEF Ledger!Bind
<1>5. (\E b \in Builds, who \in {"web", "console"},
          seen \in Candidates \cup {NoCandidate} :
          CanAdmit(drafts[i], b, TRUE) /\ drafts' = AdmitGated(drafts, i, b, who, seen))
      => Ledger!Admit(i)
  BY SameOperators DEF Ledger!Admit
<1>6. drafts' = Discard(drafts, i) => Ledger!Drop(i)
  BY SameOperators DEF Ledger!Drop
<1>. QED BY <1>1, <1>2, <1>3, <1>4, <1>5, <1>6 DEF Applied, Ledger!Request

LEMMA InitSerial == Init => Serial /\ Ledger!Init
<1>. SUFFICES ASSUME Init PROVE Serial /\ Ledger!Init
  OBVIOUS
<1>1. \A w \in Workers : job[w].pc = "idle"
  BY DEF Init, NoJob
<1>. QED BY <1>1, InitInv DEF Init, Serial, SerialJob, Ledger!Init, NoDrafts, Intact

\* Each step keeps the one request serial, and is one of the ledger or none.
LEMMA NextSerial ==
    ASSUME OneRequestAtATime, Serial, [Next]_vars
    PROVE  Serial' /\ [Ledger!Next]_Ledger!vars
<1>0. /\ Inv /\ Inv' /\ job \in [Workers -> Job] /\ \A w \in Workers : SerialJob(w)
      /\ readable \in BOOLEAN
  BY NextInv DEF Serial, Inv, TypeOK
<1>1. ASSUME NEW w \in Workers, SerialJob(w)', UNCHANGED file,
             job[w].pc = "writing" <=> job'[w].pc = "writing"
      PROVE  Serial' /\ [Ledger!Next]_Ledger!vars
  <2>1. Serial'
    BY <1>0, <1>1 DEF OneRequestAtATime, Serial
  <2>2. Intact' <=> Intact
    BY <1>1 DEF OneRequestAtATime, Intact, file
  <2>3. Intact' = Intact
    BY <2>2 DEF Intact
  <2>. QED BY <1>1, <2>1, <2>3 DEF Ledger!vars, file
<1>2. ASSUME NEW w \in Workers, Handle(w)
      PROVE  Serial' /\ [Ledger!Next]_Ledger!vars
  <2>1. job[w].pc \in {"resolved", "asking"}
    BY <1>2 DEF Handle, Loads, OpenDraft, SetDraftCandidate, CheckDraft,
       GroundDraft, AdmitDraft, AdmitCandidate, DiscardDraft, Writeback, Ask,
       Propose, NoAnswer
  <2>2. UNCHANGED file /\ job'[w].pc # "writing"
    BY <1>0, <1>2, HandleApplies DEF NoJob
  <2>3. SerialJob(w)'
    <3>1. /\ job'[w].pc = "asking" => readable /\ job'[w].mem = drafts
          /\ job'[w].pc = "loaded" =>
                 readable /\ Applied(drafts, job'[w].item, job'[w].mem)
      BY <1>0, <1>2, HandleApplies DEF SerialJob, NoJob
    <3>. QED BY <2>2, <3>1 DEF SerialJob, file, Applied
  <2>. QED BY <1>1, <2>1, <2>2, <2>3
<1>3. ASSUME NEW w \in Workers, Refuse(w) PROVE Serial' /\ [Ledger!Next]_Ledger!vars
  <2>1. job[w].pc = "resolved" /\ job'[w].pc = "idle" /\ UNCHANGED file
    BY <1>0, <1>3 DEF Refuse, End, NoJob
  <2>. QED BY <1>1, <2>1 DEF SerialJob
<1>4. ASSUME NEW w \in Workers, NEW o \in Op, NEW i \in Items, Begin(w, o, i)
      PROVE  Serial' /\ [Ledger!Next]_Ledger!vars
  <2>1. job[w].pc = "idle" /\ UNCHANGED file
    BY <1>4 DEF Begin
  <2>2. job'[w].pc = "resolved"
    <3>. DEFINE j == [job[w] EXCEPT !.pc = "resolved", !.op = o, !.item = i,
                                    !.rev = prose[i], !.seen = Displayed(i)]
    <3>1. job' = [job EXCEPT ![w] = j]
      BY <1>4 DEF Begin
    <3>2. j.pc = "resolved"
      BY <1>0 DEF Job
    <3>. HIDE DEF j
    <3>. QED BY <1>0, <3>1, <3>2
  <2>. QED BY <1>1, <2>1, <2>2 DEF SerialJob
<1>5. ASSUME NEW w \in Workers, Truncate(w)
      PROVE  Serial' /\ [Ledger!Next]_Ledger!vars
  <2>1. /\ job[w].pc = "loaded" /\ ~readable' /\ drafts' = drafts
        /\ job'[w].pc = "writing" /\ job'[w].item = job[w].item
        /\ job'[w].mem = job[w].mem
    BY <1>0, <1>5 DEF Truncate, Job
  <2>2. SerialJob(w)'
    BY <1>0, <2>1 DEF SerialJob, Applied
  <2>3. Serial'
    BY <1>0, <2>2 DEF OneRequestAtATime, Serial
  <2>4. Intact /\ Intact'
    BY <1>0, <2>1 DEF SerialJob, Intact
  <2>5. Intact' = Intact
    BY <2>4 DEF Intact
  <2>. QED BY <2>1, <2>3, <2>5 DEF Ledger!vars
<1>6. ASSUME NEW w \in Workers, Write(w)
      PROVE  Serial' /\ [Ledger!Next]_Ledger!vars
  <2>1. /\ job[w].pc = "writing" /\ readable' /\ drafts' = job[w].mem
        /\ job'[w].pc = "idle" /\ job[w].item \in Items
    BY <1>0, <1>6 DEF Write, End, NoJob, SerialJob, Job
  <2>2. Serial'
    BY <1>0, <2>1 DEF OneRequestAtATime, Serial, SerialJob
  <2>3. Intact /\ Intact'
    BY <2>1 DEF Intact
  <2>4. Intact' = Intact
    BY <2>3 DEF Intact
  <2>5. Applied(drafts, job[w].item, drafts')
    BY <1>0, <2>1 DEF SerialJob
  <2>6. Ledger!Request(job[w].item)
    BY <1>0, <2>1, <2>5, AppliedIsRequest
  <2>. QED BY <2>1, <2>2, <2>3, <2>4, <2>6 DEF Ledger!Next, Ledger!Serve
<1>7. ASSUME drafts' = drafts, readable' = readable,
             \A w \in Workers : job'[w].pc = "idle"
      PROVE  Serial' /\ [Ledger!Next]_Ledger!vars
  <2>1. Serial'
    BY <1>0, <1>7 DEF Serial, SerialJob
  <2>2. CASE readable
    <3>1. Intact' = Intact
      BY <1>7, <2>2 DEF Intact
    <3>. QED BY <1>7, <2>1, <3>1 DEF Ledger!vars
  <2>3. CASE ~readable
    <3>1. Intact' = FALSE
      BY <1>7, <2>3 DEF Intact
    <3>. QED BY <1>7, <2>1, <3>1 DEF Ledger!Next, Ledger!Damage
  <2>. QED BY <1>0, <2>2, <2>3
<1>8. ASSUME NEW w \in Workers, Crash(w) PROVE Serial' /\ [Ledger!Next]_Ledger!vars
  BY <1>0, <1>7, <1>8 DEF Crash, End, NoJob, file, OneRequestAtATime
<1>9. CASE Upgrade
  BY <1>7, <1>9 DEF Upgrade, NoJob, file
<1>10. ASSUME UNCHANGED <<job, file>> PROVE Serial' /\ [Ledger!Next]_Ledger!vars
  BY <1>0, <1>10 DEF file, Serial, SerialJob, Applied, Intact, Ledger!vars
<1>11. (\E i \in Items : EditProse(i)) \/ UNCHANGED vars => UNCHANGED <<job, file>>
  BY DEF EditProse, vars
<1>. QED
  BY <1>2, <1>3, <1>4, <1>5, <1>6, <1>8, <1>9, <1>10, <1>11 DEF Next

\* Requests that come one at a time are the atomic requests of the ledger,
\* whatever crashes, edits and upgrades surround them: see IsLedger
\* (load and save in src/draft.rs).
THEOREM SerialRequestsAreTheLedger ==
    ASSUME OneRequestAtATime
    PROVE  Spec => IsLedger
<1>1. Serial /\ [Next]_vars => Serial' /\ [Ledger!Next]_Ledger!vars
  BY NextSerial
<1>. QED BY InitSerial, <1>1, PTL DEF Spec, IsLedger, Ledger!Spec

-----------------------------------------------------------------------------
(***************************************************************************)
(* The screens: what is typed into the artifact editor, the review pane    *)
(* and the draft dialog.  Their types first: a record set says that the    *)
(* fields are there, which every EXCEPT of the handlers relies on.         *)
(***************************************************************************)

Texts == Text \cup {SomeText}
Formulas == Formula \cup {NoFormula}

Artifact == [title : Texts, body : Texts, at : Nat]
Editor ==
    [open : {TRUE}, title : Texts, body : Texts, latch : Nat, loaded : Texts,
     dismissed : BOOLEAN, merging : BOOLEAN, merged : Texts, since : Nat,
     offered : SUBSET Nat]
Put ==
    [pc : {"sent", "done", "refused"}, title : Texts, body : Texts, by : Editor,
     over : Nat, edits : BOOLEAN]

Pane ==
    [dialog : {"none"} \cup Dialogs, text : Text \cup {""}, typed : Text \cup {""},
     blocked : BOOLEAN]

Detail == [prl : Formulas, admitted : BOOLEAN, stale : BOOLEAN, notes : {0, 1}]
Form ==
    [open : BOOLEAN, text : Formulas, typed : Formulas, reviewer : BOOLEAN, confirmed : BOOLEAN,
     tickedFor : Formulas, result : Formulas]
Requested ==
    [op : DialogOps, pc : {"sent", "done", "refused"}, answer : Detail,
     prl : Formulas, confirmed : BOOLEAN]

EditorTyped ==
    /\ disk \in Artifact /\ onPage \in Artifact
    /\ editor \in {Closed} \cup Editor
    /\ save \in {NoSave} \cup Put
PaneTyped ==
    /\ pane \in Pane
    /\ review \in {"none", "sent", "done", "refused"}
DialogTyped ==
    /\ draft \in Detail /\ detail \in Detail
    /\ form \in Form
    /\ asked \in SUBSET Requested
    /\ requests \in Nat

\* The state of every screen keeps its shape.
ScreensTypeOK == EditorTyped /\ PaneTyped /\ DialogTyped

-----------------------------------------------------------------------------
(***************************************************************************)
(* The editor.  The operator of an open editor was asked if its latch has  *)
(* moved since it was opened, and if the prompt is dismissed; a PUT        *)
(* carries what was so when it was sent.                                   *)
(***************************************************************************)

WasAsked(e) == (e.latch # e.since \/ e.dismissed) => e.offered # {}
EditorInv ==
    /\ EditorTyped
    /\ editor.open => WasAsked(editor)
    /\ SavesAreInformed

LEMMA EditorStarts == ScreensInit => EditorInv
<1> SUFFICES ASSUME ScreensInit PROVE EditorInv
    OBVIOUS
<1>1. EditorTyped
    BY DEF ScreensInit, EditorTyped, Artifact, Texts
<1>2. ~editor.open /\ save.pc = "none"
    BY DEF ScreensInit, Closed, NoSave
<1> QED
    BY <1>1, <1>2 DEF EditorInv, SavesAreInformed, Overwrites

\* The handlers that leave the PUT alone.
LEMMA EditorOfHandlers ==
    ASSUME EditorInv,
           OpenEditor \/ Type \/ OpenMerge \/ CloseEditor
             \/ (\E choice \in {"keep", "discard", "merged"} : Resolve(choice))
    PROVE  EditorInv'
<1>0. /\ EditorTyped
      /\ save' = save /\ disk' = disk /\ onPage' = onPage
      /\ ~Closed.open
    BY DEF EditorInv, OpenEditor, Type, OpenMerge, CloseEditor, Resolve, Closed
<1>1. SavesAreInformed'
    BY <1>0 DEF EditorInv, SavesAreInformed, Overwrites
<1>2. CASE OpenEditor
    <2>1. editor' = Opened(onPage)
        BY <1>2 DEF OpenEditor
    <2>2. editor' \in Editor /\ WasAsked(editor)'
        BY <1>0, <2>1 DEF Opened, Editor, EditorTyped, Artifact, WasAsked
    <2> QED
        BY <1>0, <1>1, <2>2 DEF EditorInv, EditorTyped
<1>3. CASE CloseEditor
    BY <1>0, <1>1, <1>3 DEF CloseEditor, EditorInv, EditorTyped
<1>4. ASSUME editor.open PROVE editor \in Editor
    BY <1>0, <1>4 DEF EditorTyped
<1>5. CASE Type
    <2>1. PICK t \in Text : editor' \in {[editor EXCEPT !.body = t], [editor EXCEPT !.title = t]}
        BY <1>5 DEF Type
    <2>2. editor \in Editor /\ WasAsked(editor)
        BY <1>4, <1>5 DEF Type, Typing, EditorInv
    <2>3. editor' \in Editor /\ WasAsked(editor)'
        BY <2>1, <2>2 DEF Editor, WasAsked, Texts
    <2> QED
        BY <1>0, <1>1, <2>3 DEF EditorInv, EditorTyped
<1>6. CASE OpenMerge
    <2>1. editor \in Editor /\ WasAsked(editor)
        BY <1>4, <1>6 DEF OpenMerge, Prompt, EditorInv
    <2>2. editor' \in Editor /\ WasAsked(editor)'
        BY <1>6, <2>1 DEF OpenMerge, Editor, WasAsked, Texts
    <2> QED
        BY <1>0, <1>1, <2>2 DEF EditorInv, EditorTyped
<1>7. ASSUME NEW choice \in {"keep", "discard", "merged"}, Resolve(choice)
      PROVE  EditorInv'
    <2> DEFINE kept == CASE choice = "discard" -> [editor EXCEPT !.title = onPage.title, !.body = onPage.body]
                         [] choice = "merged"  -> [editor EXCEPT !.body = editor.merged]
                         [] OTHER              -> editor
               loaded == IF choice = "merged" THEN editor.merged ELSE onPage.body
    <2>1. editor \in Editor /\ onPage \in Artifact
        BY <1>0, <1>4, <1>7 DEF Resolve, Prompt, EditorTyped
    <2>2. editor' = [kept EXCEPT !.latch = onPage.at, !.loaded = loaded,
                          !.dismissed = TRUE, !.merging = FALSE, !.offered = @ \cup {onPage.at}]
        BY <1>7 DEF Resolve
    <2>3. kept \in Editor /\ loaded \in Texts
        BY <2>1 DEF Editor, Artifact
    <2> HIDE DEF kept, loaded
    <2>4. editor' \in Editor /\ onPage.at \in editor'.offered
        BY <2>1, <2>2, <2>3 DEF Editor, Artifact
    <2>5. WasAsked(editor)'
        BY <2>4 DEF WasAsked
    <2> QED
        BY <1>0, <1>1, <2>4, <2>5 DEF EditorInv, EditorTyped
<1> QED
    BY <1>2, <1>3, <1>5, <1>6, <1>7

\* A PUT is sent while no prompt is up: the latch is the version on the page,
\* or there is nothing to lose, or the prompt was answered.
LEMMA EditorOfSave == ASSUME EditorInv, Save PROVE EditorInv'
<1>0. EditorTyped /\ editor' = editor /\ disk' = disk /\ onPage' = onPage
    BY DEF EditorInv, Save
<1>1. editor \in Editor /\ WasAsked(editor) /\ onPage \in Artifact
    BY <1>0 DEF EditorInv, EditorTyped, Save, Typing, Closed
<1>2. save' = [pc |-> "sent", title |-> editor.title, body |-> editor.body, by |-> editor,
               over |-> onPage.at, edits |-> LocalEdits]
    BY DEF Save
<1>3. LocalEdits \in BOOLEAN
    BY DEF LocalEdits
<1>4. save' \in Put
    BY <1>1, <1>2, <1>3 DEF Put, Editor, Artifact
<1>5. LocalEdits /\ onPage.at # editor.since => editor.offered # {}
    BY <1>1 DEF Save, Typing, Prompt, WasAsked, Editor
<1>6. SavesAreInformed'
    BY <1>2, <1>5 DEF SavesAreInformed, Overwrites
<1> QED
    BY <1>0, <1>4, <1>6 DEF EditorInv, EditorTyped, WasAsked

\* The server, others, and the page.
LEMMA EditorOfTheRest ==
    ASSUME EditorInv, ServeSave \/ SaveAnswered \/ ExternalEdit \/ Receive \/ LoadFails
    PROVE  EditorInv'
<1>0. EditorTyped /\ ~Closed.open
    BY DEF EditorInv, Closed
<1>1. CASE ServeSave
    <2>1. save \in Put /\ editor' = editor /\ onPage' = onPage
        BY <1>0, <1>1 DEF ServeSave, EditorTyped, NoSave
    <2>2. PICK pc \in {"done", "refused"} : save' = [save EXCEPT !.pc = pc]
        BY <1>1 DEF ServeSave
    <2>3. save' \in Put /\ save'.by = save.by /\ save'.over = save.over /\ save'.edits = save.edits
        BY <2>1, <2>2 DEF Put
    <2>4. disk' \in Artifact
        BY <1>0, <1>1, <2>1 DEF ServeSave, EditorTyped, Artifact, Put
    <2>5. SavesAreInformed'
        BY <1>1, <2>3 DEF EditorInv, SavesAreInformed, Overwrites, ServeSave
    <2> QED
        BY <1>0, <2>1, <2>3, <2>4, <2>5 DEF EditorInv, EditorTyped, WasAsked
<1>2. CASE SaveAnswered
    <2>1. /\ editor' \in {editor, Closed} /\ save' = NoSave
          /\ disk' = disk /\ onPage' = onPage
        BY <1>2 DEF SaveAnswered
    <2>2. SavesAreInformed'
        BY <2>1 DEF SavesAreInformed, Overwrites, NoSave
    <2> QED
        BY <1>0, <2>1, <2>2 DEF EditorInv, EditorTyped, WasAsked
<1>3. CASE ExternalEdit
    <2>1. PICK t \in Text : disk' \in {[disk EXCEPT !.body = t, !.at = @ + 1],
                                       [disk EXCEPT !.title = t, !.at = @ + 1]}
        BY <1>3 DEF ExternalEdit
    <2>2. disk \in Artifact /\ t \in Texts
        BY <1>0 DEF EditorTyped, Texts
    <2> DEFINE at == disk.at + 1
    <2>3. disk' \in {[disk EXCEPT !.body = t, !.at = at], [disk EXCEPT !.title = t, !.at = at]}
        BY <2>1
    <2>4. at \in Nat
        BY <2>2 DEF Artifact
    <2> HIDE DEF at
    <2>5. disk' \in Artifact
        BY <2>2, <2>3, <2>4 DEF Artifact
    <2> QED
        BY <1>0, <1>3, <2>5
        DEF ExternalEdit, EditorInv, EditorTyped, WasAsked, SavesAreInformed, Overwrites
<1>4. CASE Receive
    BY <1>0, <1>4 DEF Receive, EditorInv, EditorTyped, WasAsked, SavesAreInformed, Overwrites
<1>5. CASE LoadFails
    BY <1>0, <1>5 DEF LoadFails, EditorInv, EditorTyped, WasAsked, SavesAreInformed, Overwrites
<1> QED
    BY <1>1, <1>2, <1>3, <1>4, <1>5

LEMMA EditorPersists == ASSUME EditorInv, [ScreensNext]_screenVars PROVE EditorInv'
<1>1. CASE Editing
    BY <1>1, EditorOfHandlers, EditorOfSave, EditorOfTheRest DEF Editing
<1>2. CASE UNCHANGED artifactVars
    BY <1>2 DEF artifactVars, EditorInv, EditorTyped, WasAsked, SavesAreInformed, Overwrites
<1> QED
    BY <1>1, <1>2 DEF ScreensNext, screenVars

\* SavesAreInformed: whatever is edited elsewhere, and however often, a save
\* of unsaved edits over a version of somebody else was sent by an operator
\* who had been asked (resolveConflict and the latches of ArtifactEditor.tsx).
THEOREM SavesAreSentKnowingly == ScreensSpec => []SavesAreInformed
<1>1. EditorInv => SavesAreInformed
    BY DEF EditorInv
<1> QED
    BY EditorStarts, EditorPersists, <1>1, PTL DEF ScreensSpec

-----------------------------------------------------------------------------
(***************************************************************************)
(* The review pane.                                                        *)
(***************************************************************************)

PaneInv == PaneTyped /\ (pane.typed # "" => pane.text = pane.typed)

LEMMA PaneStarts == ScreensInit => PaneInv
<1> DEFINE closed == [dialog |-> "none", text |-> "", typed |-> "", blocked |-> FALSE]
<1>1. ScreensInit => pane = closed /\ review = "none"
    BY DEF ScreensInit
<1>2. closed \in Pane /\ closed.typed = ""
    BY DEF Pane
<1> QED
    BY <1>1, <1>2 DEF PaneInv, PaneTyped

LEMMA PanePersists == ASSUME PaneInv, [ScreensNext]_screenVars PROVE PaneInv'
<1>0. /\ pane \in Pane /\ review \in {"none", "sent", "done", "refused"}
      /\ NoDialog \in Pane /\ NoDialog.typed = "" /\ NoDialog.text = ""
      /\ pane.typed # "" => pane.text = pane.typed
    BY DEF PaneInv, PaneTyped, Pane, NoDialog
<1>1. CASE Reviewing
    <2>1. ASSUME NEW d \in Dialogs, Opens(d) PROVE PaneInv'
        BY <1>0, <2>1 DEF Opens, PaneInv, PaneTyped, Pane
    <2>2. CASE Fill
        BY <1>0, <2>2 DEF Fill, PaneInv, PaneTyped, Pane
    <2>3. CASE Cancel \/ PaneFails
        BY <1>0, <2>3 DEF Cancel, PaneFails, PaneInv, PaneTyped
    <2>4. CASE Submit \/ ServeReview
        BY <1>0, <2>4 DEF Submit, ServeReview, PaneInv, PaneTyped
    <2>5. CASE Answered
        BY <1>0, <2>5 DEF Answered, PaneInv, PaneTyped
    <2>6. CASE LogMoves
        <3>1. /\ pane' \in {[NoDialog EXCEPT !.blocked = ~@], [pane EXCEPT !.blocked = ~@]}
              /\ review' = review
            BY <2>6 DEF LogMoves
        <3> QED
            BY <1>0, <3>1 DEF PaneInv, PaneTyped, Pane
    <2> QED
        BY <1>1, <2>1, <2>2, <2>3, <2>4, <2>5, <2>6 DEF Reviewing
<1>2. CASE UNCHANGED paneVars
    BY <1>0, <1>2 DEF paneVars, PaneInv, PaneTyped
<1> QED
    BY <1>1, <1>2 DEF ScreensNext, screenVars

-----------------------------------------------------------------------------
(***************************************************************************)
(* The draft dialog.  What is typed stays because, as long as the operator *)
(* counts on it, everything that may still arrive is about the candidate   *)
(* on show: the draft, the answers, and the requests not yet served.       *)
(***************************************************************************)

Promise == form.typed # NoFormula => form.open /\ form.text = form.typed /\ Settled
DialogInv == DialogTyped /\ Promise

LEMMA DialogStarts == ScreensInit => DialogInv
<1>1. ScreensInit => /\ draft = NewDraft /\ detail = NewDraft
                     /\ form = Untouched(NewDraft) /\ asked = {} /\ requests = 0
    BY DEF ScreensInit
<1>2. NewDraft \in Detail /\ Untouched(NewDraft) \in Form /\ Untouched(NewDraft).typed = NoFormula
    BY DEF NewDraft, Untouched, Detail, Form, Formulas
<1> QED
    BY <1>1, <1>2 DEF DialogInv, DialogTyped, Promise

LEMMA ReseededIsForm ==
    ASSUME form \in Form, NEW d \in Detail
    PROVE  /\ Reseeded(d) \in Form
           /\ Reseeded(d).open = form.open /\ Reseeded(d).typed = form.typed
           /\ d.prl = detail.prl => Reseeded(d).text = form.text
BY DEF Reseeded, Form, Detail, AdmitShown

LEMMA OtherNotes == ASSUME NEW d \in Detail PROVE 1 - d.notes \in {0, 1}
<1>1. d.notes = 0 \/ d.notes = 1
    BY DEF Detail
<1> QED
    BY <1>1

LEMMA OutcomesAreDetails ==
    ASSUME draft \in Detail, NEW a \in Requested, NEW d \in Outcomes(a)
    PROVE  d \in Detail /\ (a.op \notin Replacing => d.prl = draft.prl)
<1> DEFINE other == 1 - draft.notes
           candidate(p) == IF p = draft.prl THEN draft
                           ELSE [NewDraft EXCEPT !.prl = p, !.notes = other]
           drafted == draft.prl # NoFormula
<1>0. other \in {0, 1}
    BY OtherNotes
<1>1. Outcomes(a) =
        CASE a.op = "save"      -> {candidate(a.prl)}
          [] a.op = "translate" -> {candidate(p) : p \in Formula}
          [] a.op = "discard"   -> {NewDraft}
          [] a.op = "admit" /\ drafted /\ (draft.prl \in Flagged => a.confirmed) ->
                {[draft EXCEPT !.admitted = TRUE, !.stale = FALSE]}
          [] a.op = "writeback" /\ drafted /\ draft.admitted /\ ~draft.stale -> {draft}
          [] a.op \in {"check", "ground"} /\ drafted -> {[draft EXCEPT !.notes = other]}
          [] a.op = "verify" /\ drafted -> {draft}
          [] OTHER              -> {}
    BY DEF Outcomes
<1> HIDE DEF other
<1>2. NewDraft \in Detail
    BY DEF NewDraft, Detail, Formulas
<1>3. \A p \in Formulas : candidate(p) \in Detail
    BY <1>0, <1>2 DEF NewDraft, Detail
<1>4. \A e \in {[draft EXCEPT !.admitted = TRUE, !.stale = FALSE],
                  [draft EXCEPT !.notes = other], draft} :
        e \in Detail /\ e.prl = draft.prl
    BY <1>0 DEF Detail
<1>5. a.prl \in Formulas /\ Formula \subseteq Formulas
    BY DEF Requested, Formulas
<1> HIDE DEF candidate, drafted
<1>6. CASE a.op \in {"save", "translate", "discard"}
    BY <1>1, <1>2, <1>3, <1>5, <1>6 DEF Replacing
<1>7. CASE a.op \notin {"save", "translate", "discard"}
    BY <1>1, <1>4, <1>7
<1> QED
    BY <1>6, <1>7

\* What an answer or a refetch brings, about the candidate on show if the
\* operator counts on something.
LEMMA ArrivalKeepsTheText ==
    ASSUME DialogInv, NEW d \in Detail, Shown(d), draft' = draft, asked' \subseteq asked,
           form.typed # NoFormula => d.prl = detail.prl
    PROVE  form' \in Form /\ detail' \in Detail /\ Promise'
<1>1. form \in Form /\ Promise /\ detail' = d
    BY DEF DialogInv, DialogTyped, Shown
<1>2. /\ form' \in Form /\ form'.typed = form.typed /\ form'.open = form.open
      /\ d.prl = detail.prl => form'.text = form.text
    BY <1>1, ReseededIsForm DEF Shown
<1>3. d.prl = detail.prl /\ Settled => Settled'
    BY <1>1 DEF Settled
<1> QED
    BY <1>1, <1>2, <1>3 DEF Promise

LEMMA DialogSteps == ASSUME DialogInv, Proving PROVE DialogInv'
<1>0. /\ draft \in Detail /\ detail \in Detail /\ form \in Form
      /\ asked \in SUBSET Requested /\ requests \in Nat /\ Promise
    BY DEF DialogInv, DialogTyped
<1>1. CASE OperatorTypes
    <2>1. form' \in Form /\ UNCHANGED <<draft, detail, asked, requests>>
        BY <1>0, <1>1 DEF OperatorTypes, Form, Formulas, Detail
    <2>2. Settled' = Settled
        BY <2>1 DEF Settled
    <2>3. ASSUME NEW p \in Formula,
                 form' = [form EXCEPT !.text = p, !.typed = IF Settled THEN p ELSE NoFormula],
                 form.open
          PROVE  Promise'
        BY <1>0, <2>2, <2>3 DEF Promise, Form
    <2>4. ASSUME form' \in {[form EXCEPT !.reviewer = TRUE],
                            [form EXCEPT !.confirmed = ~@, !.tickedFor = detail.prl]}
          PROVE  Promise'
        BY <1>0, <2>2, <2>4 DEF Promise, Form
    <2>5. Promise'
        BY <1>1, <2>3, <2>4 DEF OperatorTypes
    <2> QED
        BY <1>0, <2>1, <2>5 DEF DialogInv, DialogTyped
<1>2. ASSUME NEW op \in DialogOps, Send(op) PROVE DialogInv'
    <2> DEFINE sent == [op |-> op, pc |-> "sent", answer |-> NewDraft,
                        prl |-> IF op = "save" THEN form.text ELSE NoFormula,
                        confirmed |-> op = "admit" /\ form.confirmed]
    <2>1. sent \in Requested
        BY <1>0 DEF Requested, NewDraft, Detail, Form, Formulas
    <2>2. /\ asked' = asked \cup {sent} /\ requests' = requests + 1
          /\ form' = (IF op \in Replacing THEN [form EXCEPT !.typed = NoFormula] ELSE form)
          /\ UNCHANGED <<draft, detail>>
        BY <1>2 DEF Send
    <2>3. form' \in Form
        BY <1>0, <2>2 DEF Form, Formulas
    <2>4. op \notin Replacing /\ Settled => Settled'
        BY <2>2 DEF Settled
    <2>5. Promise'
        BY <1>0, <2>2, <2>4 DEF Promise, Form
    <2> QED
        BY <1>0, <2>1, <2>2, <2>3, <2>5 DEF DialogInv, DialogTyped
<1>3. ASSUME NEW a \in asked, Serve(a) PROVE DialogInv'
    <2>1. a \in Requested /\ a.pc = "sent" /\ UNCHANGED <<detail, form, requests>>
        BY <1>0, <1>3 DEF Serve
    <2>2. CASE \E d \in Outcomes(a) :
                 /\ draft' = d
                 /\ asked' = (asked \ {a}) \cup {[a EXCEPT !.pc = "done", !.answer = d]}
        <3>1. PICK d \in Outcomes(a) :
                 /\ draft' = d
                 /\ asked' = (asked \ {a}) \cup {[a EXCEPT !.pc = "done", !.answer = d]}
            BY <2>2
        <3>2. d \in Detail /\ (a.op \notin Replacing => d.prl = draft.prl)
            BY <1>0, <2>1, OutcomesAreDetails
        <3> DEFINE b == [a EXCEPT !.pc = "done", !.answer = d]
        <3>3. b \in Requested /\ b.pc = "done" /\ b.answer = d
            BY <2>1, <3>2 DEF Requested
        <3> HIDE DEF b
        <3>4. Settled => Settled'
            BY <2>1, <3>1, <3>2, <3>3 DEF Settled, b
        <3> QED
            BY <1>0, <2>1, <3>1, <3>2, <3>3, <3>4 DEF DialogInv, DialogTyped, Promise, b
    <2>3. CASE draft' = draft /\ asked' = (asked \ {a}) \cup {[a EXCEPT !.pc = "refused"]}
        <3> DEFINE b == [a EXCEPT !.pc = "refused"]
        <3>1. b \in Requested /\ b.pc = "refused"
            BY <2>1 DEF Requested
        <3> HIDE DEF b
        <3>2. Settled => Settled'
            BY <2>1, <2>3, <3>1 DEF Settled, b
        <3> QED
            BY <1>0, <2>1, <2>3, <3>1, <3>2 DEF DialogInv, DialogTyped, Promise, b
    <2> QED
        BY <1>3, <2>2, <2>3 DEF Serve
<1>4. ASSUME NEW a \in asked, Deliver(a) PROVE DialogInv'
    <2>1. /\ a \in Requested /\ a.answer \in Detail
          /\ asked' = asked \ {a} /\ UNCHANGED <<draft, requests>>
        BY <1>0, <1>4 DEF Deliver, Requested
    <2>2. detail' = detail => (Settled => Settled')
        BY <2>1 DEF Settled
    <2>3. CASE a.pc = "refused"
        <3>1. UNCHANGED <<detail, form>>
            BY <1>4, <2>3 DEF Deliver
        <3> QED
            BY <1>0, <2>1, <2>2, <3>1 DEF DialogInv, DialogTyped, Promise
    <2>4. CASE a.pc # "refused" /\ a.op = "verify"
        <3>0. a.pc = "done"
            BY <1>4, <2>1, <2>4 DEF Deliver, Requested
        <3>1. form' \in {form, [form EXCEPT !.result = a.answer.prl]} /\ detail' = detail
            BY <1>4, <2>4, <3>0 DEF Deliver
        <3>2. /\ form' \in Form
              /\ form'.typed = form.typed /\ form'.open = form.open /\ form'.text = form.text
            BY <1>0, <2>1, <3>1 DEF Form, Detail
        <3> QED
            BY <1>0, <2>1, <2>2, <3>1, <3>2 DEF DialogInv, DialogTyped, Promise
    <2>5. CASE a.pc # "refused" /\ a.op # "verify"
        <3>1. Shown(a.answer) /\ a.pc = "done"
            BY <1>4, <2>1, <2>5 DEF Deliver, Requested
        <3>2. form.typed # NoFormula => a.answer.prl = detail.prl
            BY <1>0, <3>1 DEF Promise, Settled
        <3> QED
            BY <1>0, <2>1, <3>1, <3>2, ArrivalKeepsTheText DEF DialogInv, DialogTyped
    <2> QED
        BY <2>3, <2>4, <2>5
<1>5. CASE ElsewhereDraft
    <2>1. /\ draft' \in Detail /\ UNCHANGED <<detail, asked, requests>>
          /\ form' \in {form, [form EXCEPT !.typed = NoFormula]}
          /\ form' = form => draft'.prl = draft.prl \/ form.typed = NoFormula
        <3>1. CASE draft.admitted /\ draft' = [draft EXCEPT !.stale = TRUE] /\ UNCHANGED form
            BY <1>0, <1>5, <3>1 DEF ElsewhereDraft, Detail
        <3>2. ASSUME NEW p \in Formula, draft' = [NewDraft EXCEPT !.prl = p],
                     form' = IF p # draft.prl THEN [form EXCEPT !.typed = NoFormula] ELSE form
              PROVE  /\ draft' \in Detail /\ form' \in {form, [form EXCEPT !.typed = NoFormula]}
                     /\ form' = form => draft'.prl = draft.prl \/ form.typed = NoFormula
            <4>1. draft' \in Detail /\ draft'.prl = p
                BY <3>2 DEF NewDraft, Detail, Formulas
            <4>2. [form EXCEPT !.typed = NoFormula].typed = NoFormula
                BY <1>0 DEF Form
            <4> QED
                BY <3>2, <4>1, <4>2
        <3> QED
            BY <1>5, <3>1, <3>2 DEF ElsewhereDraft
    <2>2. form' \in Form /\ (form' = form \/ form'.typed = NoFormula)
        BY <1>0, <2>1 DEF Form, Formulas
    <2>3. draft'.prl = draft.prl /\ Settled => Settled'
        BY <2>1 DEF Settled
    <2> QED
        BY <1>0, <2>1, <2>2, <2>3 DEF DialogInv, DialogTyped, Promise
<1>6. CASE Refetched
    <2>1. Shown(draft) /\ UNCHANGED <<draft, asked, requests>>
        BY <1>6 DEF Refetched
    <2>2. form.typed # NoFormula => draft.prl = detail.prl
        BY <1>0 DEF Promise, Settled
    <2> QED
        BY <1>0, <2>1, <2>2, ArrivalKeepsTheText DEF DialogInv, DialogTyped
<1>7. CASE Unmounted \/ Mounted
    <2>0. Untouched(detail) \in Form /\ Untouched(detail).typed = NoFormula
        <3>1. detail.prl \in Formulas /\ NoFormula \in Formulas
            BY <1>0 DEF Detail, Formulas
        <3> QED
            BY <3>1 DEF Untouched, Form
    <2>1. /\ form' \in Form /\ form'.typed = NoFormula
          /\ UNCHANGED <<draft, detail, asked, requests>>
        BY <1>0, <1>7, <2>0 DEF Unmounted, Mounted, Form, Formulas
    <2> QED
        BY <1>0, <2>1 DEF DialogInv, DialogTyped, Promise
<1> QED
    BY <1>1, <1>2, <1>3, <1>4, <1>5, <1>6, <1>7 DEF Proving

LEMMA DialogPersists == ASSUME DialogInv, [ScreensNext]_screenVars PROVE DialogInv'
<1>1. CASE Proving
    BY <1>1, DialogSteps
<1>2. CASE UNCHANGED dialogVars
    BY <1>2 DEF dialogVars, DialogInv, DialogTyped, Promise, Settled
<1> QED
    BY <1>1, <1>2 DEF ScreensNext, screenVars

\* TypedTextStays: what is typed into an open dialog stays there, whatever
\* arrives about the same candidate or is refused, for any number of requests
\* (ReviewPane.tsx, ItemDetailDialog.tsx).
THEOREM WhatIsTypedStays == ScreensSpec => []TypedTextStays
<1>1. PaneInv /\ DialogInv => TypedTextStays
    BY DEF PaneInv, DialogInv, Promise, TypedTextStays
<1> QED
    BY PaneStarts, PanePersists, DialogStarts, DialogPersists, <1>1, PTL DEF ScreensSpec

\* The state of the three screens keeps its shape.
THEOREM ScreensTypeCorrect == ScreensSpec => []ScreensTypeOK
<1>1. EditorInv /\ PaneInv /\ DialogInv => ScreensTypeOK
    BY DEF EditorInv, PaneInv, DialogInv, ScreensTypeOK
<1> QED
    BY EditorStarts, EditorPersists, PaneStarts, PanePersists, DialogStarts, DialogPersists,
       <1>1, PTL DEF ScreensSpec
=============================================================================
