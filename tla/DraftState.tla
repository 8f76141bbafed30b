----------------------------- MODULE DraftState -----------------------------
(***************************************************************************)
(* The pure half of src/draft.rs: what one operation does to the map of    *)
(* drafts.  Nothing here reads a file or a clock; the handlers that load,  *)
(* apply one of these operators and save are in module Drafts.             *)
(*                                                                         *)
(* A candidate PRL text is a value.  What matters of it is what the        *)
(* mechanical gate of a given build of the tool says (GateOf) and which    *)
(* vocabulary symbols it declares (VocabOf).                               *)
(***************************************************************************)
CONSTANTS
    Items,       \* requirement ids of the subject
    Revisions,   \* content hashes the prose of an item can have
    Candidates,  \* candidate PRL texts
    Symbols,     \* vocabulary symbols a binding can name
    Builds,      \* builds of the tool, whose gates may disagree
    GateOf,      \* [Builds -> [Candidates -> GateResult]], prl::gate
    VocabOf,     \* [Candidates -> SUBSET Symbols], grounding::is_bindable
    NoDraft,     \* an item without an entry in drafts.yml
    NoCandidate  \* Option::None of Draft.candidate

\* What the gate answers: accepted, accepted with vacuity warnings, errors.
GateResult == {"clean", "warned", "rejected"}

\* "none" is Admission::Pending; the others are the tier of an admission.
Review == {"none", "optional", "mandatory"}

\* Who asked for the admission.  The code stores a reviewer's name; the two
\* surfaces differ in what the reviewer has in front of them.
Surface == {"nobody", "web", "console"}

\* "shown" is a ghost: the candidate the reviewer was shown is this one.
Draft == [revision  : Revisions,
          candidate : Candidates \cup {NoCandidate},
          gate      : {"ungated"} \cup GateResult,
          review    : Review,
          by        : Surface,
          shown     : BOOLEAN,
          bindings  : SUBSET Symbols]

DraftMap == [Items -> Draft \cup {NoDraft}]

ASSUME DraftAssumption ==
    /\ GateOf \in [Builds -> [Candidates -> GateResult]]
    /\ VocabOf \in [Candidates -> SUBSET Symbols]
    /\ NoCandidate \notin Candidates
    /\ NoDraft \notin Draft

HasCandidate(d) == d # NoDraft /\ d.candidate # NoCandidate

Admitted(d) == d # NoDraft /\ d.review # "none"

\* A draft as open and set_candidate write it: pending, nothing bound.
Unadmitted(r, c, g) ==
    [revision |-> r, candidate |-> c, gate |-> g, review |-> "none",
     by |-> "nobody", shown |-> FALSE, bindings |-> {}]

\* open: additive, an existing draft is left untouched.
Open(st, i, r) ==
    IF st[i] = NoDraft
    THEN [st EXCEPT ![i] = Unadmitted(r, NoCandidate, "ungated")]
    ELSE st

\* Faulty: an edit that leaves the bindings of the old text on the new one.
SetCandidateKeepsBindings(st, i, r, c, g) ==
    [st EXCEPT ![i] = [Unadmitted(r, c, g) EXCEPT !.bindings =
        IF st[i] = NoDraft THEN {} ELSE st[i].bindings]]

\* set_candidate: rebaselines the revision, revokes the admission and drops
\* the bindings, because the vocabulary may have changed.
SetCandidate(st, i, r, c, g) == [st EXCEPT ![i] = Unadmitted(r, c, g)]

\* set_gate: a re-check is not an edit.
SetGate(st, i, g) ==
    IF st[i] = NoDraft THEN st ELSE [st EXCEPT ![i].gate = g]

\* ground's preconditions: the candidate gates now and declares the symbol.
CanGround(d, b, s) ==
    /\ HasCandidate(d)
    /\ GateOf[b][d.candidate] # "rejected"
    /\ s \in VocabOf[d.candidate]

\* set_binding: attach or overwrite by symbol; the admission stands.
SetBinding(st, i, s) ==
    IF st[i] = NoDraft THEN st ELSE [st EXCEPT ![i].bindings = @ \cup {s}]

\* The review tier an admission gets from the gate.
Tier(g) == IF g = "clean" THEN "optional" ELSE "mandatory"

\* Faulty: trusts the outcome the gate had when the candidate was set.
CanAdmitAsRecorded(d, b, confirmed) ==
    /\ HasCandidate(d)
    /\ d.gate # "rejected"
    /\ d.gate = "warned" => confirmed

\* admit_gated's preconditions.  The gate is run again: the outcome recorded
\* in the draft may be from another build.
CanAdmit(d, b, confirmed) ==
    /\ HasCandidate(d)
    /\ GateOf[b][d.candidate] # "rejected"
    /\ GateOf[b][d.candidate] = "warned" => confirmed

\* admit: the admission is recorded, everything else is left as it was.
AdmitGated(st, i, b, who, readback) ==
    [st EXCEPT ![i].review = Tier(GateOf[b][st[i].candidate]),
               ![i].by = who,
               ![i].shown = (readback = st[i].candidate)]

\* Faulty: writes back any candidate that is not stale.
CanWriteBackUnreviewed(d, r) == HasCandidate(d) /\ d.revision = r

\* writeback's preconditions; r is the revision of the item as resolved.
IsStale(d, r) == d.revision # r
CanWriteBack(d, r) == Admitted(d) /\ ~IsStale(d, r)

\* What writeback puts on the subject's item.
AnnotationOf(d) ==
    [prl |-> d.candidate, review |-> d.review, revision |-> d.revision]

Annotation == [prl : Candidates \cup {NoCandidate}, review : Review,
               revision : Revisions]

\* discard: no-op when there is no draft.
Discard(st, i) == [st EXCEPT ![i] = NoDraft]
=============================================================================
