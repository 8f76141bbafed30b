--------------------------- MODULE VerdictAlgebra ---------------------------
(***************************************************************************)
(* The pure half of a verdict: how src/verdict.rs combines what the        *)
(* engines and the tagged tests say of one requirement, how the masquerade *)
(* guard of provreq-proofs decides whether the answer is mechanical, and   *)
(* when src/gate.rs calls one answer a regression of another.              *)
(*                                                                         *)
(* An ensemble is a set: combining is a fold of any and max, which neither *)
(* the order nor a second engine that says the same can change.            *)
(***************************************************************************)
EXTENDS Naturals

Status == {"holds", "fails", "unknown"}

\* Option<Basis>: how a holds was established, none on everything else.
Basis == {"proven", "bounded", "not-falsified"}

Correspondence == {"mechanical", "asserted"}

Says(status, basis, correspondence) ==
    [status |-> status, basis |-> basis, correspondence |-> correspondence]

\* What an engine can say.  A deductive one proves, a model checker checks
\* within bounds, a monitor or a browser run fails to falsify.
Mechanical ==
    {Says("holds", b, "mechanical") : b \in Basis}
    \cup {Says(s, "none", "mechanical") : s \in {"fails", "unknown"}}

\* What a test with a Verifies: tag can say: the weakest rung at best.
Asserted ==
    {Says("holds", "not-falsified", "asserted")}
    \cup {Says(s, "none", "asserted") : s \in {"fails", "unknown"}}

Evidence == Mechanical \cup Asserted

Some(ensemble, status) == \E e \in ensemble : e.status = status

BasisRank(basis) ==
    CASE basis = "proven" -> 3
      [] basis = "bounded" -> 2
      [] basis = "not-falsified" -> 1
      [] OTHER -> 0

\* A rung of the ensemble that no other outranks.
IsStrongest(basis, ensemble) ==
    /\ \E e \in ensemble : e.basis = basis
    /\ \A e \in ensemble : BasisRank(e.basis) <= BasisRank(basis)

\* Faulty: a divergence is a status of its own.
CombinedStatusOfDivergence(ensemble) ==
    IF Some(ensemble, "holds") /\ Some(ensemble, "fails") THEN "divergence"
    ELSE IF Some(ensemble, "fails") THEN "fails"
    ELSE IF Some(ensemble, "holds") THEN "holds" ELSE "unknown"

\* combine_outcome: never a vote.
CombinedStatus(ensemble) ==
    IF Some(ensemble, "holds") /\ Some(ensemble, "fails") THEN "unknown"
    ELSE IF Some(ensemble, "fails") THEN "fails"
    ELSE IF Some(ensemble, "holds") THEN "holds" ELSE "unknown"

CombinedBasis(ensemble) ==
    IF CombinedStatus(ensemble) = "holds"
    THEN CHOOSE b \in Basis : IsStrongest(b, ensemble)
    ELSE "none"

\* is_decisive: what decided the verdict; for a divergence, either side.
Decisive(ensemble) ==
    LET status == CombinedStatus(ensemble)
        divergence == Some(ensemble, "holds") /\ Some(ensemble, "fails") IN
    {e \in ensemble : IF divergence THEN e.status # "unknown"
                                    ELSE e.status = status}

\* Faulty: an engine that could not decide makes the answer mechanical.
CorrespondenceOfAll(ensemble) ==
    IF /\ ensemble # {}
       /\ \A e \in ensemble : e.correspondence = "asserted"
    THEN "asserted" ELSE "mechanical"

\* Faulty: a test beside a proof makes the answer asserted.
CorrespondenceOfAny(ensemble) ==
    IF \E e \in Decisive(ensemble) : e.correspondence = "asserted"
    THEN "asserted" ELSE "mechanical"

\* decisive_correspondence_of: one decisive mechanical piece is enough.
CombinedCorrespondence(ensemble) ==
    LET decisive == Decisive(ensemble) IN
    IF /\ decisive # {}
       /\ \A e \in decisive : e.correspondence = "asserted"
    THEN "asserted" ELSE "mechanical"

\* The labels of a verdict, those the gate and the review log read.
Aggregate(ensemble) ==
    Says(CombinedStatus(ensemble), CombinedBasis(ensemble),
         CombinedCorrespondence(ensemble))

Verdict == [status : Status, basis : Basis \cup {"none"},
            correspondence : Correspondence]

\* from_grounding and no_engine: nothing ran, nothing was asserted.
NothingRan == Says("unknown", "none", "mechanical")

-----------------------------------------------------------------------------
\* Gate.

\* --strict-tier: a weaker rung, or a test standing in for a lost proof.
TierDropped(base, now) ==
    \/ BasisRank(now.basis) < BasisRank(base.basis)
    \/ base.correspondence = "mechanical" /\ now.correspondence = "asserted"

\* Faulty: a test that stands in for a monitor's observation is no loss.
RegressedByRung(base, now, strict) ==
    /\ base.status = "holds"
    /\ \/ now.status # "holds"
       \/ strict /\ BasisRank(now.basis) < BasisRank(base.basis)

\* Faulty: only a refutation is a regression.
Refuted(base, now, strict) ==
    /\ base.status = "holds"
    /\ now.status = "fails" \/ (strict /\ TierDropped(base, now))

\* regression: only what passed can regress.
Regressed(base, now, strict) ==
    /\ base.status = "holds"
    /\ now.status # "holds" \/ (strict /\ TierDropped(base, now))
=============================================================================
