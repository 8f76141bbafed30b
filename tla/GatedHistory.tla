---------------------------- MODULE GatedHistory ----------------------------
(***************************************************************************)
(* One requirement through a history of changes, each verified, gated and  *)
(* committed with the verdict it earned (provreq verify, then provreq gate *)
(* in a commit hook).  The engines that are ready and the tagged tests     *)
(* answer in any order; those that are not installed never do.             *)
(***************************************************************************)
EXTENDS VerdictAlgebra

CONSTANT Strict  \* the hook runs provreq gate --strict-tier

ASSUME StrictAssumption == Strict \in BOOLEAN

VARIABLES
    first,     \* the verdict the requirement entered the history with
    recorded,  \* the verdict committed last, the baseline of the gate
    ensemble   \* what was reported of the change that is being verified

historyVars == <<first, recorded, ensemble>>

HistoryInit ==
    /\ first \in {Aggregate(e) : e \in SUBSET Evidence}
    /\ recorded = first
    /\ ensemble = {}

\* One engine, or one tagged test, of ensemble_evidence and tagged_evidence.
Report(e) ==
    /\ ensemble' = ensemble \cup {e}
    /\ UNCHANGED <<first, recorded>>

\* verify's answer when the last engine is done.
Answer == IF ensemble = {} THEN NothingRan ELSE Aggregate(ensemble)

\* The gate passes and the change lands with its verdict.
Land ==
    /\ ~Regressed(recorded, Answer, Strict)
    /\ recorded' = Answer
    /\ ensemble' = {}
    /\ UNCHANGED first

\* The gate exits non-zero: the change does not land.
Block ==
    /\ Regressed(recorded, Answer, Strict)
    /\ ensemble' = {}
    /\ UNCHANGED <<first, recorded>>

HistoryNext == (\E e \in Evidence : Report(e)) \/ Land \/ Block

HistorySpec == HistoryInit /\ [][HistoryNext]_historyVars

-----------------------------------------------------------------------------
HistoryOK ==
    /\ first \in Verdict /\ recorded \in Verdict
    /\ ensemble \subseteq Evidence

\* A proof is not eroded in steps: whatever lands after a requirement passed,
\* each change judged against the one before it only, it still passes, and
\* under --strict-tier on no weaker a tier (regression in src/gate.rs).
NoErosion ==
    first.status = "holds" =>
        /\ recorded.status = "holds"
        /\ Strict => ~TierDropped(first, recorded)

\* A verdict reads no stronger than what was reported: a holds nobody
\* refuted, on a rung somebody earned, mechanical only if an engine holds it,
\* and then one that stands on a test alone is not above not-falsified
\* (combine_outcome in src/verdict.rs, the guard of provreq-proofs).
NoMasquerade ==
    Answer.status = "holds" =>
        /\ ~Some(ensemble, "fails")
        /\ \E e \in ensemble : e.status = "holds" /\ e.basis = Answer.basis
        /\ Answer.correspondence = "mechanical" =>
               \E e \in ensemble \cap Mechanical : e.status = "holds"
        /\ Answer.correspondence = "asserted" => Answer.basis = "not-falsified"

\* One more answer corroborates, refutes or leaves undecided: it never makes
\* a verdict that holds hold on less, nor one that was refuted hold again
\* (combine_outcome and decisive_correspondence_of are folds, not votes).
CorroborationNeverDemotes ==
    [][ensemble # {} /\ ensemble \subseteq ensemble' =>
        /\ Answer.status = "holds" /\ Answer'.status = "holds" =>
               ~TierDropped(Answer, Answer')
        /\ Answer.status = "fails" => Answer'.status # "holds"]_historyVars
=============================================================================
