---------------------------- MODULE MCVerifyLoop ----------------------------
(***************************************************************************)
(* VerifyLoop for TLC.  Every move of an axis the engines read changes what *)
(* they answer, so that no stale answer can pass for a current one.        *)
(***************************************************************************)
EXTENDS VerifyLoop

CONSTANTS v1, v2, f1, f2

MCVersions == {v1, v2}
MCFormals == {f1, f2}

\* How far the axes in A are from where every claim is proved.
Distance(w, A) == Cardinality({a \in A \cap Axes : w[a] = v2})

\* The tagged test does not exercise what the engines alone read.
MCTestSays(w) ==
    IF "tagged" \notin Axes \/ w["tagged"] = Absent THEN {}
    ELSE {CASE Distance(w, {"scope", "tagged", "rest", "config"}) = 0
               -> Says("holds", "not-falsified", "asserted")
          []   Distance(w, {"scope", "tagged", "rest", "config"}) = 1
               -> Says("fails", "none", "asserted")
          [] OTHER -> Says("unknown", "none", "asserted")}

MCEngineSays(f, w) ==
    LET away == Distance(w, Axes \ {"tagged", "rest", "label"})
                + IF f = f2 THEN 1 ELSE 0 IN
    IF \E a \in Axes \cap {"spec", "trace"} : w[a] = Absent THEN {}
    ELSE {CASE away = 0 -> Says("holds", "proven", "mechanical")
          []   away = 1 -> Says("holds", "bounded", "mechanical")
          []   away = 2 -> Says("fails", "none", "mechanical")
          [] OTHER -> Says("unknown", "none", "mechanical")}

\* The second build rejects the second formalization.
MCGateAccepts(f, w) ==
    ~("tool" \in Axes /\ w["tool"] = v2 /\ f = f2)
=============================================================================
