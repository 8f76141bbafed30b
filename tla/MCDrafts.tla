------------------------------ MODULE MCDrafts ------------------------------
(***************************************************************************)
(* Drafts for TLC: a text every build accepts, one the first build accepts *)
(* and the second finds vacuous, one the second build rejects.             *)
(***************************************************************************)
EXTENDS Drafts, TLC

CONSTANTS good, vague, old, b1, b2, s1, s2

MCCandidates == {good, vague, old}
MCBuilds == {b1, b2}
MCSymbols == {s1, s2}

MCGateOf ==
    (b1 :> (good :> "clean" @@ vague :> "clean" @@ old :> "warned"))
    @@ (b2 :> (good :> "clean" @@ vague :> "warned" @@ old :> "rejected"))

MCVocabOf == good :> {s1} @@ vague :> {s2} @@ old :> {}

\* Requests are interchangeable, and every property checked is one of safety.
MCSymmetry == Permutations(Workers)
=============================================================================
