----------------------------- MODULE MCVerdicts ----------------------------
(***************************************************************************)
(* Where verdicts come from and what becomes of them: the runs of the      *)
(* engines over the tree of a subject, verify with its cache and its store *)
(* while the world moves, one requirement through a history of gated       *)
(* changes, and the drafting of what a deductive engine needs.  One is     *)
(* studied at a time, the others rest.                                     *)
(*                                                                         *)
(* Two claims about the code, one of them false, one about the model, one  *)
(* about a trace and one about a page.                                     *)
(***************************************************************************)
EXTENDS MCVerifyLoop, EngineRuns, GatedHistory, ProofDrafting

VARIABLE studied

\* The instance is one the theorems about runs, loop and drafting speak of.
ASSUME Premises ==
    /\ StillUnderRuns /\ AnswersAreFingerprinted /\ OneRunAtATime
    /\ NothingOverlaps /\ DraftedOnce

MCCategory ==
    [c \in Claims |-> CASE c = "odd" -> "model" [] c = "late" -> "runtime"
                        [] c = "shown" -> "ui" [] OTHER -> "code"]

\* What an engine run by hand has left comes with Keep.
RunsStart == RunsInit /\ mine.there = {}

\* RunsInit with nothing of the operator about.
RunsRest ==
    /\ RunsInit
    /\ mine.there = {} /\ \A c \in Claims : mine.src[c] = Free

HistoryRests == first = NothingRan /\ recorded = NothingRan /\ ensemble = {}

\* Every item at its first revision in a world where nothing has moved.
LoopRests ==
    /\ Init
    /\ \A i \in Items : prose[i] = v1
    /\ \A a \in Axes : world[a] = v1

\* Two files: a function whose mirror was kept earlier, one no mirror can be
\* written for, one that carries its marker; and a subject of neither prover.
Body == TextLine("body", Outside)
Inner == TextLine("inner", Outside)
Doc == TextLine("doc", Outside)
KeptMirror == [k |-> "mirror", fn |-> "old", calls |-> {}, int |-> FALSE]
MCSubjects ==
    {[dialect |-> "Logic", targets |-> <<"p", "q", "r">>, opaque |-> {"r"},
      text |-> [a |-> <<Inner, Doc, Sig("p"), Body, Sig("r"), Body>>,
                b |-> <<TextLine("use", "macros"), TextLine("link", "old"), Sig("old"), Body,
                        Sig("q"), Body, KeptMirror>>]],
     [dialect |-> "Pure", targets |-> <<"p", "q", "r">>, opaque |-> {},
      text |-> [a |-> <<Inner, Doc, Sig("p"), Body, Sig("q"), Body>>,
                b |-> <<TextLine("use", "prusti"), TextLine("pure", "r"), Sig("r"), Body>>]],
     [dialect |-> "None", targets |-> <<"p">>, opaque |-> {},
      text |-> [a |-> <<Sig("p"), Body>>]]}

DraftingRests == DraftingInit /\ subject.dialect = "None"

VerdictsInit ==
    \/ studied = "runs" /\ RunsStart /\ HistoryRests /\ LoopRests /\ DraftingRests
    \/ studied = "loop" /\ Init /\ RunsRest /\ HistoryRests /\ DraftingRests
    \/ studied = "history" /\ HistoryInit /\ RunsRest /\ LoopRests /\ DraftingRests
    \/ studied = "drafting" /\ DraftingInit /\ RunsRest /\ LoopRests /\ HistoryRests

VerdictsNext ==
    \/ studied = "runs" /\ RunsNext /\ UNCHANGED <<studied, historyVars, vars, draftingVars>>
    \/ studied = "loop" /\ Next /\ UNCHANGED <<studied, historyVars, runsVars, draftingVars>>
    \/ studied = "history" /\ HistoryNext /\ UNCHANGED <<studied, runsVars, vars, draftingVars>>
    \/ studied = "drafting" /\ DraftingNext /\ UNCHANGED <<studied, runsVars, vars, historyVars>>

VerdictsSpec ==
    VerdictsInit /\ [][VerdictsNext]_<<studied, runsVars, historyVars, vars, draftingVars>>

\* Nothing of provreq's stays in the sources of the subject but what a
\* verification leaves by its code, and a proposal that is whole: the lines a
\* killed run left, or a mirror without its link, would change what is proved.
SubjectIsSound == SubjectAsItWas /\ ProposalStands
=============================================================================
