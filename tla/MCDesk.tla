------------------------------- MODULE MCDesk -------------------------------
(***************************************************************************)
(* Who works on a served project: the operator and the models that sort    *)
(* its requirements (Triage), the operator on the settings page            *)
(* (ProviderPage), and a coding agent through its MCP process (McpServer). *)
(* One is studied at a time; the others rest, so that nothing their        *)
(* fairness asks for is left undone.                                       *)
(*                                                                         *)
(* Triage: two items, of which one is ruled out for code; the floor has a  *)
(* hint for each.  The page: a keyed slot and an openai-compatible one     *)
(* with a key of its own.  The agent: a project of two collections with an *)
(* artifact each, and a single thread that others use as well.             *)
(***************************************************************************)
EXTENDS Triage, ProviderPage, McpServer
LOCAL INSTANCE TLC

CONSTANTS Prose, i1, i2, u1, k1, k2, p, c1, c2, a1, a2

VARIABLE studied

TheItems == {i1, i2}
TheBuckets == {Now, Prose}
FloorHint == (i1 :> Now) @@ (i2 :> Prose)
Ruled == {i2}

FirstSlot == [id |-> 1, family |-> "anthropic", endpoint |-> Absent, key |-> k1,
              cli |-> FALSE, enabled |-> TRUE]
MCFile == <<FirstSlot,
            [FirstSlot EXCEPT !.id = 2, !.family = "openai-compatible",
                              !.endpoint = u1, !.key = k2]>>

MCHome == (p :> Root) @@ (c1 :> p) @@ (c2 :> p) @@ (a1 :> c1) @@ (a2 :> c2)

TriageRests == Init /\ triage = [i \in Items |-> Untriaged] /\ record = {}

DeskInit ==
    /\ PageInit /\ McpInit
    /\ \/ studied = "triage" /\ Init
       \/ studied \in {"page", "agent"} /\ TriageRests

DeskNext ==
    \/ studied = "triage" /\ Next /\ UNCHANGED <<studied, pageVars, mcpVars>>
    \/ studied = "page" /\ PageNext /\ UNCHANGED <<studied, vars, mcpVars>>
    \/ studied = "agent" /\ McpNext /\ UNCHANGED <<studied, vars, pageVars>>

DeskSpec ==
    /\ DeskInit /\ [][DeskNext]_<<studied, vars, pageVars, mcpVars>>
    /\ Fairness /\ McpFairness

\* The array of the settings parses, and the agent is told what was done and
\* shown what there is.
WhatIsSaidIsSo == FileParses /\ AnswersInOrder /\ ListingIsWhole /\ PostedOnce

\* Every seed and every line of the agent comes to an end.
WorkEnds == SeedsEnd /\ LinesAreHandled
=============================================================================
