------------------------------ MODULE MCViews ------------------------------
(***************************************************************************)
(* What an operator is shown: the reports over a world, the pages that     *)
(* cache what the server answered, and the screens that hold what is being *)
(* typed; and, of what they ask for, the drafts while requests come one at *)
(* a time.  One is studied at a time, the others rest.                     *)
(*                                                                         *)
(* Reports: five artifacts in two collections.  The worlds are those of up *)
(* to four links of one acyclic type among four artifacts, up to four that *)
(* lead on among five, and up to two links of three types that may lead    *)
(* nowhere.                                                                *)
(***************************************************************************)
EXTENDS Reports, WebClient, Screens, DraftsRefinement
LOCAL INSTANCE TLC

CONSTANTS good, vague, b1, b2

VARIABLE studied

MCNodes == 1..5
MCGone == 6
MCTypes == {"refines", "conflicts-with", "satisfies"}
MCAcyclic == {"refines"}
MCConflict == "conflicts-with"
MCCovering == {"satisfies"}
MCCollection == <<"reqs", "reqs", "tests", "tests", "tests">>
MCSystem == "system"
MCViewed == {1..5, {1, 3, 4, 5}}

UpTo(k, S) ==
    LET f[i \in 0..k] == IF i = 0 THEN {{}}
                         ELSE f[i - 1] \cup {w \cup {l} : w \in f[i - 1], l \in S}
    IN  f[k]
Onward == {p \in (1..5) \X (1..5) : p[1] < p[2]}
Refining(pairs) == {<<p[1], p[2], "refines">> : p \in pairs}
MCWorlds ==
    UpTo(4, Refining((1..4) \X (1..4)))
        \cup UpTo(4, Refining(Onward))
        \cup UpTo(2, {1, 2, 3} \X {1, 3, 4, 6} \X MCTypes)

-----------------------------------------------------------------------------
\* Pages: the queries on show and which of them have just been opened, the
\* mutations and the jobs that may run them, what changes elsewhere, and
\* whether answers keep their order, pages are left, requests fail and the
\* event stream breaks.
MCBrowsed ==
    LET scene(views, opening, mutations, jobs, elsewhere, ordered, leaves, fails, breaks) ==
            [views |-> views, opening |-> opening, mutations |-> mutations, jobs |-> 1..jobs,
             elsewhere |-> elsewhere, ordered |-> ordered, leaves |-> leaves,
             fails |-> fails, breaks |-> breaks]
    IN  [none |-> scene({}, {}, {}, 0, {}, TRUE, FALSE, FALSE, FALSE),
         pages |-> scene({"artifact", "listing"}, {}, {"update"}, 1, {"world"},
                         FALSE, TRUE, FALSE, TRUE),
         proof |-> scene({"backlog", "detail"}, {}, {"draft", "reverify"}, 2, {},
                         FALSE, TRUE, FALSE, FALSE),
         triage |-> scene({"backlog"}, {"backlog"}, {"triage", "seed", "verify"}, 2,
                          {"verdicts"}, TRUE, TRUE, FALSE, FALSE),
         declined |-> scene({"backlog"}, {}, {"triage"}, 1, {}, FALSE, FALSE, TRUE, FALSE),
         lists |-> scene({"pending", "declined"}, {},
                         {"analyze", "accept", "reject", "reinstate"}, 2, {},
                         FALSE, TRUE, FALSE, FALSE),
         settings |-> scene({"config", "providers"}, {"config"},
                            {"saveConfig", "addProvider", "retest"}, 2, {},
                            TRUE, FALSE, TRUE, FALSE)]

\* The scenes are such as the theorem about the pages speaks of.
ASSUME Premises == PagesAreOrderly

-----------------------------------------------------------------------------
\* Drafts: a text both builds accept, one the second rejects.
MCCandidates == {good, vague}
MCBuilds == {b1, b2}
MCGateOf == (b1 :> (good :> "clean" @@ vague :> "warned"))
            @@ (b2 :> (good :> "clean" @@ vague :> "rejected"))
MCVocabOf == [c \in MCCandidates |-> Symbols]

-----------------------------------------------------------------------------
ReportsRest ==
    /\ links = {} /\ shown = {} /\ scope = System
    /\ pc = "asked" /\ walk = [type |-> ""]
WebRests == WebInit /\ browsed = "none"
ScreensRest == ScreensInit /\ screen = "editor"
DraftsRest == Init /\ build = b1 /\ prose = [i \in Items |-> CHOOSE r \in Revisions : TRUE]

ViewsInit ==
    \/ studied = "reports" /\ ReportsInit /\ WebRests /\ ScreensRest /\ DraftsRest
    \/ studied = "pages" /\ ReportsRest /\ WebInit /\ ScreensRest /\ DraftsRest
    \/ studied = "screens" /\ ReportsRest /\ WebRests /\ ScreensInit /\ DraftsRest
    \/ studied = "drafts" /\ ReportsRest /\ WebRests /\ ScreensRest /\ Init

ViewsNext ==
    \/ studied = "reports" /\ ReportsNext /\ UNCHANGED <<studied, webVars, screenVars, vars>>
    \/ studied = "pages" /\ WebNext /\ UNCHANGED <<studied, reportsVars, screenVars, vars>>
    \/ studied = "screens" /\ ScreensNext /\ UNCHANGED <<studied, reportsVars, webVars, vars>>
    \/ studied = "drafts" /\ Next /\ UNCHANGED <<studied, reportsVars, webVars, screenVars>>

ViewsSpec ==
    ViewsInit /\ [][ViewsNext]_<<studied, reportsVars, webVars, screenVars, vars>>
=============================================================================
