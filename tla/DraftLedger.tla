---------------------------- MODULE DraftLedger ----------------------------
(***************************************************************************)
(* What drafts.yml promises its users: a ledger of drafts in which every   *)
(* request takes effect at once, on its own item and on no other.  The     *)
(* only other thing that can happen to the ledger is that the file is      *)
(* damaged, after which nothing is read from it or written to it: it is    *)
(* never mistaken for an empty ledger.                                     *)
(***************************************************************************)
EXTENDS DraftState

VARIABLES ledger, intact

vars == <<ledger, intact>>

Init == ledger = [i \in Items |-> NoDraft] /\ intact = TRUE

\* set_candidate and translate: a candidate written against a revision.
Author(i) ==
    \E r \in Revisions, c \in Candidates, b \in Builds :
        ledger' = SetCandidate(ledger, i, r, c, GateOf[b][c])

Start(i) == \E r \in Revisions : ledger' = Open(ledger, i, r)

Recheck(i) ==
    /\ HasCandidate(ledger[i])
    /\ \E b \in Builds :
        ledger' = SetGate(ledger, i, GateOf[b][ledger[i].candidate])

Bind(i) ==
    \E s \in Symbols, b \in Builds :
        /\ CanGround(ledger[i], b, s)
        /\ ledger' = SetBinding(ledger, i, s)

Admit(i) ==
    \E b \in Builds, who \in {"web", "console"},
       seen \in Candidates \cup {NoCandidate} :
        /\ CanAdmit(ledger[i], b, TRUE)
        /\ ledger' = AdmitGated(ledger, i, b, who, seen)

Drop(i) == ledger' = Discard(ledger, i)

Request(i) ==
    Author(i) \/ Start(i) \/ Recheck(i) \/ Bind(i) \/ Admit(i) \/ Drop(i)

Serve == intact /\ UNCHANGED intact /\ \E i \in Items : Request(i)

Damage == intact' = FALSE /\ UNCHANGED ledger

Next == Serve \/ Damage

Spec == Init /\ [][Next]_vars
=============================================================================
