----------------------------- MODULE PageClaims -----------------------------
(***************************************************************************)
(* Category 3: predicates are bound to the steps the operator declares,    *)
(* one claim is lowered to a script of actions and one observation, and a  *)
(* browser drives it against the deployment (external).                    *)
(*                                                                         *)
(*   world    [declared, steps, shows]                                     *)
(*   step     [kind, what]        kind: goto, click or text_present        *)
(*   shows    script -> looks     each look is the set of texts on the page *)
(*                                                                         *)
(* A script absent from `shows` is one the deployment cannot be driven     *)
(* through. The WebDriver session and its timeouts are left out.           *)
(***************************************************************************)
EXTENDS Claims

(* ------------------------------- grounding ----------------------------- *)

(* A sort has no domain a driver could range over.                         *)
PageResolves(req, bindings, w, symbol) ==
    /\ ~IsSort(req, symbol)
    /\ w.declared
    /\ bindings[symbol] \in DOMAIN w.steps
    /\ PredicateArity(req, symbol) = 0

PageGrounds(req, bindings, w) ==
    /\ Unbound(req, bindings) = {}
    /\ \A s \in DOMAIN bindings : PageResolves(req, bindings, w, s)

(* -------------------------------- lowering ----------------------------- *)

StepFor(a, bindings, w) ==
    IF a.name \in DOMAIN bindings /\ bindings[a.name] \in DOMAIN w.steps
    THEN {w.steps[bindings[a.name]]} ELSE {}

ActionFor(a, bindings, w) ==
    {s \in StepFor(a, bindings, w) : s.kind \in {"goto", "click"}}
ObservationFor(a, bindings, w) ==
    {s \in StepFor(a, bindings, w) : s.kind = "text_present"}

SingleAtom(e) == IF e.op = "atom" THEN {e.atom} ELSE {}

(* The atom an observation looks for, and whether it must be absent.       *)
ObservationOperand(e) ==
    IF e.op = "not" THEN {<<a, TRUE>> : a \in SingleAtom(e.of[1])}
    ELSE {<<a, FALSE>> : a \in SingleAtom(e)}

(* The scripts of a scope that a run can honour: none to do first, or one. *)
Setups(claim, bindings, w) ==
    CASE claim.scope.kind = "globally" -> {<<>>}
      [] claim.scope.kind = "after" ->
            {<<s>> : s \in ActionFor(claim.scope.at[1], bindings, w)}
      [] OTHER -> {}

Actions(claim, bindings, w) ==
    IF claim.kind = "leads_to"
    THEN {<<s>> : s \in UNION {ActionFor(a, bindings, w) : a \in SingleAtom(claim.of[1])}}
    ELSE {<<>>}

Checks(claim, bindings, w) ==
    UNION {{[text |-> s.what, absent |-> p[2] # (claim.kind = "never")] :
                s \in ObservationFor(p[1], bindings, w)} :
            p \in ObservationOperand(Last(claim.of))}

(* The lowered claim, or none. A deadline is not read.                     *)
UiClaims(req, claim, bindings, w) ==
    IF BindersOf(req, claim) # <<>> \/ claim.kind \notin {"leads_to", "always", "never"}
    THEN {}
    ELSE {[steps |-> s \o t, expect |-> c.text, absent |-> c.absent] :
            s \in Setups(claim, bindings, w),
            t \in Actions(claim, bindings, w),
            c \in Checks(claim, bindings, w)}

(* ---------------------------- driving the page ------------------------- *)

(* The run looks again until the text is there or the window is over.      *)
Present(w, ui) ==
    \E i \in DOMAIN w.shows[ui.steps] : ui.expect \in w.shows[ui.steps][i]

DriveAnswer(w, ui) ==
    CASE ui.steps \notin DOMAIN w.shows -> "inconclusive"
      [] ui.steps \in DOMAIN w.shows /\ Present(w, ui) # ui.absent -> "not-falsified"
      [] OTHER -> "fails"

PageAnswers(req, bindings, w) ==
    IF ~w.declared \/ Len(req.require) # 1 THEN {"inconclusive"}
    ELSE LET uis == UiClaims(req, req.require[1], bindings, w)
         IN IF uis = {} THEN {"inconclusive"} ELSE {DriveAnswer(w, ui) : ui \in uis}

(* -------------------- what the confirmed read-back says ---------------- *)

(* The script an operator would run by hand.                               *)
ByHand(claim, bindings, w) ==
    [i \in DOMAIN claim.scope.at |-> w.steps[bindings[claim.scope.at[i].name]]]
    \o (IF claim.kind = "leads_to" THEN <<w.steps[bindings[claim.of[1].atom.name]]>> ELSE <<>>)

(* The response of `leads_to` holds at some look, one a second, in time.   *)
(* An invariant is of the page as it settles: a text holds of it when it   *)
(* came to be shown.                                                       *)
PageMeaning(req, bindings, w) ==
    LET claim == req.require[1]
        looks == w.shows[ByHand(claim, bindings, w)]
        observed == Last(claim.of)
        holdsOf(texts) ==
            Eval(observed, [a \in ToSet(AtomsIn(observed)) |->
                                w.steps[bindings[a.name]].what \in texts])
        inTime(i) == \A d \in ToSet(claim.within) : i <= d.value + 1
    IN CASE claim.kind = "leads_to" -> \E i \in DOMAIN looks : inTime(i) /\ holdsOf(looks[i])
         [] claim.kind = "always" -> holdsOf(UNION ToSet(looks))
         [] claim.kind = "never" -> ~holdsOf(UNION ToSet(looks))
=============================================================================
