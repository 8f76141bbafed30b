----------------------------- MODULE ClaimChecks -----------------------------
(***************************************************************************)
(* From a written requirement to an answer about the subject: a text is    *)
(* parsed and goes through the gate, its symbols are bound to observables, *)
(* the subject and what the operator declared move meanwhile, and `verify` *)
(* grounds the bindings afresh, lowers the claims and runs an engine.      *)
(*                                                                         *)
(* An answer is kept until the next step; what becomes of a stored one     *)
(* that no longer stands is VerifyLoop's subject.                          *)
(***************************************************************************)
EXTENDS PrlSyntax, CodeClaims, ModelClaims, TraceClaims, PageClaims

CONSTANTS Scenes   \* name -> [texts, layouts, observables, worlds]: what a behaviour draws on

VARIABLES scene, source, req, bindings, world, answer

vars == <<scene, source, req, bindings, world, answer>>

(* Nothing typed; otherwise what the author means and how it is laid out.  *)
NoSource == [means |-> NoText, layout |-> [style |-> "none", slip |-> 0]]
NoAnswer == [verdict |-> "none", engine |-> "none"]

EnginesFor(category) ==
    CASE category = "1" -> {"Kani", "Creusot", "Prusti"}
      [] category = "2a" -> {"TLC"}
      [] category = "2b" -> {"MonPoly"}
      [] category = "3" -> {"Selenium"}

(* Whether every symbol is bound and resolves in its category's world.     *)
Grounds(r, b, w) ==
    CASE DefaultCategory(r) = "1" -> CodeGrounds(r, b, w)
      [] DefaultCategory(r) = "2a" -> ModelGrounds(r, b, w)
      [] DefaultCategory(r) = "2b" -> TraceGrounds(r, b, w)
      [] DefaultCategory(r) = "3" -> PageGrounds(r, b, w)

AnswersOf(r, b, w, engine) ==
    CASE DefaultCategory(r) = "1" -> CodeAnswers(r, b, w, engine)
      [] DefaultCategory(r) = "2a" -> ModelAnswers(r, b, w)
      [] DefaultCategory(r) = "2b" -> TraceAnswers(r, b, w)
      [] DefaultCategory(r) = "3" -> PageAnswers(r, b, w)

Init ==
    /\ scene \in DOMAIN Scenes
    /\ world \in Scenes[scene].worlds
    /\ source = NoSource
    /\ req = NoText
    /\ bindings = <<>>
    /\ answer = NoAnswer

(* A new text replaces the requirement and its bindings: what is read of   *)
(* it, or nothing that can be verified when it does not parse or the gate  *)
(* refuses it.                                                             *)
Write(text, layout) ==
    /\ layout.slip = 0 \/ source = NoSource        \* bound: a slip in the first text only
    /\ source' = [means |-> text, layout |-> layout]
    /\ LET read == Parse(Typed(text, layout))
       IN req' = IF read.ok /\ PassesTheGate(read.val) THEN read.val ELSE NoText
    /\ bindings' = <<>>
    /\ answer' = NoAnswer
    /\ UNCHANGED <<scene, world>>

Bind(symbol, observable) ==
    /\ symbol \in Bindable(req)
    /\ bindings' = symbol :> observable @@ bindings
    /\ answer' = NoAnswer
    /\ UNCHANGED <<scene, source, req, world>>

(* The subject's source, its specification, the trace, the deployment or   *)
(* what the operator declares of them changes.                             *)
Move(w) ==
    /\ world' = w
    /\ answer' = NoAnswer
    /\ UNCHANGED <<scene, source, req, bindings>>

(* Grounding is computed live; what does not ground is not checked.        *)
Verify(engine) ==
    /\ req # NoText
    /\ Grounds(req, bindings, world)
    /\ \E v \in AnswersOf(req, bindings, world, engine) :
          answer' = [verdict |-> v, engine |-> engine]
    /\ UNCHANGED <<scene, source, req, bindings, world>>

Next ==
    \/ \E t \in Scenes[scene].texts : \E l \in Scenes[scene].layouts : Write(t, l)
    \/ \E s \in DOMAIN Scenes[scene].observables : \E o \in Scenes[scene].observables[s] : Bind(s, o)
    \/ \E w \in Scenes[scene].worlds : Move(w)
    \/ \E e \in EnginesFor(DefaultCategory(req)) : Verify(e)

Spec == Init /\ [][Next]_vars

(* ------------------------------ properties ----------------------------- *)

(* However generously it is laid out, a requirement is read as it is meant,*)
(* and one the gate accepts is accepted in every layout. A text with a     *)
(* word left out is refused, or every word of its claims is read: none is  *)
(* lost in a term or a duration, past a brace or in another section.       *)
TextIsReadWhole ==
    IF source.layout.slip = 0
    THEN req = IF PassesTheGate(source.means) THEN source.means ELSE NoText
    ELSE req # NoText =>
            Meaningful(req, ClaimWords(Typed(source.means, source.layout)))
                = Meaningful(req, ReadWords(req))

Meaning(r, b, w) ==
    CASE DefaultCategory(r) = "1" -> CodeMeaning(r, b, w)
      [] DefaultCategory(r) = "2a" -> ModelMeaning(r, b, w)
      [] DefaultCategory(r) = "2b" -> TraceMeaning(r, b, w)
      [] DefaultCategory(r) = "3" -> PageMeaning(r, b, w)

(* An engine's answer is about the requirement the operator confirmed: it  *)
(* holds, or fails, of the observables the bindings name exactly when the  *)
(* claims as read back do. Names are looked up in a parsed source, carried *)
(* into a generated program, a formula or a script, and looked up again by *)
(* another tool there, in four different ways.                             *)
AnswersMeanTheClaim ==
    /\ answer.verdict \in {"holds", "not-falsified"} => Meaning(req, bindings, world)
    /\ answer.verdict = "fails" => ~Meaning(req, bindings, world)

(* What an engine ranged over, and which atoms it took for variables.      *)
RanOver(claim) ==
    CASE DefaultCategory(req) = "1" -> DOMAIN Quantified(req, claim, bindings, world)
      [] DefaultCategory(req) = "2a" -> {q.var : q \in ToSet(Generated(claim, bindings).over)}
      [] DefaultCategory(req) = "2b" -> BoundVars(req, claim)
      [] DefaultCategory(req) = "3" -> {}

TakenAsVariables(claim) ==
    IF DefaultCategory(req) = "1"
    THEN ToSet(AtomsOf(claim)) \ DOMAIN CodeHarness(req, claim, bindings, world, "Kani").trueFor
    ELSE {}

(* The read-back shows what was run: when an engine decides, it ranged     *)
(* over the variables the read-back lists and over no others, and took for *)
(* conditions on a variable the atoms the read-back shows as such. The     *)
(* renderer and the four lowerings work these out separately.              *)
ReadBackIsWhatRuns ==
    answer.verdict \in {"holds", "not-falsified", "fails"} =>
        \A claim \in ToSet(req.require) :
            LET back == ReadBack(req, claim) IN
            /\ {r.var : r \in ToSet(back.ranges)} = RanOver(claim)
            /\ back.conditions = TakenAsVariables(claim)

(* A claim warned about as saying nothing is never answered with a failure *)
(* whatever the subject does: `P or not P` always or eventually, `P and    *)
(* not P` never, and `P leads_to P`.                                       *)
SaysNothing(claim) ==
    \/ claim.kind \in {"always", "eventually"} /\ "tautology" \in WarningsOf(claim)
    \/ claim.kind = "never" /\ "contradiction" \in WarningsOf(claim)
    \/ "self leads_to" \in WarningsOf(claim)

VacuousNeverFails ==
    (req # NoText /\ \A claim \in ToSet(req.require) : SaysNothing(claim))
        => answer.verdict # "fails"
=============================================================================
