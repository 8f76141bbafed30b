---------------------------- MODULE ModelClaims ----------------------------
(***************************************************************************)
(* Category 2a: predicates and sorts are bound to definitions of the       *)
(* subject's TLA+, and the claims are lowered to invariants and temporal   *)
(* properties of a generated module that TLC (external) checks.            *)
(*                                                                         *)
(*   world  [defs, sets, runs]                                             *)
(*   def    [name, arity, stated, visible]                                 *)
(*   run    [steps, loop]   a behaviour that returns to step `loop`        *)
(*                                                                         *)
(* `stated` tells whether the definition's line shows its arity, `visible` *)
(* whether the module that holds the specification reaches it. `sets` maps *)
(* the definitions that are sets to their elements; a step is the set of   *)
(* applications <<name, arguments>> true there. Constants and the spec     *)
(* operator are left out.                                                  *)
(***************************************************************************)
EXTENDS Claims

(* ------------------------------- grounding ----------------------------- *)

ModelResolves(req, bindings, w, symbol) ==
    LET found == {d \in w.defs : d.name = bindings[symbol]}
    IN /\ Cardinality(found) = 1
       /\ \A d \in found : d.stated => d.arity = PredicateArity(req, symbol)

ModelGrounds(req, bindings, w) ==
    /\ Unbound(req, bindings) = {}
    /\ \A s \in DOMAIN bindings : ModelResolves(req, bindings, w, s)

(* -------------------------------- lowering ----------------------------- *)

(* Only the written quantifier is lowered, and only its variable may be an *)
(* argument. A bare name is the definition bound to it.                    *)
ModelAtomRefused(claim, bindings, a) ==
    \/ a.guard # <<>>
    \/ a.name \notin DOMAIN bindings
    \/ \E v \in ToSet(a.args) : \A q \in ToSet(claim.quantifier) : q.var # v

ModelRefusals(claim, bindings) ==
    (IF claim.scope.kind # "globally" THEN {"scope"} ELSE {})
    \cup (IF claim.kind \notin {"always", "never", "eventually", "leads_to"}
          THEN {"pattern"} ELSE {})
    \cup (IF claim.within # <<>> THEN {"metric"} ELSE {})
    \cup (IF \E a \in ToSet(AtomsOf(claim)) : ModelAtomRefused(claim, bindings, a)
          THEN {"atom"} ELSE {})
    \cup (IF \E q \in ToSet(claim.quantifier) : q.sort \notin DOMAIN bindings
          THEN {"domain"} ELSE {})

RECURSIVE LowerExpr(_, _)
LowerExpr(e, bindings) ==
    IF e.op = "atom"
    THEN Holds([name |-> bindings[e.atom.name], args |-> e.atom.args])
    ELSE [op |-> e.op, of |-> [i \in DOMAIN e.of |-> LowerExpr(e.of[i], bindings)]]

(* One generated definition: its quantifier, and a state predicate or the  *)
(* operands of a temporal operator.                                        *)
Generated(claim, bindings) ==
    LET body == [i \in DOMAIN claim.of |-> LowerExpr(claim.of[i], bindings)]
    IN [over |-> [i \in DOMAIN claim.quantifier |->
                    [var |-> claim.quantifier[i].var,
                     set |-> bindings[claim.quantifier[i].sort]]],
        op |-> CASE claim.kind \in {"always", "never"} -> "state"
                 [] claim.kind = "eventually" -> "diamond"
                 [] claim.kind = "leads_to" -> "leadsto",
        of |-> IF claim.kind = "never" THEN <<Negation(body[1])>> ELSE body]

(* The two halves of the generated module.                                 *)
Invariants(req, bindings) ==
    {Generated(c, bindings) :
        c \in {x \in ToSet(req.require) : x.kind \in {"always", "never"}}}
Properties(req, bindings) ==
    {Generated(c, bindings) :
        c \in {x \in ToSet(req.require) : x.kind \notin {"always", "never"}}}

(* ----------------------------- TLC (external) -------------------------- *)

Values(over, w) ==
    IF over = <<>> THEN {<<>>} ELSE {<<v>> : v \in w.sets[over[1].set]}

(* A definition names its variables' values by position in `over`.         *)
InState(e, over, value, state) ==
    LET truth == [a \in ToSet(AtomsIn(e)) |->
                    <<a.name, [i \in DOMAIN a.args |-> value[1]]>> \in state]
    IN Eval(e, truth)

Positions(run) == DOMAIN run.steps
(* The steps at or after a position, in a run that returns to its loop.    *)
From(run, i) == {j \in Positions(run) : j >= i \/ j >= run.loop}

OfRun(g, value, run) ==
    LET at(k, i) == InState(g.of[k], g.over, value, run.steps[i]) IN
    CASE g.op = "state" -> \A i \in Positions(run) : at(1, i)
      [] g.op = "diamond" -> \E i \in Positions(run) : at(1, i)
      [] g.op = "leadsto" ->
            \A i \in Positions(run) : at(1, i) => \E j \in From(run, i) : at(2, j)

(* The generated module parses when everything it names is reached from    *)
(* the specification's module, as what it is used as.                      *)
Parses(req, bindings, w) ==
    LET reached(name, arity) ==
            \E d \in w.defs : d.name = name /\ d.visible /\ d.arity = arity
        g == Invariants(req, bindings) \cup Properties(req, bindings)
    IN \A x \in g :
        /\ \A q \in ToSet(x.over) : reached(q.set, 0) /\ q.set \in DOMAIN w.sets
        /\ \A a \in UNION {ToSet(AtomsIn(x.of[i])) : i \in DOMAIN x.of} :
              reached(a.name, Len(a.args))

ModelAnswers(req, bindings, w) ==
    LET claims == ToSet(req.require)
        refused == \E c \in claims : ModelRefusals(c, bindings) # {}
        holds == \A g \in Invariants(req, bindings) \cup Properties(req, bindings) :
                    \A v \in Values(g.over, w), r \in w.runs : OfRun(g, v, r)
    IN CASE refused -> {"inconclusive"}
         [] ~refused /\ ~Parses(req, bindings, w) -> {"inconclusive"}
         [] OTHER -> {IF holds THEN "holds" ELSE "fails"}

(* -------------------- what the confirmed read-back says ---------------- *)

(* Every variable the read-back ranges over takes every value of its set.  *)
ModelChoices(req, claim, bindings, w) ==
    LET back == ToSet(ReadBack(req, claim).ranges)
        set(v) == w.sets[bindings[(CHOOSE r \in back : r.var = v).sort]]
        vars == {r.var : r \in back}
    IN {c \in [vars -> UNION {set(v) : v \in vars}] : \A v \in vars : c[v] \in set(v)}

ModelClaimTrue(req, claim, bindings, w) ==
    \A run \in w.runs, c \in ModelChoices(req, claim, bindings, w) :
        LET holdsAt(k, i) ==
                Eval(claim.of[k],
                     [a \in ToSet(AtomsIn(claim.of[k])) |->
                        <<bindings[a.name], [n \in DOMAIN a.args |-> c[a.args[n]]]>>
                            \in run.steps[i]])
            everHolds(k) == {i \in Positions(run) : holdsAt(k, i)}
            recurs(k) == {i \in everHolds(k) : i >= run.loop} # {}
        IN CASE claim.kind = "always" -> everHolds(1) = Positions(run)
             [] claim.kind = "never" -> everHolds(1) = {}
             [] claim.kind = "eventually" -> everHolds(1) # {}
             [] claim.kind = "leads_to" ->
                   recurs(2) \/ \A i \in everHolds(1) : \E j \in everHolds(2) : j >= i
             [] OTHER -> TRUE

ModelMeaning(req, bindings, w) ==
    \A i \in DOMAIN req.require : ModelClaimTrue(req, req.require[i], bindings, w)
=============================================================================
