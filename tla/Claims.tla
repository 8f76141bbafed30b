------------------------------- MODULE Claims -------------------------------
(***************************************************************************)
(* The front end of a formal requirement: its abstract syntax, the         *)
(* variables a claim ranges over, the gate (names, arities, fragment), the *)
(* vacuity warnings and the read-back an operator confirms.                *)
(*                                                                         *)
(*   requirement  [category, vocabulary, assume, require]                  *)
(*   declaration  [kind, name, params]     params: one type per parameter  *)
(*   claim        [quantifier, kind, of, within, k, scope]                 *)
(*   expression   [op |-> "atom", atom] or [op, of]                        *)
(*   atom         [name, args, guard]      guard: the words of `with`      *)
(*                                                                         *)
(* What may be absent is a sequence of at most one element. What is only   *)
(* shown (the name, identities, strength, evidence) is left out.           *)
(***************************************************************************)
EXTENDS Integers, Sequences, FiniteSets, SequencesExt

CONSTANTS Variables   \* the argument terms that are plain identifiers

NoSort == ""

(* ------------------------------ the syntax ----------------------------- *)

Holds(a) == [op |-> "atom", atom |-> a]
Negation(e) == [op |-> "not", of |-> <<e>>]
Both(l, r) == [op |-> "and", of |-> <<l, r>>]
Either(l, r) == [op |-> "or", of |-> <<l, r>>]

(* Every application in an expression, left to right.                      *)
RECURSIVE AtomsIn(_)
AtomsIn(e) ==
    IF e.op = "atom" THEN <<e.atom>>
    ELSE FlattenSeq([i \in DOMAIN e.of |-> AtomsIn(e.of[i])])

(* Every application in a claim: its operands, then its scope's bounds.    *)
AtomsOf(claim) ==
    FlattenSeq([i \in DOMAIN claim.of |-> AtomsIn(claim.of[i])]) \o claim.scope.at

Predicates(req) == SelectSeq(req.vocabulary, LAMBDA d : d.kind # "sort")

IsDeclared(req, name) == \E d \in ToSet(Predicates(req)) : d.name = name

(* The parameters of the first event or state declared under the name.     *)
DeclaredParams(req, name) ==
    SelectSeq(Predicates(req), LAMBDA d : d.name = name)[1].params

(* The truth of an expression, given that of its atoms.                    *)
RECURSIVE Eval(_, _)
Eval(e, truth) ==
    CASE e.op = "atom" -> truth[e.atom]
      [] e.op = "not" -> ~Eval(e.of[1], truth)
      [] e.op = "and" -> \A i \in DOMAIN e.of : Eval(e.of[i], truth)
      [] e.op = "or" -> \E i \in DOMAIN e.of : Eval(e.of[i], truth)

(* --------------------- the variables a claim ranges over --------------- *)

(* Only an invariant routed to code is closed over its free variables.     *)
ClosesOverFreeVariables(req, claim) ==
    /\ claim.kind \in {"always", "never"}
    /\ req.category = <<>> \/ "1" \in ToSet(req.category)

(* The variables of an atom, each with the sort declared in its position.  *)
UsesOf(req, atom) ==
    LET sort(i) ==
            IF IsDeclared(req, atom.name) /\ i <= Len(DeclaredParams(req, atom.name))
            THEN DeclaredParams(req, atom.name)[i]
            ELSE NoSort
        all == [i \in DOMAIN atom.args |-> [var |-> atom.args[i], sort |-> sort(i)]]
    IN SelectSeq(all, LAMBDA u : u.var \in Variables)

(* A variable already bound keeps its place; two uses that disagree leave  *)
(* its sort undeclared, unless the operator wrote the binder.              *)
Meet(binders, use) ==
    IF \E b \in ToSet(binders) : b.var = use.var
    THEN [i \in DOMAIN binders |->
            IF /\ binders[i].var = use.var
               /\ ~binders[i].explicit
               /\ binders[i].sort # use.sort
            THEN [binders[i] EXCEPT !.sort = NoSort]
            ELSE binders[i]]
    ELSE Append(binders, [var |-> use.var, sort |-> use.sort, explicit |-> FALSE])

BindersOf(req, claim) ==
    LET written == [i \in DOMAIN claim.quantifier |->
                        [var |-> claim.quantifier[i].var,
                         sort |-> claim.quantifier[i].sort,
                         explicit |-> TRUE]]
        atoms == AtomsOf(claim)
    IN IF ClosesOverFreeVariables(req, claim)
       THEN FoldLeft(Meet, written,
                     FlattenSeq([i \in DOMAIN atoms |-> UsesOf(req, atoms[i])]))
       ELSE written

BoundVars(req, claim) == {b.var : b \in ToSet(BindersOf(req, claim))}

(* ------------------------------- the gate ------------------------------ *)

Declarations(req) == {req.vocabulary[i] : i \in DOMAIN req.vocabulary}

NameErrors(req) ==
    (IF req.require = <<>> THEN {"empty require"} ELSE {})
    \cup (IF \E i, j \in DOMAIN req.vocabulary :
                i # j /\ req.vocabulary[i].name = req.vocabulary[j].name
          THEN {"declared twice"} ELSE {})
    \cup UNION {
        LET a == ToSet(AtomsOf(req.require[i]))
            asCondition(x) == x.args = <<>> /\ x.name \in BoundVars(req, req.require[i])
        IN (IF \E x \in a : ~IsDeclared(req, x.name) /\ ~asCondition(x)
            THEN {"undeclared"} ELSE {})
           \cup (IF \E x \in a : /\ IsDeclared(req, x.name)
                                 /\ Len(DeclaredParams(req, x.name)) # Len(x.args)
                 THEN {"arity"} ELSE {})
        : i \in DOMAIN req.require}

(* Whether the engines of a category cannot express a pattern.             *)
Refuses(category, kind) ==
    CASE category = "1" -> kind \notin {"always", "never"}
      [] category = "2a" -> FALSE
      [] OTHER -> kind = "can_reach"

FragmentErrors(req) ==
    {<<c, i>> \in ToSet(req.category) \X DOMAIN req.require :
        Refuses(c, req.require[i].kind)}

PassesTheGate(req) == NameErrors(req) = {} /\ FragmentErrors(req) = {}

(* Mutant: the arguments of an application are not compared.               *)
ComplementaryByName(l, r) ==
    LET name(e) == [i \in DOMAIN AtomsIn(e) |-> AtomsIn(e)[i].name]
    IN IF l.op = "not" THEN name(l.of[1]) = name(r)
       ELSE r.op = "not" /\ name(r.of[1]) = name(l)

(* The two halves of `P or not P`, in either order.                        *)
Complementary(l, r) ==
    IF l.op = "not" THEN l.of[1] = r
    ELSE r.op = "not" /\ r.of[1] = l

WarningsOf(claim) ==
    (IF claim.kind = "leads_to" /\ claim.of[1] = claim.of[2] THEN {"self leads_to"} ELSE {})
    \cup (IF claim.kind = "precedes" /\ claim.of[1] = claim.of[2]
          THEN {"self precedes"} ELSE {})
    \cup (IF claim.kind = "occurs_at_most" /\ claim.k = 0 THEN {"at most zero"} ELSE {})
    \cup UNION {
        LET e == claim.of[i] IN
        CASE e.op = "or" /\ Complementary(e.of[1], e.of[2]) -> {"tautology"}
          [] e.op = "and" /\ Complementary(e.of[1], e.of[2]) -> {"contradiction"}
          [] OTHER -> {}
        : i \in DOMAIN claim.of}

(* ------------------------------ the read-back -------------------------- *)

(* A bare name that is one of the claim's variables is read back as a      *)
(* condition on it, every other atom as the predicate it names.            *)
ReadsAsVariable(req, claim, atom) ==
    atom.args = <<>> /\ atom.name \in BoundVars(req, claim)

(* Mutant: only a variable with a written quantifier reads as a condition. *)
ReadBackOfWritten(req, claim) ==
    [ranges |-> [i \in DOMAIN BindersOf(req, claim) |->
                    [var |-> BindersOf(req, claim)[i].var,
                     sort |-> BindersOf(req, claim)[i].sort]],
     conditions |-> {a \in ToSet(AtomsOf(claim)) :
                        a.args = <<>> /\ a.name \in {q.var : q \in ToSet(claim.quantifier)}}]

ReadBack(req, claim) ==
    [ranges |-> [i \in DOMAIN BindersOf(req, claim) |->
                    [var |-> BindersOf(req, claim)[i].var,
                     sort |-> BindersOf(req, claim)[i].sort]],
     conditions |-> {a \in ToSet(AtomsOf(claim)) : ReadsAsVariable(req, claim, a)}]

(* --------------------------- what must be bound ------------------------ *)

BindableSymbols(req) == {d.name : d \in ToSet(Predicates(req))}

BindableSorts(req) ==
    ({d.name : d \in {x \in Declarations(req) : x.kind = "sort"}}
     \cup UNION {ToSet(d.params) : d \in ToSet(Predicates(req))}
     \cup {q.sort : q \in UNION {ToSet(req.require[i].quantifier) : i \in DOMAIN req.require}})
    \ {NoSort}

Bindable(req) == BindableSymbols(req) \cup BindableSorts(req)

(* Decides which resolver answers for a name; a sort wins over a predicate. *)
IsSort(req, symbol) == symbol \in BindableSorts(req)

PredicateArity(req, symbol) ==
    IF IsDeclared(req, symbol) THEN Len(DeclaredParams(req, symbol)) ELSE 0

Unbound(req, bindings) == Bindable(req) \ DOMAIN bindings

(* Bindings live in the first category the requirement declares.           *)
DefaultCategory(req) == IF req.category = <<>> THEN "1" ELSE req.category[1]
=============================================================================
