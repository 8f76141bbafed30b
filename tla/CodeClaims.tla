----------------------------- MODULE CodeClaims -----------------------------
(***************************************************************************)
(* Category 1: a predicate is bound to a function of the subject's Rust    *)
(* and a sort to a type. Bindings are resolved against the parsed source,  *)
(* the claims are lowered to calls in a generated harness, and the         *)
(* compiler and the prover (external) give the answer.                     *)
(*                                                                         *)
(*   world    [fns, types, traits, values]                                 *)
(*   type     [name, module, variants]                                     *)
(*   fn       [name, module, on, trait, receiver, params, returns,         *)
(*             callable, public, logic, gives]                             *)
(*                                                                         *)
(* A path is a sequence of segments. `on` is the type of the impl a method *)
(* stands in (the sequence is empty for a free function), `gives` what the *)
(* function returns, a set of argument tuples per result. Generic          *)
(* arguments of types, and what makes a parameter uncallable, are left     *)
(* out beyond the flag.                                                    *)
(***************************************************************************)
EXTENDS Claims

NoPath == <<>>                      \* nothing is bound, or no type is expected
Outside == <<"outside the crate">>  \* a module no harness can import

BoolType == [name |-> "bool", module |-> <<>>, variants |-> {}]
Primitives == {BoolType}

IsOne(S) == Cardinality(S) = 1
TheOne(S) == CHOOSE x \in S : TRUE

(* --------------------------- resolving a name -------------------------- *)

(* Whether an item's module is the one a written qualifier names: its last *)
(* segments, a leading `crate` aside.                                      *)
ModuleMatches(module, qualifier) ==
    LET q == IF qualifier # <<>> /\ Head(qualifier) = "crate"
             THEN Tail(qualifier) ELSE qualifier
    IN q = <<>> \/ (module # Outside /\ IsSuffix(q, module))

FindFunctions(w, name) == {f \in w.fns : f.name = name}
FindTypes(w, name) == {t \in w.types : t.name = name}

\* A struct has no variants; no enum of the subjects is without.
FindEnums(w, name) == {t \in FindTypes(w, name) : t.variants # {}}
FindMethods(w, type, name) ==
    {f \in w.fns : f.name = name /\ f.on # <<>> /\ f.on[1].name = type}

NotAType == [kind |-> "no", type |-> BoolType]

ResolveType(w, path) ==
    LET byName == FindTypes(w, Last(path))
        found == {t \in byName : ModuleMatches(t.module, Front(path))}
        primitive == {t \in Primitives : t.name = Last(path)}
    IN CASE path = NoPath -> NotAType
         [] path # NoPath /\ IsOne(found) -> [kind |-> "declared", type |-> TheOne(found)]
         [] path # NoPath /\ byName = {} /\ primitive # {} ->
                [kind |-> "primitive", type |-> TheOne(primitive)]
         [] OTHER -> NotAType

Unresolved == [form |-> "no"]

(* A parameter disagrees only where both sides say a type, and the last    *)
(* segment of each is what is compared.                                    *)
ParamsAgree(f, expected) ==
    \A i \in DOMAIN f.params :
        expected[i] # NoPath => Last(expected[i]) = f.params[i].name

Classify(f, expected, form) ==
    IF /\ Len(f.params) = Len(expected)
       /\ f.returns = "bool"
       /\ ParamsAgree(f, expected)
       /\ f.callable
    THEN [form |-> form, fn |-> f]
    ELSE Unresolved

ResolveBare(w, name, expected) ==
    LET found == FindFunctions(w, name)
    IN IF IsOne(found)
       THEN Classify(TheOne(found), expected,
                     IF TheOne(found).receiver THEN "method" ELSE "function")
       ELSE Unresolved

VariantTest(w, f, variant, expected) ==
    LET enums == FindEnums(w, f.returns)
    IN IF /\ Len(f.params) = Len(expected)
          /\ IsOne(enums)
          /\ variant \in TheOne(enums).variants
          /\ ParamsAgree(f, expected)
          /\ f.callable
       THEN [form |-> "variant", fn |-> f, enum |-> TheOne(enums), variant |-> variant]
       ELSE Unresolved

(* A trait's method is called through the trait, which must be declared    *)
(* exactly once; an inherent one by its name on the receiver.              *)
MethodOn(w, type, name, expected) ==
    LET found == {f \in FindMethods(w, type.name, name) :
                    type.module = Outside \/ f.module = Outside \/ f.module = type.module}
        traits(f) == {t \in w.traits : t.name = f.trait}
    IN IF ~IsOne(found) THEN Unresolved
       ELSE LET f == TheOne(found) IN
            CASE f.trait = "" -> Classify(f, expected, "method")
              [] f.trait # "" /\ IsOne(traits(f)) ->
                    LET r == Classify(f, expected, "trait")
                    IN IF r = Unresolved THEN r
                       ELSE [form |-> "trait", fn |-> f, type |-> type,
                             trait |-> TheOne(traits(f))]
              [] OTHER -> Unresolved

ResolveQualified(w, path, expected) ==
    LET module == SubSeq(path, 1, Len(path) - 2)
        qualifier == path[Len(path) - 1]
        fns == {f \in FindFunctions(w, qualifier) : ModuleMatches(f.module, module)}
        types == {t \in FindTypes(w, qualifier) : ModuleMatches(t.module, module)}
    IN CASE IsOne(fns) /\ types = {} -> VariantTest(w, TheOne(fns), Last(path), expected)
         [] fns = {} /\ IsOne(types) -> MethodOn(w, TheOne(types), Last(path), expected)
         [] OTHER -> Unresolved

Resolve(w, path, expected) ==
    CASE path = NoPath -> Unresolved
      [] Len(path) = 1 -> ResolveBare(w, path[1], expected)
      [] OTHER -> ResolveQualified(w, path, expected)

(* ------------------------------- grounding ----------------------------- *)

SortResolution(bindings, w, sort) ==
    IF sort # NoSort /\ sort \in DOMAIN bindings
    THEN ResolveType(w, bindings[sort]) ELSE NotAType

(* The type each parameter of a predicate should take: what the sort of    *)
(* the variable standing there is bound to, where that resolves and every  *)
(* application agrees.                                                     *)
ExpectedParams(req, bindings, w, symbol) ==
    LET saidAt(i) ==
            UNION {{bindings[b.sort] : b \in {x \in ToSet(BindersOf(req, claim)) :
                        /\ SortResolution(bindings, w, x.sort).kind # "no"
                        /\ \E a \in ToSet(AtomsOf(claim)) :
                              /\ a.name = symbol
                              /\ i <= Len(a.args)
                              /\ a.args[i] = x.var}}
                   : claim \in ToSet(req.require)}
    IN [i \in 1..PredicateArity(req, symbol) |->
            IF IsOne(saidAt(i)) THEN TheOne(saidAt(i)) ELSE NoPath]

CodeResolution(req, bindings, w, symbol) ==
    Resolve(w, bindings[symbol], ExpectedParams(req, bindings, w, symbol))

CodeGrounds(req, bindings, w) ==
    /\ Unbound(req, bindings) = {}
    /\ \A s \in DOMAIN bindings :
          IF IsSort(req, s)
          THEN SortResolution(bindings, w, s).kind # "no"
          ELSE CodeResolution(req, bindings, w, s).form # "no"

(* -------------------------------- lowering ----------------------------- *)

Binder(req, claim, var) ==
    CHOOSE b \in ToSet(BindersOf(req, claim)) : b.var = var

(* A variable standing alone must be of the language's own `bool`, as far  *)
(* as its sort tells.                                                      *)
NonBooleanCondition(req, claim, bindings, w) ==
    \E a \in ToSet(AtomsOf(claim)) :
        /\ ReadsAsVariable(req, claim, a)
        /\ LET sort == Binder(req, claim, a.name).sort
               r == SortResolution(bindings, w, sort)
           IN sort = NoSort \/ (r.kind # "no" /\ r.type # BoolType)

(* The items a call names by path; a harness reaches each by its module.   *)
ItemsOfCall(r) ==
    CASE r.form = "function" -> {r.fn.module}
      [] r.form = "method" -> {}
      [] r.form = "trait" -> {r.type.module, r.trait.module}
      [] r.form = "variant" -> {r.fn.module, r.enum.module}

AtomRefused(req, claim, bindings, w, a) ==
    \/ a.guard # <<>>
    \/ /\ ~ReadsAsVariable(req, claim, a)
       /\ \/ a.name \notin DOMAIN bindings
          \/ LET r == CodeResolution(req, bindings, w, a.name) IN
             \/ r.form = "no"
             \/ Len(r.fn.params) # Len(a.args)
             \/ ~(ToSet(a.args) \subseteq BoundVars(req, claim))
             \/ Outside \in ItemsOfCall(r)
             \/ r.form \in {"method", "trait"} /\ a.args = <<>>

DomainRefused(bindings, w, sort) ==
    LET r == SortResolution(bindings, w, sort)
    IN r.kind = "no" \/ r.type.module = Outside

CodeRefusals(req, claim, bindings, w) ==
    (IF NonBooleanCondition(req, claim, bindings, w) THEN {"condition"} ELSE {})
    \cup (IF claim.scope.kind # "globally" THEN {"scope"} ELSE {})
    \cup (IF claim.kind \notin {"always", "never"} THEN {"pattern"} ELSE {})
    \cup (IF \E a \in ToSet(AtomsOf(claim)) : AtomRefused(req, claim, bindings, w, a)
          THEN {"atom"} ELSE {})
    \cup (IF \E b \in ToSet(BindersOf(req, claim)) : DomainRefused(bindings, w, b.sort)
          THEN {"domain"} ELSE {})

(* What the harness ranges over: each binder, with the type of its domain. *)
Quantified(req, claim, bindings, w) ==
    [b \in BoundVars(req, claim) |->
        SortResolution(bindings, w, Binder(req, claim, b).sort).type]

(* Creusot reasons over logic functions: a predicate with a mirror staged  *)
(* in its file is redirected to it, a method's mirror being a free one.    *)
MirrorName(name) == name \o "_logic"

WithMirror(w, r) ==
    LET staged == \E f \in w.fns :
                    f.name = MirrorName(r.fn.name) /\ f.module = r.fn.module
        redirected == [r EXCEPT !.fn = [r.fn EXCEPT !.name = MirrorName(r.fn.name)]]
    IN CASE ~staged -> r
         [] staged /\ r.form = "variant" -> redirected
         [] OTHER -> [form |-> "function", fn |-> redirected.fn]

Lowered(w, engine, r) == IF engine = "Creusot" THEN WithMirror(w, r) ELSE r

(* ------------------ the compiler and the prover (external) ------------- *)

(* Kani imports the crate from outside; the others stand in its root. In a *)
(* Creusot assertion only logic functions may be called.                   *)
Visible(engine, f) ==
    /\ f.public \/ (engine # "Kani" /\ f.module = <<>>)
    /\ engine = "Creusot" => f.logic

(* The function a lowered call reaches, if it compiles: a path names a free *)
(* function, and an inherent method is looked up on its receiver's type.   *)
Reached(w, engine, r, argTypes) ==
    {f \in w.fns :
        /\ f.name = r.fn.name
        /\ f.params = argTypes
        /\ Visible(engine, f)
        /\ CASE r.form \in {"function", "variant"} -> f.on = <<>> /\ f.module = r.fn.module
             [] r.form = "method" -> f.receiver /\ f.trait = "" /\ f.on = <<argTypes[1]>>
             [] r.form = "trait" -> f.trait = r.trait.name /\ f.on = <<r.type>>}

(* The value a call gives: the test of its result, or of its variant.      *)
TrueFor(f, r) == f.gives[IF r.form = "variant" THEN r.variant ELSE "true"]

CodeHarness(req, claim, bindings, w, engine) ==
    LET types == Quantified(req, claim, bindings, w)
        calls == {a \in ToSet(AtomsOf(claim)) : ~ReadsAsVariable(req, claim, a)}
        call(a) == Lowered(w, engine, CodeResolution(req, bindings, w, a.name))
        reached(a) == Reached(w, engine, call(a), [i \in DOMAIN a.args |-> types[a.args[i]]])
    IN [types |-> types,
        compiles |-> \A a \in calls : IsOne(reached(a)),
        trueFor |-> [a \in calls |->
                        IF IsOne(reached(a)) THEN TrueFor(TheOne(reached(a)), call(a)) ELSE {}]]

(* A mirror's contract ties it to its function, and is proved with it.     *)
Linked(req, claim, bindings, w, harness) ==
    \A a \in DOMAIN harness.trueFor :
        LET r == CodeResolution(req, bindings, w, a.name)
        IN harness.trueFor[a] = TrueFor(r.fn, r)

(* The asserted claim, for one choice of the variables.                    *)
CodeAsserts(claim, harness, choice) ==
    LET truth == [a \in ToSet(AtomsOf(claim)) |->
                    IF a \in DOMAIN harness.trueFor
                    THEN [i \in DOMAIN a.args |-> choice[a.args[i]]] \in harness.trueFor[a]
                    ELSE choice[a.name] = "true"]
    IN IF claim.kind = "never" THEN ~Eval(claim.of[1], truth)
       ELSE Eval(claim.of[1], truth)

Assignments(types, w) ==
    {c \in [DOMAIN types -> UNION {w.values[t] : t \in ToSet(<<BoolType>>) \cup w.types}] :
        \A v \in DOMAIN types : c[v] \in w.values[types[v]]}

CodeAnswers(req, bindings, w, engine) ==
    LET claims == ToSet(req.require)
        refused == \E c \in claims : CodeRefusals(req, c, bindings, w) # {}
        harness(c) == CodeHarness(req, c, bindings, w, engine)
        allHold == \A c \in claims : LET h == harness(c) IN
                      \A choice \in Assignments(h.types, w) : CodeAsserts(c, h, choice)
        proved == allHold /\ (engine = "Creusot" =>
                    \A c \in claims : Linked(req, c, bindings, w, harness(c)))
    IN CASE refused -> {"inconclusive"}
         [] ~refused /\ (\E c \in claims : ~harness(c).compiles) -> {"inconclusive"}
         [] OTHER -> IF engine = "Kani"
                     THEN {IF allHold THEN "holds" ELSE "fails"}
                     ELSE {"inconclusive"} \cup (IF proved THEN {"holds"} ELSE {})

(* -------------------- what the confirmed read-back says ---------------- *)

(* The functions an observable names to a reader: by the path it is        *)
(* written under, a method's being its type's.                             *)
FullPath(f) == (IF f.on = <<>> THEN f.module ELSE f.on[1].module \o <<f.on[1].name>>)
               \o <<f.name>>

Written(path) == IF path[1] = "crate" THEN Tail(path) ELSE path

Named(w, path) == {f \in w.fns : IsSuffix(Written(path), FullPath(f))}
NamedTest(w, path) == {f \in w.fns :
    Len(path) > 1 /\ f.returns # "bool" /\ IsSuffix(Front(Written(path)), FullPath(f))}

Extension(w, path) ==
    IF Named(w, path) # {} THEN {f.gives["true"] : f \in Named(w, path)}
    ELSE {f.gives[Last(path)] : f \in {g \in NamedTest(w, path) : Last(path) \in DOMAIN g.gives}}

NamedTypes(w, path) ==
    {t \in w.types \cup Primitives :
        IsSuffix(Written(path), t.module \o <<t.name>>)}

(* The claim as it reads: for every value of each variable, with each      *)
(* predicate the one the operator bound.                                   *)
CodeClaimTrue(req, claim, bindings, w) ==
    LET back == ReadBack(req, claim)
        domain(v) == w.values[TheOne(NamedTypes(w, bindings[
            (CHOOSE i \in ToSet(back.ranges) : i.var = v).sort]))]
        vars == {i.var : i \in ToSet(back.ranges)}
        choices == {c \in [vars -> UNION {domain(v) : v \in vars}] :
                        \A v \in vars : c[v] \in domain(v)}
    IN \A c \in choices :
         LET truth == [a \in ToSet(AtomsOf(claim)) |->
                         IF a \in back.conditions THEN c[a.name] = "true"
                         ELSE \E ext \in Extension(w, bindings[a.name]) :
                                [i \in DOMAIN a.args |-> c[a.args[i]]] \in ext]
         IN Eval(claim.of[1], truth) = (claim.kind = "always")

CodeMeaning(req, bindings, w) ==
    \A i \in DOMAIN req.require : CodeClaimTrue(req, req.require[i], bindings, w)
=============================================================================
