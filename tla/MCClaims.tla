------------------------------ MODULE MCClaims ------------------------------
EXTENDS ClaimChecks

MCVariables == {"x", "y", "z", "b", "m"}

(* -------------------------------- texts -------------------------------- *)

App(name, args) == Holds([name |-> name, args |-> args, guard |-> <<>>])
Guarded(name, args) ==
    Holds([name |-> name, args |-> args, guard |-> <<<<"x", "=", "(", "y", "or", "z", ")">>>>])
Always_ == [kind |-> "globally", at |-> <<>>]
After(e) == [kind |-> "after", at |-> <<e.atom>>]
Claim(kind, of) == [quantifier |-> <<>>, kind |-> kind, of |-> of, within |-> <<>>,
                    k |-> 0, scope |-> Always_]
Each(var, sort, c) == [c EXCEPT !.quantifier = <<[var |-> var, sort |-> sort]>>]
Within(value, unit, c) == [c EXCEPT !.within = <<[value |-> value, unit |-> unit]>>]
Scoped(s, c) == [c EXCEPT !.scope = s]
State_(name, params) == [kind |-> "state", name |-> name, params |-> params]
Event(name, params) == [kind |-> "event", name |-> name, params |-> params]
Sort(name) == [kind |-> "sort", name |-> name, params |-> <<>>]
Text(category, vocabulary, require) ==
    [category |-> category, vocabulary |-> vocabulary, assume |-> <<>>, require |-> require]
Layout(style) == [style |-> style, slip |-> 0]
Texts(category, vocabulary, claims) ==
    {Text(category, vocabulary, <<c>>) : c \in claims}

px == App("p", <<"x">>)
py == App("p", <<"y">>)
qyx == App("q", <<"y", "x">>)
rxb == App("r", <<"x", "b">>)
OneSort == <<State_("p", <<"E">>)>>
TwoSorts == <<State_("p", <<"E">>), State_("q", <<"Q", "E">>)>>
WithBool == <<State_("r", <<"E", "B">>)>>
Crossed == <<State_("p", <<"E">>), State_("s", <<"Q">>)>>

CodeTexts ==
    Texts(<<"1">>, OneSort, {
        Claim("always", <<px>>), Claim("never", <<px>>),
        Claim("always", <<Either(px, Negation(px))>>),
        Claim("always", <<Either(px, Negation(py))>>),
        Claim("never", <<Both(Negation(px), px)>>),
        Each("x", "E", Claim("never", <<Negation(px)>>)),
        Scoped(After(px), Claim("always", <<px>>)),
        Claim("always", <<Guarded("p", <<"x">>)>>),
        Claim("always", <<App("p", <<"7">>)>>),
        Claim("eventually", <<px>>), Claim("always", <<App("p", <<>>)>>)})
    \cup Texts(<<>>, TwoSorts, {
        Claim("never", <<Both(qyx, px)>>),
        Claim("always", <<Either(Negation(qyx), px)>>),
        Claim("leads_to", <<px, qyx>>)})
    \cup Texts(<<"1">>, WithBool, {
        Claim("always", <<Either(Negation(rxb), App("b", <<>>))>>),
        Claim("always", <<Either(rxb, App("b", <<>>))>>),
        Claim("never", <<Both(rxb, App("x", <<>>))>>)})
    \cup Texts(<<"1">>, Crossed, {
        Claim("always", <<Either(px, App("s", <<"x">>))>>),
        Each("x", "Q", Claim("always", <<Either(px, App("s", <<"x">>))>>))})
    \cup {Text(<<"1">>, OneSort, <<Claim("always", <<px>>), Claim("never", <<px>>)>>)}

(* ---------------------------- a Rust subject --------------------------- *)

Entry == [name |-> "Entry", module |-> <<"alpha">>, variants |-> {}]
Queue == [name |-> "Queue", module |-> <<"beta">>, variants |-> {}]
Phase == [name |-> "Phase", module |-> <<"alpha">>, variants |-> {"Open", "Shut"}]
Namesake == [name |-> "Entry", module |-> <<"beta">>, variants |-> {}]
Domain == Entry :> {"e1", "e2"} @@ Queue :> {"q1"} @@ Phase :> {"Open", "Shut"}
          @@ Namesake :> {"n1", "n2"} @@ BoolType :> {"true", "false"}

Fn(name, module, params, yes) ==
    [name |-> name, module |-> module, on |-> <<>>, trait |-> "", receiver |-> FALSE,
     params |-> params, returns |-> "bool", callable |-> TRUE, public |-> TRUE, logic |-> FALSE,
     gives |-> [true |-> yes]]
Method(type, f) == [f EXCEPT !.on = <<type>>, !.receiver = TRUE]

Pending(yes) == Fn("pending", <<"alpha">>, <<Entry>>, yes)
IsClear(yes) == Method(Entry, Fn("is_clear", <<"alpha">>, <<Entry>>, yes))
HoldsEntry == Method(Queue, Fn("holds", <<"beta">>, <<Queue, Entry>>, {<<"q1", "e1">>}))
Drained == [Method(Queue, Fn("drained", <<"beta">>, <<Queue>>, {})) EXCEPT !.trait = "Drain"]
Flagged == Fn("flagged", <<"beta">>, <<Entry, BoolType>>, {<<"e1", "true">>, <<"e2", "true">>})
PhaseOf == [Fn("phase_of", <<"alpha">>, <<Entry>>, {})
              EXCEPT !.returns = "Phase",
                     !.gives = [Open |-> {<<"e1">>}, Shut |-> {<<"e2">>}]]
OfEntry == [Fn("known", <<"alpha">>, <<Entry>>, {<<"e1">>}) EXCEPT !.on = <<Entry>>]

Mirror(f) == [f EXCEPT !.name = MirrorName(f.name), !.on = <<>>, !.receiver = FALSE,
                       !.logic = TRUE]

Drain == [name |-> "Drain", module |-> <<"beta">>]
CodeWorld(fns) == [fns |-> fns, types |-> {Entry, Queue, Phase}, traits |-> {Drain},
                   values |-> Domain]
Steady == {HoldsEntry, Drained, Flagged, PhaseOf, OfEntry}
Built == CodeWorld(Steady \cup {Pending({<<"e1">>, <<"e2">>}), IsClear({<<"e2">>}),
                                Mirror(Pending({<<"e1">>, <<"e2">>})), Mirror(PhaseOf)})
(* Its mirror of `is_clear` still says what the function once did.         *)
Broken == CodeWorld(Steady \cup {Pending({<<"e1">>}), IsClear({}),
                                 Mirror(IsClear({<<"e1">>, <<"e2">>})), Mirror(HoldsEntry)})
(* A second function of the name, a private one, one only a test target    *)
(* holds, a parameter no harness can supply, a method moved to a trait.    *)
Doubled == CodeWorld(Steady \cup {Pending({<<"e1">>}), Fn("pending", <<"beta">>, <<Queue>>, {})})
Hidden == CodeWorld({[Pending({<<"e1">>}) EXCEPT !.public = FALSE],
                     [IsClear({<<"e1">>}) EXCEPT !.callable = FALSE]} \cup Steady)
Apart == CodeWorld(Steady \cup {[Pending({<<"e1">>}) EXCEPT !.module = Outside],
                                [IsClear({<<"e1">>}) EXCEPT !.trait = "Drain"]})

CodeObservables ==
    [E |-> {<<"Entry">>, <<"crate", "alpha", "Entry">>, <<"Queue">>},
     Q |-> {<<"beta", "Queue">>}, B |-> {<<"bool">>, <<"Phase">>},
     p |-> {<<"pending">>, <<"is_clear">>, <<"Entry", "is_clear">>, <<"phase_of", "Open">>,
            <<"known">>, <<"beta", "Entry", "is_clear">>},
     q |-> {<<"holds">>, <<"Queue", "holds">>}, r |-> {<<"flagged">>},
     s |-> {<<"Queue", "drained">>, <<"drained">>}]

CodeScene == [texts |-> CodeTexts, layouts |-> {Layout("plain")}, observables |-> CodeObservables,
              worlds |-> {Built, Broken, Doubled, Hidden, Apart}]

(* ----------------------------- a TLA+ subject -------------------------- *)

done == App("p", <<"x">>)
busy == App("q", <<>>)
ModelVocabulary == <<State_("p", <<"E">>), State_("q", <<>>)>>
ModelTexts ==
    Texts(<<"2a">>, ModelVocabulary, {
        Each("x", "E", Claim("always", <<Either(done, busy)>>)),
        Each("x", "E", Claim("never", <<Both(done, busy)>>)),
        Each("x", "E", Claim("eventually", <<done>>)),
        Each("x", "E", Claim("leads_to", <<busy, done>>)),
        Each("x", "E", Claim("leads_to", <<done, done>>)),
        Each("x", "E", Within(5, "s", Claim("leads_to", <<busy, done>>))),
        Each("x", "E", Claim("precedes", <<busy, done>>)),
        Each("x", "E", Scoped(After(busy), Claim("always", <<done>>))),
        Claim("always", <<done>>), Claim("always", <<Either(busy, Negation(busy))>>),
        Claim("can_reach", <<busy>>)})
    \cup {Text(<<"2a">>, ModelVocabulary, <<
             Each("x", "E", Claim("never", <<Both(done, busy)>>)),
             Each("x", "E", Claim("leads_to", <<busy, done>>))>>),
          Text(<<"2a", "1">>, ModelVocabulary, <<Claim("always", <<Either(done, busy)>>)>>)}

Def(name, arity) == [name |-> name, arity |-> arity, stated |-> TRUE, visible |-> TRUE]
Defs == {Def("Done", 1), Def("Busy", 0), Def("Jobs", 0), Def("None", 0),
         [Def("Alone", 1) EXCEPT !.visible = FALSE], [Def("Odd", 1) EXCEPT !.stated = FALSE]}
DoneOf(j) == <<"Done", <<j>>>>
BusyNow == <<"Busy", <<>>>>
ModelWorld(runs) ==
    [defs |-> Defs, sets |-> [Jobs |-> {"j1", "j2"}, None |-> {}], runs |-> runs]
Run(steps, loop) == [steps |-> steps, loop |-> loop]
Finishes == Run(<<{BusyNow}, {BusyNow, DoneOf("j1")}, {DoneOf("j1"), DoneOf("j2")}>>, 3)
Cycles == Run(<<{BusyNow}, {DoneOf("j1"), DoneOf("j2")}>>, 1)
OneLeft == Run(<<{BusyNow}, {DoneOf("j1")}>>, 2)
Idle == Run(<<{}>>, 1)
(* The definition of a name is written twice. *)
TwiceDefined == [ModelWorld({Cycles}) EXCEPT
                    !.defs = @ \cup {[Def("Busy", 1) EXCEPT !.visible = FALSE]}]

ModelScene == [texts |-> ModelTexts, layouts |-> {Layout("generous")},
               observables |-> [E |-> {"Jobs", "None", "Busy"}, p |-> {"Done", "Odd", "Alone"},
                                q |-> {"Busy", "Done"}],
               worlds |-> {ModelWorld({Cycles}), ModelWorld({Finishes, Cycles}),
                           ModelWorld({OneLeft}), ModelWorld({Idle, OneLeft}), TwiceDefined}]

(* -------------------------------- a trace ------------------------------ *)

accepted == App("p", <<"m">>)
answered == App("q", <<"m">>)
TraceVocabulary == <<Event("p", <<"E">>), Event("q", <<"E">>)>>
Deadline(value, unit, of) == Each("m", "E", Within(value, unit, Claim("leads_to", of)))
TraceTexts ==
    Texts(<<"2b">>, TraceVocabulary, {
        Deadline(2, "s", <<accepted, answered>>), Deadline(1, "m", <<accepted, answered>>),
        Deadline(2, "ms", <<accepted, answered>>), Deadline(2, "s", <<accepted, accepted>>),
        Deadline(2, "s", <<Negation(accepted), answered>>),
        Deadline(2, "s", <<accepted, Either(answered, accepted)>>),
        Deadline(0, "s", <<Either(accepted, answered), answered>>),
        Within(2, "s", Claim("leads_to", <<accepted, answered>>)),
        Each("m", "E", Claim("leads_to", <<accepted, answered>>)),
        Each("m", "E", Claim("always", <<accepted>>))})
    \cup {Text(<<"2b">>, TraceVocabulary, <<Deadline(2, "s", <<accepted, answered>>),
                                            Deadline(9, "s", <<answered, accepted>>)>>)}

Record(time, event, id) == [time |-> time, event |-> event, fields |-> [id |-> id]]
Beat(time) == [time |-> time, event |-> "beat", fields |-> <<>>]
Mute(time) == [time |-> time, event |-> NoEvent, fields |-> <<>>]
EventsOf == [acc |-> [name |-> "accepted", args |-> <<"id">>],
             fin |-> [name |-> "done", args |-> <<"id">>],
             who |-> [name |-> "asked", args |-> <<"id", "by">>]]
TraceWorld(trace) == [declared |-> TRUE, events |-> EventsOf, trace |-> trace]
A(t) == Record(t, "accepted", "a")
Traces == {
    <<A(0), Record(2, "done", "a"), Beat(9)>>, <<A(0), Record(3, "done", "a"), Beat(9)>>,
    <<A(0), Record(1, "done", "b"), Mute(9)>>, <<A(0), Beat(2)>>, <<A(0), Beat(3)>>,
    <<Record(0, "done", "a"), A(0), Beat(70)>>, <<A(0), Record(50, "done", "a"), A(61), Beat(90)>>,
    <<A(0), [Record(1, "done", "a") EXCEPT !.fields = <<>>], Mute(70)>>,
    <<A(0), Beat(NoTime), Beat(9)>>, <<>>}

TraceScene == [texts |-> TraceTexts, layouts |-> {Layout("one line")},
               observables |-> [E |-> {"Message"}, p |-> {"acc", "who"}, q |-> {"fin", "acc", "gone"}],
               worlds |-> {TraceWorld(t) : t \in Traces}
                          \cup {[TraceWorld(<<A(0)>>) EXCEPT !.declared = FALSE]}]

(* --------------------------------- a page ------------------------------ *)

pay == App("p", <<>>)
total == App("q", <<>>)
PageVocabulary == <<Event("p", <<>>), State_("q", <<>>)>>
PageTexts ==
    Texts(<<"3">>, PageVocabulary, {
        Claim("leads_to", <<pay, total>>), Claim("leads_to", <<total, pay>>),
        Claim("leads_to", <<Both(pay, pay), total>>),
        Claim("always", <<total>>), Claim("never", <<total>>),
        Claim("always", <<Negation(total)>>), Claim("never", <<Negation(total)>>),
        Scoped(After(pay), Claim("always", <<total>>)),
        Scoped(After(pay), Claim("never", <<total>>)),
        Scoped(After(pay), Claim("leads_to", <<pay, total>>)),
        Claim("eventually", <<total>>),
        Claim("always", <<Either(total, Negation(total))>>)})
    \cup Texts(<<"3">>, <<Event("p", <<"E">>), State_("q", <<>>)>>, {Claim("always", <<total>>)})

Steps == [pay |-> [kind |-> "click", what |-> "pay"],
          open |-> [kind |-> "goto", what |-> "cart"],
          sum |-> [kind |-> "text_present", what |-> "sum"],
          err |-> [kind |-> "text_present", what |-> "error"]]
Looks(at, after) == <<>> :> at @@ <<Steps.pay>> :> after @@ <<Steps.open>> :> <<{}>>
                    @@ <<Steps.pay, Steps.pay>> :> after
PageWorld(shows) == [declared |-> TRUE, steps |-> Steps, shows |-> shows]
PageScene == [texts |-> PageTexts, layouts |-> {Layout("plain")},
              observables |-> [E |-> {"pay"}, p |-> {"pay", "open", "sum"},
                               q |-> {"sum", "err", "pay"}],
              worlds |-> {PageWorld(Looks(<<{}, {}>>, <<{}, {"sum"}>>)),
                          PageWorld(Looks(<<{"sum"}, {"sum"}>>, <<{"error"}, {}>>)),
                          PageWorld(<<>> :> <<{}, {"sum"}>>),
                          [PageWorld(<<>> :> <<{}>>) EXCEPT !.declared = FALSE]}]

(* ------------------------------- the texts ----------------------------- *)

pv == App("p", <<"x">>)
qv == App("q", <<>>)
rv == App("r", <<"x", "y">>)
Before_(a, b) == [kind |-> "between", at |-> <<a.atom, b.atom>>]
SyntaxVocabulary == <<Sort("E"), Event("p", <<"E">>), Event("r", <<"E", NoSort>>), State_("q", <<>>)>>
SyntaxClaims == {
    Claim("always", <<Either(Both(Negation(pv), qv), Both(rv, Negation(Negation(qv))))>>),
    Claim("never", <<Both(Either(pv, qv), Negation(Either(rv, qv)))>>),
    Claim("eventually", <<Either(pv, Either(qv, Either(rv, pv)))>>),
    Claim("always", <<Both(Both(pv, qv), Both(rv, pv))>>),
    Scoped(Before_(pv, Guarded("q", <<>>)), Claim("precedes", <<Negation(pv), rv>>)),
    Scoped(After(rv), [Claim("occurs_at_most", <<Both(pv, Guarded("p", <<"x">>))>>) EXCEPT !.k = 2]),
    Claim("can_reach", <<Both(Guarded("p", <<"x">>), qv)>>)}
Hurried == Each("x", "E", Within(5, "s", Claim("leads_to", <<pv, Either(qv, rv)>>)))
SyntaxTexts ==
    {[Text(<<"2a">>, SyntaxVocabulary, <<one, Claim("never", <<qv>>)>>)
        EXCEPT !.assume = <<<<"n", "=", "(", "5", ",", "7", ")">>, <<"fair">>>>] : one \in SyntaxClaims}
    \cup {Text(<<"1", "2b">>, SyntaxVocabulary, <<Claim("always", <<Either(pv, qv)>>)>>),
          Text(<<"2b">>, SyntaxVocabulary, <<Claim("never", <<qv>>), Hurried>>),
          Text(<<"3">>, SyntaxVocabulary, <<Hurried, Each("y", "E", Claim("leads_to", <<qv, pv>>))>>)}
SyntaxScene ==
    [texts |-> SyntaxTexts,
     layouts |-> [style : {"plain", "generous", "one line"}, slip : {0}]
                 \cup [style : {"plain"}, slip : 1..100],
     observables |-> <<>>, worlds |-> {0}]

MCScenes == [text |-> SyntaxScene, code |-> CodeScene, model |-> ModelScene, trace |-> TraceScene, page |-> PageScene]

(* ------------------------ what the passing run leaves out -------------- *)

(* A claim that loses its pattern word right after a deadline.             *)
SwallowScenes == [text |-> [SyntaxScene EXCEPT !.texts =
    {Text(<<"2b">>, SyntaxVocabulary, <<Hurried, Claim("never", <<qv>>)>>)}]]

(* Two types that share their last name, each with the method.             *)
Twins == [CodeWorld({IsClear({<<"e1">>}),
                     Method(Namesake, Fn("is_clear", <<"beta">>, <<Namesake>>,
                                         {<<"n1">>, <<"n2">>}))})
            EXCEPT !.types = {Entry, Namesake}]
NamesakeScenes == [code |-> [texts |-> CodeTexts, layouts |-> {Layout("plain")},
                    observables |-> [E |-> {<<"alpha", "Entry">>, <<"beta", "Entry">>},
                                     p |-> {<<"beta", "Entry", "is_clear">>,
                                            <<"alpha", "Entry", "is_clear">>}],
                    worlds |-> {Twins}]]

(* Two declared events of one name in the trace, with other fields.        *)
AliasScenes == [trace |-> [TraceScene EXCEPT
    !.observables = [E |-> {"Message"}, p |-> {"acc"}, q |-> {"fin"}],
    !.worlds = {[TraceWorld(<<[A(0) EXCEPT !.fields = [id |-> "a", to |-> "c"]],
                              Record(1, "done", "c"), Beat(9)>>)
                    EXCEPT !.events = [acc |-> [name |-> "accepted", args |-> <<"id">>],
                                       alt |-> [name |-> "accepted", args |-> <<"to">>],
                                       fin |-> [name |-> "done", args |-> <<"id">>]]]},
    !.observables.p = {"acc", "alt"}]]

(* A quantified variable that has a declared predicate's name.             *)
ShadowScenes == [model |-> [ModelScene EXCEPT !.texts =
    Texts(<<"2a">>, <<State_("p", <<"E">>), State_("q", <<>>)>>,
          {Each("q", "E", Claim("always", <<busy>>))})]]

(* A deadline, and a negated response, that a script is asked to check.    *)
HurriedScenes == [page |-> [PageScene EXCEPT !.texts = Texts(<<"3">>, PageVocabulary,
    {Within(0, "s", Claim("leads_to", <<pay, total>>)),
     Claim("leads_to", <<pay, Negation(total)>>)})]]
=============================================================================
