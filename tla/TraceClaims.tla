---------------------------- MODULE TraceClaims ----------------------------
(***************************************************************************)
(* Category 2b: predicates are bound to the events the operator declares,  *)
(* one claim with a deadline is lowered to the formula of its violations,  *)
(* the JSON trace is rewritten as a log, and MonPoly (external) looks for  *)
(* the formula's matches in it.                                            *)
(*                                                                         *)
(*   world    [declared, events, trace]                                    *)
(*   events   alias -> [name, args]     args: names of fields of a record  *)
(*   record   [time, event, fields]     in the order of the trace          *)
(*                                                                         *)
(* `declared` tells whether there is a `monitor:` block at all. A trace in *)
(* MonPoly's own format, which is passed on as it is, is left out; so is a *)
(* record that is not JSON, refused as one with no numeric time is.        *)
(***************************************************************************)
EXTENDS Claims

NoEvent == "no event"
NoTime == -1        \* a stamp that is missing or not a number
NoField == ""       \* what a missing field is read as

(* ------------------------------- grounding ----------------------------- *)

TraceResolves(req, bindings, w, symbol) ==
    IsSort(req, symbol)
    \/ /\ w.declared
       /\ bindings[symbol] \in DOMAIN w.events
       /\ Len(w.events[bindings[symbol]].args) = PredicateArity(req, symbol)

TraceGrounds(req, bindings, w) ==
    /\ Unbound(req, bindings) = {}
    /\ \A s \in DOMAIN bindings : TraceResolves(req, bindings, w, s)

(* -------------------------------- lowering ----------------------------- *)

(* The seconds of a deadline, by its unit; the others are refused.         *)
SecondsPer == [s |-> 1, m |-> 60, h |-> 3600]
DeadlineSeconds(within) == within.value * SecondsPer[within.unit]

TraceAtomRefused(req, claim, bindings, w, a) ==
    \/ a.guard # <<>>
    \/ a.name \notin DOMAIN bindings
    \/ bindings[a.name] \notin DOMAIN w.events
    \/ Len(w.events[bindings[a.name]].args) # Len(a.args)
    \/ ~(ToSet(a.args) \subseteq BoundVars(req, claim))

TraceRefusals(req, claim, bindings, w) ==
    (IF claim.scope.kind # "globally" THEN {"scope"} ELSE {})
    \cup (IF claim.kind # "leads_to" \/ claim.within = <<>> THEN {"pattern"} ELSE {})
    \cup (IF claim.within # <<>> /\ claim.within[1].unit \notin DOMAIN SecondsPer
          THEN {"deadline"} ELSE {})
    \cup (IF \E i \in DOMAIN claim.of : \E a \in ToSet(AtomsIn(claim.of[i])) :
                TraceAtomRefused(req, claim, bindings, w, a)
          THEN {"atom"} ELSE {})

(* The formula: a trigger with no response inside the interval. Its        *)
(* predicates are the trace's own names.                                   *)
RECURSIVE OverEvents(_, _, _)
OverEvents(e, bindings, w) ==
    IF e.op = "atom"
    THEN Holds([name |-> w.events[bindings[e.atom.name]].name, args |-> e.atom.args])
    ELSE [op |-> e.op, of |-> [i \in DOMAIN e.of |-> OverEvents(e.of[i], bindings, w)]]

(* The events it names: the signature declares these and no others.        *)
Signature(claim, bindings, w) ==
    {w.events[bindings[a.name]].name : a \in UNION {ToSet(AtomsIn(e)) : e \in ToSet(claim.of)}}

Formula(claim, bindings, w) ==
    [trigger |-> OverEvents(claim.of[1], bindings, w),
     response |-> OverEvents(claim.of[2], bindings, w),
     signature |-> Signature(claim, bindings, w),
     seconds |-> DeadlineSeconds(claim.within[1])]

(* --------------------------------- the log ----------------------------- *)

Readable(w) == w.trace # <<>> /\ \A i \in DOMAIN w.trace : w.trace[i].time # NoTime

Field(record, name) ==
    IF name \in DOMAIN record.fields THEN record.fields[name] ELSE NoField

(* A record keeps its time point; what it says is kept only when some      *)
(* declared event has its name, with the arguments of the first that has.  *)
LogLine(w, record) ==
    LET declared == {al \in DOMAIN w.events : w.events[al].name = record.event}
        event == w.events[CHOOSE al \in declared : TRUE]
    IN [time |-> record.time,
        says |-> IF declared = {} THEN {}
                 ELSE {[name |-> event.name,
                        args |-> [i \in DOMAIN event.args |-> Field(record, event.args[i])]]}]

(* Mutant: a record of no declared event is dropped, time point and all.   *)
DeclaredLog(w) ==
    SelectSeq([i \in DOMAIN w.trace |-> LogLine(w, w.trace[i])], LAMBDA l : l.says # {})

MonpolyLog(w) == [i \in DOMAIN w.trace |-> LogLine(w, w.trace[i])]

(* --------------------------- MonPoly (external) ------------------------ *)

RECURSIVE Matches(_, _, _)
Matches(e, says, value) ==
    CASE e.op = "atom" ->
            [name |-> e.atom.name, args |-> [i \in DOMAIN e.atom.args |-> value[e.atom.args[i]]]]
                \in says
      [] e.op = "not" -> ~Matches(e.of[1], says, value)
      [] e.op = "and" -> Matches(e.of[1], says, value) /\ Matches(e.of[2], says, value)
      [] e.op = "or" -> Matches(e.of[1], says, value) \/ Matches(e.of[2], says, value)

(* A negated trigger binds nothing, and is refused as not monitorable.     *)
RECURSIVE Negates(_)
Negates(e) == e.op = "not" \/ (e.op # "atom" /\ \E i \in DOMAIN e.of : Negates(e.of[i]))

(* So is a log with a predicate the signature does not declare.            *)
Undeclared(log, formula) ==
    \E i \in DOMAIN log : \E s \in log[i].says : s.name \notin formula.signature

LogValues(log) ==
    UNION {UNION {ToSet(s.args) : s \in log[i].says} : i \in DOMAIN log}

(* The matches it can report: those whose interval the log has passed.     *)
Violations(log, formula, vars) ==
    {<<i, v>> \in (DOMAIN log) \X [vars -> LogValues(log)] :
        /\ Matches(formula.trigger, log[i].says, v)
        /\ log[Len(log)].time > log[i].time + formula.seconds
        /\ \A j \in i..Len(log) :
              log[j].time <= log[i].time + formula.seconds =>
                ~Matches(formula.response, log[j].says, v)}

TraceAnswers(req, bindings, w) ==
    IF ~w.declared \/ ~Readable(w) \/ Len(req.require) # 1 THEN {"inconclusive"}
    ELSE LET claim == req.require[1]
             formula == Formula(claim, bindings, w)
         IN CASE TraceRefusals(req, claim, bindings, w) # {} -> {"inconclusive"}
              [] TraceRefusals(req, claim, bindings, w) = {}
                 /\ \/ Negates(formula.trigger) \/ Negates(formula.response)
                    \/ Undeclared(MonpolyLog(w), formula) ->
                    {"inconclusive"}
              [] OTHER ->
                    {IF Violations(MonpolyLog(w), formula, BoundVars(req, claim)) = {}
                     THEN "not-falsified" ELSE "fails"}

(* -------------------- what the confirmed read-back says ---------------- *)

(* A predicate holds of a record of the event it is bound to, applied to   *)
(* the values of the fields that event declares.                           *)
Happens(a, record, bindings, w, value) ==
    LET event == w.events[bindings[a.name]]
    IN /\ record.event = event.name
       /\ \A i \in DOMAIN a.args : Field(record, event.args[i]) = value[a.args[i]]

TraceTruth(e, record, bindings, w, value) ==
    Eval(e, [a \in ToSet(AtomsIn(e)) |-> Happens(a, record, bindings, w, value)])

FieldValues(w) ==
    {NoField} \cup
    UNION {{w.trace[i].fields[f] : f \in DOMAIN w.trace[i].fields} : i \in DOMAIN w.trace}

(* Some trigger stayed unanswered for the whole of its deadline, which the *)
(* trace runs past.                                                        *)
Missed(req, claim, bindings, w) ==
    LET unit == [s |-> 1, m |-> 60, h |-> 60 * 60]
        by(i) == w.trace[i].time + claim.within[1].value * unit[claim.within[1].unit]
        inTime(i) == {j \in i..Len(w.trace) : w.trace[j].time <= by(i)}
    IN \E i \in DOMAIN w.trace, v \in [BoundVars(req, claim) -> FieldValues(w)] :
          /\ TraceTruth(claim.of[1], w.trace[i], bindings, w, v)
          /\ Len(w.trace) \notin inTime(i)
          /\ ~\E j \in inTime(i) : TraceTruth(claim.of[2], w.trace[j], bindings, w, v)

TraceMeaning(req, bindings, w) == ~Missed(req, req.require[1], bindings, w)
=============================================================================
