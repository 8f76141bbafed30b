------------------------------ MODULE PrlSyntax ------------------------------
(***************************************************************************)
(* The concrete syntax of a formal requirement: what the parser makes of a *)
(* typed text. A text is a sequence of lines, a line a sequence of words   *)
(* (names, numerals, punctuation); a token is a word with its line.        *)
(*                                                                         *)
(* A parsing operator takes the tokens that are left and gives what it     *)
(* read and the tokens after it. The first error decides: a text with one  *)
(* is refused, and the errors that would follow it are left out, as are    *)
(* comments and the characters words are made of.                          *)
(***************************************************************************)
EXTENDS Claims, TLC

Numeral == "0" :> 0 @@ "1" :> 1 @@ "2" :> 2 @@ "5" :> 5 @@ "7" :> 7 @@ "9" :> 9
Puncts == {"{", "}", "(", ")", ",", ":", ".", "=", "+"}

(* The words that end a guard or a duration, and those that open a section. *)
StopWords == {"and", "or", "leads_to", "precedes", "occurs", "within", "with", "globally",
              "before", "after", "between", "never", "always", "eventually", "can_reach", "each"}
SectionWords == {"category", "vocabulary", "assume", "require", "strength", "evidence"}

Lex(text) ==
    FlattenSeq([l \in DOMAIN text |->
        [i \in DOMAIN text[l] |-> [word |-> text[l][i], line |-> l]]])

(* ------------------------------ the cursor ----------------------------- *)

Read(v, rest) == [ok |-> TRUE, val |-> v, rest |-> rest]
Refused == [ok |-> FALSE, val |-> <<>>, rest |-> <<>>]

(* What is read next, unless this was an error.                            *)
Then(r, F(_)) == IF r.ok THEN F(r) ELSE Refused

At(t, w) == t # <<>> /\ t[1].word = w
AtSome(t, words) == t # <<>> /\ t[1].word \in words
NameAt(t) == t # <<>> /\ t[1].word \notin Puncts \cup DOMAIN Numeral
Skip(t, w) == IF At(t, w) THEN Tail(t) ELSE t
After_(t, n) == SubSeq(t, n + 1, Len(t))
WordsOf(t) == [i \in DOMAIN t |-> t[i].word]

(* The tokens up to the first one at which P holds.                        *)
Until(t, P(_)) ==
    LET stops == {i \in DOMAIN t : P(t[i])}
    IN SubSeq(t, 1, IF stops = {} THEN Len(t) ELSE Min(stops) - 1)

(* What the rest of the line holds: a free-text section takes it whole,    *)
(* a category stops at the next section and at the closing brace.          *)
LineOf(t) == IF t = <<>> THEN 0 ELSE t[1].line
RawLine(t, line) == Until(t, LAMBDA x : x.line > line)
RawCategory(t, line) ==
    Until(t, LAMBDA x : x.line > line \/ x.word \in SectionWords \cup {"}"})

(* Mutant: a stop word inside the guard's own parentheses ends it.         *)
RECURSIVE RawToStopWord(_, _)
RawToStopWord(t, depth) ==
    IF t = <<>> \/ AtSome(t, StopWords \cup {"}", ","}) THEN <<>>
    ELSE <<t[1].word>> \o RawToStopWord(Tail(t), depth)

(* A guard or a duration runs to a stop word, or a delimiter, outside its  *)
(* own parentheses.                                                        *)
RECURSIVE RawUntilStop(_, _)
RawUntilStop(t, depth) ==
    IF t = <<>> \/ (depth = 0 /\ AtSome(t, StopWords \cup {")", "}", ","}))
    THEN <<>>
    ELSE <<t[1].word>> \o RawUntilStop(Tail(t), CASE At(t, "(") -> depth + 1
                                                  [] At(t, ")") -> depth - 1
                                                  [] OTHER -> depth)

(* Up to the brace that closes the block; nested ones are balanced.        *)
RECURSIVE RawBraced(_, _)
RawBraced(t, depth) ==
    IF t = <<>> \/ (depth = 0 /\ At(t, "}")) THEN <<>>
    ELSE <<t[1].word>> \o RawBraced(Tail(t), CASE At(t, "{") -> depth + 1
                                               [] At(t, "}") -> depth - 1
                                               [] OTHER -> depth)

(* The entries of a comma-separated text, commas in brackets left alone.   *)
SplitTopCommas(ws) ==
    LET depth(i) == Cardinality({j \in 1..i : ws[j] \in {"(", "{"}})
                    - Cardinality({j \in 1..i : ws[j] \in {")", "}"}})
        commas == {i \in DOMAIN ws : ws[i] = "," /\ depth(i) = 0}
        starts == {1} \cup {c + 1 : c \in commas}
        piece(i) == SubSeq(ws, i, Min({c - 1 : c \in {x \in commas : x >= i}} \cup {Len(ws)}))
    IN SelectSeq([k \in 1..Cardinality(starts) |-> piece(SetToSortSeq(starts, <)[k])],
                 LAMBDA p : p # <<>>)

(* A term is kept as its text: a plain word, or several as one string.     *)
Raw(ws) == IF Len(ws) = 1 THEN ws[1] ELSE ToString(ws)

(* ----------------------------- expressions ----------------------------- *)

(* The terms of an application, split at its own commas. At the end of the *)
(* text an unclosed list is taken as it stands, without its last term.     *)
RECURSIVE ArgList(_, _, _, _)
ArgList(t, depth, term, args) ==
    LET pushed == IF term = <<>> THEN args ELSE Append(args, Raw(term))
        longer == Append(term, t[1].word)
    IN CASE t = <<>> -> Read(args, t)
         [] At(t, "(") -> ArgList(Tail(t), depth + 1, longer, args)
         [] At(t, ")") /\ depth > 0 -> ArgList(Tail(t), depth - 1, longer, args)
         [] At(t, ")") /\ depth = 0 -> Read(pushed, Tail(t))
         [] At(t, ",") /\ depth = 0 -> ArgList(Tail(t), depth, <<>>, pushed)
         [] OTHER -> ArgList(Tail(t), depth, longer, args)

RawGuard(t) == RawUntilStop(Tail(t), 0)
Guard(t) ==
    IF At(t, "with") THEN Read(<<RawGuard(t)>>, After_(t, 1 + Len(RawGuard(t)))) ELSE Read(<<>>, t)

Atom(t) ==
    IF ~NameAt(t) THEN Refused
    ELSE Then(IF At(Tail(t), "(") THEN ArgList(Tail(Tail(t)), 0, <<>>, <<>>) ELSE Read(<<>>, Tail(t)),
              LAMBDA args : Then(Guard(args.rest), LAMBDA guard :
                  Read([name |-> t[1].word, args |-> args.val, guard |-> guard.val], guard.rest)))

(* `not` binds tighter than `and`, `and` than `or`; both associate left.   *)
RECURSIVE Expr(_), AndExpr(_), Unary(_), OrTail(_), AndTail(_)
Unary(t) ==
    CASE At(t, "not") -> Then(Unary(Tail(t)), LAMBDA e : Read(Negation(e.val), e.rest))
      [] At(t, "(") -> Then(Expr(Tail(t)), LAMBDA e :
                           IF At(e.rest, ")") THEN Read(e.val, Tail(e.rest)) ELSE Refused)
      [] OTHER -> Then(Atom(t), LAMBDA a : Read(Holds(a.val), a.rest))

AndTail(left) ==
    IF ~At(left.rest, "and") THEN left
    ELSE Then(Unary(Tail(left.rest)), LAMBDA right :
             AndTail(Read(Both(left.val, right.val), right.rest)))
AndExpr(t) == Then(Unary(t), AndTail)

OrTail(left) ==
    IF ~At(left.rest, "or") THEN left
    ELSE Then(AndExpr(Tail(left.rest)), LAMBDA right :
             OrTail(Read(Either(left.val, right.val), right.rest)))
Expr(t) == Then(AndExpr(t), OrTail)

(* -------------------------------- claims ------------------------------- *)

(* A duration is a numeral and a unit; any other text is of no known unit. *)
Duration(ws) ==
    IF Len(ws) = 2 /\ ws[1] \in DOMAIN Numeral
    THEN [value |-> Numeral[ws[1]], unit |-> ws[2]]
    ELSE [value |-> 0, unit |-> ToString(ws)]

Pattern(kind, of, within, k) == [kind |-> kind, of |-> of, within |-> within, k |-> k]

Prefixed(t) ==
    Then(Expr(Tail(t)), LAMBDA e : Read(Pattern(t[1].word, <<e.val>>, <<>>, 0), e.rest))

Within_(kind, of, t) ==
    LET raw == RawUntilStop(Tail(t), 0)
    IN IF kind = "leads_to" /\ At(t, "within")
       THEN Read(Pattern(kind, of, <<Duration(raw)>>, 0), After_(t, 1 + Len(raw)))
       ELSE Read(Pattern(kind, of, <<>>, 0), t)

Occurrences(left) ==
    LET t == Skip(Skip(Tail(left.rest), "at"), "most")
    IN IF AtSome(t, DOMAIN Numeral)
       THEN Read(Pattern("occurs_at_most", <<left.val>>, <<>>, Numeral[t[1].word]),
                 Skip(Tail(t), "times"))
       ELSE Refused

Infix(left) ==
    CASE AtSome(left.rest, {"leads_to", "precedes"}) ->
            Then(Expr(Tail(left.rest)), LAMBDA right :
                Within_(left.rest[1].word, <<left.val, right.val>>, right.rest))
      [] At(left.rest, "occurs") -> Occurrences(left)
      [] OTHER -> Refused

ParsePattern(t) ==
    IF AtSome(t, {"never", "always", "eventually", "can_reach"}) THEN Prefixed(t)
    ELSE Then(Expr(t), Infix)

ParseScope(t) ==
    CASE At(t, "globally") -> Read([kind |-> "globally", at |-> <<>>], Tail(t))
      [] AtSome(t, {"before", "after"}) -> Then(Atom(Tail(t)), LAMBDA a :
            Read([kind |-> t[1].word, at |-> <<a.val>>], a.rest))
      [] At(t, "between") -> Then(Atom(Tail(t)), LAMBDA a :
            Then(Atom(Skip(a.rest, "and")), LAMBDA b :
                Read([kind |-> "between", at |-> <<a.val, b.val>>], b.rest)))
      [] OTHER -> Read([kind |-> "globally", at |-> <<>>], t)

(* `each v : S .`, the dot being a middle dot or a full stop.              *)
ParseQuantifier(t) ==
    IF ~At(t, "each") THEN Read(<<>>, t)
    ELSE IF NameAt(After_(t, 1)) /\ At(After_(t, 2), ":") /\ NameAt(After_(t, 3))
            /\ At(After_(t, 4), ".")
         THEN Read(<<[var |-> t[2].word, sort |-> t[4].word]>>, After_(t, 5))
         ELSE Refused

ParseProperty(t) ==
    Then(ParseQuantifier(t), LAMBDA q :
        Then(ParsePattern(q.rest), LAMBDA p :
            Then(ParseScope(p.rest), LAMBDA s :
                Read([quantifier |-> q.val, kind |-> p.val.kind, of |-> p.val.of,
                      within |-> p.val.within, k |-> p.val.k, scope |-> s.val], s.rest))))

(* A block of claims: nothing but the grammar tells where one ends.        *)
RECURSIVE Properties_(_, _)
Properties_(t, sofar) ==
    IF t = <<>> \/ At(t, "}") THEN Read(sofar, Skip(t, "}"))
    ELSE Then(ParseProperty(t), LAMBDA p : Properties_(p.rest, Append(sofar, p.val)))

RequireBlock(t) == IF At(t, "{") THEN Properties_(Tail(t), <<>>) ELSE Refused

(* ------------------------------ declarations --------------------------- *)

(* `(name : Type, ...)`, to the types; an untyped parameter has none.      *)
RECURSIVE Params(_, _)
Params(t, sofar) ==
    IF t = <<>> \/ At(t, ")") THEN Read(sofar, Skip(t, ")"))
    ELSE LET typed == At(After_(t, 1), ":")
             rest == After_(t, IF typed THEN 3 ELSE 1)
             type == IF typed /\ NameAt(After_(t, 2)) THEN t[3].word ELSE NoSort
         IN CASE ~NameAt(t) \/ (typed /\ ~NameAt(After_(t, 2))) -> Refused
              [] At(rest, ",") -> Params(Tail(rest), Append(sofar, type))
              [] At(rest, ")") -> Read(Append(sofar, type), Tail(rest))
              [] OTHER -> Refused

(* One `event` or `state` may introduce a list of predicates.              *)
RECURSIVE PredicateList(_, _, _)
PredicateList(t, kind, sofar) ==
    IF ~NameAt(t) THEN Refused
    ELSE Then(IF At(After_(t, 1), "(") THEN Params(After_(t, 2), <<>>) ELSE Read(<<>>, After_(t, 1)),
              LAMBDA params :
                  LET next == Append(sofar, [kind |-> kind, name |-> t[1].word, params |-> params.val])
                  IN IF At(params.rest, ",") THEN PredicateList(Tail(params.rest), kind, next)
                     ELSE Read(next, params.rest))

RECURSIVE Declarations_(_, _)
Declarations_(t, sofar) ==
    CASE t = <<>> \/ At(t, "}") -> Read(sofar, Skip(t, "}"))
      [] At(t, "sort") /\ NameAt(Tail(t)) ->
            Declarations_(After_(t, 2),
                Append(sofar, [kind |-> "sort", name |-> t[2].word, params |-> <<>>]))
      [] AtSome(t, {"event", "state"}) ->
            Then(PredicateList(Tail(t), t[1].word, sofar), LAMBDA list :
                Declarations_(list.rest, list.val))
      [] At(t, "identity") ->
            Declarations_(After_(t, 1 + Len(RawLine(Tail(t), LineOf(Tail(t))))), sofar)
      [] OTHER -> Refused

Vocabulary(t) == IF At(t, "{") THEN Declarations_(Tail(t), <<>>) ELSE Refused

ParseCategories(ws) ==
    LET plus == {i \in DOMAIN ws : ws[i] = "+"}
        part(i) == SubSeq(ws, i, Min({c - 1 : c \in {x \in plus : x >= i}} \cup {Len(ws)}))
        starts == SetToSortSeq({1} \cup {c + 1 : c \in plus}, <)
        parts == SelectSeq([k \in DOMAIN starts |-> part(starts[k])], LAMBDA p : p # <<>>)
    IN IF \A i \in DOMAIN parts : parts[i] \in {<<"1">>, <<"2a">>, <<"2b">>, <<"3">>}
       THEN Read([i \in DOMAIN parts |-> parts[i][1]], <<>>)
       ELSE Refused

(* ------------------------------ a requirement -------------------------- *)

(* The sections in any order. One written again replaces the one before    *)
(* it, and the text after the closing brace is not read.                   *)
RECURSIVE Sections(_, _, _)
Sections(t, req, sawRequire) ==
    LET value == After_(t, 2)
        category == RawCategory(value, t[2].line)
        assumed == IF At(Tail(t), "{") THEN RawBraced(value, 0) ELSE <<>>
    IN CASE t = <<>> \/ At(t, "}") -> IF sawRequire THEN Read(req, t) ELSE Refused
         [] At(t, "category") /\ At(Tail(t), ":") ->
                Then(ParseCategories(WordsOf(category)), LAMBDA c :
                    Sections(After_(value, Len(category)), [req EXCEPT !.category = c.val], sawRequire))
         [] At(t, "vocabulary") -> Then(Vocabulary(Tail(t)), LAMBDA v :
                Sections(v.rest, [req EXCEPT !.vocabulary = v.val], sawRequire))
         [] At(t, "assume") ->
                Sections(IF At(Tail(t), "{") THEN After_(value, Len(assumed) + 1) ELSE Tail(t),
                         [req EXCEPT !.assume = SplitTopCommas(assumed)], sawRequire)
         [] At(t, "require") -> Then(RequireBlock(Tail(t)), LAMBDA p :
                Sections(p.rest, [req EXCEPT !.require = p.val], TRUE))
         [] AtSome(t, {"strength", "evidence"}) /\ At(Tail(t), ":") ->
                Sections(After_(value, Len(RawLine(value, t[2].line))), req, sawRequire)
         [] OTHER -> Refused

NoText == [category |-> <<>>, vocabulary |-> <<>>, assume |-> <<>>, require |-> <<>>]

Parse(text) ==
    LET t == Lex(text)
    IN IF At(t, "requirement") /\ NameAt(Tail(t)) /\ At(After_(t, 2), "{")
       THEN Sections(After_(t, 3), NoText, FALSE)
       ELSE Refused

(* --------------------- how a requirement is typed ---------------------- *)

(* The words of a requirement, written the other way round: from the       *)
(* syntax to a text. A layout says how generously it is written and which  *)
(* of its words, if any, a slip left out.                                  *)

Joined(pieces, comma) ==
    FlattenSeq([i \in DOMAIN pieces |-> IF i = 1 THEN pieces[i] ELSE <<comma>> \o pieces[i]])

TypedAtom(a) ==
    <<a.name>>
    \o (IF a.args = <<>> THEN <<>>
        ELSE <<"(">> \o Joined([i \in DOMAIN a.args |-> <<a.args[i]>>], ",") \o <<")">>)
    \o (IF a.guard = <<>> THEN <<>> ELSE <<"with">> \o a.guard[1])

Strength == [or |-> 0, and |-> 1, not |-> 2, atom |-> 3]

(* An operand in brackets where its operator needs them, or wherever one   *)
(* may stand.                                                              *)
RECURSIVE TypedExpr(_, _, _)
TypedExpr(e, needed, bracketed) ==
    LET of(i, strength) == TypedExpr(e.of[i], IF bracketed THEN 3 ELSE strength, bracketed)
        words == CASE e.op = "atom" -> TypedAtom(e.atom)
                   [] e.op = "not" -> <<"not">> \o of(1, 2)
                   [] e.op = "and" -> of(1, 1) \o <<"and">> \o of(2, 2)
                   [] e.op = "or" -> of(1, 0) \o <<"or">> \o of(2, 1)
    IN IF Strength[e.op] < needed THEN <<"(">> \o words \o <<")">> ELSE words

NumeralFor(n) == CHOOSE d \in DOMAIN Numeral : Numeral[d] = n

TypedClaim(c, bracketed) ==
    LET of(i) == TypedExpr(c.of[i], IF bracketed THEN 3 ELSE 0, bracketed)
    IN FlattenSeq([i \in DOMAIN c.quantifier |->
                    <<"each", c.quantifier[i].var, ":", c.quantifier[i].sort, ".">>])
       \o (CASE c.kind \in {"leads_to", "precedes"} -> of(1) \o <<c.kind>> \o of(2)
             [] c.kind = "occurs_at_most" ->
                    of(1) \o <<"occurs", "at", "most", NumeralFor(c.k), "times">>
             [] OTHER -> <<c.kind>> \o of(1))
       \o FlattenSeq([i \in DOMAIN c.within |->
                    <<"within", NumeralFor(c.within[i].value), c.within[i].unit>>])
       \o (CASE c.scope.kind = "globally" -> IF bracketed THEN <<"globally">> ELSE <<>>
             [] c.scope.kind = "between" ->
                    <<"between">> \o TypedAtom(c.scope.at[1]) \o <<"and">> \o TypedAtom(c.scope.at[2])
             [] OTHER -> <<c.scope.kind>> \o TypedAtom(c.scope.at[1]))

TypedParams(params) ==
    IF params = <<>> THEN <<>>
    ELSE <<"(">> \o Joined([i \in DOMAIN params |->
                    IF params[i] = NoSort THEN <<"v">> ELSE <<"v", ":", params[i]>>], ",") \o <<")">>

(* Predicates of one kind that follow each other may share its keyword.    *)
TypedVocabulary(ds, bracketed) ==
    [i \in DOMAIN ds |->
        (IF bracketed /\ i > 1 /\ ds[i].kind # "sort" /\ ds[i - 1].kind = ds[i].kind
         THEN <<",">> ELSE <<ds[i].kind>>)
        \o <<ds[i].name>> \o TypedParams(ds[i].params)]

Typed(req, layout) ==
    LET bracketed == layout.style = "generous"
        lines == <<<<"requirement", "r", "{">>>>
                 \o (IF req.category = <<>> THEN <<>>
                     ELSE <<<<"category", ":">>
                            \o Joined([i \in DOMAIN req.category |-> <<req.category[i]>>], "+")>>)
                 \o <<<<"vocabulary", "{">>>> \o TypedVocabulary(req.vocabulary, bracketed)
                 \o <<<<"}">>, <<"assume", "{">> \o Joined(req.assume, ",") \o <<"}", "require", "{">>>>
                 \o [i \in DOMAIN req.require |-> TypedClaim(req.require[i], bracketed)]
                 \o <<<<"}", "strength", ":", "best">>, <<"}">>>>
        kept(l) == LET before == Len(FlattenSeq(SubSeq(lines, 1, l - 1)))
                   IN IF layout.slip - before \in DOMAIN lines[l]
                      THEN RemoveAt(lines[l], layout.slip - before) ELSE lines[l]
        slipped == [l \in DOMAIN lines |-> kept(l)]
    IN IF layout.style = "one line" THEN <<FlattenSeq(slipped)>> ELSE slipped

(* The words of the claims that carry their meaning, as they stand in a    *)
(* text and as they are read.                                              *)
Meaningful(req, words) ==
    LET kept == {d.name : d \in ToSet(Predicates(req))}
                \cup {"not", "or", "each", "within", "with", "before", "after", "between"}
                \cup {"never", "always", "eventually", "can_reach", "leads_to", "precedes", "occurs"}
    IN SelectSeq(words, LAMBDA w : w \in kept)

ClaimWords(text) ==
    LET ws == WordsOf(Lex(text))
    IN SubSeq(ws, Min({i \in DOMAIN ws : ws[i] = "require"}), Len(ws))

ReadWords(req) ==
    FlattenSeq([i \in DOMAIN req.require |-> TypedClaim(req.require[i], FALSE)])
=============================================================================
