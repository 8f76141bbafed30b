---------------------------- MODULE ProofDrafting ----------------------------
(***************************************************************************)
(* verify --draft-contracts and --draft-semantic: what a deductive engine  *)
(* needs to see inside the functions a claim speaks of is proposed by a    *)
(* model and staged into the sources of the subject, never committed.      *)
(*                                                                         *)
(* For Prusti a marker goes above a function, and clauses a model wrote,   *)
(* revised up to twice on what the prover answers.  For Creusot a function *)
(* is given a mirror at the end of its file, whose body a model wrote, and *)
(* a link above the function that makes the prover compare the two.        *)
(*                                                                         *)
(* A source is a sequence of lines.  All that matters of a line is what it *)
(* is and for which function.                                              *)
(***************************************************************************)
EXTENDS Naturals, Sequences, FiniteSets, SequencesExt

CONSTANTS
    Subjects,     \* the subjects studied: [dialect, text, targets, opaque]
    Interferes,      \* may the operator edit a source while a model is awaited?
    Again,        \* may a draft be asked for on top of one that is staged?
    MaxCalls,     \* of other mirrors by one mirror
    MaxDrafts, MaxTouches

VARIABLES
    subject,      \* what Cargo.toml names, and the functions the claim binds
    tree,         \* the working tree: the lines of each source
    cli,          \* the local variables of the command
    told,         \* what the command last said of a proof, and of which tree
    touched,      \* did a run die while it wrote?
    draftsLeft, touches

draftingVars == <<subject, tree, cli, told, touched, draftsLeft, touches>>

MaxRepairAttempts == 3

TextLine(k, fn) == [k |-> k, fn |-> fn]
Sig(fn) == TextLine("sig", fn)
Outside == "outside"      \* a line of no function
ImportOf(dialect) == IF dialect = "Logic" THEN "macros" ELSE "prusti"
Drafted == {"pure", "link", "requires", "ensures", "mirror"}
Prover(dialect) == IF dialect = "Logic" THEN "Creusot" ELSE "Prusti"

Sources == DOMAIN tree
Targets == ToSet(subject.targets)
FileOf(fn) == CHOOSE f \in DOMAIN subject.text : Sig(fn) \in ToSet(subject.text[f])
LineOf(text, fn) == CHOOSE n \in DOMAIN text : text[n] = Sig(fn)
Mirrors(text) == {m \in ToSet(text) : m.k = "mirror"}
Declared(sources) == {m.fn : m \in UNION {Mirrors(sources[f]) : f \in DOMAIN sources}}

\* The attributes directly above a signature.
AboveIt(text, n) ==
    {text[j] : j \in {j \in 1..n - 1 : \A i \in j..n - 1 : text[i].k \in Drafted \cup {"doc"}}}

-----------------------------------------------------------------------------
(* What a proposal has to be, once it is staged *)

\* Nothing is there twice, and all there is for a function is of one round.
SameDraft(a, b) == a.k = b.k /\ a.fn = b.fn
OfOneRound(a, b) ==
    {a.k, b.k} \subseteq {"requires", "ensures"} /\ a.fn = b.fn => a.round = b.round

\* What is staged for a function stands in its file, its attributes in those
\* above it: nothing slides under another function, and no round is stacked on
\* another.
EachAboveItsOwn(text) ==
    \A n \in DOMAIN text : text[n].k \in Drafted =>
        /\ Sig(text[n].fn) \in ToSet(text)
        /\ text[n].k # "mirror" => text[n] \in AboveIt(text, LineOf(text, text[n].fn))
        /\ \A o \in DOMAIN text : /\ SameDraft(text[o], text[n]) => o = n
                                 /\ OfOneRound(text[o], text[n])

\* A meaning a model wrote is never there unchecked: a mirror has its link and
\* a link its mirror, no precondition narrows what the link was checked for,
\* and no mirror calls one that does not exist.
MirrorsAreChecked(sources) ==
    \A f \in DOMAIN sources : \A l \in ToSet(sources[f]) :
        LET Has(k) == \E o \in ToSet(sources[f]) : o.k = k /\ o.fn = l.fn
        IN  /\ l.k = "mirror" => /\ Has("link")
                                 /\ \A c \in l.calls : \E g \in DOMAIN sources :
                                       /\ c[1] \in {"here", g}
                                       /\ \E m \in Mirrors(sources[g]) : m.fn = c[2]
            /\ l.k = "link" => Has("mirror") /\ ~Has("requires")

\* What must precede every item does.
InnerFirst(text) ==
    \A n \in DOMAIN text : text[n].k = "inner" => \A j \in 1..n - 1 : text[j].k = "inner"

\* A line of a source, and what one can name: a crate, a file or a function.
Names ==
    {"macros", "prusti", "Int", "here", "ghost", "old", Outside}
    \cup UNION {DOMAIN s.text \cup ToSet(s.targets)
                 \cup UNION {{l.fn : l \in ToSet(s.text[f])} : f \in DOMAIN s.text} : s \in Subjects}
SourceLine ==
    [k : {"inner", "use", "doc", "sig", "body", "pure", "link"}, fn : Names]
    \cup [k : {"requires", "ensures"}, fn : Names, round : Nat]
    \cup [k : {"mirror"}, fn : Names, calls : SUBSET (Names \X Names), int : BOOLEAN]

\* A subject's sources compile, and what they hold of earlier proposals stands.
\* The functions a claim binds are there, each once.
ASSUME DraftingAssumption ==
    \A s \in Subjects :
        /\ s.dialect \in {"Logic", "Pure", "None"}
        /\ \A f \in DOMAIN s.text :
              s.text[f] \in Seq(SourceLine) /\ InnerFirst(s.text[f]) /\ EachAboveItsOwn(s.text[f])
        /\ MirrorsAreChecked(s.text)
        /\ \A f, g \in DOMAIN s.text : \A m \in DOMAIN s.text[f], n \in DOMAIN s.text[g] :
              s.text[f][m].k = "sig" /\ s.text[f][m] = s.text[g][n] => f = g /\ m = n
        /\ s.targets \in Seq(Names) /\ IsInjective(s.targets)
        /\ \A fn \in ToSet(s.targets) : \E f \in DOMAIN s.text : Sig(fn) \in ToSet(s.text[f])

\* What the theorem about the proposals presupposes: nobody writes a source
\* while a model is awaited, and nothing is drafted on top of what is there.
DraftedOnce ==
    /\ ~Interferes /\ ~Again
    /\ \A s \in Subjects : \A f \in DOMAIN s.text : \A l \in ToSet(s.text[f]) :
          l.k \in {"requires", "ensures", "link", "mirror"}
          => s.dialect # "Pure" /\ l.fn \notin ToSet(s.targets)

-----------------------------------------------------------------------------
(* Staging text *)

InsertAbove(text, n, lines) == SubSeq(text, 1, n - 1) \o lines \o SubSeq(text, n, Len(text))

Put(text, d) == IF d.line \in DOMAIN text THEN InsertAbove(text, d.line, d.lines) ELSE text
Topmost(drafts) == CHOOSE d \in drafts : \A e \in drafts : d.line <= e.line

\* The mutant: the first goes first, and moves the lines of the others.
ApplyFromTheTop(text, drafts) ==
    LET Lowest(S) == CHOOSE d \in S : \A e \in S : d.line >= e.line
        done[S \in SUBSET drafts] ==
            IF S = {} THEN text ELSE Put(done[S \ {Lowest(S)}], Lowest(S))
    IN  done[drafts]

\* The drafts are keyed to lines of the text as it was: the last goes first,
\* and the topmost when all others are there.
ApplyToSource(text, drafts) ==
    LET after[S \in SUBSET drafts] ==
            IF S = {} THEN text ELSE Put(after[S \ {Topmost(S)}], Topmost(S))
    IN  after[drafts]

\* An import goes before the first item, after what must precede every item.
EnsureImport(text, crate) ==
    LET use == TextLine("use", crate)
        at == CHOOSE n \in 1..Len(text) + 1 :
                  /\ n = Len(text) + 1 \/ text[n].k # "inner"
                  /\ \A j \in 1..n - 1 : text[j].k = "inner"
    IN  IF use \in ToSet(text) THEN text ELSE InsertAbove(text, at, <<use>>)

MentionsInt(text) == \E m \in Mirrors(text) : m.int
EnsurePrelude(text, dialect) ==
    LET macros == EnsureImport(text, ImportOf(dialect))
    IN  IF dialect = "Logic" /\ MentionsInt(macros) THEN EnsureImport(macros, "Int") ELSE macros

\* The mutant: every round is written on top of the round before.
StagedOnTop(f, drafts, mirrors, dialect) ==
    EnsurePrelude(ApplyToSource(tree[f], {d \in drafts : d.file = f}), dialect)

\* One source with this round's clauses, the links, and the mirrors at its end.
StagedSource(f, drafts, mirrors, dialect) ==
    LET mine == {m \in mirrors : m.file = f}
        links == {[file |-> f, line |-> m.line, lines |-> <<TextLine("link", m.fn)>>] : m \in mine}
        items == {[k |-> "mirror", fn |-> m.fn, calls |-> m.calls, int |-> m.int] : m \in mine}
        here == {d \in drafts : d.file = f} \cup links
        text == ApplyToSource(cli.sources[f], here) \o SetToSeq(items)
    IN  IF here = {} THEN text ELSE EnsurePrelude(text, dialect)

-----------------------------------------------------------------------------
(* What is drafted *)

AlreadyMarked(text, n) == n \in DOMAIN text /\ \E l \in AboveIt(text, n) : l.k = "pure"

\* The predicates may share a function, and a function is drafted once.
PlanMarkers(sources, at) ==
    {[file |-> at[fn].file, line |-> at[fn].line, lines |-> <<TextLine("pure", fn)>>] :
        fn \in {fn \in Targets : ~AlreadyMarked(sources[at[fn].file], at[fn].line)}}

\* The function whose name is on that line of the text, if one is.
FnSourceAt(sources, at) ==
    LET text == sources[at.file]
    IN  IF at.line \in DOMAIN text /\ text[at.line].k = "sig" THEN text[at.line].fn ELSE Outside

\* A peer is called by its path, whatever the model wrote.
QualifyPeerCalls(fn, calls) ==
    {IF c \in Targets \ {fn} THEN <<FileOf(c), c>> ELSE <<"here", c>> : c \in calls}

\* The calls are read at the last segment of their paths.
CallsOf(m) == {c[2] : c \in m.calls}

\* The mutant: the calls are compared with the targets, as first written.
StandingOnce(mirrors, declared) ==
    {m \in mirrors : CallsOf(m) \subseteq {x.fn : x \in mirrors} \cup declared}

\* A mirror whose body calls a mirror that will not be there is not staged,
\* nor one that calls such a mirror: what is left is closed under its calls.
Standing(mirrors, declared) ==
    LET Fns(S) == {m.fn : m \in S}
    IN  UNION {S \in SUBSET mirrors : \A m \in S : CallsOf(m) \subseteq Fns(S) \cup declared}

\* A model answers nothing usable, an item that does not parse, or a body.
Replies ==
    {[form |-> "nothing"], [form |-> "malformed"]}
    \cup [form : {"body"}, int : BOOLEAN,
            calls : {S \in SUBSET (Targets \cup {"ghost", "old"}) : Cardinality(S) <= MaxCalls}]
Clauses == {<<>>, <<"ensures">>, <<"requires", "ensures">>}

-----------------------------------------------------------------------------

Resting == [pc |-> "idle"]
NothingTold == [proved |-> FALSE, tree |-> <<>>, held |-> FALSE]

DraftingInit ==
    /\ subject \in Subjects
    /\ tree = subject.text
    /\ cli = Resting
    /\ told = NothingTold
    /\ touched = FALSE
    /\ draftsLeft = MaxDrafts
    /\ touches = 0

\* What was drafted last is kept and committed, or gone.  Markers may be there.
NothingStaged ==
    \A f \in Sources : \A l \in ToSet(tree[f]) :
        l.k \in Drafted \ {"pure"} => l \in ToSet(subject.text[f])

\* verify resolves the bindings and runs the engines; then the drafting begins.
\* A claim that is not grounded, and one without a verdict, is not drafted for.
RunVerify(flags, repair) ==
    /\ cli.pc = "idle" /\ draftsLeft > 0
    /\ Again \/ NothingStaged
    /\ draftsLeft' = draftsLeft - 1
    /\ cli' = [pc |-> IF "contracts" \in flags THEN "markers" ELSE "load",
               semantic |-> "semantic" \in flags, repair |-> repair,
               at |-> [fn \in Targets |->
                         [file |-> FileOf(fn), line |-> LineOf(tree[FileOf(fn)], fn)]]]
    /\ told' = NothingTold
    /\ UNCHANGED <<subject, tree, touched, touches>>

ThenSemantic(c) == IF c.semantic THEN [c EXCEPT !.pc = "load"] ELSE Resting

\* The marker channel is Prusti's.
StageMarkerDrafts ==
    /\ cli.pc = "markers"
    /\ cli' = ThenSemantic(cli)
    /\ tree' = IF subject.dialect # "Pure" THEN tree
               ELSE LET drafts == PlanMarkers(tree, cli.at)
                    IN  [f \in Sources |->
                            LET here == {d \in drafts : d.file = f}
                            IN  IF here = {} THEN tree[f]
                                ELSE EnsurePrelude(ApplyToSource(tree[f], here), "Pure")]
    /\ UNCHANGED <<subject, told, touched, draftsLeft, touches>>

\* The files of the predicates are read once, before the first prompt.
LoadPredicateSources ==
    /\ cli.pc = "load"
    /\ cli' = IF subject.dialect = "None" THEN Resting
              ELSE [pc |-> IF subject.dialect = "Logic" THEN "mirrors" ELSE "clauses",
                    repair |-> cli.repair, at |-> cli.at, sources |-> tree,
                    todo |-> subject.targets, mirrors |-> {}, drafts |-> {}, attempts |-> 1]
    /\ UNCHANGED <<subject, tree, told, touched, draftsLeft, touches>>

\* The next function, with the source the text has at the line it was found.
Skips(fn) == FnSourceAt(cli.sources, cli.at[fn]) = Outside
Onward(c) == [c EXCEPT !.todo = Tail(@)]

\* No mirror can be written for one whose parameters or types are not plain.
Writable(fn) == fn \notin subject.opaque

MirrorOf(fn, r) ==
    [fn |-> fn, file |-> cli.at[fn].file, line |-> cli.at[fn].line,
     calls |-> QualifyPeerCalls(fn, r.calls), int |-> r.int]

\* A mirror is asked for once.  Its signature and its link are not the model's.
DraftMirror ==
    /\ cli.pc = "mirrors" /\ cli.todo # <<>>
    /\ UNCHANGED <<subject, tree, told, touched, draftsLeft, touches>>
    /\ LET fn == Head(cli.todo)
       IN  IF Skips(fn) \/ ~Writable(fn) THEN cli' = Onward(cli)
           ELSE \E r \in Replies :
                  cli' = IF r.form # "body" THEN Onward(cli)
                         ELSE [Onward(cli) EXCEPT !.mirrors = @ \cup {MirrorOf(fn, r)}]

DropMirrorsCallingNothing ==
    /\ cli.pc = "mirrors" /\ cli.todo = <<>>
    /\ cli' = [cli EXCEPT !.pc = "stage", !.todo = Sources,
                           !.mirrors = Standing(@, Declared(cli.sources))]
    /\ UNCHANGED <<subject, tree, told, touched, draftsLeft, touches>>

\* A round asks for the clauses of every function anew.
DraftClauses ==
    /\ cli.pc = "clauses" /\ cli.todo # <<>>
    /\ UNCHANGED <<subject, tree, told, touched, draftsLeft, touches>>
    /\ LET fn == Head(cli.todo)
           at == cli.at[fn]
           shown == FnSourceAt(cli.sources, at)
       IN  IF Skips(fn) THEN cli' = Onward(cli)
           ELSE \E cs \in Clauses :
                  cli' = IF cs = <<>> THEN Onward(cli)
                         ELSE [Onward(cli) EXCEPT !.drafts = @ \cup
                                 {[file |-> at.file, line |-> at.line,
                                   lines |-> [i \in DOMAIN cs |->
                                                [k |-> cs[i], fn |-> shown, round |-> cli.attempts]]]}]

RoundDrafted ==
    /\ cli.pc = "clauses" /\ cli.todo = <<>>
    /\ cli' = [cli EXCEPT !.pc = "stage", !.todo = Sources]
    /\ UNCHANGED <<subject, tree, told, touched, draftsLeft, touches>>

\* Every file is written whole, one after the other.
Stage(f) ==
    /\ cli.pc = "stage" /\ f \in cli.todo
    /\ tree' = [tree EXCEPT ![f] = StagedSource(f, cli.drafts, cli.mirrors, subject.dialect)]
    /\ cli' = [cli EXCEPT !.todo = @ \ {f}]
    /\ UNCHANGED <<subject, told, touched, draftsLeft, touches>>

Staged ==
    /\ cli.pc = "stage" /\ cli.todo = {}
    /\ cli' = IF cli.repair /\ (subject.dialect = "Logic" => cli.mirrors # {})
                THEN [cli EXCEPT !.pc = "verify"] ELSE Resting
    /\ UNCHANGED <<subject, tree, told, touched, draftsLeft, touches>>

\* The mutant: any engine will do.
AnyEngineHolds(holding, dialect) == holding # {}

\* The engines run on the tree.  Only the one drafted for is listened to.
VerdictToProofStep(holding, dialect) == Prover(dialect) \in holding

VerifyRound(holding) ==
    /\ cli.pc = "verify"
    /\ LET proved == VerdictToProofStep(holding, subject.dialect)
       IN  IF \/ proved \/ subject.dialect = "Logic"
              \/ cli.attempts >= MaxRepairAttempts \/ cli.drafts = {}
             THEN /\ cli' = Resting
                  /\ told' = [proved |-> proved, tree |-> tree,
                              held |-> Prover(subject.dialect) \in holding]
             ELSE /\ cli' = [cli EXCEPT !.pc = "clauses", !.todo = subject.targets,
                                        !.drafts = {}, !.attempts = @ + 1]
                  /\ UNCHANGED told
    /\ UNCHANGED <<subject, tree, touched, draftsLeft, touches>>

\* A prompt, a file or verify answers an error, and the command ends with it.
DraftingFails ==
    /\ cli.pc \in {"mirrors", "clauses", "stage", "verify"}
    /\ cli.pc \in {"mirrors", "clauses"} => cli.todo # <<>>
    /\ cli' = Resting
    /\ touched' = (touched \/ (cli.pc = "stage" /\ cli.todo # {}))
    /\ UNCHANGED <<subject, tree, told, draftsLeft, touches>>

\* The operator takes the proposal back, or writes a line into a source.
Revert ==
    /\ cli.pc = "idle" /\ tree # subject.text
    /\ tree' = subject.text
    /\ told' = NothingTold
    /\ touched' = FALSE
    /\ UNCHANGED <<subject, cli, draftsLeft, touches>>

Touch(f) ==
    /\ cli.pc = "idle" \/ Interferes
    /\ touches < MaxTouches
    /\ touches' = touches + 1
    /\ tree' = [tree EXCEPT ![f] = <<TextLine("inner", Outside)>> \o @]
    /\ told' = NothingTold
    /\ UNCHANGED <<subject, cli, touched, draftsLeft>>

\* The bound is reached.
DraftingOver == cli.pc = "idle" /\ draftsLeft = 0 /\ UNCHANGED draftingVars

DraftingNext ==
    \/ \E flags \in (SUBSET {"contracts", "semantic"}) \ {{}}, repair \in BOOLEAN :
           (repair => "semantic" \in flags) /\ RunVerify(flags, repair)
    \/ StageMarkerDrafts \/ LoadPredicateSources
    \/ DraftMirror \/ DropMirrorsCallingNothing
    \/ DraftClauses \/ RoundDrafted \/ Staged
    \/ \E holding \in SUBSET {"Kani", "Creusot", "Prusti"} : VerifyRound(holding)
    \/ DraftingFails \/ Revert \/ DraftingOver
    \/ \E f \in Sources : Stage(f) \/ Touch(f)

-----------------------------------------------------------------------------

Proposed(text) == {l \in ToSet(text) : l.k \in Drafted}
UsesOf(text) == {l.fn : l \in {l \in ToSet(text) : l.k = "use"}}

\* What is staged compiles: what it names is imported, above every item; a
\* file for which nothing was drafted is as it was.
InScope(f, text) ==
    /\ InnerFirst(text)
    /\ IF Proposed(text) \subseteq ToSet(subject.text[f])
         THEN UsesOf(text) = UsesOf(subject.text[f])
         ELSE /\ ImportOf(subject.dialect) \in UsesOf(text)
              /\ MentionsInt(text) => "Int" \in UsesOf(text)

\* The command says that the prover discharged a claim only of the very text
\* that is staged, and only when the prover it was written for did.
ToldIsProved == told.proved => told.held /\ told.tree = tree

ProposalStands ==
    cli.pc \in {"idle", "verify"} /\ ~touched =>
        /\ \A f \in Sources : EachAboveItsOwn(tree[f]) /\ InScope(f, tree[f])
        /\ MirrorsAreChecked(tree) /\ ToldIsProved
=============================================================================
