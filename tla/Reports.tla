------------------------------ MODULE Reports ------------------------------
(***************************************************************************)
(* The views over a published world: the reports (reports/compute.rs), the *)
(* graph (graph/compute.rs) and the link matrix (matrix/compute.rs).  Each *)
(* walks the same artifacts and links on its own, so each is translated on *)
(* its own, and the properties hold one against the others.                *)
(*                                                                         *)
(* The cycle report and the impact report are search algorithms over hash  *)
(* maps: they are state machines here, in whatever order the maps give.    *)
(***************************************************************************)
EXTENDS Naturals, Sequences, FiniteSets

CONSTANTS
    Nodes,        \* loaded artifacts: numbers, in the order of their paths
    Gone,         \* the target of a link that resolves to nothing
    Types,        \* link types in the catalog
    Acyclic,      \* the directed types that should have no cycles
    Conflict,     \* conflicts-with
    Covering,     \* the covering types of the coverage matrix
    Collection,   \* the collection of each artifact
    System,       \* the scope of everything
    Worlds,       \* the links that may be there
    Views,        \* the artifacts a query may show: the active, or all
    Cap,          \* GRAPH_NODE_CAP, MATRIX_AXIS_CAP
    MaxCycles,    \* MAX_CYCLES_PER_LINK_TYPE
    MaxImpacted   \* MAX_IMPACTED_ARTIFACTS

ASSUME ReportsAssumption ==
    /\ Nodes \subseteq Nat /\ IsFiniteSet(Nodes) /\ Gone \notin Nodes
    /\ \A w \in Worlds : w \subseteq Nodes \X (Nodes \cup {Gone}) \X Types
    /\ \A v \in Views : v \subseteq Nodes
    /\ Acyclic \subseteq Types /\ Covering \subseteq Types /\ Conflict \in Types
    /\ System \notin {Collection[n] : n \in Nodes}
    /\ Cap \in Nat /\ MaxCycles \in Nat \ {0}
    /\ MaxImpacted \in Nat \ {0, 1}

VARIABLES
    links,   \* <<source, target, type>>
    shown,   \* artifacts the query considers
    scope,   \* the query's scope
    pc,      \* which search runs
    walk     \* its local variables

reportsVars == <<links, shown, scope, pc, walk>>

Scopes == {System} \cup {Collection[n] : n \in Nodes}
Ends == Nodes \cup {Gone}

\* node_in_scope, project_in_scope and collection_in_scope.
InScope(n, s) == s = System \/ Collection[n] = s

-----------------------------------------------------------------------------
(***************************************************************************)
(* Reports and views that are folds.                                       *)
(***************************************************************************)

InScopeArtifacts(s) == {n \in shown : InScope(n, s)}

UnresolvedLinks(s) == {l \in links : l[1] \in InScopeArtifacts(s) /\ l[2] \notin Nodes}

\* A fault: links from outside the scope do not count.
OrphansOfScope(s) ==
    {n \in InScopeArtifacts(s) :
        ~\E l \in links : l[1] = n \/ (l[2] = n /\ l[1] \in InScopeArtifacts(s))}

\* Links are counted over the whole world, whatever their sources' state.
LinkOrphans(s) ==
    {n \in InScopeArtifacts(s) : ~\E l \in links : l[1] = n \/ l[2] = n}

\* Pairs, kept if either end is in scope.
Conflicts(s) ==
    LET directed == {l \in links : /\ l[3] = Conflict /\ l[1] # l[2]
                                   /\ l[1] \in shown /\ l[2] \in shown}
    IN  {[pair |-> {l[1], l[2]}, both |-> <<l[2], l[1], Conflict>> \in directed] :
            l \in {m \in directed : InScope(m[1], s) \/ InScope(m[2], s)}}

\* What covers each artifact in scope, from anywhere.
CoverageMatrix(s) ==
    [p \in InScopeArtifacts(s) |->
        {l \in links : l[2] = p /\ l[3] \in Covering /\ l[1] \in shown}]

\* The first of the sorted nodes stay under the cap.
First(N) == {n \in N : Cardinality({m \in N : m < n}) < Cap}

GraphEdges(s, types) ==
    LET visible == First(InScopeArtifacts(s))
    IN  {l \in links : l[1] \in visible /\ l[2] \in visible /\ l[3] \in types}

\* Over the cap the whole matrix is withheld, not a part of it.
MatrixEdges(rows, columns, type) ==
    LET R == InScopeArtifacts(rows)
        C == InScopeArtifacts(columns)
    IN  IF Cardinality(R) > Cap \/ Cardinality(C) > Cap THEN {}
        ELSE {<<l[1], l[2]>> : l \in {m \in links :
                                /\ m[3] = type /\ m[1] \in R /\ m[2] \in C}}

-----------------------------------------------------------------------------
(***************************************************************************)
(* cycles: an iterative three-colour search per acyclic type.              *)
(***************************************************************************)

\* The adjacency of one type among the artifacts considered.
Adjacent(type) ==
    [n \in Nodes |-> {m \in shown : n \in shown /\ <<n, m, type>> \in links}]

\* canonical_cycle_key: the loop from its least identity on.
CanonicalKey(raw) ==
    LET i == CHOOSE j \in DOMAIN raw : \A k \in DOMAIN raw : raw[j] <= raw[k]
    IN  SubSeq(raw, i, Len(raw)) \o SubSeq(raw, 1, i - 1)

Frame(n) == [node |-> n, todo |-> Adjacent(walk.type)[n]]
PathOf(stack) == [i \in DOMAIN stack |-> stack[i].node]

\* A fault: the way to the loop is part of it.
WholePath(path, n) == path

\* The path from the node that repeats: the loop without the way to it.
LoopAt(path, n) == SubSeq(path, CHOOSE i \in DOMAIN path : path[i] = n, Len(path))

StartCycles(type) ==
    [type |-> type, colour |-> [n \in Nodes |-> 0], stack |-> <<>>,
     roots |-> {n \in Nodes : Adjacent(type)[n] # {}},
     seen |-> {}, found |-> {}, truncated |-> FALSE]

\* The next source that is not finished; finished ones are passed over.
Root ==
    /\ pc = "cycles" /\ walk.stack = <<>> /\ ~walk.truncated
    /\ \E n \in walk.roots :
        walk' = IF walk.colour[n] = 2 THEN [walk EXCEPT !.roots = @ \ {n}]
                ELSE [walk EXCEPT !.roots = @ \ {n}, !.colour[n] = 1,
                                  !.stack = <<Frame(n)>>]
    /\ UNCHANGED <<links, shown, scope, pc>>

\* A grey child closes a loop, which is reported once, if it is in scope.
Closes(w, n) ==
    LET key == CanonicalKey(LoopAt(PathOf(w.stack), n))
        reported == key \notin w.seen /\ \E i \in DOMAIN key : InScope(key[i], scope)
        found == IF reported THEN w.found \cup {key} ELSE w.found
    IN  [w EXCEPT !.seen = @ \cup {key}, !.found = found,
                  !.truncated = reported /\ Cardinality(found) >= MaxCycles]

Visit(w, n) ==
    CASE w.colour[n] = 1 -> Closes(w, n)
      [] w.colour[n] = 2 -> w
      [] w.colour[n] = 0 -> [w EXCEPT !.colour[n] = 1, !.stack = Append(@, Frame(n))]

Child ==
    /\ pc = "cycles" /\ walk.stack # <<>> /\ ~walk.truncated
    /\ \E n \in walk.stack[Len(walk.stack)].todo :
        walk' = Visit([walk EXCEPT !.stack[Len(walk.stack)].todo = @ \ {n}], n)
    /\ UNCHANGED <<links, shown, scope, pc>>

Leave ==
    /\ pc = "cycles" /\ walk.stack # <<>> /\ ~walk.truncated
    /\ LET top == walk.stack[Len(walk.stack)]
       IN  /\ top.todo = {}
           /\ walk' = [walk EXCEPT !.colour[top.node] = 2,
                                   !.stack = SubSeq(@, 1, Len(@) - 1)]
    /\ UNCHANGED <<links, shown, scope, pc>>

CyclesDone ==
    /\ pc = "cycles"
    /\ walk.truncated \/ (walk.stack = <<>> /\ walk.roots = {})
    /\ pc' = "cycles reported"
    /\ UNCHANGED <<links, shown, scope, walk>>

-----------------------------------------------------------------------------
(***************************************************************************)
(* impact_analysis: a breadth-first search from one artifact.              *)
(***************************************************************************)

\* Edges among the artifacts considered, turned round for the dependents.
Edges(incoming) ==
    {IF incoming THEN <<l[2], l[1], l[3]>> ELSE l :
        l \in {m \in links : m[1] \in shown /\ m[2] \in shown}}

StartImpact(seed, incoming) ==
    [seed |-> seed, incoming |-> incoming, depth |-> [n \in {seed} |-> 0],
     via |-> [n \in Nodes |-> {}], queue |-> <<seed>>, todo |-> {},
     full |-> FALSE]

\* depths.insert, for an artifact that has none yet.
Reached(depth, n, k) ==
    [m \in DOMAIN depth \cup {n} |-> IF m = n THEN k ELSE depth[m]]

\* pop_front; the loop also ends once the limit was reached.
Take ==
    /\ pc = "impact" /\ walk.todo = {} /\ walk.queue # <<>> /\ ~walk.full
    /\ walk' = [walk EXCEPT !.queue = Tail(@),
                    !.todo = {e \in Edges(walk.incoming) : e[1] = Head(walk.queue)}]
    /\ UNCHANGED <<links, shown, scope, pc>>

\* The type of every link that arrives is kept; the first arrival sets the
\* depth and goes on from there.
Arrive ==
    /\ pc = "impact" /\ ~walk.full
    /\ \E e \in walk.todo :
        LET w == [walk EXCEPT !.todo = @ \ {e}, !.via[e[2]] = @ \cup {e[3]}]
            depth == Reached(walk.depth, e[2], walk.depth[e[1]] + 1)
        IN  walk' = IF e[2] \in DOMAIN walk.depth THEN w
                    ELSE [w EXCEPT !.depth = depth, !.queue = Append(@, e[2]),
                            !.full = Cardinality(DOMAIN depth) >= MaxImpacted]
    /\ UNCHANGED <<links, shown, scope, pc>>

ImpactDone ==
    /\ pc = "impact"
    /\ walk.full \/ (walk.todo = {} /\ walk.queue = <<>>)
    /\ pc' = "impact reported"
    /\ UNCHANGED <<links, shown, scope, walk>>

Impacted == {n \in DOMAIN walk.depth \ {walk.seed} : InScope(n, scope)}

-----------------------------------------------------------------------------

ReportsInit ==
    /\ links \in Worlds /\ shown \in Views /\ scope \in Scopes
    /\ pc = "asked" /\ walk = [type |-> ""]

\* The reports validate the scope and go through their search.
Search ==
    /\ pc = "asked"
    /\ \/ \E type \in Acyclic : pc' = "cycles" /\ walk' = StartCycles(type)
       \/ \E seed \in Nodes, incoming \in BOOLEAN :
            pc' = "impact" /\ walk' = StartImpact(seed, incoming)
    /\ UNCHANGED <<links, shown, scope>>

Reported == pc \in {"cycles reported", "impact reported"} /\ UNCHANGED reportsVars

ReportsNext ==
    \/ Search
    \/ Root \/ Child \/ Leave \/ CyclesDone
    \/ Take \/ Arrive \/ ImpactDone
    \/ Reported

ReportsSpec == ReportsInit /\ [][ReportsNext]_reportsVars

-----------------------------------------------------------------------------
(***************************************************************************)
(* Properties.                                                             *)
(***************************************************************************)

\* What is reached over the relation R from the nodes N in at most k steps.
Ball(R, N, k) ==
    LET ball[i \in 0..k] ==
            IF i = 0 THEN N
            ELSE ball[i - 1] \cup {r[2] : r \in {q \in R : q[1] \in ball[i - 1]}}
    IN  ball[k]

Steps(type) == {<<l[1], l[2]>> : l \in {m \in links :
                    m[3] = type /\ m[1] \in shown /\ m[2] \in shown}}

\* From a to b in one step or more.
Reaches(R, a, b) == b \in Ball(R, {r[2] : r \in {q \in R : q[1] = a}}, Cardinality(Nodes))

After(c, i) == c[(i % Len(c)) + 1]
Rotation(c, d) ==
    /\ Len(c) = Len(d)
    /\ \E k \in 1..Len(c) : \A i \in 1..Len(c) : d[i] = c[((i + k - 1) % Len(c)) + 1]

\* reports/compute.rs cycles: a cycle that is reported is one - a closed walk
\* over links of the type that passes no artifact twice, in scope, and no
\* rotation of another.  Asked of the whole system and not truncated, the
\* report leaves no cyclic group out: an artifact that reaches itself does so
\* together with a reported cycle.
CyclesAreRight ==
    pc = "cycles reported" =>
        LET R == Steps(walk.type) IN
        /\ \A c \in walk.found :
            /\ c # <<>> /\ \A i \in DOMAIN c : <<c[i], After(c, i)>> \in R
            /\ \A i, j \in DOMAIN c : c[i] = c[j] => i = j
            /\ \E i \in DOMAIN c : InScope(c[i], scope)
            /\ \A d \in walk.found : Rotation(c, d) => c = d
        /\ scope = System /\ ~walk.truncated =>
            \A n \in shown : Reaches(R, n, n) =>
                \E c \in walk.found : Reaches(R, n, c[1]) /\ Reaches(R, c[1], n)

\* compute.rs 311: "Scope filtering reports a cycle iff at least one of its
\* nodes is in scope".  The search reports only the loops its own tree
\* closes, so a cycle of an artifact in scope may be found by none of them.
CyclesInScopeReported ==
    pc = "cycles reported" /\ ~walk.truncated =>
        ((\E n \in shown : InScope(n, scope) /\ Reaches(Steps(walk.type), n, n))
            => walk.found # {})

\* reports/compute.rs impact_analysis: what it reports is at its distance from
\* the seed, also when the limit cut it short; when it did not, everything
\* reachable is reported, with the types of every link that leads there.
ImpactIsReach ==
    pc = "impact reported" =>
        LET E == Edges(walk.incoming)
            R == {<<e[1], e[2]>> : e \in E}
            Near(k) == Ball(R, {walk.seed}, k)
            all == Near(Cardinality(Nodes))
        IN  /\ \A n \in DOMAIN walk.depth :
                /\ n \in Near(walk.depth[n])
                /\ walk.depth[n] > 0 => n \notin Near(walk.depth[n] - 1)
            /\ IF walk.full THEN Cardinality(DOMAIN walk.depth) = MaxImpacted
               ELSE /\ DOMAIN walk.depth = all
                    /\ \A n \in all : walk.via[n] =
                        {e[3] : e \in {f \in E : f[1] \in all /\ f[2] = n}}

\* The two searches, as above (compute.rs).
SearchesAreRight == CyclesAreRight /\ ImpactIsReach

\* The views are computed apart from each other, and agree.  The matrix of a
\* scope with itself is the graph of that scope; an orphan of a scope is one
\* of the system, and neither the graph, nor the unresolved links, nor the
\* conflicts, nor the coverage mention it; an artifact without coverage has
\* no covering edge in the system's graph.
ViewsAgree ==
  pc = "asked" =>
    \A s \in Scopes :
        LET orphans == LinkOrphans(s)
            drawn == GraphEdges(System, Types)
        IN  /\ Cardinality(InScopeArtifacts(s)) <= Cap =>
                \A t \in Types : MatrixEdges(s, s, t) =
                    {<<l[1], l[2]>> : l \in GraphEdges(s, {t})}
            /\ orphans = LinkOrphans(System) \cap InScopeArtifacts(s)
            /\ \A l \in drawn \cup UnresolvedLinks(System) :
                    l[1] \notin orphans /\ l[2] \notin orphans
            /\ \A c \in Conflicts(System) : c.pair \cap orphans = {}
            /\ \A n \in InScopeArtifacts(s) : CoverageMatrix(s)[n] = {} =>
                    ~\E l \in drawn : l[2] = n /\ l[3] \in Covering
            /\ \A n \in orphans : CoverageMatrix(s)[n] = {}
=============================================================================
