------------------------ MODULE ArtifactStoreProofs -------------------------
(***************************************************************************)
(* Proofs about ArtifactStore and Suggestions, for any identities, names,  *)
(* collections, texts and TODOs, any number of requests in flight, of      *)
(* restarts and of trees to start from.                                    *)
(***************************************************************************)
EXTENDS Suggestions, TLAPS, WellFoundedInduction, FiniteSetTheorems

USE StoreAssumption

-----------------------------------------------------------------------------
(***************************************************************************)
(* Review logs.                                                            *)
(***************************************************************************)

\* The smallest of a set of numbers.
LEMMA Smallest ==
    ASSUME NEW T \in SUBSET Nat, T # {}
    PROVE  \E m \in T : \A n \in T : m <= n
PROOF
  <1> DEFINE R == {ss \in Nat \X Nat : ss[1] < ss[2]}
  <1>1. IsWellFoundedOn(R, Nat)
    BY Zenon, NatLessThanWellFounded DEF OpToRel
  <1> HIDE DEF R
  <1>2. PICK m \in T : \A n \in T : ~(<<n, m>> \in R)
    BY <1>1, WFMin
  <1>3. ASSUME NEW n \in T PROVE m <= n
    <2>1. <<n, m>> \in Nat \X Nat /\ <<n, m>>[1] = n /\ <<n, m>>[2] = m
      OBVIOUS
    <2>2. ~(n < m)
      BY <1>2, <2>1 DEF R
    <2> QED
      BY <2>2
  <1> QED
    BY <1>3

\* The approval that BlockingTodos starts from is the last one.
LEMMA LastApprovalIs ==
    ASSUME NEW log \in Seq(ReviewEntry)
    PROVE  /\ LastApproval(log) \in 0..Len(log)
           /\ LastApproval(log) = 0 \/ log[LastApproval(log)].outcome = "approved"
           /\ \A j \in LastApproval(log) + 1..Len(log) : log[j].outcome # "approved"
PROOF
  <1> DEFINE Ok(i) == /\ i = 0 \/ log[i].outcome = "approved"
                      /\ \A j \in i + 1..Len(log) : log[j].outcome # "approved"
             T == {k \in Nat : k <= Len(log) /\ 
                     (Len(log) - k = 0 \/ log[Len(log) - k].outcome = "approved")}
  <1>1. Len(log) \in T /\ T \in SUBSET Nat
    OBVIOUS
  <1>2. PICK m \in T : \A n \in T : m <= n
    BY <1>1, Smallest
  <1>3. Len(log) - m \in 0..Len(log) /\ Ok(Len(log) - m)
    <2>1. Len(log) \in Nat
      OBVIOUS
    <2>2. ASSUME NEW j \in Len(log) - m + 1..Len(log), log[j].outcome = "approved"
          PROVE  FALSE
      <3>1. Len(log) - j \in T
        BY <2>1, <2>2
      <3> QED
        BY SMTT(20), <2>1, <2>2, <3>1, <1>2
    <2> QED
      BY <1>2, <2>1, <2>2
  <1> QED
    BY <1>3 DEF LastApproval

\* The loop of collect_open_todos comes to the TODOs that are open: added since
\* the last approval, and not resolved since they were added.
LEMMA BlockingTodosAreOpen ==
    ASSUME NEW log \in Seq(ReviewEntry), NEW t
    PROVE  t \in BlockingTodos(log) <=> Open(log, Len(log) + 1, t)
PROOF
  <1> DEFINE n == Len(log)
             la == LastApproval(log)
             Adds(i) == log[i].outcome \in {"rejected", "todo-added"}
             Added(i) == {j \in la + 1..i :
                            /\ Adds(j)
                            /\ \A k \in j + 1..i : log[k].outcome = "todo-resolved" =>
                                    log[k].todo # log[j].todo}
             g == [i \in la..n |-> {log[j].todo : j \in Added(i)}]
             Body(f, i) == IF i = la THEN {}
                           ELSE CASE Adds(i) -> f[i - 1] \cup {log[i].todo}
                                  [] log[i].outcome = "todo-resolved" -> f[i - 1] \ {log[i].todo}
                                  [] OTHER -> f[i - 1]
             open == CHOOSE f : f = [i \in la..n |-> Body(f, i)]
  <1>1. BlockingTodos(log) = open[n]
    BY DEF BlockingTodos
  <1>2. la \in 0..n /\ n \in Nat /\ \A j \in la + 1..n : log[j].outcome # "approved"
    BY LastApprovalIs
  <1>3. \A j \in la + 1..n : log[j] \in ReviewEntry
    BY <1>2
  <1>4. g = [i \in la..n |-> Body(g, i)]
    <2> SUFFICES ASSUME NEW i \in la..n PROVE g[i] = Body(g, i)
      BY <1>2
    <2>1. CASE i = la
      BY <1>2, <2>1
    <2>2. CASE i # la
      <3>1. i \in la + 1..n /\ i - 1 \in la..n /\ log[i] \in ReviewEntry
        BY <1>2, <1>3, <2>2
      <3>2. CASE Adds(i)
        <4>1. Added(i) = Added(i - 1) \cup {i}
          BY <1>2, <3>1, <3>2
        <4> QED
          <5>1. {log[j].todo : j \in Added(i)} =
                    {log[j].todo : j \in Added(i - 1)} \cup {log[i].todo}
            BY <4>1
          <5> HIDE DEF Added
          <5> QED
            BY <3>1, <3>2, <5>1, <2>2
      <3>3. CASE log[i].outcome = "todo-resolved"
        <4>1. Added(i) = {j \in Added(i - 1) : log[j].todo # log[i].todo}
          BY <1>2, <3>1, <3>3
        <4> QED
          <5>1. {log[j].todo : j \in Added(i)} =
                    {log[j].todo : j \in Added(i - 1)} \ {log[i].todo}
            BY <4>1
          <5> HIDE DEF Added
          <5> QED
            BY <3>1, <3>3, <5>1, <2>2
      <3>4. CASE ~Adds(i) /\ log[i].outcome # "todo-resolved"
        <4>1. Added(i) = Added(i - 1)
          BY <1>2, <3>1, <3>4
        <4> QED
          BY <3>1, <3>4, <4>1, <2>2
      <3> QED
        BY <3>2, <3>3, <3>4
    <2> QED
      BY <2>1, <2>2
  <1> HIDE DEF g
  <1>5. open = [i \in la..n |-> Body(open, i)]
    BY <1>4
  <1> HIDE DEF open
  <1>6. ASSUME NEW i \in la..n, open[i] # g[i]
        PROVE  FALSE
    <2> DEFINE T == {k \in la..n : open[k] # g[k]}
    <2>1. PICK m \in T : \A k \in T : m <= k
      <3>1. T \in SUBSET Nat /\ T # {}
        BY <1>2, <1>6
      <3> QED
        BY <3>1, Smallest
    <2>2. open[m] = Body(open, m) /\ g[m] = Body(g, m)
      BY <1>4, <1>5
    <2>3. m # la
      BY <2>1, <2>2
    <2>4. m - 1 \in la..n /\ m - 1 \notin T
      BY <1>2, <2>1, <2>3
    <2>5. open[m - 1] = g[m - 1]
      BY <2>4
    <2>6. Body(open, m) = Body(g, m)
      BY <2>5, <2>3
    <2> QED
      BY <2>1, <2>2, <2>6
  <1>7. open[n] = g[n]
    BY <1>2, <1>6
  <1>8. g[n] = {log[j].todo : j \in Added(n)}
    BY <1>2 DEF g
  <1>9. t \in {log[j].todo : j \in Added(n)} <=> Open(log, n + 1, t)
    <2> DEFINE Since(j) ==
            /\ Adds(j) /\ log[j].todo = t
            /\ \A k \in j + 1..n : log[k].outcome # "approved" /\ log[k] # Entry("todo-resolved", t)
    <2>1. Open(log, n + 1, t) <=> \E j \in 1..n : Since(j)
      BY <1>2 DEF Open
    <2>2. \A k \in la + 1..n : log[k] = Entry("todo-resolved", t)
                <=> log[k].outcome = "todo-resolved" /\ log[k].todo = t
      BY <1>3 DEF Entry, ReviewEntry
    <2>3. ASSUME NEW j \in Added(n), t = log[j].todo
          PROVE  Since(j) /\ j \in 1..n
      BY <1>2, <2>2, <2>3
    <2>4. ASSUME NEW j \in 1..n, Since(j)
          PROVE  j \in Added(n) /\ t = log[j].todo
      <3>1. j > la
        <4>1. la # j
          BY <1>2, <2>4, LastApprovalIs
        <4>2. ~(j < la)
          BY <1>2, <2>4, LastApprovalIs
        <4> QED
          BY <1>2, <4>1, <4>2
      <3> QED
        BY <1>2, <2>2, <2>4, <3>1
    <2> HIDE DEF Since, Added
    <2> QED
      BY <2>1, <2>3, <2>4
  <1> QED
    BY <1>1, <1>7, <1>8, <1>9

\* What is open before an entry is a matter of the entries before it.
LEMMA OpenIsOfThePast ==
    ASSUME NEW log \in Seq(ReviewEntry), NEW e \in ReviewEntry, NEW i \in 1..Len(log) + 1, NEW t
    PROVE  Open(Append(log, e), i, t) <=> Open(log, i, t)
PROOF
  <1> DEFINE new == Append(log, e)
  <1>1. Len(log) \in Nat /\ \A j \in 1..i - 1 : new[j] = log[j]
    OBVIOUS
  <1> HIDE DEF new
  <1>2. \A j \in 1..i - 1 : \A k \in j + 1..i - 1 : k \in 1..i - 1
    BY <1>1
  <1> QED
    BY <1>1, <1>2 DEF Open, new

\* The outcomes of a log are those of its entries.
LEMMA OutcomesAre == \A log, o : o \in Outcomes(log) => \E i \in DOMAIN log : log[i].outcome = o
PROOF
  BY DEF Outcomes

\* An entry validate_and_build_entry allows keeps a lawful log lawful.
LEMMA ReviewsAreLawful ==
    ASSUME NEW log \in Seq(ReviewEntry), Lawful(log), NEW e \in Reviews(log)
    PROVE  e \in ReviewEntry /\ Append(log, e) \in Seq(ReviewEntry) /\ Lawful(Append(log, e))
PROOF
  <1> DEFINE n == Len(log)
             new == Append(log, e)
             settled == {i \in DOMAIN log : log[i].outcome \in
                            {"approved", "rejected", "re-request-review"}}
             rejected == \E i \in settled : /\ \A j \in settled : j <= i
                                            /\ log[i].outcome = "rejected"
  <1>1. \/ \E t \in Todos : e \in {Entry("rejected", t), Entry("todo-added", t)}
        \/ \E t \in BlockingTodos(log) : e = Entry("todo-resolved", t)
        \/ e = Entry("approved", None) /\ BlockingTodos(log) = {}
        \/ /\ e = Entry("re-request-review", None)
           /\ "approved" \in Outcomes(log) \/ rejected
    BY DEF Reviews
  <1>2. \A t \in BlockingTodos(log) : t \in Todos \cup {None} /\ Open(log, n + 1, t)
    <2> SUFFICES ASSUME NEW t \in BlockingTodos(log)
                 PROVE  t \in Todos \cup {None} /\ Open(log, n + 1, t)
      OBVIOUS
    <2>1. Open(log, n + 1, t)
      BY BlockingTodosAreOpen
    <2>2. PICK j \in 1..n : log[j].todo = t
      <3>1. n \in Nat /\ 1..n + 1 - 1 = 1..n
        OBVIOUS
      <3> QED
        BY <2>1, <3>1 DEF Open
    <2>3. log[j] \in ReviewEntry
      BY <2>2
    <2> QED
      BY <2>1, <2>2, <2>3 DEF ReviewEntry
  <1>3. e \in ReviewEntry
    BY <1>1, <1>2 DEF Entry, ReviewEntry
  <1>4. /\ new \in Seq(ReviewEntry) /\ DOMAIN new = 1..n + 1 /\ n \in Nat
        /\ new[n + 1] = e /\ \A i \in 1..n : new[i] = log[i]
    BY <1>3
  <1>5. \A i \in 1..n + 1 : \A t : Open(new, i, t) <=> Open(log, i, t)
    BY <1>3, OpenIsOfThePast
  <1>6. ASSUME NEW i \in 1..n
        PROVE  /\ new[i].outcome = "approved" => ~\E t \in Todos : Open(new, i, t)
               /\ new[i].outcome = "todo-resolved" => Open(new, i, new[i].todo)
               /\ new[i].outcome = "re-request-review" =>
                    \E j \in 1..i - 1 : new[j].outcome \in {"approved", "rejected"}
    <2>1. new[i] = log[i] /\ i \in DOMAIN log /\ i \in 1..n + 1
      BY <1>4
    <2>2. \A j \in 1..i - 1 : new[j] = log[j]
      BY <1>4
    <2> HIDE DEF new
    <2> QED
      BY <1>5, <2>1, <2>2 DEF Lawful
  <1>7. /\ e.outcome = "approved" => ~\E t \in Todos : Open(log, n + 1, t)
        /\ e.outcome = "todo-resolved" => Open(log, n + 1, e.todo)
        /\ e.outcome = "re-request-review" =>
                \E j \in 1..n : log[j].outcome \in {"approved", "rejected"}
    <2>1. CASE \E t \in Todos : e \in {Entry("rejected", t), Entry("todo-added", t)}
      BY <2>1 DEF Entry
    <2>2. CASE \E t \in BlockingTodos(log) : e = Entry("todo-resolved", t)
      BY <2>2, <1>2 DEF Entry
    <2>3. CASE e = Entry("approved", None) /\ BlockingTodos(log) = {}
      BY <2>3, BlockingTodosAreOpen DEF Entry
    <2>4. CASE /\ e = Entry("re-request-review", None)
               /\ "approved" \in Outcomes(log) \/ rejected
      BY <2>4, OutcomesAre DEF Entry
    <2> QED
      BY <1>1, <2>1, <2>2, <2>3, <2>4
  <1> HIDE DEF new
  <1>8. \A j \in 1..n : log[j] = new[j]
    BY <1>4
  <1>9. Lawful(new)
    BY <1>4, <1>5, <1>6, <1>7, <1>8 DEF Lawful
  <1> QED
    BY <1>3, <1>4, <1>9 DEF new

-----------------------------------------------------------------------------
(***************************************************************************)
(* Files, trees and steps of a write.                                      *)
(***************************************************************************)

USE SuggestionsAssumption

Tree == [files : UNION {[P -> File] : P \in SUBSET Paths},
         dirs : UNION {[D -> Prefixes] : D \in SUBSET Dirs}]

\* What a file says is so: its identity was handed out, its log could have
\* been written by reviewers taking turns, its check is of its address.
SoundFile(f, handedOut) ==
    /\ f \in File /\ f.uuid \in handedOut \cup {None}
    /\ Lawful(f.log)
    /\ f.checked # None => f.checked = f.text

SoundAt(p, f, handedOut) ==
    /\ p \in Paths /\ SoundFile(f, handedOut)
    /\ p.ext = List <=> f.shape = "list"

SoundTree(t, handedOut) ==
    t \in Tree /\ \A p \in DOMAIN t.files : SoundAt(p, t.files[p], handedOut)

Directories == Dirs \cup {Box}
ArtifactPath == {p \in Paths : p.ext # List}
Steps ==
    [do : {"put"}, at : Paths, file : File]
    \cup [do : {"drop", "dropif"}, at : Paths]
    \cup [do : {"move"}, at : ArtifactPath, to : ArtifactPath]
    \cup [do : {"mkdir"}, dir : Dirs, prefix : Prefixes]
    \cup [do : {"rmdir"}, dir : Directories]

SoundStep(a, handedOut) ==
    a \in Steps /\ (a.do = "put" => SoundAt(a.at, a.file, handedOut))

SoundPlan(plan, handedOut) ==
    plan \in Seq(Steps) /\ \A i \in DOMAIN plan : SoundStep(plan[i], handedOut)

\* More identities handed out do no harm.
LEMMA SoundStays ==
    ASSUME NEW U, NEW V, U \subseteq V
    PROVE  /\ \A p, f : SoundAt(p, f, U) => SoundAt(p, f, V)
           /\ \A t : SoundTree(t, U) => SoundTree(t, V)
           /\ \A plan : SoundPlan(plan, U) => SoundPlan(plan, V)
PROOF
  <1>1. \A p, f : SoundAt(p, f, U) => SoundAt(p, f, V)
    BY DEF SoundAt, SoundFile
  <1>2. \A t : SoundTree(t, U) => SoundTree(t, V)
    BY <1>1 DEF SoundTree
  <1>3. \A plan : SoundPlan(plan, U) => SoundPlan(plan, V)
    BY <1>1 DEF SoundPlan, SoundStep
  <1> QED
    BY <1>1, <1>2, <1>3

\* The kinds of path, by the first word of their extension.
LEMMA PathKinds ==
    /\ PendingAt.ext = List /\ DeclinedAt.ext = List
    /\ Md # List /\ UrlSide # List
    /\ \A e : Side(e) # List /\ Bin(e) # List
    /\ \A d, n, e : Path(d, n, e).ext = e
PROOF
  BY DEF PendingAt, DeclinedAt, Path, List, Md, UrlSide, Side, Bin

LEMMA PathsTyped ==
    /\ \A d \in Dirs, n \in Names : Path(d, n, Md) \in ArtifactPath
                                    /\ Path(d, n, UrlSide) \in ArtifactPath
    /\ \A d \in Dirs, n \in Names, e \in Exts :
        Path(d, n, Side(e)) \in ArtifactPath /\ Path(d, n, Bin(e)) \in ArtifactPath
    /\ PendingAt \in Paths /\ DeclinedAt \in Paths
    /\ \A p \in ArtifactPath : p.dir \in Dirs /\ p.name \in Names
                               /\ p = Path(p.dir, p.name, p.ext)
    /\ \A p \in Paths : p.dir \in Directories
PROOF
  <1>1. \A d \in Dirs, n \in Names : Path(d, n, Md) \in ArtifactPath
                                    /\ Path(d, n, UrlSide) \in ArtifactPath
    BY PathKinds DEF Path, Paths, ArtifactPath
  <1>2. \A d \in Dirs, n \in Names, e \in Exts :
        Path(d, n, Side(e)) \in ArtifactPath /\ Path(d, n, Bin(e)) \in ArtifactPath
    BY PathKinds DEF Path, Paths, ArtifactPath
  <1>3. PendingAt \in Paths /\ DeclinedAt \in Paths
    BY DEF Paths
  <1>4. \A p \in ArtifactPath : p.dir \in Dirs /\ p.name \in Names
                               /\ p = Path(p.dir, p.name, p.ext)
    BY PathKinds DEF ArtifactPath, Paths, Path
  <1>5. \A p \in Paths : p.dir \in Directories
    BY DEF Paths, PendingAt, DeclinedAt, Path, Directories
  <1> QED
    BY <1>1, <1>2, <1>3, <1>4, <1>5

\* A sound tree, taken apart and put together.
LEMMA TreeIs ==
    ASSUME NEW U, NEW t, SoundTree(t, U)
    PROVE  /\ t.files \in [DOMAIN t.files -> File] /\ DOMAIN t.files \subseteq Paths
           /\ t.dirs \in [DOMAIN t.dirs -> Prefixes] /\ DOMAIN t.dirs \subseteq Dirs
           /\ t = [files |-> t.files, dirs |-> t.dirs]
           /\ \A p \in DOMAIN t.files : SoundAt(p, t.files[p], U)
           /\ \A fs : [t EXCEPT !.files = fs] = [files |-> fs, dirs |-> t.dirs]
           /\ \A ds : [t EXCEPT !.dirs = ds] = [files |-> t.files, dirs |-> ds]
PROOF
  BY DEF SoundTree, Tree

LEMMA IsTree ==
    ASSUME NEW U, NEW P \in SUBSET Paths, NEW D \in SUBSET Dirs,
           NEW fs \in [P -> File], NEW ds \in [D -> Prefixes],
           \A p \in P : SoundAt(p, fs[p], U)
    PROVE  SoundTree([files |-> fs, dirs |-> ds], U)
PROOF
  BY DEF SoundTree, Tree

\* A tree with one file more, or another in its place.
LEMMA PutSound ==
    ASSUME NEW U, NEW t, SoundTree(t, U), NEW p, NEW f, SoundAt(p, f, U)
    PROVE  SoundTree([files |-> With(t.files, p, f), dirs |-> t.dirs], U)
PROOF
  <1>1. p \in Paths /\ f \in File
    BY DEF SoundAt, SoundFile
  <1>2. /\ With(t.files, p, f) \in [DOMAIN t.files \cup {p} -> File]
        /\ \A q \in DOMAIN t.files \cup {p} :
            With(t.files, p, f)[q] = IF q = p THEN f ELSE t.files[q]
    <2>1. t.files \in [DOMAIN t.files -> File]
      BY TreeIs
    <2> QED
      BY <1>1, <2>1 DEF With
  <1>3. \A q \in DOMAIN t.files \cup {p} : SoundAt(q, With(t.files, p, f)[q], U)
    BY <1>2, TreeIs
  <1>4. /\ DOMAIN t.files \cup {p} \in SUBSET Paths
        /\ t.dirs \in [DOMAIN t.dirs -> Prefixes] /\ DOMAIN t.dirs \in SUBSET Dirs
    BY <1>1, TreeIs
  <1> QED
    BY <1>2, <1>3, <1>4, IsTree

\* A tree with files and directories taken away.
LEMMA OnlySound ==
    ASSUME NEW U, NEW t, SoundTree(t, U),
           NEW P \in SUBSET DOMAIN t.files, NEW D \in SUBSET DOMAIN t.dirs
    PROVE  SoundTree([files |-> Only(t.files, P), dirs |-> Only(t.dirs, D)], U)
PROOF
  <1>1. Only(t.files, P) \in [P -> File] /\ \A p \in P : Only(t.files, P)[p] = t.files[p]
    BY TreeIs DEF Only
  <1>2. Only(t.dirs, D) \in [D -> Prefixes]
    BY TreeIs DEF Only
  <1>3. P \in SUBSET Paths /\ D \in SUBSET Dirs
    BY TreeIs
  <1>4. \A p \in P : SoundAt(p, Only(t.files, P)[p], U)
    BY <1>1, TreeIs
  <1> QED
    BY <1>1, <1>2, <1>3, <1>4, IsTree

\* A step of a write leaves a sound tree.
LEMMA AfterSound ==
    ASSUME NEW U, NEW t, SoundTree(t, U), NEW a, SoundStep(a, U),
           a.do = "move" => a.at \in DOMAIN t.files
    PROVE  SoundTree(After(t, a), U)
PROOF
  <1> DEFINE less == [files |-> Only(t.files, DOMAIN t.files \ {a.at}), dirs |-> t.dirs]
  <1>0. Only(t.dirs, DOMAIN t.dirs) = t.dirs
    BY TreeIs DEF Only
  <1>1. SoundTree(less, U)
    BY <1>0, OnlySound
  <1>2. CASE a.do = "put"
    <2>1. After(t, a) = [files |-> With(t.files, a.at, a.file), dirs |-> t.dirs]
      BY <1>2, TreeIs DEF After
    <2> QED
      BY <1>2, <2>1, PutSound DEF SoundStep
  <1>3. CASE a.do \in {"drop", "dropif"}
    <2>1. After(t, a) = less
      BY <1>3, TreeIs DEF After
    <2> QED
      BY <1>1, <2>1
  <1>4. CASE a.do = "move"
    <2>1. a.at \in DOMAIN t.files /\ a.at \in ArtifactPath /\ a.to \in ArtifactPath
      BY <1>4 DEF SoundStep, Steps
    <2>2. SoundAt(a.to, t.files[a.at], U)
      BY <2>1, TreeIs DEF SoundAt, ArtifactPath
    <2>3. SoundTree([files |-> With(less.files, a.to, t.files[a.at]), dirs |-> less.dirs], U)
      <3> HIDE DEF less
      <3> QED
        BY <1>1, <2>2, PutSound
    <2>4. After(t, a) = [files |-> With(less.files, a.to, t.files[a.at]), dirs |-> t.dirs]
      BY <1>4, TreeIs DEF After
    <2> QED
      BY <2>3, <2>4
  <1>5. CASE a.do = "mkdir"
    <2>1. a.dir \in Dirs /\ a.prefix \in Prefixes
      BY <1>5 DEF SoundStep, Steps
    <2>2. After(t, a) = [files |-> t.files, dirs |-> With(t.dirs, a.dir, a.prefix)]
      BY <1>5, TreeIs DEF After
    <2>3. With(t.dirs, a.dir, a.prefix) \in [DOMAIN t.dirs \cup {a.dir} -> Prefixes]
      <3>1. t.dirs \in [DOMAIN t.dirs -> Prefixes]
        BY TreeIs
      <3> QED
        BY <2>1, <3>1 DEF With
    <2>4. /\ t.files \in [DOMAIN t.files -> File] /\ DOMAIN t.files \in SUBSET Paths
          /\ DOMAIN t.dirs \cup {a.dir} \in SUBSET Dirs
          /\ \A p \in DOMAIN t.files : SoundAt(p, t.files[p], U)
      BY <2>1, TreeIs
    <2>5. SoundTree([files |-> t.files, dirs |-> With(t.dirs, a.dir, a.prefix)], U)
      BY <2>3, <2>4, IsTree
    <2> QED
      BY <2>2, <2>5
  <1>6. CASE a.do = "rmdir"
    <2> DEFINE P == {p \in DOMAIN t.files : p.dir # a.dir}
               D == DOMAIN t.dirs \ {a.dir}
    <2>1. After(t, a) = [files |-> Only(t.files, P), dirs |-> Only(t.dirs, D)]
      BY <1>6 DEF After
    <2>2. P \in SUBSET DOMAIN t.files /\ D \in SUBSET DOMAIN t.dirs
      OBVIOUS
    <2> HIDE DEF P, D
    <2> QED
      BY <2>1, <2>2, OnlySound
  <1> QED
    BY <1>2, <1>3, <1>4, <1>5, <1>6 DEF SoundStep, Steps

-----------------------------------------------------------------------------
(***************************************************************************)
(* The files that handlers write.                                          *)
(***************************************************************************)

LEMMA ArtifactAt ==
    ASSUME NEW U, NEW p \in ArtifactPath, NEW f, SoundFile(f, U), f.shape # "list"
    PROVE  SoundAt(p, f, U)
PROOF
  BY DEF SoundAt, ArtifactPath

LEMMA NewLogs ==
    /\ <<>> \in Seq(ReviewEntry) /\ Lawful(<<>>)
    /\ <<Entry("approved", None)>> \in Seq(ReviewEntry)
    /\ Lawful(<<Entry("approved", None)>>)
PROOF
  <1> DEFINE e == Entry("approved", None)
  <1>1. e \in ReviewEntry /\ e.outcome = "approved"
    BY DEF ReviewEntry, Entry
  <1>2. <<>> \in Seq(ReviewEntry) /\ Lawful(<<>>)
    BY DEF Lawful
  <1> HIDE DEF e
  <1>3. <<e>> \in Seq(ReviewEntry) /\ DOMAIN <<e>> = {1} /\ <<e>>[1] = e /\ 1..1 - 1 = {}
    BY <1>1
  <1>4. Lawful(<<e>>)
    BY <1>1, <1>3 DEF Lawful, Open
  <1> QED
    BY <1>2, <1>3, <1>4 DEF e

\* What creations, uploads and imports write.
LEMMA NewFiles ==
    ASSUME NEW U, NEW u \in Uuids, u \in U
    PROVE  /\ \A f \in {Artifact(u, "content", "front", None)} :
                SoundFile(f, U) /\ f.shape # "list"
           /\ \A t \in Texts \cup {None}, form \in {"front", "json"} :
                \A f \in {Artifact(u, "url", form, t)} : SoundFile(f, U) /\ f.shape # "list"
           /\ \A e \in Exts : \A f \in {Artifact(u, "blob", "json", e)} :
                SoundFile(f, U) /\ f.shape # "list"
           /\ \A v \in Uuids :
                \A f \in {[Artifact(u, "content", "front", None) EXCEPT
                            !.log = <<Entry("approved", None)>>, !.links = {v}]} :
                    SoundFile(f, U) /\ f.shape # "list"
           /\ SoundFile(Bytes, U) /\ Bytes.shape # "list"
PROOF
  <1>1. ASSUME NEW f, NEW form \in {"front", "json", "bytes"}, NEW shape,
               NEW v, NEW text, NEW links \in SUBSET Uuids, NEW log \in Seq(ReviewEntry),
               Lawful(log),
               f \in [form : {form}, shape : {shape}, uuid : {v}, text : {text},
                      checked : {None}, links : {links}, log : {log}],
               \/ shape = "content" /\ text = None /\ v = u /\ form # "bytes"
               \/ shape = "url" /\ text \in Texts \cup {None} /\ v = u /\ form # "bytes"
               \/ shape = "blob" /\ text \in Exts /\ v = u /\ form # "bytes"
               \/ shape = "blob" /\ text = None /\ v = None /\ form = "bytes"
        PROVE  SoundFile(f, U) /\ f.shape # "list"
    BY <1>1 DEF SoundFile, File, StoredArtifact, BytesFile, Of
  <1>2. \A f \in {Artifact(u, "content", "front", None)} :
                SoundFile(f, U) /\ f.shape # "list"
    BY <1>1, NewLogs DEF Artifact
  <1>3. \A t \in Texts \cup {None}, form \in {"front", "json"} :
            \A f \in {Artifact(u, "url", form, t)} : SoundFile(f, U) /\ f.shape # "list"
    BY <1>1, NewLogs DEF Artifact
  <1>4. \A e \in Exts : \A f \in {Artifact(u, "blob", "json", e)} :
                SoundFile(f, U) /\ f.shape # "list"
    BY <1>1, NewLogs DEF Artifact
  <1>5. \A v \in Uuids :
            \A f \in {[Artifact(u, "content", "front", None) EXCEPT
                        !.log = <<Entry("approved", None)>>, !.links = {v}]} :
                SoundFile(f, U) /\ f.shape # "list"
    <2> TAKE v \in Uuids
    <2> DEFINE log == <<Entry("approved", None)>>
    <2> DEFINE f == [Artifact(u, "content", "front", None) EXCEPT
                        !.log = log, !.links = {v}]
    <2>1. log \in Seq(ReviewEntry) /\ Lawful(log)
      BY NewLogs
    <2>2. Artifact(u, "content", "front", None)
          \in [form : {"front"}, shape : {"content"}, uuid : {u}, text : {None},
               checked : {None}, links : {{}}, log : {<<>>}]
      BY DEF Artifact
    <2> HIDE DEF log
    <2>3. f \in [form : {"front"}, shape : {"content"}, uuid : {u}, text : {None},
                 checked : {None}, links : {{v}}, log : {log}]
      BY <2>2
    <2>4. {v} \in SUBSET Uuids /\ "front" \in {"front", "json", "bytes"}
      OBVIOUS
    <2> HIDE DEF f
    <2>5. SoundFile(f, U) /\ f.shape # "list"
      BY <1>1, <2>1, <2>3, <2>4
    <2> QED
      BY <2>5 DEF log, f
  <1>6. SoundFile(Bytes, U) /\ Bytes.shape # "list"
    BY <1>1, NewLogs DEF Bytes, Artifact
  <1> QED
    BY <1>2, <1>3, <1>4, <1>5, <1>6

\* What edits, checks, links and new bytes make of a stored artifact.
LEMMA ChangedFiles ==
    ASSUME NEW U, NEW f \in StoredArtifact, SoundFile(f, U)
    PROVE  /\ SoundFile(Edited(f, None), U) /\ Edited(f, None).shape # "list"
           /\ f.shape = "url" => \A t \in Texts : SoundFile(Edited(f, t), U)
                                               /\ Edited(f, t).shape # "list"
           /\ f.shape = "url" => SoundFile(Checked(f), U) /\ Checked(f).shape # "list"
           /\ f.shape = "blob" => \A e \in Exts : \A g \in {[f EXCEPT !.text = e]} :
                SoundFile(g, U) /\ g.shape # "list" /\ g.text = e
           /\ \A u \in Uuids : SoundFile(WithLink(f, u), U) /\ WithLink(f, u).shape # "list"
PROOF
  <1> DEFINE Rec == [form : {f.form}, shape : {f.shape}, uuid : {f.uuid}, text : {f.text},
                     checked : {f.checked}, links : {f.links}, log : {f.log}]
  <1>1. /\ f \in Rec /\ f.form \in {"front", "json"} /\ f.uuid \in Uuids
        /\ f.links \in SUBSET Uuids /\ f.log \in Seq(ReviewEntry)
        /\ \/ f.shape = "content" /\ f.text = None /\ f.checked = None
           \/ f.shape = "url" /\ f.text \in Texts \cup {None} /\ f.checked \in Texts \cup {None}
           \/ f.shape = "blob" /\ f.text \in Exts /\ f.checked = None
    BY DEF StoredArtifact, Of
  <1>2. FormOf(f.shape) \in {"front", "json"}
    BY DEF FormOf
  <1>3. Lawful(f.log) /\ f.uuid \in U \cup {None} /\ (f.checked # None => f.checked = f.text)
    BY DEF SoundFile
  <1>4. /\ \A t \in Texts : t # None
        /\ None \notin Exts
    OBVIOUS
  <1>5. SoundFile(Edited(f, None), U) /\ Edited(f, None).shape # "list"
    <2>1. Edited(f, None) = [f EXCEPT !.form = FormOf(f.shape)]
      BY DEF Edited
    <2> QED
      BY <2>1, <1>1, <1>2, <1>3 DEF SoundFile, File, StoredArtifact, Of
  <1>6. ASSUME f.shape = "url", NEW t \in Texts
        PROVE  SoundFile(Edited(f, t), U) /\ Edited(f, t).shape # "list"
    <2>1. Edited(f, t) = [f EXCEPT !.form = FormOf(f.shape), !.text = t, !.checked = None]
      BY <1>4 DEF Edited
    <2> QED
      BY <2>1, <1>1, <1>2, <1>3, <1>6 DEF SoundFile, File, StoredArtifact, Of
  <1>7. f.shape = "url" => SoundFile(Checked(f), U) /\ Checked(f).shape # "list"
    BY <1>1, <1>3 DEF Checked, SoundFile, File, StoredArtifact, Of
  <1>8. ASSUME f.shape = "blob", NEW e \in Exts
        PROVE  \A g \in {[f EXCEPT !.text = e]} :
                SoundFile(g, U) /\ g.shape # "list" /\ g.text = e
    BY <1>1, <1>3, <1>4, <1>8 DEF SoundFile, File, StoredArtifact, Of
  <1>10. ASSUME NEW u \in Uuids
         PROVE  SoundFile(WithLink(f, u), U) /\ WithLink(f, u).shape # "list"
    BY <1>1, <1>2, <1>3 DEF WithLink, SoundFile, File, StoredArtifact, Of
  <1> QED
    BY <1>5, <1>6, <1>7, <1>8, <1>10

\* What a review makes of it.
LEMMA ReviewedFile ==
    ASSUME NEW U, NEW f \in StoredArtifact, SoundFile(f, U), NEW e \in Reviews(f.log),
           NEW g \in {[f EXCEPT !.form = "front", !.log = Append(@, e)]}
    PROVE  SoundFile(g, U) /\ g.shape # "list"
PROOF
  <1> DEFINE new == Append(f.log, e)
             Rec(forms, log) ==
                [form : forms, shape : {f.shape}, uuid : {f.uuid}, text : {f.text},
                 checked : {f.checked}, links : {f.links}, log : log]
  <1>1. /\ f \in Rec({"front", "json"}, Seq(ReviewEntry)) /\ f.shape # "list"
        /\ f.log \in Seq(ReviewEntry) /\ Lawful(f.log)
    BY DEF StoredArtifact, Of, SoundFile
  <1>2. new \in Seq(ReviewEntry) /\ Lawful(new)
    BY <1>1, ReviewsAreLawful
  <1> HIDE DEF new
  <1>3. g \in Rec({"front"}, {new})
    BY <1>1 DEF new
  <1>4. g \in StoredArtifact
    BY <1>2, <1>3 DEF StoredArtifact, Of
  <1> QED
    BY <1>1, <1>2, <1>3, <1>4 DEF SoundFile, File

\* What the suggestion engine writes.
Proposed == [key : Keys, run : Nat]

LEMMA ListFiles ==
    ASSUME NEW U, NEW S \in SUBSET Proposed, NEW p \in {PendingAt, DeclinedAt}
    PROVE  SoundAt(p, ListFile(S), U)
PROOF
  BY NewLogs, PathKinds, PathsTyped
  DEF ListFile, Artifact, SoundAt, SoundFile, File, ListOfSuggestions, Of, Proposed

-----------------------------------------------------------------------------
(***************************************************************************)
(* Plans.                                                                  *)
(***************************************************************************)

LEMMA StepsAreSound ==
    ASSUME NEW U
    PROVE  /\ \A p, f : SoundAt(p, f, U) => SoundStep(Put(p, f), U)
           /\ \A p \in Paths : SoundStep(Drop(p), U) /\ SoundStep(DropIf(p), U)
           /\ \A p, q \in ArtifactPath : SoundStep(Move(p, q), U)
           /\ \A d \in Dirs, x \in Prefixes : SoundStep(MkDir(d, x), U)
           /\ \A d \in Directories : SoundStep(RmDir(d), U)
PROOF
  <1>1. \A p, f : SoundAt(p, f, U) => SoundStep(Put(p, f), U)
    BY DEF SoundAt, SoundFile, SoundStep, Steps, Put
  <1>2. \A p \in Paths : SoundStep(Drop(p), U) /\ SoundStep(DropIf(p), U)
    BY DEF SoundStep, Steps, Drop, DropIf
  <1>3. \A p, q \in ArtifactPath : SoundStep(Move(p, q), U)
    BY DEF SoundStep, Steps, Move
  <1>4. \A d \in Dirs, x \in Prefixes : SoundStep(MkDir(d, x), U)
    BY DEF SoundStep, Steps, MkDir
  <1>5. \A d \in Directories : SoundStep(RmDir(d), U)
    BY DEF SoundStep, Steps, RmDir
  <1> QED
    BY <1>1, <1>2, <1>3, <1>4, <1>5

LEMMA PlansAreSound ==
    ASSUME NEW U
    PROVE  /\ SoundPlan(<<>>, U)
           /\ \A a : SoundStep(a, U) => SoundPlan(<<a>>, U)
           /\ \A a, b : SoundStep(a, U) /\ SoundStep(b, U) => SoundPlan(<<a, b>>, U)
           /\ \A a, b, c : SoundStep(a, U) /\ SoundStep(b, U) /\ SoundStep(c, U)
                            => SoundPlan(<<a, b, c>>, U)
           /\ \A p, q : SoundPlan(p, U) /\ SoundPlan(q, U) => SoundPlan(p \o q, U)
           /\ \A p : SoundPlan(p, U) /\ p # <<>> =>
                SoundStep(Head(p), U) /\ SoundPlan(Tail(p), U)
PROOF
  <1>1. SoundPlan(<<>>, U)
    BY DEF SoundPlan
  <1>2. \A a : SoundStep(a, U) => SoundPlan(<<a>>, U)
    BY DEF SoundPlan, SoundStep
  <1>3. \A a, b : SoundStep(a, U) /\ SoundStep(b, U) => SoundPlan(<<a, b>>, U)
    BY DEF SoundPlan, SoundStep
  <1>4. \A a, b, c : SoundStep(a, U) /\ SoundStep(b, U) /\ SoundStep(c, U)
                            => SoundPlan(<<a, b, c>>, U)
    BY DEF SoundPlan, SoundStep
  <1>5. ASSUME NEW p, NEW q, SoundPlan(p, U), SoundPlan(q, U)
        PROVE  SoundPlan(p \o q, U)
    <2>1. p \in Seq(Steps) /\ q \in Seq(Steps) /\ p \o q \in Seq(Steps)
      BY <1>5 DEF SoundPlan
    <2>2. ASSUME NEW i \in DOMAIN (p \o q) PROVE SoundStep((p \o q)[i], U)
      BY <1>5, <2>1 DEF SoundPlan
    <2> QED
      BY <2>1, <2>2 DEF SoundPlan
  <1>6. ASSUME NEW p, SoundPlan(p, U), p # <<>>
        PROVE  SoundStep(Head(p), U) /\ SoundPlan(Tail(p), U)
    <2>1. p \in Seq(Steps) /\ Tail(p) \in Seq(Steps) /\ Head(p) = p[1] /\ 1 \in DOMAIN p
      BY <1>6 DEF SoundPlan
    <2>2. ASSUME NEW i \in DOMAIN Tail(p) PROVE SoundStep(Tail(p)[i], U)
      <3>1. Tail(p)[i] = p[i + 1] /\ i + 1 \in DOMAIN p
        BY <2>1, <1>6
      <3> QED
        BY <1>6, <3>1 DEF SoundPlan
    <2> QED
      BY <1>6, <2>1, <2>2 DEF SoundPlan
  <1> QED
    BY <1>1, <1>2, <1>3, <1>4, <1>5, <1>6

-----------------------------------------------------------------------------
(***************************************************************************)
(* The inductive invariant: the tree on disk, the published world and      *)
(* every snapshot still to be published are sound, and so is every step    *)
(* that a request has still to make, whatever overlaps.                    *)
(***************************************************************************)

Pcs == {"idle", "asking", "saving", "writing", "read", "published"}

SoundRequest(q, handedOut) ==
    /\ q \in [pc : Pcs, op : {q.op}, uuid : {q.uuid}, plan : {q.plan},
              base : {q.base}, seen : {q.seen}]
    /\ SoundPlan(q.plan, handedOut)
    /\ q.pc = "read" => SoundTree(q.seen, handedOut)
    /\ q.pc = "asking" => q.uuid \in Nat

TreesAreSound == SoundTree(disk, used) /\ SoundTree(world, used)

RequestsAreSound ==
    /\ req = [r \in Requests |-> req[r]]
    /\ \A r \in Requests : SoundRequest(req[r], used)

HeldIsTyped ==
    /\ held = [r \in Requests |-> held[r]]
    /\ \A r \in Requests :
        req[r].pc = "saving" /\ req[r].op = "reject" => held[r] \in Proposed

CountsAreTyped ==
    /\ started \in 0..MaxStarted /\ crashes \in 0..MaxCrashes /\ analyses \in Nat
    /\ owed \subseteq used

SuggestionsInv == TreesAreSound /\ RequestsAreSound /\ HeldIsTyped /\ CountsAreTyped

\* What is read back as an artifact is one.
LEMMA LoadedIs ==
    ASSUME NEW U, NEW t, SoundTree(t, U), NEW p \in Loaded(t)
    PROVE  /\ p \in DOMAIN t.files /\ p \in ArtifactPath
           /\ t.files[p] \in StoredArtifact /\ SoundFile(t.files[p], U)
           /\ t.files[p].uuid \in U
PROOF
  <1> DEFINE f == t.files[p]
  <1>1. p \in DOMAIN t.files /\ SoundAt(p, f, U)
    BY TreeIs DEF Loaded
  <1>2. p.ext # List /\ f.form \in {"front", "json"}
    BY DEF Loaded, Loads, IsSidecar, List, Md
  <1> HIDE DEF f
  <1>3. p \in ArtifactPath
    BY <1>1, <1>2 DEF SoundAt, ArtifactPath
  <1>4. f \in StoredArtifact
    BY <1>1, <1>2 DEF SoundAt, SoundFile, File, BytesFile, ListOfSuggestions, Of
  <1>5. f.uuid \in Uuids
    BY <1>4 DEF StoredArtifact, Of
  <1> QED
    BY <1>1, <1>3, <1>4, <1>5 DEF f, SoundAt, SoundFile

\* An artifact that is found by its identity.
LEMMA FoundIs ==
    ASSUME SoundTree(world, used), NEW u \in UuidsOf(world)
    PROVE  /\ At(world, u) \in Loaded(world) /\ At(world, u) \in ArtifactPath
           /\ Current(u) \in StoredArtifact /\ SoundFile(Current(u), used)
           /\ Current(u).uuid = u /\ u \in Uuids
PROOF
  <1> DEFINE all == {p \in Loaded(world) : world.files[p].uuid = u}
             content == {p \in all : p.ext = Md}
  <1>1. PICK p \in all : TRUE
    BY DEF UuidsOf
  <1>2. \E q \in all : content # {} => q \in content
    BY <1>1
  <1>3. At(world, u) \in all
    BY <1>2 DEF At
  <1>4. u \in Uuids
    BY <1>3, LoadedIs DEF StoredArtifact, Of
  <1> QED
    BY <1>3, <1>4, LoadedIs DEF Current

LEMMA MintIs == Fresh # {} => Mint \in Uuids /\ Mint \notin used
PROOF
  BY DEF Mint, Fresh

LEMMA FindsIs ==
    ASSUME SoundTree(world, used), NEW d, Finds(world, d)
    PROVE  d \in Dirs
PROOF
  BY TreeIs DEF Finds

\* The writes of one new artifact with its bytes.
LEMMA BlobWritesSound ==
    ASSUME NEW U, NEW d \in Dirs, NEW n \in Names, NEW f, SoundFile(f, U),
           f.shape # "list", f.text \in Exts
    PROVE  SoundPlan(BlobWrites(d, n, f), U)
PROOF
  <1>1. Path(d, n, Bin(f.text)) \in ArtifactPath /\ Path(d, n, Side(f.text)) \in ArtifactPath
    BY PathsTyped
  <1>2. SoundFile(Bytes, U) /\ Bytes.shape # "list"
    BY NewLogs DEF Bytes, Artifact, SoundFile, File, BytesFile, Of
  <1>3. /\ SoundStep(Put(Path(d, n, Bin(f.text)), Bytes), U)
        /\ SoundStep(Put(Path(d, n, Side(f.text)), f), U)
    BY <1>1, <1>2, ArtifactAt, StepsAreSound
  <1> QED
    BY <1>3, PlansAreSound DEF BlobWrites

\* The removals of the directories on disk.
LEMMA RemovalsAreSound ==
    ASSUME SoundTree(disk, used), NEW s \in Orders(OnDisk(disk))
    PROVE  SoundPlan(Removals(s), used)
PROOF
  <1> DEFINE n == Cardinality(OnDisk(disk))
             plan == [i \in 1..n |-> RmDir(s[i])]
  <1>1. OnDisk(disk) \subseteq Directories
    BY TreeIs, PathsTyped DEF OnDisk, Directories
  <1>2. n \in Nat
    <2>1. IsFiniteSet(Directories)
      BY DirsAssumption, FS_Singleton, FS_Union DEF Directories
    <2> QED
      BY <1>1, <2>1, FS_Subset, FS_CardinalityType
  <1>3. DOMAIN s = 1..n /\ \A i \in 1..n : s[i] \in Directories
    BY <1>1 DEF Orders
  <1> HIDE DEF n
  <1>4. \A i \in 1..n : SoundStep(plan[i], used) /\ plan[i] \in Steps
    BY <1>3, StepsAreSound DEF SoundStep
  <1>5. plan \in Seq(Steps) /\ DOMAIN plan = 1..n
    BY <1>2, <1>4
  <1>6. SoundPlan(plan, used)
    BY <1>4, <1>5 DEF SoundPlan
  <1> QED
    BY <1>3, <1>6 DEF Removals

\* A request that passed its checks goes on to write sound files.
LEMMA AsksArePlans ==
    ASSUME SoundTree(disk, used), SoundTree(world, used), NEW r \in Requests, Asks(r)
    PROVE  \E op, u, news, plan :
            Plans(r, op, u, news, plan) /\ SoundPlan(plan, used \cup news)
PROOF
  <1>a. \A news, p, f : SoundAt(p, f, used \cup news) => SoundPlan(<<Put(p, f)>>, used \cup news)
    BY StepsAreSound, PlansAreSound
  <1>b. \A p, f : SoundAt(p, f, used) => SoundPlan(<<Put(p, f)>>, used \cup {})
    <2>1. used \cup {} = used
      OBVIOUS
    <2> QED
      BY <1>a, <2>1
  <1>c. \A plan : SoundPlan(plan, used) => SoundPlan(plan, used \cup {})
    BY SoundStays
  <1>1. CASE Create(r)
    <2>1. PICK d \in Dirs, n \in Names :
            Makes(r, "create", d, n,
                  <<Put(Path(d, n, Md), Artifact(Mint, "content", "front", None))>>)
      BY <1>1 DEF Create
    <2>2. Mint \in Uuids /\ Path(d, n, Md) \in ArtifactPath
      BY <2>1, MintIs, PathsTyped DEF Makes
    <2>3. SoundAt(Path(d, n, Md), Artifact(Mint, "content", "front", None),
                  used \cup {Mint})
      BY <2>2, NewFiles, ArtifactAt
    <2> QED
      BY <1>a, <2>1, <2>3 DEF Makes
  <1>2. CASE CreateUrl(r)
    <2>1. PICK d \in Dirs, n \in Names, t \in Texts :
            Makes(r, "createurl", d, n,
                  <<Put(Path(d, n, UrlSide), Artifact(Mint, "url", "json", t))>>)
      BY <1>2 DEF CreateUrl
    <2>2. Mint \in Uuids /\ Path(d, n, UrlSide) \in ArtifactPath
      BY <2>1, MintIs, PathsTyped DEF Makes
    <2>3. SoundAt(Path(d, n, UrlSide), Artifact(Mint, "url", "json", t), used \cup {Mint})
      BY <2>2, NewFiles, ArtifactAt
    <2> QED
      BY <1>a, <2>1, <2>3 DEF Makes
  <1>3. CASE CreateBlob(r)
    <2>1. PICK d \in Dirs, n \in Names, e \in Exts :
            Makes(r, "createblob", d, n,
                  BlobWrites(d, n, Artifact(Mint, "blob", "json", e)))
      BY <1>3 DEF CreateBlob
    <2>2. Mint \in Uuids
      BY <2>1, MintIs DEF Makes
    <2>3. /\ SoundFile(Artifact(Mint, "blob", "json", e), used \cup {Mint})
          /\ Artifact(Mint, "blob", "json", e).shape # "list"
      BY <2>2, NewFiles
    <2>4. Artifact(Mint, "blob", "json", e).text = e
      BY DEF Artifact
    <2>5. SoundPlan(BlobWrites(d, n, Artifact(Mint, "blob", "json", e)), used \cup {Mint})
      BY <2>3, <2>4, BlobWritesSound
    <2> QED
      BY <2>1, <2>5 DEF Makes
  <1>4. CASE Adopt(r)
    <2>1. PICK p \in DOMAIN disk.files, n \in Names :
            /\ p.ext[1] = "bin"
            /\ Makes(r, "adopt", p.dir, n,
                     <<Put([p EXCEPT !.ext = Side(p.ext[2])],
                           Artifact(Mint, "blob", "json", p.ext[2]))>>)
      BY <1>4 DEF Adopt
    <2>2. p \in Paths /\ Mint \in Uuids
      BY <2>1, MintIs, TreeIs DEF Makes
    <2>3. p \in ArtifactPath
      BY <2>1, <2>2 DEF ArtifactPath, List
    <2>4. p.ext[2] \in Exts
      BY <2>1, <2>2, <2>3, PathKinds DEF Paths, ArtifactPath, Md, UrlSide, Side, Bin
    <2>5. [p EXCEPT !.ext = Side(p.ext[2])] = Path(p.dir, p.name, Side(p.ext[2]))
      BY <2>3, PathsTyped DEF Path
    <2>6. [p EXCEPT !.ext = Side(p.ext[2])] \in ArtifactPath
      BY <2>3, <2>4, <2>5, PathsTyped
    <2>7. SoundAt([p EXCEPT !.ext = Side(p.ext[2])], Artifact(Mint, "blob", "json", p.ext[2]),
                  used \cup {Mint})
      BY <2>2, <2>4, <2>6, NewFiles, ArtifactAt
    <2> QED
      BY <1>a, <2>1, <2>7 DEF Makes
  <1>5. CASE Update(r)
    <2>1. PICK u \in Uuids, t \in Texts \cup {None} :
            /\ Held(u) /\ (t # None => Current(u).shape = "url")
            /\ Plans(r, "update", u, {}, <<Put(At(world, u), Edited(Current(u), t))>>)
      BY <1>5 DEF Update
    <2>2. SoundAt(At(world, u), Edited(Current(u), t), used)
      <3>1. /\ At(world, u) \in ArtifactPath
            /\ Current(u) \in StoredArtifact /\ SoundFile(Current(u), used)
        BY <2>1, FoundIs DEF Held
      <3>2. SoundFile(Edited(Current(u), t), used) /\ Edited(Current(u), t).shape # "list"
        BY <2>1, <3>1, ChangedFiles
      <3> QED
        BY <3>1, <3>2, ArtifactAt
    <2> QED
      BY <1>b, <2>1, <2>2
  <1>6. CASE Check(r)
    <2>1. PICK u \in Uuids :
            /\ Held(u) /\ Current(u).shape = "url"
            /\ Plans(r, "check", u, {}, <<Put(At(world, u), Checked(Current(u)))>>)
      BY <1>6 DEF Check
    <2>2. SoundAt(At(world, u), Checked(Current(u)), used)
      BY <2>1, FoundIs, ChangedFiles, ArtifactAt DEF Held
    <2> QED
      BY <1>b, <2>1, <2>2
  <1>7. CASE Review(r)
    <2>1. PICK u \in Uuids : Held(u) /\ \E e \in Reviews(Current(u).log) :
            Plans(r, "review", u, {},
                  <<Put(At(world, u), [Current(u) EXCEPT !.form = "front",
                                                         !.log = Append(@, e)])>>)
      BY <1>7 DEF Review
    <2>2. PICK e \in Reviews(Current(u).log) :
            Plans(r, "review", u, {},
                  <<Put(At(world, u), [Current(u) EXCEPT !.form = "front",
                                                         !.log = Append(@, e)])>>)
      BY <2>1
    <2>3. SoundAt(At(world, u), [Current(u) EXCEPT !.form = "front", !.log = Append(@, e)],
                  used)
      <3> DEFINE f == Current(u)
                 g == [f EXCEPT !.form = "front", !.log = Append(@, e)]
      <3>1. At(world, u) \in ArtifactPath /\ f \in StoredArtifact /\ SoundFile(f, used)
        BY <2>1, FoundIs DEF Held
      <3>2. e \in Reviews(f.log)
        OBVIOUS
      <3> HIDE DEF f
      <3>3. \A h \in {[f EXCEPT !.form = "front", !.log = Append(@, e)]} :
                SoundFile(h, used) /\ h.shape # "list"
        BY <3>1, <3>2, ReviewedFile
      <3> QED
        BY <3>1, <3>3, ArtifactAt DEF f
    <2> QED
      BY <1>b, <2>2, <2>3
  <1>8. CASE Rename(r)
    <2>1. PICK u \in Uuids, n \in Names :
            /\ Held(u)
            /\ Plans(r, "rename", u, {},
                     <<Move(At(world, u), Path(At(world, u).dir, n, Md))>>)
      BY <1>8 DEF Rename
    <2>2. At(world, u) \in ArtifactPath /\ Path(At(world, u).dir, n, Md) \in ArtifactPath
      BY <2>1, FoundIs, PathsTyped DEF Held
    <2>3. SoundPlan(<<Move(At(world, u), Path(At(world, u).dir, n, Md))>>, used)
      BY <2>2, StepsAreSound, PlansAreSound
    <2> QED
      BY <1>c, <2>1, <2>3
  <1>9. CASE Delete(r)
    <2>1. PICK u \in UuidsOf(world) : Plans(r, "delete", u, {}, <<Drop(At(world, u))>>)
      BY <1>9 DEF Delete
    <2>2. At(world, u) \in Paths
      BY <2>1, FoundIs DEF ArtifactPath
    <2>3. SoundPlan(<<Drop(At(world, u))>>, used)
      BY <2>2, StepsAreSound, PlansAreSound
    <2> QED
      BY <1>c, <2>1, <2>3
  <1>10. CASE ReplaceBlob(r)
    <2> DEFINE New(u, e) == BlobWrites(At(world, u).dir, At(world, u).name,
                                       [Current(u) EXCEPT !.text = e])
               Old(u) == <<DropIf(At(world, u)), DropIf(BytesOf(At(world, u), Current(u)))>>
    <2>1. PICK u \in Uuids, e \in Exts :
            /\ Held(u) /\ Current(u).shape = "blob"
            /\ Plans(r, "replace", u, {},
                     IF e = Current(u).text THEN New(u, e) ELSE New(u, e) \o Old(u))
      BY <1>10 DEF ReplaceBlob
    <2> DEFINE p == At(world, u)
               f == Current(u)
    <2>2. /\ p \in ArtifactPath /\ f \in StoredArtifact /\ SoundFile(f, used)
          /\ f.shape = "blob" /\ p.dir \in Dirs /\ p.name \in Names
          /\ p = Path(p.dir, p.name, p.ext)
      BY <2>1, FoundIs, PathsTyped DEF Held
    <2>3. f.text \in Exts
      BY <2>2 DEF StoredArtifact, Of
    <2>4. SoundPlan(New(u, e), used)
      <3> HIDE DEF f, p
      <3>1. \A g \in {[f EXCEPT !.text = e]} :
                SoundFile(g, used) /\ g.shape # "list" /\ g.text = e
        BY ZenonT(30), <2>2, ChangedFiles
      <3>2. SoundPlan(BlobWrites(p.dir, p.name, [f EXCEPT !.text = e]), used)
        BY <2>2, <3>1, BlobWritesSound
      <3> QED
        BY <3>2 DEF f, p
    <2>5. BytesOf(p, f) \in Paths
      <3>1. BytesOf(p, f) = Path(p.dir, p.name, Bin(f.text))
        BY <2>2 DEF BytesOf, Path
      <3> QED
        BY <2>2, <2>3, <3>1, PathsTyped DEF ArtifactPath
    <2>6. SoundPlan(Old(u), used)
      BY <2>2, <2>5, StepsAreSound, PlansAreSound DEF ArtifactPath
    <2> HIDE DEF New, Old
    <2>7. SoundPlan(New(u, e), used) /\ SoundPlan(New(u, e) \o Old(u), used)
      BY <2>4, <2>6, PlansAreSound
    <2> QED
      BY <1>c, <2>1, <2>7
  <1>11. CASE CreateCollection(r)
    <2>1. PICK d \in Dirs, x \in Prefixes : Plans(r, "mkcoll", None, {}, <<MkDir(d, x)>>)
      BY <1>11 DEF CreateCollection
    <2>2. SoundPlan(<<MkDir(d, x)>>, used)
      BY StepsAreSound, PlansAreSound
    <2> QED
      BY <1>c, <2>1, <2>2
  <1>12. CASE DeleteCollection(r)
    <2>1. PICK d \in Dirs : Plans(r, "rmcoll", None, {}, <<RmDir(d)>>)
      BY <1>12 DEF DeleteCollection
    <2>2. SoundPlan(<<RmDir(d)>>, used)
      BY StepsAreSound, PlansAreSound DEF Directories
    <2> QED
      BY <1>c, <2>1, <2>2
  <1>13. CASE Wipe(r)
    <2>1. PICK s \in Orders(OnDisk(disk)) : Plans(r, "wipe", None, {}, Removals(s))
      BY <1>13 DEF Wipe
    <2>2. SoundPlan(Removals(s), used)
      BY RemovalsAreSound
    <2> QED
      BY <1>c, <2>1, <2>2
  <1>14. CASE Import(r)
    <2>1. PICK x \in Prefixes, n \in Names, m \in Names, v \in {w \in Fresh : w # Mint} :
            Plans(r, "import", None, {Mint, v}, ImportPlan(x, n, m, Mint, v))
      BY <1>14 DEF Import
    <2> DEFINE U == used \cup {Mint, v}
               item == [Artifact(Mint, "content", "front", None) EXCEPT
                            !.log = <<Entry("approved", None)>>, !.links = {v}]
               page == Artifact(v, "url", "front", None)
    <2>2. Mint \in Uuids /\ v \in Uuids /\ Slug[x] \in Dirs
      BY MintIs DEF Fresh
    <2>3. SoundFile(item, U) /\ item.shape # "list" /\ SoundFile(page, U) /\ page.shape # "list"
      BY <2>2, NewFiles
    <2>4. Path(Slug[x], n, Md) \in ArtifactPath /\ Path(Slug[x], m, Md) \in ArtifactPath
      BY <2>2, PathsTyped
    <2>5. SoundAt(Path(Slug[x], n, Md), item, U) /\ SoundAt(Path(Slug[x], m, Md), page, U)
      BY <2>3, <2>4, ArtifactAt
    <2>6. SoundPlan(ImportPlan(x, n, m, Mint, v), U)
      <3> HIDE DEF item, page, U
      <3>1. /\ SoundStep(MkDir(Slug[x], x), U)
            /\ SoundStep(Put(Path(Slug[x], n, Md), item), U)
            /\ SoundStep(Put(Path(Slug[x], m, Md), page), U)
        BY <2>2, <2>5, StepsAreSound
      <3> QED
        BY <3>1, PlansAreSound DEF ImportPlan, item, page
    <2> QED
      BY <2>1, <2>6
  <1>15. CASE Sample(r)
    <2>1. PICK x \in Prefixes, n \in Names :
            /\ Fresh # {}
            /\ Plans(r, "sample", None, {Mint},
                     <<MkDir(Slug[x], x),
                       Put(Path(Slug[x], n, Md), Artifact(Mint, "content", "front", None))>>)
      BY <1>15 DEF Sample
    <2>2. Mint \in Uuids /\ Slug[x] \in Dirs /\ Path(Slug[x], n, Md) \in ArtifactPath
      BY <2>1, MintIs, PathsTyped
    <2>3. SoundAt(Path(Slug[x], n, Md), Artifact(Mint, "content", "front", None),
                  used \cup {Mint})
      BY <2>2, NewFiles, ArtifactAt
    <2>4. SoundPlan(<<MkDir(Slug[x], x),
                      Put(Path(Slug[x], n, Md), Artifact(Mint, "content", "front", None))>>,
                    used \cup {Mint})
      BY <2>2, <2>3, StepsAreSound, PlansAreSound
    <2> QED
      BY <2>1, <2>4
  <1> QED
    BY <1>1, <1>2, <1>3, <1>4, <1>5, <1>6, <1>7, <1>8, <1>9, <1>10, <1>11, <1>12,
       <1>13, <1>14, <1>15 DEF Asks

-----------------------------------------------------------------------------
(***************************************************************************)
(* Every step keeps it.                                                    *)
(***************************************************************************)

\* A step of one request, seen from the other requests.
LEMMA OneRequest ==
    ASSUME RequestsAreSound, HeldIsTyped, NEW r \in Requests, NEW q, NEW h,
           req' = [req EXCEPT ![r] = q], held' = [held EXCEPT ![r] = h],
           used \subseteq used', SoundRequest(q, used'),
           q.pc = "saving" /\ q.op = "reject" => h \in Proposed
    PROVE  RequestsAreSound' /\ HeldIsTyped'
PROOF
  <1>1. /\ \A s \in Requests : req'[s] = IF s = r THEN q ELSE req[s]
        /\ req' = [s \in Requests |-> req'[s]]
    BY DEF RequestsAreSound
  <1>2. /\ \A s \in Requests : held'[s] = IF s = r THEN h ELSE held[s]
        /\ held' = [s \in Requests |-> held'[s]]
    BY DEF HeldIsTyped
  <1>3. \A s \in Requests : SoundRequest(req[s], used')
    BY SoundStays DEF RequestsAreSound, SoundRequest
  <1>4. \A s \in Requests : SoundRequest(req'[s], used')
    BY <1>1, <1>3
  <1>5. RequestsAreSound'
    BY <1>1, <1>4 DEF RequestsAreSound
  <1>6. HeldIsTyped'
    BY <1>1, <1>2 DEF HeldIsTyped
  <1> QED
    BY <1>5, <1>6

LEMMA IdleIsSound == \A U : SoundRequest(Idle, U) /\ Idle.pc = "idle"
PROOF
  BY PlansAreSound DEF Idle, SoundRequest, Pcs

\* What is held of a request whose list is not written stays.
LEMMA HeldStays ==
    ASSUME HeldIsTyped, NEW r \in Requests
    PROVE  held = [held EXCEPT ![r] = held[r]]
PROOF
  BY DEF HeldIsTyped

LEMMA StartsSound == SuggestionsInit => SuggestionsInv
PROOF
  <1> SUFFICES ASSUME SuggestionsInit PROVE SuggestionsInv
    OBVIOUS
  <1> USE DEF SuggestionsInit, Init
  <1>1. PICK s \in Scenes : disk = s.tree
    OBVIOUS
  <1>2. /\ disk \in [files : [DOMAIN disk.files -> File], dirs : [DOMAIN disk.dirs -> Prefixes]]
        /\ DOMAIN disk.files \subseteq Paths /\ DOMAIN disk.dirs \subseteq Dirs
        /\ \A p \in DOMAIN disk.files :
            LET f == disk.files[p]
            IN  /\ p.ext = List <=> f.shape = "list"
                /\ Lawful(f.log)
                /\ f.checked # None => f.checked = f.text
    BY <1>1, ScenesAssumption
  <1>3. \A p \in DOMAIN disk.files : SoundAt(p, disk.files[p], used)
    BY <1>2 DEF SoundAt, SoundFile
  <1>4. disk \in Tree
    BY <1>2 DEF Tree
  <1>5. SoundTree(disk, used)
    BY <1>3, <1>4 DEF SoundTree
  <1>6. TreesAreSound
    BY <1>5 DEF TreesAreSound
  <1>7. RequestsAreSound
    BY IdleIsSound DEF RequestsAreSound
  <1>8. HeldIsTyped
    BY DEF HeldIsTyped, Idle
  <1>9. owed \subseteq used
    BY <1>5, LoadedIs DEF UuidsOf
  <1>10. CountsAreTyped
    BY <1>9 DEF CountsAreTyped
  <1> QED
    BY <1>6, <1>7, <1>8, <1>10 DEF SuggestionsInv

LEMMA AskKeeps ==
    ASSUME SuggestionsInv, NEW r \in Requests, NEW h, Asks(r),
           held' = [held EXCEPT ![r] = h], analyses' = analyses
    PROVE  SuggestionsInv'
PROOF
  <1>1. PICK op, u, news, plan :
            Plans(r, op, u, news, plan) /\ SoundPlan(plan, used \cup news)
    BY AsksArePlans DEF SuggestionsInv, TreesAreSound
  <1>2. used' = used \cup news /\ used \subseteq used'
    BY <1>1 DEF Plans
  <1>3. disk' = disk /\ world' = world /\ owed' = owed /\ crashes' = crashes
        /\ started' = started + 1 /\ started < MaxStarted
    BY <1>1 DEF Plans, ghosts
  <1>4. TreesAreSound'
    BY <1>2, <1>3, SoundStays DEF TreesAreSound, SuggestionsInv
  <1> DEFINE q == [pc |-> "writing", op |-> op, uuid |-> u, plan |-> plan, seen |-> None,
                   base |-> IF op = "adopt" THEN disk ELSE world]
  <1>5. req' = [req EXCEPT ![r] = q] /\ q.pc = "writing"
    BY <1>1 DEF Plans
  <1>6. SoundRequest(q, used')
    BY <1>1, <1>2 DEF SoundRequest, Pcs
  <1> HIDE DEF q
  <1>7. RequestsAreSound' /\ HeldIsTyped'
    BY <1>2, <1>5, <1>6, OneRequest DEF SuggestionsInv
  <1>8. CountsAreTyped'
    BY <1>2, <1>3 DEF CountsAreTyped, SuggestionsInv
  <1> QED
    BY <1>4, <1>7, <1>8 DEF SuggestionsInv

LEMMA WriteKeeps ==
    ASSUME SuggestionsInv, NEW r \in Requests, NEW h, Write(r),
           held' = [held EXCEPT ![r] = h], analyses' = analyses,
           h = held[r] \/ req[r].op # "reject"
    PROVE  SuggestionsInv'
PROOF
  <1> DEFINE a == Head(req[r].plan)
             q == [req[r] EXCEPT !.plan = Tail(@), !.base = After(@, a)]
  <1>0. SoundRequest(req[r], used) /\ req[r].plan # <<>> /\ ~Fails(disk, a)
    BY DEF SuggestionsInv, RequestsAreSound, Write
  <1>1. SoundStep(a, used) /\ SoundPlan(Tail(req[r].plan), used)
    BY <1>0, PlansAreSound DEF SoundRequest
  <1>2. world' = world /\ used' = used /\ started' = started /\ crashes' = crashes
    BY DEF Write
  <1>3. /\ disk' = After(disk, a)
        /\ req' = [req EXCEPT ![r].plan = Tail(@), ![r].base = After(@, a)]
        /\ owed' = (owed \cup Promised(r, a)) \ Released(r, a)
    BY DEF Write
  <1>4. TreesAreSound'
    BY <1>0, <1>1, <1>2, <1>3, AfterSound DEF SuggestionsInv, TreesAreSound, Fails
  <1>5. req' = [req EXCEPT ![r] = q]
    BY <1>3 DEF SuggestionsInv, RequestsAreSound
  <1>6. SoundRequest(q, used') /\ q.pc = req[r].pc /\ q.op = req[r].op
    <2> HIDE DEF a
    <2>1. /\ q \in [pc : Pcs, op : {req[r].op}, uuid : {req[r].uuid},
                    plan : {Tail(req[r].plan)}, base : {After(req[r].base, a)},
                    seen : {req[r].seen}]
          /\ q.pc = req[r].pc
      BY <1>0 DEF SoundRequest
    <2> HIDE DEF q
    <2>2. q \in [pc : Pcs, op : {q.op}, uuid : {q.uuid}, plan : {q.plan},
                 base : {q.base}, seen : {q.seen}]
      BY <2>1
    <2> QED
      BY <1>0, <1>1, <1>2, <2>1, <2>2 DEF SoundRequest
  <1> HIDE DEF q
  <1>7. q.pc = "saving" /\ q.op = "reject" => h \in Proposed
    BY <1>6 DEF SuggestionsInv, HeldIsTyped
  <1>8. RequestsAreSound' /\ HeldIsTyped'
    BY <1>2, <1>5, <1>6, <1>7, OneRequest DEF SuggestionsInv
  <1>9. Promised(r, a) \subseteq used
    BY <1>1 DEF Promised, SoundStep, SoundAt, SoundFile
  <1>10. CountsAreTyped'
    BY <1>2, <1>3, <1>9 DEF SuggestionsInv, CountsAreTyped
  <1> QED
    BY <1>4, <1>8, <1>10 DEF SuggestionsInv

\* A removal that stops half way, an old file that stays, and the removal of
\* what came since.
LEMMA RemovalKeeps ==
    ASSUME SuggestionsInv, NEW r \in Requests, NEW h,
           PartlyRemoves(r) \/ Ignores(r) \/ Deinit(r),
           held' = [held EXCEPT ![r] = h], analyses' = analyses,
           h = held[r] \/ req[r].op # "reject"
    PROVE  SuggestionsInv'
PROOF
  <1>0. /\ SoundRequest(req[r], used) /\ SoundTree(disk, used) /\ SoundTree(world, used)
        /\ used' = used /\ world' = world /\ started' = started /\ crashes' = crashes
    BY DEF SuggestionsInv, RequestsAreSound, TreesAreSound, PartlyRemoves, Ignores, Deinit
  <1>1. owed' \subseteq owed
    BY DEF PartlyRemoves, Ignores, Deinit, ghosts
  <1>2. CountsAreTyped'
    BY <1>0, <1>1 DEF SuggestionsInv, CountsAreTyped
  <1>3. TreesAreSound'
    <2>1. CASE PartlyRemoves(r)
      <3>1. \E P \in SUBSET DOMAIN disk.files, D \in SUBSET DOMAIN disk.dirs :
              disk' = [files |-> Only(disk.files, P), dirs |-> Only(disk.dirs, D)]
        BY <2>1 DEF PartlyRemoves
      <3> QED
        BY <1>0, <3>1, OnlySound DEF TreesAreSound
    <2>2. CASE Ignores(r) \/ Deinit(r)
      BY <1>0, <2>2 DEF TreesAreSound, Ignores, Deinit
    <2> QED
      BY <2>1, <2>2
  <1>4. \E q : /\ req' = [req EXCEPT ![r] = q] /\ SoundRequest(q, used)
               /\ q.pc = req[r].pc /\ q.op = req[r].op
    <2>0. ASSUME NEW plan, SoundPlan(plan, used), NEW base
          PROVE  \A q \in {[req[r] EXCEPT !.plan = plan, !.base = base]} :
                    SoundRequest(q, used) /\ q.pc = req[r].pc /\ q.op = req[r].op
      <3> DEFINE q == [req[r] EXCEPT !.plan = plan, !.base = base]
      <3>1. q \in [pc : Pcs, op : {req[r].op}, uuid : {req[r].uuid}, plan : {plan},
                    base : {base}, seen : {req[r].seen}]
            /\ q.pc = req[r].pc
        BY <1>0 DEF SoundRequest
      <3> HIDE DEF q
      <3>2. q \in [pc : Pcs, op : {q.op}, uuid : {q.uuid}, plan : {q.plan},
                   base : {q.base}, seen : {q.seen}]
        BY <3>1
      <3>3. SoundRequest(q, used) /\ q.pc = req[r].pc /\ q.op = req[r].op
        BY <1>0, <2>0, <3>1, <3>2 DEF SoundRequest
      <3> QED
        BY <3>3 DEF q
    <2>1. CASE PartlyRemoves(r)
      <3>1. req' = [req EXCEPT ![r] = req[r]]
        BY <2>1 DEF PartlyRemoves, SuggestionsInv, RequestsAreSound
      <3> QED
        BY <1>0, <3>1
    <2>2. CASE Ignores(r)
      <3>1. SoundPlan(Tail(req[r].plan), used)
        BY <1>0, <2>2, PlansAreSound DEF Ignores, SoundRequest
      <3>2. req' = [req EXCEPT ![r] = [req[r] EXCEPT !.plan = Tail(req[r].plan),
                                                      !.base = req[r].base]]
        BY <1>0, <2>2 DEF Ignores, SuggestionsInv, RequestsAreSound, SoundRequest
      <3> QED
        BY <2>0, <3>1, <3>2
    <2>3. CASE Deinit(r)
      <3>1. PICK s \in Orders(OnDisk(disk)) :
                req' = [req EXCEPT ![r].plan = Removals(s), ![r].base = disk]
        BY <2>3 DEF Deinit
      <3>2. SoundPlan(Removals(s), used)
        BY <1>0, RemovalsAreSound
      <3>3. req' = [req EXCEPT ![r] = [req[r] EXCEPT !.plan = Removals(s), !.base = disk]]
        BY <3>1 DEF SuggestionsInv, RequestsAreSound
      <3> QED
        BY <2>0, <3>2, <3>3
    <2> QED
      BY <2>1, <2>2, <2>3
  <1>5. PICK q : /\ req' = [req EXCEPT ![r] = q] /\ SoundRequest(q, used)
                 /\ q.pc = req[r].pc /\ q.op = req[r].op
    BY <1>4
  <1>6. q.pc = "saving" /\ q.op = "reject" => h \in Proposed
    BY <1>5 DEF SuggestionsInv, HeldIsTyped
  <1>7. RequestsAreSound' /\ HeldIsTyped'
    BY <1>0, <1>5, <1>6, OneRequest DEF SuggestionsInv
  <1> QED
    BY <1>2, <1>3, <1>7 DEF SuggestionsInv

\* An error ends a request.
LEMMA ErrorKeeps ==
    ASSUME SuggestionsInv, NEW r \in Requests, Errs(r)
    PROVE  SuggestionsInv'
PROOF
  <1>1. /\ req' = [req EXCEPT ![r] = Idle] /\ held' = [held EXCEPT ![r] = None]
        /\ disk' = disk /\ world' = world /\ used' = used /\ owed' = owed
        /\ started' = started /\ crashes' = crashes /\ analyses' = analyses
    BY DEF Errs, GiveUp
  <1>2. RequestsAreSound' /\ HeldIsTyped'
    BY <1>1, IdleIsSound, OneRequest DEF SuggestionsInv
  <1> QED
    BY <1>1, <1>2 DEF SuggestionsInv, TreesAreSound, CountsAreTyped

\* Reading the tree, publishing it and answering.
LEMMA RefreshKeeps ==
    ASSUME SuggestionsInv, NEW r \in Requests, NEW h,
           Read(r) \/ Publish(r) \/ Answer(r),
           held' = [held EXCEPT ![r] = h], analyses' = analyses,
           h = held[r] \/ req[r].op # "reject"
    PROVE  SuggestionsInv'
PROOF
  <1>0. SoundRequest(req[r], used) /\ used' = used /\ disk' = disk /\ owed' = owed
        /\ started' = started /\ crashes' = crashes
    BY DEF SuggestionsInv, RequestsAreSound, Read, Publish, Answer, ghosts
  <1>1. CountsAreTyped'
    BY <1>0 DEF SuggestionsInv, CountsAreTyped
  <1>2. CASE Read(r)
    <2> DEFINE q == [req[r] EXCEPT !.pc = "read", !.seen = disk, !.base = None]
    <2>1. req' = [req EXCEPT ![r] = q] /\ world' = world
      BY <1>2 DEF Read, SuggestionsInv, RequestsAreSound
    <2>2. /\ q \in [pc : {"read"}, op : {req[r].op}, uuid : {req[r].uuid},
                    plan : {req[r].plan}, base : {None}, seen : {disk}]
          /\ SoundPlan(req[r].plan, used) /\ SoundTree(disk, used)
      BY <1>0 DEF SoundRequest, SuggestionsInv, TreesAreSound
    <2> HIDE DEF q
    <2>3. SoundRequest(q, used') /\ q.pc = "read"
      BY <1>0, <2>2 DEF SoundRequest, Pcs
    <2>4. RequestsAreSound' /\ HeldIsTyped'
      BY <1>0, <2>1, <2>3, OneRequest DEF SuggestionsInv
    <2> QED
      BY <1>0, <1>1, <2>1, <2>4 DEF SuggestionsInv, TreesAreSound
  <1>3. CASE Publish(r)
    <2> DEFINE q == [req[r] EXCEPT !.pc = "published", !.seen = None]
    <2>1. req' = [req EXCEPT ![r] = q] /\ world' = req[r].seen
      BY <1>3 DEF Publish, SuggestionsInv, RequestsAreSound
    <2>2. /\ q \in [pc : {"published"}, op : {req[r].op}, uuid : {req[r].uuid},
                    plan : {req[r].plan}, base : {req[r].base}, seen : {None}]
          /\ SoundPlan(req[r].plan, used)
      BY <1>0 DEF SoundRequest
    <2> HIDE DEF q
    <2>3. SoundRequest(q, used') /\ q.pc = "published"
      BY <1>0, <2>2 DEF SoundRequest, Pcs
    <2>4. RequestsAreSound' /\ HeldIsTyped'
      BY <1>0, <2>1, <2>3, OneRequest DEF SuggestionsInv
    <2>5. SoundTree(world', used')
      BY <1>0, <1>3, <2>1 DEF SoundRequest, Publish
    <2> QED
      BY <1>0, <1>1, <2>4, <2>5 DEF SuggestionsInv, TreesAreSound
  <1>4. CASE Answer(r)
    <2>1. req' = [req EXCEPT ![r] = Idle] /\ world' = world
      BY <1>4 DEF Answer
    <2>2. RequestsAreSound' /\ HeldIsTyped'
      BY <1>0, <2>1, IdleIsSound, OneRequest DEF SuggestionsInv
    <2> QED
      BY <1>0, <1>1, <2>1, <2>2 DEF SuggestionsInv, TreesAreSound
  <1> QED
    BY <1>2, <1>3, <1>4

\* A restart publishes what is on disk and forgets the requests.
LEMMA StopKeeps == SuggestionsInv /\ Stops => SuggestionsInv'
PROOF
  <1> SUFFICES ASSUME SuggestionsInv, Stops PROVE SuggestionsInv'
    OBVIOUS
  <1>1. /\ disk' = disk /\ world' = disk /\ used' = used /\ owed' = owed
        /\ started' = started /\ analyses' = analyses
        /\ crashes < MaxCrashes /\ crashes' = crashes + 1
        /\ req' = [r \in Requests |-> Idle] /\ held' = [r \in Requests |-> None]
    BY DEF Stops, Crash, ghosts
  <1>2. TreesAreSound'
    BY <1>1 DEF SuggestionsInv, TreesAreSound
  <1>3. RequestsAreSound'
    BY <1>1, IdleIsSound DEF RequestsAreSound
  <1>4. HeldIsTyped'
    BY <1>1 DEF HeldIsTyped, Idle
  <1>5. CountsAreTyped'
    BY <1>1 DEF SuggestionsInv, CountsAreTyped
  <1> QED
    BY <1>2, <1>3, <1>4, <1>5 DEF SuggestionsInv

\* A list as it is on disk.
LEMMA ListedIs ==
    ASSUME SoundTree(disk, used)
    PROVE  Pending \in SUBSET Proposed /\ Declined \in SUBSET Proposed
PROOF
  <1>1. ASSUME NEW p \in {PendingAt, DeclinedAt} PROVE Listed(disk, p) \in SUBSET Proposed
    <2>1. CASE p \in DOMAIN disk.files
      <3>1. SoundAt(p, disk.files[p], used) /\ p.ext = List
        BY <2>1, TreeIs, PathKinds
      <3>2. disk.files[p] \in ListOfSuggestions
        BY <3>1 DEF SoundAt, SoundFile, File, StoredArtifact, BytesFile, Of
      <3> QED
        BY <2>1, <3>2 DEF Listed, ListOfSuggestions, Of, Proposed
    <2>2. CASE p \notin DOMAIN disk.files
      BY <2>2 DEF Listed
    <2> QED
      BY <2>1, <2>2
  <1> QED
    BY <1>1 DEF Pending, Declined

\* A step of the suggestions touches neither the trees nor what was promised.
LEMMA SuggestionKeeps ==
    ASSUME SuggestionsInv, NEW r \in Requests, NEW q, NEW h,
           req' = [req EXCEPT ![r] = q], held' = [held EXCEPT ![r] = h],
           SoundRequest(q, used), q.pc = "saving" /\ q.op = "reject" => h \in Proposed,
           rest' = rest, started' \in 0..MaxStarted, analyses' \in Nat
    PROVE  SuggestionsInv'
PROOF
  <1>1. disk' = disk /\ world' = world /\ used' = used /\ owed' = owed /\ crashes' = crashes
    BY DEF rest, ghosts
  <1>2. RequestsAreSound' /\ HeldIsTyped'
    BY <1>1, OneRequest DEF SuggestionsInv
  <1> QED
    BY <1>1, <1>2 DEF SuggestionsInv, TreesAreSound, CountsAreTyped

LEMMA SavesKeep ==
    ASSUME SuggestionsInv, NEW r \in Requests, NEW op, NEW p \in {PendingAt, DeclinedAt},
           NEW S \in SUBSET Proposed, NEW h, Saves(r, op, p, S, h),
           op = "reject" => h \in Proposed,
           rest' = rest, started' \in 0..MaxStarted, analyses' \in Nat
    PROVE  SuggestionsInv'
PROOF
  <1> DEFINE plan == <<Put(p, ListFile(S))>>
             q == [pc |-> "saving", op |-> op, uuid |-> None, plan |-> plan,
                   base |-> disk, seen |-> None]
  <1>1. SoundPlan(plan, used)
    BY ListFiles, StepsAreSound, PlansAreSound
  <1>2. req' = [req EXCEPT ![r] = q] /\ held' = [held EXCEPT ![r] = h]
    BY DEF Saves
  <1> HIDE DEF plan
  <1>3. SoundRequest(q, used) /\ q.op = op
    BY <1>1 DEF SoundRequest, Pcs
  <1> HIDE DEF q
  <1> QED
    BY <1>2, <1>3, SuggestionKeeps

LEMMA SuggestionStepsKeep ==
    ASSUME SuggestionsInv, NEW r \in Requests,
           \/ Analyze(r) \/ Analyzed(r) \/ Accept(r) \/ Reject(r) \/ Reinstate(r)
           \/ Decline(r) \/ Apply(r) \/ Done(r)
    PROVE  SuggestionsInv'
PROOF
  <1>0. /\ SoundTree(disk, used) /\ SoundTree(world, used) /\ SoundRequest(req[r], used)
        /\ started \in 0..MaxStarted /\ analyses \in Nat /\ MaxStarted \in Nat
        /\ Pending \in SUBSET Proposed /\ Declined \in SUBSET Proposed
        /\ SoundRequest(Idle, used) /\ Idle.pc = "idle"
    BY ListedIs, IdleIsSound
    DEF SuggestionsInv, TreesAreSound, RequestsAreSound, CountsAreTyped
  <1>1. CASE Analyze(r)
    <2> DEFINE q == [Idle EXCEPT !.pc = "asking", !.op = "analyze", !.uuid = analyses + 1]
    <2>1. /\ req' = [req EXCEPT ![r] = q] /\ held' = [held EXCEPT ![r] = Declined]
          /\ rest' = rest /\ started' \in 0..MaxStarted /\ analyses' \in Nat
      BY <1>0, <1>1 DEF Analyze, Begins, rest
    <2>2. q \in [pc : {"asking"}, op : {"analyze"}, uuid : {analyses + 1}, plan : {<<>>},
                 base : {None}, seen : {None}]
      BY DEF Idle
    <2> HIDE DEF q
    <2>3. SoundRequest(q, used) /\ q.pc = "asking"
      BY <1>0, <2>2, PlansAreSound DEF SoundRequest, Pcs
    <2> QED
      BY <2>1, <2>3, SuggestionKeeps
  <1>2. CASE Analyzed(r)
    <2>1. rest' = rest /\ started' = started /\ analyses' = analyses
      BY <1>2 DEF Analyzed, rest
    <2>2. CASE Ends(r)
      BY <1>0, <2>1, <2>2, SuggestionKeeps DEF Ends
    <2>3. CASE \E answer \in SUBSET Keys :
                Saves(r, "analyze", PendingAt, Proposes(answer, held[r], req[r].uuid), None)
      <3>1. PICK answer \in SUBSET Keys :
                Saves(r, "analyze", PendingAt, Proposes(answer, held[r], req[r].uuid), None)
        BY <2>3
      <3>2. req[r].uuid \in Nat
        BY <1>0, <1>2 DEF Analyzed, SoundRequest
      <3>3. Proposes(answer, held[r], req[r].uuid) \in SUBSET Proposed
        BY <3>2 DEF Proposes, Suggestion, Proposed
      <3> QED
        BY <1>0, <2>1, <3>1, <3>3, SavesKeep
    <2> QED
      BY <1>2, <2>2, <2>3 DEF Analyzed
  <1>3. CASE Accept(r)
    <2>1. PICK s \in Pending : Begins(r, "accept")
                               /\ Saves(r, "accept", PendingAt, Pending \ {s}, s)
      BY <1>3 DEF Accept
    <2>2. rest' = rest /\ analyses' = analyses /\ started' \in 0..MaxStarted
      BY <1>0, <1>3, <2>1 DEF Accept, Begins, rest
    <2> DEFINE left == Pending \ {s}
    <2>3. s \in Proposed /\ left \in SUBSET Proposed /\ Saves(r, "accept", PendingAt, left, s)
      BY <1>0, <2>1
    <2> HIDE DEF left
    <2> QED
      BY <1>0, <2>2, <2>3, SavesKeep
  <1>4. CASE Reject(r)
    <2>1. PICK s \in Pending : Begins(r, "reject")
                               /\ Saves(r, "reject", PendingAt, Pending \ {s}, s)
      BY <1>4 DEF Reject
    <2>2. rest' = rest /\ analyses' = analyses /\ started' \in 0..MaxStarted
      BY <1>0, <1>4, <2>1 DEF Reject, Begins, rest
    <2> DEFINE left == Pending \ {s}
    <2>3. s \in Proposed /\ left \in SUBSET Proposed /\ Saves(r, "reject", PendingAt, left, s)
      BY <1>0, <2>1
    <2> HIDE DEF left
    <2> QED
      BY <1>0, <2>2, <2>3, SavesKeep
  <1>5. CASE Reinstate(r)
    <2>1. PICK s \in Declined : Begins(r, "reinstate")
                               /\ Saves(r, "reinstate", DeclinedAt, Declined \ {s}, s)
      BY <1>5 DEF Reinstate
    <2>2. rest' = rest /\ analyses' = analyses /\ started' \in 0..MaxStarted
      BY <1>0, <1>5, <2>1 DEF Reinstate, Begins, rest
    <2> DEFINE left == Declined \ {s}
    <2>3. s \in Proposed /\ left \in SUBSET Proposed /\ Saves(r, "reinstate", DeclinedAt, left, s)
      BY <1>0, <2>1
    <2> HIDE DEF left
    <2> QED
      BY <1>0, <2>2, <2>3, SavesKeep
  <1>6. CASE Decline(r)
    <2>1. /\ Saves(r, "decline", DeclinedAt, Declined \cup {held[r]}, held[r])
          /\ rest' = rest /\ started' = started /\ analyses' = analyses
      BY <1>6 DEF Decline, rest
    <2>2. held[r] \in Proposed
      BY <1>6 DEF Decline, Saved, SuggestionsInv, HeldIsTyped
    <2>3. Declined \cup {held[r]} \in SUBSET Proposed
      BY <1>0, <2>2
    <2> QED
      BY <1>0, <2>1, <2>2, <2>3, SavesKeep
  <1>7. CASE Apply(r)
    <2> DEFINE k == held[r].key
    <2>1. rest' = rest /\ started' = started /\ analyses' = analyses
      BY <1>7 DEF Apply, rest
    <2>2. CASE Applies(k)
      <3> DEFINE plan == <<Put(At(world, k[1]), WithLink(Current(k[1]), k[2]))>>
                 q == [pc |-> "writing", op |-> "apply", uuid |-> k[1], seen |-> None,
                       plan |-> plan, base |-> world]
      <3>1. req' = [req EXCEPT ![r] = q] /\ held' = held
        BY <1>7, <2>2 DEF Apply
      <3>2. k[1] \in UuidsOf(world) /\ k[2] \in UuidsOf(world)
        BY <2>2 DEF Applies, Held
      <3> HIDE DEF k
      <3>3. /\ At(world, k[1]) \in ArtifactPath /\ k[2] \in Uuids
            /\ Current(k[1]) \in StoredArtifact /\ SoundFile(Current(k[1]), used)
        BY <1>0, <3>2, FoundIs
      <3>4. SoundAt(At(world, k[1]), WithLink(Current(k[1]), k[2]), used)
        BY <3>3, ChangedFiles, ArtifactAt
      <3>5. SoundPlan(plan, used)
        BY <3>4, StepsAreSound, PlansAreSound
      <3> HIDE DEF plan
      <3>6. SoundRequest(q, used) /\ q.pc = "writing"
        BY <3>5 DEF SoundRequest, Pcs
      <3>7. held' = [held EXCEPT ![r] = held[r]]
        BY <3>1, HeldStays DEF SuggestionsInv
      <3> HIDE DEF q
      <3> QED
        BY <1>0, <2>1, <3>1, <3>6, <3>7, SuggestionKeeps
    <2>3. CASE ~Applies(k)
      <3>1. Ends(r)
        BY <1>7, <2>3 DEF Apply
      <3> QED
        BY <1>0, <2>1, <3>1, SuggestionKeeps DEF Ends
    <2> QED
      BY <2>2, <2>3
  <1>8. CASE Done(r)
    <2>1. Ends(r) /\ rest' = rest /\ started' = started /\ analyses' = analyses
      BY <1>8 DEF Done, rest
    <2> QED
      BY <1>0, <2>1, SuggestionKeeps DEF Ends
  <1> QED
    BY <1>1, <1>2, <1>3, <1>4, <1>5, <1>6, <1>7, <1>8

LEMMA StoresKeep ==
    ASSUME SuggestionsInv, NEW r \in Requests, Stores(r)
    PROVE  SuggestionsInv'
PROOF
  <1>1. \E h : /\ held' = [held EXCEPT ![r] = h]
               /\ h = held[r] \/ req[r].op # "reject"
    <2>1. CASE Lands(r, "apply") \/ Lands(r, "decline")
      <3>1. held' = [held EXCEPT ![r] = None] /\ req[r].op # "reject"
        BY <2>1 DEF Stores, Lands
      <3> QED
        BY <3>1
    <2>2. CASE ~(Lands(r, "apply") \/ Lands(r, "decline"))
      <3>1. held' = [held EXCEPT ![r] = held[r]]
        BY <2>2, HeldStays DEF Stores, SuggestionsInv
      <3> QED
        BY <3>1
    <2> QED
      BY <2>1, <2>2
  <1>2. analyses' = analyses
    BY DEF Stores
  <1>3. CASE Asks(r)
    BY <1>1, <1>2, <1>3, AskKeeps
  <1>4. CASE Write(r)
    BY <1>1, <1>2, <1>4, WriteKeeps
  <1>5. CASE Read(r) \/ Publish(r) \/ Answer(r)
    BY <1>1, <1>2, <1>5, RefreshKeeps
  <1>6. CASE PartlyRemoves(r) \/ Ignores(r) \/ Deinit(r)
    BY <1>1, <1>2, <1>6, RemovalKeeps
  <1> QED
    BY <1>3, <1>4, <1>5, <1>6 DEF Stores

LEMMA StepsKeep == SuggestionsInv /\ [SuggestionsNext]_svars => SuggestionsInv'
PROOF
  <1> SUFFICES ASSUME SuggestionsInv, [SuggestionsNext]_svars
               PROVE  SuggestionsInv'
    OBVIOUS
  <1>1. CASE UNCHANGED svars
    BY <1>1 DEF svars, vars, SuggestionsInv, TreesAreSound, RequestsAreSound,
                HeldIsTyped, CountsAreTyped
  <1>2. CASE \E r \in Requests : Stores(r)
    BY <1>2, StoresKeep
  <1>3. CASE \E r \in Requests :
                \/ Analyze(r) \/ Analyzed(r) \/ Accept(r) \/ Reject(r) \/ Reinstate(r)
                \/ Decline(r) \/ Apply(r) \/ Done(r)
    BY <1>3, SuggestionStepsKeep
  <1>4. CASE Stops
    BY <1>4, StopKeeps
  <1>5. CASE NobodyAsks
    BY <1>1, <1>5 DEF NobodyAsks
  <1>6. CASE \E r \in Requests : Errs(r)
    BY <1>6, ErrorKeeps
  <1> QED
    BY <1>1, <1>2, <1>3, <1>4, <1>5, <1>6 DEF SuggestionsNext

\* The trees, the snapshots and the plans of every request stay sound.
THEOREM TheStoreIsSound == SuggestionsSpec => []SuggestionsInv
PROOF
  <1>1. SuggestionsInit => SuggestionsInv
    BY StartsSound
  <1>2. SuggestionsInv /\ [SuggestionsNext]_svars => SuggestionsInv'
    BY StepsKeep
  <1> QED
    BY <1>1, <1>2, PTL DEF SuggestionsSpec

\* A file that is not a list of suggestions is an artifact or its bytes.
LEMMA FilesAre ==
    ASSUME SoundTree(disk, used), NEW f \in Files
    PROVE  SoundFile(f, used) /\ f \in StoredArtifact \cup BytesFile
PROOF
  <1>1. PICK p \in DOMAIN disk.files : p.ext # List /\ f = disk.files[p]
    BY DEF Files
  <1>2. SoundAt(p, f, used)
    BY <1>1, TreeIs
  <1> QED
    BY <1>1, <1>2 DEF SoundAt, SoundFile, File, ListOfSuggestions, Of

\* Every artifact, address, extension and identity in the tree is of its type,
\* and nothing is owed that was not handed out: StoreOK.
THEOREM StoreTypeCorrect == SuggestionsSpec => []StoreOK
PROOF
  <1>1. SuggestionsInv => StoreOK
    <2> SUFFICES ASSUME SuggestionsInv PROVE StoreOK
      OBVIOUS
    <2>0. SoundTree(disk, used)
      BY DEF SuggestionsInv, TreesAreSound
    <2>1. DOMAIN disk.dirs \subseteq Dirs /\ PrefixesOf(disk) \subseteq Prefixes
      BY <2>0, TreeIs DEF PrefixesOf
    <2>2. ASSUME NEW p \in DOMAIN disk.files, p.ext # List
          PROVE  /\ p.dir \in Dirs /\ p.name \in Names
                 /\ p.ext \in {Md, UrlSide} \cup {Side(e) : e \in Exts}
                                \cup {Bin(e) : e \in Exts}
      <3>1. p \in Paths
        BY <2>0, TreeIs
      <3> QED
        BY <2>2, <3>1, PathKinds DEF Paths
    <2>3. ASSUME NEW f \in Files
          PROVE  /\ f.text \in (CASE f.shape = "url" -> Texts \cup {None}
                                  [] f.shape = "blob" -> Exts \cup {None}
                                  [] f.shape = "content" -> {None})
                 /\ f.uuid \in used \cup {None}
      <3>1. SoundFile(f, used) /\ f \in StoredArtifact \cup BytesFile
        BY <2>0, FilesAre
      <3> QED
        BY <3>1 DEF SoundFile, StoredArtifact, BytesFile, Of
    <2>4. \A r \in Requests :
            req[r].pc \in {"idle", "asking", "saving", "writing", "read", "published"}
      BY DEF SuggestionsInv, RequestsAreSound, SoundRequest, Pcs
    <2>5. started \in 0..MaxStarted /\ crashes \in 0..MaxCrashes /\ owed \subseteq used
      BY DEF SuggestionsInv, CountsAreTyped
    <2> QED
      BY <2>1, <2>2, <2>3, <2>4, <2>5 DEF StoreOK
  <1> QED
    BY <1>1, TheStoreIsSound, PTL

\* Every review log on disk could have been written by reviewers taking turns,
\* however reviews, edits, checks, renames, imports and restarts overlap:
\* LogsAreLawful.
THEOREM ReviewLogsAreLawful == SuggestionsSpec => []LogsAreLawful
PROOF
  <1>1. SuggestionsInv => LogsAreLawful
    BY FilesAre DEF SuggestionsInv, TreesAreSound, LogsAreLawful, SoundFile
  <1> QED
    BY <1>1, TheStoreIsSound, PTL

\* A check status stands beside the address that was fetched: CheckIsOfTheUrl,
\* a part of FilesStand.
THEOREM ChecksAreOfTheirUrls == SuggestionsSpec => []CheckIsOfTheUrl
PROOF
  <1>1. SuggestionsInv => CheckIsOfTheUrl
    BY FilesAre DEF SuggestionsInv, TreesAreSound, CheckIsOfTheUrl, SoundFile
  <1> QED
    BY <1>1, TheStoreIsSound, PTL

-----------------------------------------------------------------------------
(***************************************************************************)
(* What a step does to the tree, path by path, and what a write that met   *)
(* nothing has in common with the snapshot it was decided on.              *)
(***************************************************************************)

LEMMA OnlyIs ==
    ASSUME NEW f, NEW D
    PROVE  DOMAIN Only(f, D) = D /\ \A x \in D : Only(f, D)[x] = f[x]
PROOF
  BY DEF Only

LEMMA WithIs ==
    \A f, x, y : /\ DOMAIN With(f, x, y) = DOMAIN f \cup {x}
                 /\ With(f, x, y)[x] = y
                 /\ \A z \in DOMAIN f : z # x => With(f, x, y)[z] = f[z]
PROOF
  BY DEF With

\* The files and the collections after a step.
LEMMA AfterIs ==
    ASSUME NEW U, NEW t, SoundTree(t, U), NEW a
    PROVE  /\ a.do = "put" =>
                /\ DOMAIN After(t, a).files = DOMAIN t.files \cup {a.at}
                /\ After(t, a).files[a.at] = a.file
                /\ \A q \in DOMAIN t.files : q # a.at => After(t, a).files[q] = t.files[q]
                /\ After(t, a).dirs = t.dirs
           /\ a.do \in {"drop", "dropif"} =>
                /\ DOMAIN After(t, a).files = DOMAIN t.files \ {a.at}
                /\ \A q \in DOMAIN t.files : q # a.at => After(t, a).files[q] = t.files[q]
                /\ After(t, a).dirs = t.dirs
           /\ a.do = "move" =>
                /\ DOMAIN After(t, a).files = (DOMAIN t.files \ {a.at}) \cup {a.to}
                /\ After(t, a).files[a.to] = t.files[a.at]
                /\ \A q \in DOMAIN t.files \ {a.at} :
                        q # a.to => After(t, a).files[q] = t.files[q]
                /\ After(t, a).dirs = t.dirs
           /\ a.do = "mkdir" =>
                /\ After(t, a).files = t.files
                /\ DOMAIN After(t, a).dirs = DOMAIN t.dirs \cup {a.dir}
           /\ a.do = "rmdir" =>
                /\ \A q : q \in DOMAIN After(t, a).files <=> q \in DOMAIN t.files /\ q.dir # a.dir
                /\ \A q \in DOMAIN After(t, a).files : After(t, a).files[q] = t.files[q]
                /\ DOMAIN After(t, a).dirs = DOMAIN t.dirs \ {a.dir}
PROOF
  <1> DEFINE less == Only(t.files, DOMAIN t.files \ {a.at})
             moved == With(less, a.to, t.files[a.at])
             outside == {p \in DOMAIN t.files : p.dir # a.dir}
             left == Only(t.files, outside)
  <1>0. /\ \A fs : [t EXCEPT !.files = fs] = [files |-> fs, dirs |-> t.dirs]
        /\ \A ds : [t EXCEPT !.dirs = ds] = [files |-> t.files, dirs |-> ds]
    BY TreeIs
  <1>1. ASSUME a.do = "put"
        PROVE  After(t, a) = [files |-> With(t.files, a.at, a.file), dirs |-> t.dirs]
    BY <1>0, <1>1 DEF After
  <1>2. ASSUME a.do \in {"drop", "dropif"}
        PROVE  After(t, a) = [files |-> less, dirs |-> t.dirs]
    BY <1>0, <1>2 DEF After
  <1>3. ASSUME a.do = "move"
        PROVE  After(t, a) = [files |-> moved, dirs |-> t.dirs]
    <2>1. After(t, a) = [t EXCEPT !.files = moved]
      BY <1>3 DEF After
    <2> HIDE DEF moved
    <2> QED
      BY <2>1, <1>0
  <1>4. ASSUME a.do = "mkdir"
        PROVE  After(t, a) = [files |-> t.files, dirs |-> With(t.dirs, a.dir, a.prefix)]
    BY <1>0, <1>4 DEF After
  <1>5. ASSUME a.do = "rmdir"
        PROVE  After(t, a) = [files |-> left, dirs |-> Only(t.dirs, DOMAIN t.dirs \ {a.dir})]
    BY <1>5 DEF After
  <1>6. /\ DOMAIN less = DOMAIN t.files \ {a.at}
        /\ \A q \in DOMAIN t.files \ {a.at} : less[q] = t.files[q]
    BY OnlyIs
  <1>7. /\ DOMAIN left = outside /\ \A q \in outside : left[q] = t.files[q]
    BY OnlyIs
  <1> HIDE DEF less
  <1>9. ASSUME a.do = "put"
        PROVE  /\ DOMAIN After(t, a).files = DOMAIN t.files \cup {a.at}
               /\ After(t, a).files[a.at] = a.file
               /\ \A q \in DOMAIN t.files : q # a.at => After(t, a).files[q] = t.files[q]
               /\ After(t, a).dirs = t.dirs
    <2> DEFINE g == After(t, a).files
    <2>1. g = With(t.files, a.at, a.file) /\ After(t, a).dirs = t.dirs
      BY <1>1, <1>9
    <2> HIDE DEF g
    <2>2. DOMAIN g = DOMAIN t.files \cup {a.at}
      BY ZenonT(30), <2>1, WithIs
    <2>3. g[a.at] = a.file
      BY <2>1, WithIs
    <2>4. \A q \in DOMAIN t.files : q # a.at => g[q] = t.files[q]
      BY <2>1, WithIs
    <2> QED
      BY <2>1, <2>2, <2>3, <2>4 DEF g
  <1>10. ASSUME a.do \in {"drop", "dropif"}
         PROVE  /\ DOMAIN After(t, a).files = DOMAIN t.files \ {a.at}
                /\ \A q \in DOMAIN t.files : q # a.at => After(t, a).files[q] = t.files[q]
                /\ After(t, a).dirs = t.dirs
    <2>1. After(t, a).files = less /\ After(t, a).dirs = t.dirs
      BY <1>2, <1>10
    <2> QED
      BY <1>6, <2>1
  <1>11. ASSUME a.do = "move"
         PROVE  /\ DOMAIN After(t, a).files = (DOMAIN t.files \ {a.at}) \cup {a.to}
                /\ After(t, a).files[a.to] = t.files[a.at]
                /\ \A q \in DOMAIN t.files \ {a.at} :
                        q # a.to => After(t, a).files[q] = t.files[q]
                /\ After(t, a).dirs = t.dirs
    <2> DEFINE g == After(t, a).files
    <2>1. g = With(less, a.to, t.files[a.at]) /\ After(t, a).dirs = t.dirs
      BY <1>3, <1>11
    <2> HIDE DEF g
    <2>5. DOMAIN g = DOMAIN less \cup {a.to}
      BY ZenonT(30), <2>1, WithIs
    <2>2. DOMAIN g = (DOMAIN t.files \ {a.at}) \cup {a.to}
      BY <1>6, <2>5
    <2>3. g[a.to] = t.files[a.at]
      BY <2>1, WithIs
    <2>4. \A q \in DOMAIN t.files \ {a.at} : q # a.to => g[q] = t.files[q]
      BY <1>6, <2>1, WithIs
    <2> QED
      BY <2>1, <2>2, <2>3, <2>4 DEF g
  <1>12. ASSUME a.do = "mkdir"
         PROVE  /\ After(t, a).files = t.files
                /\ DOMAIN After(t, a).dirs = DOMAIN t.dirs \cup {a.dir}
    <2> DEFINE g == After(t, a).dirs
    <2>1. After(t, a).files = t.files /\ g = With(t.dirs, a.dir, a.prefix)
      BY <1>4, <1>12
    <2> HIDE DEF g
    <2>2. DOMAIN g = DOMAIN t.dirs \cup {a.dir}
      BY ZenonT(30), <2>1, WithIs
    <2> QED
      BY <2>1, <2>2 DEF g
  <1>13. ASSUME a.do = "rmdir"
         PROVE  /\ \A q : q \in DOMAIN After(t, a).files <=> q \in DOMAIN t.files /\ q.dir # a.dir
                /\ \A q \in DOMAIN After(t, a).files : After(t, a).files[q] = t.files[q]
                /\ DOMAIN After(t, a).dirs = DOMAIN t.dirs \ {a.dir}
    <2>1. After(t, a).files = left /\ After(t, a).dirs = Only(t.dirs, DOMAIN t.dirs \ {a.dir})
      BY <1>5, <1>13
    <2>2. \A q : q \in outside <=> q \in DOMAIN t.files /\ q.dir # a.dir
      OBVIOUS
    <2>3. DOMAIN Only(t.dirs, DOMAIN t.dirs \ {a.dir}) = DOMAIN t.dirs \ {a.dir}
      BY OnlyIs
    <2> HIDE DEF outside, left
    <2> QED
      BY <1>7, <2>1, <2>2, <2>3
  <1> QED
    BY <1>9, <1>10, <1>11, <1>12, <1>13

\* On what a step touches, two trees agree.
Agree(s, t, p) ==
    /\ p \in DOMAIN s.files <=> p \in DOMAIN t.files
    /\ p \in DOMAIN s.files => s.files[p] = t.files[p]

LEMMA OnlyAgree ==
    ASSUME NEW f, NEW g, NEW D \in SUBSET DOMAIN f, NEW E \in SUBSET DOMAIN g,
           Only(f, D) = Only(g, E)
    PROVE  D = E /\ \A x \in D : f[x] = g[x]
PROOF
  <1>1. D = E
    BY OnlyIs
  <1>2. \A x \in D : f[x] = Only(f, D)[x] /\ g[x] = Only(g, E)[x]
    BY <1>1, OnlyIs
  <1> QED
    BY <1>1, <1>2

LEMMA Unmet ==
    ASSUME NEW a, NEW op, op \notin {"wipe", "analyze"}, NEW s, NEW t,
           Touched(s, a, op) = Touched(t, a, op)
    PROVE  /\ a.do \in {"put", "drop", "dropif", "move"} =>
                /\ \A p : p.dir = a.at.dir /\ p.name = a.at.name => Agree(s, t, p)
                /\ a.at.dir \in DOMAIN s.dirs <=> a.at.dir \in DOMAIN t.dirs
           /\ a.do = "move" =>
                \A p : p.dir = a.at.dir /\ p.name = a.to.name => Agree(s, t, p)
           /\ a.do \in {"mkdir", "rmdir"} =>
                /\ \A p : p.dir = a.dir => Agree(s, t, p)
                /\ a.dir \in DOMAIN s.dirs <=> a.dir \in DOMAIN t.dirs
PROOF
  <1> DEFINE dir == IF a.do \in {"mkdir", "rmdir"} THEN a.dir ELSE a.at.dir
             mine(p) == /\ p.dir = dir
                        /\ \/ a.do \in {"mkdir", "rmdir"}
                           \/ p.name = a.at.name
                           \/ a.do = "move" /\ p.name = a.to.name
             Mine(u) == {p \in DOMAIN u.files : mine(p)}
  <1>1. \A u : Touched(u, a, op) = [files |-> Only(u.files, Mine(u)),
                                    dirs |-> Only(u.dirs, DOMAIN u.dirs \cap {dir})]
    BY DEF Touched
  <1>2. /\ Only(s.files, Mine(s)) = Only(t.files, Mine(t))
        /\ Only(s.dirs, DOMAIN s.dirs \cap {dir}) = Only(t.dirs, DOMAIN t.dirs \cap {dir})
    <2>1. /\ Touched(s, a, op) = [files |-> Only(s.files, Mine(s)),
                                  dirs |-> Only(s.dirs, DOMAIN s.dirs \cap {dir})]
          /\ Touched(t, a, op) = [files |-> Only(t.files, Mine(t)),
                                  dirs |-> Only(t.dirs, DOMAIN t.dirs \cap {dir})]
      BY <1>1
    <2> DEFINE x1 == Only(s.files, Mine(s))
               x2 == Only(s.dirs, DOMAIN s.dirs \cap {dir})
               y1 == Only(t.files, Mine(t))
               y2 == Only(t.dirs, DOMAIN t.dirs \cap {dir})
    <2>2. [files |-> x1, dirs |-> x2] = [files |-> y1, dirs |-> y2]
      BY <2>1
    <2> SUFFICES x1 = y1 /\ x2 = y2
      OBVIOUS
    <2> HIDE DEF x1, x2, y1, y2
    <2> QED
      BY <2>2
  <1>3. Mine(s) = Mine(t) /\ \A p \in Mine(s) : s.files[p] = t.files[p]
    <2>1. Mine(s) \in SUBSET DOMAIN s.files /\ Mine(t) \in SUBSET DOMAIN t.files
      OBVIOUS
    <2> HIDE DEF Mine
    <2> QED
      BY <1>2, <2>1, OnlyAgree
  <1>4. DOMAIN s.dirs \cap {dir} = DOMAIN t.dirs \cap {dir}
    <2> HIDE DEF dir
    <2> QED
      BY SMTT(20), <1>2, OnlyAgree
  <1>5. \A p : mine(p) => Agree(s, t, p)
    <2> SUFFICES ASSUME NEW p, mine(p) PROVE Agree(s, t, p)
      OBVIOUS
    <2>1. (p \in Mine(s) <=> p \in DOMAIN s.files) /\ (p \in Mine(t) <=> p \in DOMAIN t.files)
      OBVIOUS
    <2> HIDE DEF mine, Mine
    <2> QED
      BY <1>3, <2>1 DEF Agree
  <1>6. dir \in DOMAIN s.dirs <=> dir \in DOMAIN t.dirs
    BY <1>4
  <1> HIDE DEF Mine
  <1> QED
    BY <1>5, <1>6

-----------------------------------------------------------------------------
(***************************************************************************)
(* The two lists of suggestions.                                           *)
(***************************************************************************)

ListOps == {"analyze", "accept", "reject", "reinstate", "decline"}
ListOf(op) == IF op \in {"reinstate", "decline"} THEN DeclinedAt ELSE PendingAt

\* Nothing is proposed that was declined after the analysis began.
Shut(S, D) == \A s \in S, d \in D : s.key = d.key => since[s.key] >= s.run

\* What is about to be saved: the list that was read without what was taken
\* out, or with what was declined, or what an analysis proposes.
Saving(q, h) ==
    \E S \in SUBSET Proposed :
        /\ q.plan = <<Put(ListOf(q.op), ListFile(S))>>
        /\ q.op \in {"accept", "reject", "reinstate"} => S \subseteq Listed(q.base, ListOf(q.op))
        /\ q.op = "decline" => /\ h \in Proposed
                               /\ S = Listed(q.base, ListOf(q.op)) \cup {h}
        /\ q.op = "analyze" => (\A s \in S : s.run <= analyses) /\ Shut(S, Declined)

\* The step is about no list.
OffLists(a) == a.do \in {"mkdir", "rmdir"} \/ a.at \in ArtifactPath

\* Of a request: what it knows of the declined when a model is asked, and the
\* list it saves.
ListsOf(q, h) ==
    /\ q.pc = "asking" =>
        /\ q.uuid <= analyses
        /\ \A d \in Declined : (\E x \in h : x.key = d.key) \/ since[d.key] >= q.uuid
    /\ q.pc = "saving" /\ q.plan # <<>> => Saving(q, h)

ListsInv ==
    ~crossed =>
        /\ since \in [Keys -> Nat] /\ \A k \in Keys : since[k] <= analyses
        /\ \A s \in Pending : s.run <= analyses
        /\ Shut(Pending, Declined)
        /\ \A r \in Requests : ListsOf(req[r], held[r])

LEMMA ListPaths == PendingAt # DeclinedAt /\ PendingAt.dir = Box /\ DeclinedAt.dir = Box
                   /\ PendingAt \notin ArtifactPath /\ DeclinedAt \notin ArtifactPath
PROOF
  BY DEF PendingAt, DeclinedAt, Path, ArtifactPath

\* A step that is not about a list leaves the lists, or takes them away.
LEMMA ListsAfter ==
    ASSUME NEW U, NEW t, SoundTree(t, U), NEW a, SoundStep(a, U), ~Fails(t, a), OffLists(a),
           NEW p \in {PendingAt, DeclinedAt}
    PROVE  Listed(After(t, a), p) \subseteq Listed(t, p)
PROOF
  <1>0. p \notin ArtifactPath
    BY ListPaths
  <1> DEFINE new == After(t, a)
  <1> SUFFICES p \in DOMAIN new.files => p \in DOMAIN t.files /\ new.files[p] = t.files[p]
    BY DEF Listed
  <1>1. CASE a.do = "put"
    <2>1. a.at # p
      BY <1>0, <1>1 DEF OffLists
    <2> QED
      BY <1>1, <2>1, AfterIs
  <1>2. CASE a.do \in {"drop", "dropif"}
    BY <1>2, AfterIs
  <1>3. CASE a.do = "move"
    <2>1. a.to # p
      BY <1>0, <1>3 DEF SoundStep, Steps
    <2> QED
      BY <1>3, <2>1, AfterIs
  <1>4. CASE a.do = "mkdir"
    BY <1>4, AfterIs
  <1>5. CASE a.do = "rmdir"
    BY <1>5, AfterIs
  <1> QED
    BY <1>1, <1>2, <1>3, <1>4, <1>5 DEF SoundStep, Steps

\* Saving one list leaves the other.
LEMMA ListSaved ==
    ASSUME NEW U, NEW t, SoundTree(t, U), NEW p \in {PendingAt, DeclinedAt},
           NEW S \in SUBSET Proposed, NEW q \in {PendingAt, DeclinedAt}
    PROVE  Listed(After(t, Put(p, ListFile(S))), q) = IF q = p THEN S ELSE Listed(t, q)
PROOF
  <1>1. Put(p, ListFile(S)).do = "put" /\ Put(p, ListFile(S)).at = p
        /\ Put(p, ListFile(S)).file = ListFile(S)
    BY DEF Put
  <1>2. ListFile(S).text = S
    BY DEF ListFile, Artifact
  <1> QED
    BY <1>1, <1>2, AfterIs DEF Listed

\* A list that was not written since it was read is as it was read.
LEMMA ListUnmet ==
    ASSUME NEW s, NEW t, NEW p \in {PendingAt, DeclinedAt}, NEW f, NEW op,
           op \notin {"wipe", "analyze"},
           Touched(s, Put(p, f), op) = Touched(t, Put(p, f), op)
    PROVE  Listed(s, p) = Listed(t, p)
PROOF
  <1>1. Put(p, f).do = "put" /\ Put(p, f).at = p
    BY DEF Put
  <1>2. Agree(s, t, p)
    BY <1>1, Unmet
  <1> QED
    BY <1>2 DEF Agree, Listed

-----------------------------------------------------------------------------
(***************************************************************************)
(* The kinds of step a write is made of, told by the tree it is made on,   *)
(* and what each does to an orderly tree and to what is loaded from it.    *)
(***************************************************************************)

\* The file is one that its path is read in.
Readable(t, p, f) ==
    /\ p.dir \in DOMAIN t.dirs
    /\ \/ p.ext = Md /\ f.form = "front" /\ f.shape # "blob"
       \/ /\ IsSidecar(p) /\ f.form = "json"
          /\ \/ f.shape = "url"
             \/ /\ f.shape = "blob" /\ p.ext = Side(f.text)
                /\ BytesOf(p, f) \in DOMAIN t.files

\* The same artifact, with no link less.
Same(f, g) ==
    /\ f.uuid = g.uuid /\ f.shape = g.shape /\ g.links \subseteq f.links
    /\ g.shape = "blob" => f.text = g.text

IsBin(p) == p.ext[1] = "bin"

Adds(t, a) == a.do = "put" /\ Readable(t, a.at, a.file)
Fills(t, a) == a.do = "put" /\ IsBin(a.at) /\ a.file = Bytes /\ a.at.dir \in DOMAIN t.dirs
Edits(t, a) == a.do = "put" /\ a.at \in Loaded(t) /\ Same(a.file, t.files[a.at])
Takes(a) == a.do \in {"drop", "dropif"} /\ ~IsBin(a.at)
Empties(t, a) ==
    /\ a.do = "dropif"
    /\ \E y \in Exts : /\ a.at.ext = Bin(y)
                       /\ Path(a.at.dir, a.at.name, Side(y)) \notin DOMAIN t.files
Renames(t, a) ==
    /\ a.do = "move" /\ a.at \in Loaded(t)
    /\ a.to.dir = a.at.dir /\ a.to.ext = Md /\ a.to.name \notin NamesOf(t, a.at.dir)
Lists(a) == a.do = "put" /\ a.at \in {PendingAt, DeclinedAt}

Kind(t, a) ==
    \/ Adds(t, a) \/ Fills(t, a) \/ Edits(t, a) \/ Takes(a) \/ Empties(t, a)
    \/ Renames(t, a) \/ a.do \in {"mkdir", "rmdir"} \/ Lists(a)

LEMMA ExtKinds ==
    /\ Md[1] = "md" /\ UrlSide[1] = "side" /\ List[1] = "list"
    /\ \A e : Side(e)[1] = "side" /\ Side(e)[2] = e /\ Bin(e)[1] = "bin" /\ Bin(e)[2] = e
    /\ \A d, n, e : /\ Path(d, n, e).dir = d /\ Path(d, n, e).name = n
                    /\ Path(d, n, e).ext = e
    /\ \A p \in Paths : \A f : /\ BytesOf(p, f) = Path(p.dir, p.name, Bin(f.text))
                               /\ p = Path(p.dir, p.name, p.ext)
    /\ PendingAt.ext = List /\ DeclinedAt.ext = List
PROOF
  BY DEF Md, UrlSide, List, Side, Bin, Path, BytesOf, Paths, PendingAt, DeclinedAt

\* What is loaded at one path depends on the files of its name.
LoadsFile(p, f) ==
    \/ p.ext = Md /\ f.form = "front"
    \/ IsSidecar(p) /\ f.form = "json" /\ f.shape \in {"url", "blob"}

LEMMA LoadedAre ==
    ASSUME NEW U, NEW t, SoundTree(t, U)
    PROVE  \A p : p \in Loaded(t) <=>
            /\ p \in DOMAIN t.files /\ p.dir \in DOMAIN t.dirs
            /\ LoadsFile(p, t.files[p])
            /\ IsSidecar(p) /\ t.files[p].shape = "blob" =>
                    Path(p.dir, p.name, Bin(t.files[p].text)) \in DOMAIN t.files
PROOF
  <1>1. \A p \in DOMAIN t.files :
            BytesOf(p, t.files[p]) = Path(p.dir, p.name, Bin(t.files[p].text))
    BY SMTT(20), TreeIs, ExtKinds
  <1>2. \A p : IsSidecar(p) => p.ext # Md
    BY ExtKinds DEF IsSidecar
  <1> QED
    BY <1>1, <1>2 DEF Loaded, Loads, LoadsFile

\* In an orderly tree a file that its path is read in is loaded.
LEMMA OrderlyAre ==
    ASSUME NEW U, NEW t, SoundTree(t, U), Orderly(t)
    PROVE  \A p : p \in Loaded(t) <=> p \in DOMAIN t.files /\ LoadsFile(p, t.files[p])
PROOF
  <1>1. ASSUME NEW p \in DOMAIN t.files, LoadsFile(p, t.files[p])
        PROVE  p \in Loaded(t)
    <2>1. p.ext # List
      BY <1>1, ExtKinds DEF LoadsFile, IsSidecar
    <2>2. p.dir \in DOMAIN t.dirs
      BY <2>1 DEF Orderly
    <2>3. IsSidecar(p) => p.ext # Md
      BY ExtKinds DEF IsSidecar
    <2>4. IsSidecar(p) /\ t.files[p].shape = "blob" => BytesOf(p, t.files[p]) \in DOMAIN t.files
      BY <1>1, <2>1, <2>3 DEF Orderly, LoadsFile
    <2>5. BytesOf(p, t.files[p]) = Path(p.dir, p.name, Bin(t.files[p].text))
      BY SMTT(20), TreeIs, ExtKinds
    <2> QED
      BY <1>1, <2>2, <2>4, <2>5, LoadedAre
  <1> QED
    BY <1>1, LoadedAre

\* Orderly, file by file.
OrderlyFile(t, p, f) ==
    /\ p.dir \in DOMAIN t.dirs
    /\ p.ext = Md /\ f.form = "front" => f.shape # "blob"
    /\ IsSidecar(p) /\ f.form = "json" /\ f.shape = "blob" =>
            p.ext = Side(f.text) /\ Path(p.dir, p.name, Bin(f.text)) \in DOMAIN t.files

LEMMA OrderlyIs ==
    ASSUME NEW U, NEW t, SoundTree(t, U)
    PROVE  Orderly(t) <=>
            \A p \in DOMAIN t.files : p.ext # List => OrderlyFile(t, p, t.files[p])
PROOF
  <1>1. \A p \in DOMAIN t.files :
            BytesOf(p, t.files[p]) = Path(p.dir, p.name, Bin(t.files[p].text))
    BY SMTT(20), TreeIs, ExtKinds
  <1> QED
    BY <1>1 DEF Orderly, OrderlyFile

LEMMA KindKeepsOrder ==
    ASSUME NEW U, NEW t, SoundTree(t, U), Orderly(t), NEW a, SoundStep(a, U), Kind(t, a)
    PROVE  SoundTree(After(t, a), U) /\ Orderly(After(t, a))
PROOF
  <1> DEFINE new == After(t, a)
  <1>0. SoundTree(new, U)
    <2>1. a.do = "move" => a.at \in DOMAIN t.files
      BY DEF Kind, Adds, Fills, Edits, Takes, Empties, Renames, Lists, Loaded
    <2> QED
      BY <2>1, AfterSound
  <1>1. SUFFICES ASSUME NEW p \in DOMAIN new.files, p.ext # List
                 PROVE  OrderlyFile(new, p, new.files[p])
    BY <1>0, OrderlyIs
  <1>2. \A q \in DOMAIN t.files : q.ext # List => OrderlyFile(t, q, t.files[q])
    BY OrderlyIs
  <1>3. a.at \in Paths \/ a.do \in {"mkdir", "rmdir"}
    BY DEF SoundStep, Steps, ArtifactPath
  \* A file of the old tree, with its collection and its bytes in the new one.
  <1>4. ASSUME p \in DOMAIN t.files, new.files[p] = t.files[p], p.dir \in DOMAIN new.dirs,
               \A y : /\ p.ext = Side(y) /\ Path(p.dir, p.name, Bin(y)) \in DOMAIN t.files
                      => Path(p.dir, p.name, Bin(y)) \in DOMAIN new.files
        PROVE  OrderlyFile(new, p, new.files[p])
    BY <1>1, <1>2, <1>4 DEF OrderlyFile
  <1> HIDE DEF new
  <1>5. CASE a.do = "put"
    <2>1. /\ DOMAIN new.files = DOMAIN t.files \cup {a.at} /\ new.files[a.at] = a.file
          /\ \A q \in DOMAIN t.files : q # a.at => new.files[q] = t.files[q]
          /\ new.dirs = t.dirs
      BY <1>5, AfterIs DEF new
    <2>2. CASE p # a.at
      <3>1. p \in DOMAIN t.files /\ new.files[p] = t.files[p]
        BY <2>1, <2>2
      <3>2. p.dir \in DOMAIN t.dirs
        BY <1>1, <1>2, <3>1 DEF OrderlyFile
      <3> QED
        BY <1>4, <2>1, <3>1, <3>2
    <2>3. CASE p = a.at /\ Adds(t, a)
      <3>1. BytesOf(p, a.file) = Path(p.dir, p.name, Bin(a.file.text))
        BY <1>3, <1>5, <2>3, ExtKinds
      <3>2. IsSidecar(p) => p.ext # Md
        BY ExtKinds DEF IsSidecar
      <3> QED
        BY <2>1, <2>3, <3>1, <3>2 DEF Adds, Readable, OrderlyFile
    <2>4. CASE p = a.at /\ Fills(t, a)
      <3>1. p.ext # Md /\ ~IsSidecar(p)
        BY <2>4, ExtKinds DEF Fills, IsBin, IsSidecar
      <3> QED
        BY <2>1, <2>4, <3>1 DEF Fills, OrderlyFile
    <2>5. CASE p = a.at /\ Edits(t, a)
      <3>1. /\ p \in DOMAIN t.files /\ LoadsFile(p, t.files[p]) /\ Same(a.file, t.files[p])
            /\ OrderlyFile(t, p, t.files[p])
        BY <1>1, <1>2, <2>5, LoadedAre DEF Edits
      <3>2. IsSidecar(p) => p.ext # Md
        BY ExtKinds DEF IsSidecar
      <3> QED
        BY <2>1, <2>5, <3>1, <3>2 DEF OrderlyFile, Same, LoadsFile
    <2>6. CASE p = a.at /\ Lists(a)
      BY <1>1, <2>6, ExtKinds DEF Lists
    <2> QED
      BY <1>5, <2>2, <2>3, <2>4, <2>5, <2>6 DEF Kind, Takes, Empties, Renames
  <1>6. CASE a.do \in {"drop", "dropif"}
    <2>1. /\ DOMAIN new.files = DOMAIN t.files \ {a.at}
          /\ \A q \in DOMAIN t.files : q # a.at => new.files[q] = t.files[q]
          /\ new.dirs = t.dirs
      BY <1>6, AfterIs DEF new
    <2>2. p \in DOMAIN t.files /\ p # a.at /\ p.dir \in DOMAIN new.dirs
      BY <1>1, <1>2, <2>1 DEF OrderlyFile
    <2>3. \A y : p.ext = Side(y) => Path(p.dir, p.name, Bin(y)) # a.at
      <3>1. CASE Takes(a)
        BY <3>1, ExtKinds DEF Takes, IsBin
      <3>2. CASE Empties(t, a)
        <4>1. p = Path(p.dir, p.name, p.ext)
          BY <2>2, ExtKinds, TreeIs
        <4> QED
          BY <2>2, <3>2, <4>1, ExtKinds DEF Empties
      <3> QED
        BY <1>6, <3>1, <3>2 DEF Kind, Adds, Fills, Edits, Renames, Lists
    <2> QED
      BY <1>4, <2>1, <2>2, <2>3
  <1>7. CASE a.do = "move"
    <2>0. Renames(t, a)
      BY <1>7 DEF Kind, Adds, Fills, Edits, Takes, Empties, Lists
    <2>1. /\ DOMAIN new.files = (DOMAIN t.files \ {a.at}) \cup {a.to}
          /\ new.files[a.to] = t.files[a.at]
          /\ \A q \in DOMAIN t.files \ {a.at} : q # a.to => new.files[q] = t.files[q]
          /\ new.dirs = t.dirs
      BY <1>7, AfterIs DEF new
    <2>2. /\ a.at \in DOMAIN t.files /\ LoadsFile(a.at, t.files[a.at])
          /\ a.at.dir \in DOMAIN t.dirs /\ a.at.ext # List
      BY <2>0, LoadedAre, ExtKinds DEF Renames, LoadsFile, IsSidecar
    <2>3. OrderlyFile(t, a.at, t.files[a.at])
      BY <1>2, <2>2
    <2>4. CASE p = a.to
      <3>1. p.ext = Md /\ ~IsSidecar(p) /\ p.dir = a.at.dir
        BY <2>0, <2>4, ExtKinds DEF Renames, IsSidecar
      <3> QED
        BY <2>1, <2>2, <2>3, <2>4, <3>1 DEF OrderlyFile, LoadsFile
    <2>5. CASE p # a.to
      <3>1. p \in DOMAIN t.files /\ p # a.at /\ p.dir \in DOMAIN new.dirs
        BY <1>1, <1>2, <2>1, <2>5 DEF OrderlyFile
      <3>2. \A y : Path(p.dir, p.name, Bin(y)) # a.at
        BY <2>2, ExtKinds DEF LoadsFile, IsSidecar
      <3> QED
        BY <1>4, <2>1, <2>5, <3>1, <3>2
    <2> QED
      BY <2>4, <2>5
  <1>8. CASE a.do = "mkdir"
    <2>1. new.files = t.files /\ DOMAIN new.dirs = DOMAIN t.dirs \cup {a.dir}
      BY <1>8, AfterIs DEF new
    <2>2. p \in DOMAIN t.files /\ p.dir \in DOMAIN new.dirs
      BY <1>1, <1>2, <2>1 DEF OrderlyFile
    <2> QED
      BY <1>4, <2>1, <2>2
  <1>9. CASE a.do = "rmdir"
    <2>1. /\ \A q : q \in DOMAIN new.files <=> q \in DOMAIN t.files /\ q.dir # a.dir
          /\ \A q \in DOMAIN new.files : new.files[q] = t.files[q]
          /\ DOMAIN new.dirs = DOMAIN t.dirs \ {a.dir}
      BY <1>9, AfterIs DEF new
    <2>2. p \in DOMAIN t.files /\ p.dir \in DOMAIN new.dirs
      BY <1>1, <1>2, <2>1 DEF OrderlyFile
    <2>3. \A y : Path(p.dir, p.name, Bin(y)) \in DOMAIN t.files
                 => Path(p.dir, p.name, Bin(y)) \in DOMAIN new.files
      BY <1>1, <2>1, ExtKinds
    <2> QED
      BY <1>1, <1>4, <2>1, <2>2, <2>3
  <1> QED
    BY <1>5, <1>6, <1>7, <1>8, <1>9 DEF SoundStep, Steps

\* What is loaded after a step was loaded before, is what the step adds or is
\* what it renames.
LEMMA KindLoads ==
    ASSUME NEW U, NEW t, SoundTree(t, U), Orderly(t), NEW a, SoundStep(a, U), Kind(t, a)
    PROVE  \A p \in Loaded(After(t, a)) :
            /\ \/ /\ p \in Loaded(t) /\ Same(After(t, a).files[p], t.files[p])
                  /\ After(t, a).files[p] # t.files[p] => p = a.at /\ a.do = "put"
               \/ p = a.at /\ Adds(t, a)
               \/ p = a.to /\ Renames(t, a) /\ a.at.ext = Md
                  /\ After(t, a).files[p] = t.files[a.at]
            /\ a.do = "put" /\ p = a.at => After(t, a).files[p] = a.file
            /\ a.do \in {"drop", "dropif", "move"} => p # a.at
            /\ a.do = "rmdir" => p.dir # a.dir
PROOF
  <1> DEFINE new == After(t, a)
  <1>0. SoundTree(new, U) /\ Orderly(new)
    BY KindKeepsOrder
  <1> SUFFICES ASSUME NEW p \in Loaded(new)
               PROVE  /\ \/ /\ p \in Loaded(t) /\ Same(new.files[p], t.files[p])
                            /\ new.files[p] # t.files[p] => p = a.at /\ a.do = "put"
                         \/ p = a.at /\ Adds(t, a)
                         \/ p = a.to /\ Renames(t, a) /\ a.at.ext = Md
                            /\ new.files[p] = t.files[a.at]
                      /\ a.do = "put" /\ p = a.at => new.files[p] = a.file
                      /\ a.do \in {"drop", "dropif", "move"} => p # a.at
                      /\ a.do = "rmdir" => p.dir # a.dir
    OBVIOUS
  <1>1. p \in DOMAIN new.files /\ LoadsFile(p, new.files[p]) /\ p.ext # List /\ ~IsBin(p)
    BY <1>0, OrderlyAre, ExtKinds DEF LoadsFile, IsSidecar, IsBin
  <1>2. p \in DOMAIN t.files /\ new.files[p] = t.files[p]
        => p \in Loaded(t) /\ Same(new.files[p], t.files[p])
    BY <1>1, OrderlyAre DEF Same
  <1> HIDE DEF new
  <1>5. CASE a.do = "put"
    <2>1. /\ DOMAIN new.files = DOMAIN t.files \cup {a.at} /\ new.files[a.at] = a.file
          /\ \A q \in DOMAIN t.files : q # a.at => new.files[q] = t.files[q]
      BY <1>5, AfterIs DEF new
    <2>2. CASE p # a.at
      BY <1>1, <1>2, <1>5, <2>1, <2>2
    <2>3. CASE p = a.at
      <3>1. Adds(t, a) \/ Edits(t, a)
        BY <1>1, <1>5, <2>3, ExtKinds
        DEF Kind, Fills, Takes, Empties, Renames, Lists
      <3> QED
        BY <1>5, <2>1, <2>3, <3>1 DEF Edits
    <2> QED
      BY <2>2, <2>3
  <1>6. CASE a.do \in {"drop", "dropif"}
    <2>1. /\ DOMAIN new.files = DOMAIN t.files \ {a.at}
          /\ \A q \in DOMAIN t.files : q # a.at => new.files[q] = t.files[q]
      BY <1>6, AfterIs DEF new
    <2> QED
      BY <1>1, <1>2, <1>6, <2>1
  <1>7. CASE a.do = "move"
    <2>0. Renames(t, a)
      BY <1>7 DEF Kind, Adds, Fills, Edits, Takes, Empties, Lists
    <2>1. /\ DOMAIN new.files = (DOMAIN t.files \ {a.at}) \cup {a.to}
          /\ new.files[a.to] = t.files[a.at]
          /\ \A q \in DOMAIN t.files \ {a.at} : q # a.to => new.files[q] = t.files[q]
      BY <1>7, AfterIs DEF new
    <2>2. a.at # a.to
      BY <2>0 DEF Renames, NamesOf
    <2>3. CASE p = a.to
      <3>1. p.ext = Md /\ new.files[p].form = "front"
        BY <1>1, <2>0, <2>3, ExtKinds DEF Renames, LoadsFile, IsSidecar
      <3>2. LoadsFile(a.at, t.files[a.at])
        BY <2>0, OrderlyAre DEF Renames
      <3>3. a.at.ext = Md
        BY <2>1, <2>3, <3>1, <3>2 DEF LoadsFile
      <3> QED
        BY <1>7, <2>0, <2>1, <2>2, <2>3, <3>3
    <2>4. CASE p # a.to
      BY <1>1, <1>2, <1>7, <2>1, <2>4
    <2> QED
      BY <2>3, <2>4
  <1>8. CASE a.do = "mkdir"
    <2>1. new.files = t.files
      BY <1>8, AfterIs DEF new
    <2> QED
      BY <1>1, <1>2, <1>8, <2>1
  <1>9. CASE a.do = "rmdir"
    <2>1. /\ \A q : q \in DOMAIN new.files <=> q \in DOMAIN t.files /\ q.dir # a.dir
          /\ \A q \in DOMAIN new.files : new.files[q] = t.files[q]
      BY <1>9, AfterIs DEF new
    <2> QED
      BY <1>1, <1>2, <1>9, <2>1
  <1> QED
    BY <1>5, <1>6, <1>7, <1>8, <1>9 DEF SoundStep, Steps

\* What was loaded stays loaded, unless the step takes it away, puts another
\* artifact in its place or writes it in a form its path is not read in.
FitsForm(p, f) == f.form = (IF p.ext = Md THEN "front" ELSE "json")

LEMMA KindLeaves ==
    ASSUME NEW U, NEW t, SoundTree(t, U), Orderly(t), NEW a, SoundStep(a, U), Kind(t, a)
    PROVE  \A p \in Loaded(t) :
            \/ p \in Loaded(After(t, a)) /\ After(t, a).files[p].uuid = t.files[p].uuid
            \/ a.do \in {"drop", "dropif"} /\ p = a.at
            \/ a.do = "put" /\ p = a.at /\ Adds(t, a) /\ p \in Loaded(After(t, a))
            \/ a.do = "put" /\ p = a.at /\ Edits(t, a) /\ ~FitsForm(p, a.file)
            \/ /\ a.do = "move" /\ p = a.at
               /\ p.ext = Md => /\ a.to \in Loaded(After(t, a))
                                /\ After(t, a).files[a.to].uuid = t.files[p].uuid
            \/ a.do = "rmdir" /\ p.dir = a.dir
PROOF
  <1> DEFINE new == After(t, a)
  <1>0. SoundTree(new, U) /\ Orderly(new)
    BY KindKeepsOrder
  <1> SUFFICES ASSUME NEW p \in Loaded(t)
               PROVE  \/ p \in Loaded(new) /\ new.files[p].uuid = t.files[p].uuid
                      \/ a.do \in {"drop", "dropif"} /\ p = a.at
                      \/ a.do = "put" /\ p = a.at /\ Adds(t, a) /\ p \in Loaded(new)
                      \/ a.do = "put" /\ p = a.at /\ Edits(t, a) /\ ~FitsForm(p, a.file)
                      \/ /\ a.do = "move" /\ p = a.at
                         /\ p.ext = Md => /\ a.to \in Loaded(new)
                                          /\ new.files[a.to].uuid = t.files[p].uuid
                      \/ a.do = "rmdir" /\ p.dir = a.dir
    OBVIOUS
  <1>1. /\ p \in DOMAIN t.files /\ LoadsFile(p, t.files[p]) /\ p.ext # List /\ ~IsBin(p)
        /\ p.ext = Md <=> ~IsSidecar(p)
    BY OrderlyAre, ExtKinds DEF LoadsFile, IsSidecar, IsBin
  <1>2. \A q : q \in Loaded(new) <=> q \in DOMAIN new.files /\ LoadsFile(q, new.files[q])
    BY <1>0, OrderlyAre
  <1> HIDE DEF new
  <1>5. CASE a.do = "put"
    <2>1. /\ DOMAIN new.files = DOMAIN t.files \cup {a.at} /\ new.files[a.at] = a.file
          /\ \A q \in DOMAIN t.files : q # a.at => new.files[q] = t.files[q]
      BY <1>5, AfterIs DEF new
    <2>2. CASE p # a.at
      BY <1>1, <1>2, <2>1, <2>2
    <2>3. CASE p = a.at /\ Adds(t, a)
      <3>1. LoadsFile(p, a.file)
        BY <2>3 DEF Adds, Readable, LoadsFile
      <3> QED
        BY <1>2, <1>5, <2>1, <2>3, <3>1
    <2>4. CASE p = a.at /\ Edits(t, a)
      <3>1. FitsForm(p, a.file) => LoadsFile(p, a.file)
        BY <1>1, <2>4 DEF Edits, Same, LoadsFile, FitsForm
      <3>2. a.file.uuid = t.files[p].uuid
        BY <2>4 DEF Edits, Same
      <3> QED
        BY <1>2, <1>5, <2>1, <2>4, <3>1, <3>2
    <2> QED
      BY <1>1, <1>5, <2>2, <2>3, <2>4, ExtKinds
      DEF Kind, Fills, Takes, Empties, Renames, Lists
  <1>6. CASE a.do \in {"drop", "dropif"}
    <2>1. /\ DOMAIN new.files = DOMAIN t.files \ {a.at}
          /\ \A q \in DOMAIN t.files : q # a.at => new.files[q] = t.files[q]
      BY <1>6, AfterIs DEF new
    <2> QED
      BY <1>1, <1>2, <1>6, <2>1
  <1>7. CASE a.do = "move"
    <2>0. Renames(t, a)
      BY <1>7 DEF Kind, Adds, Fills, Edits, Takes, Empties, Lists
    <2>1. /\ DOMAIN new.files = (DOMAIN t.files \ {a.at}) \cup {a.to}
          /\ new.files[a.to] = t.files[a.at]
          /\ \A q \in DOMAIN t.files \ {a.at} : q # a.to => new.files[q] = t.files[q]
      BY <1>7, AfterIs DEF new
    <2>2. CASE p = a.at
      <3>1. p.ext = Md => LoadsFile(a.to, t.files[p])
        BY <1>1, <2>0 DEF LoadsFile, Renames
      <3> QED
        BY <1>2, <1>7, <2>1, <2>2, <3>1
    <2>3. CASE p # a.at
      <3>1. p # a.to
        BY <2>0 DEF Renames, NamesOf
      <3> QED
        BY <1>1, <1>2, <2>1, <2>3, <3>1
    <2> QED
      BY <2>2, <2>3
  <1>8. CASE a.do = "mkdir"
    <2>1. new.files = t.files
      BY <1>8, AfterIs DEF new
    <2> QED
      BY <1>1, <1>2, <1>8, <2>1
  <1>9. CASE a.do = "rmdir"
    <2>1. /\ \A q : q \in DOMAIN new.files <=> q \in DOMAIN t.files /\ q.dir # a.dir
          /\ \A q \in DOMAIN new.files : new.files[q] = t.files[q]
      BY <1>9, AfterIs DEF new
    <2> QED
      BY <1>1, <1>2, <1>9, <2>1
  <1> QED
    BY <1>5, <1>6, <1>7, <1>8, <1>9 DEF SoundStep, Steps

-----------------------------------------------------------------------------
(***************************************************************************)
(* What a request has still to write, told by the snapshot it was decided  *)
(* on: the plans that handlers make, and what is left of them step by step.*)
(***************************************************************************)

\* m: a file was put where it cannot be read, or a name is held twice.
NewArtifact(q, m) ==
    /\ q.op \in Creators /\ q.plan = <<q.plan[1]>>
    /\ Adds(q.base, q.plan[1])
    /\ ~m => q.plan[1].at \notin Loaded(q.base)

NewBlob(q, m) ==
    /\ q.op \in Creators /\ q.plan = <<q.plan[1], q.plan[2]>>
    /\ Fills(q.base, q.plan[1])
    /\ LET b == q.plan[2]
       IN  /\ b.do = "put" /\ b.file.form = "json" /\ b.file.shape = "blob"
           /\ b.at.ext = Side(b.file.text)
           /\ q.plan[1].at = BytesOf(b.at, b.file)
           /\ ~m => b.at \notin Loaded(q.base)

NewCollection(q, m) ==
    /\ q.op \in Creators
    /\ \E d \in Dirs :
        /\ \A i \in DOMAIN q.plan :
            LET a == q.plan[i]
            IN  \/ i = 1 /\ a.do = "mkdir" /\ a.dir = d
                \/ /\ a.do = "put" /\ a.at.dir = d /\ a.at.ext = Md
                   /\ a.file.form = "front" /\ a.file.shape # "blob"
                   /\ q.plan[1].do = "put" => d \in DOMAIN q.base.dirs
                   /\ q.plan[1].do = "put" /\ ~m => a.at \notin Loaded(q.base)
        /\ \A i, j \in DOMAIN q.plan :
            q.plan[i].do = "put" /\ q.plan[j].do = "put" /\ i # j =>
                q.plan[i].at # q.plan[j].at /\ q.plan[i].file.uuid # q.plan[j].file.uuid

Edit(q, h) ==
    /\ q.op \in {"update", "check", "review", "apply", "replace"}
    /\ q.plan = <<q.plan[1]>> /\ Edits(q.base, q.plan[1])
    /\ q.op = "apply" => /\ q.plan[1].file.uuid = h.key[1]
                         /\ h.key[2] \in q.plan[1].file.links

Rewrite(q) ==
    /\ q.op = "replace" /\ q.plan = <<q.plan[1], q.plan[2]>>
    /\ Fills(q.base, q.plan[1]) /\ Edits(q.base, q.plan[2])

\* The pair of files that goes: metadata and bytes.
Pair(c, e) ==
    /\ c.do = "dropif" /\ e.do = "dropif"
    /\ \E y \in Exts : c.at.ext = Side(y) /\ e.at = Path(c.at.dir, c.at.name, Bin(y))

\* The metadata that comes, b, for the metadata that goes, c.
Successor(t, b, c) ==
    /\ b.do = "put" /\ b.file.form = "json" /\ b.file.shape = "blob"
    /\ b.at.ext = Side(b.file.text) /\ b.at # c.at /\ SameName(b.at, c.at)
    /\ c.at \in Loaded(t) /\ t.files[c.at].uuid = b.file.uuid /\ t.files[c.at].shape = "blob"
    /\ t.files[c.at].links \subseteq b.file.links

Exchange(q) ==
    /\ q.op = "replace"
    /\ \/ /\ q.plan = <<q.plan[1], q.plan[2], q.plan[3], q.plan[4]>>
          /\ Fills(q.base, q.plan[1])
          /\ q.plan[1].at = BytesOf(q.plan[2].at, q.plan[2].file)
          /\ Successor(q.base, q.plan[2], q.plan[3]) /\ Pair(q.plan[3], q.plan[4])
       \/ /\ q.plan = <<q.plan[1], q.plan[2], q.plan[3]>>
          /\ Adds(q.base, q.plan[1])
          /\ Successor(q.base, q.plan[1], q.plan[2]) /\ Pair(q.plan[2], q.plan[3])
       \/ /\ q.plan = <<q.plan[1], q.plan[2]>>
          /\ Pair(q.plan[1], q.plan[2])
          /\ q.plan[1].at \in Loaded(q.base)
          /\ \E p \in Loaded(q.base) :
                /\ p # q.plan[1].at /\ SameName(p, q.plan[1].at)
                /\ q.base.files[p].uuid = q.base.files[q.plan[1].at].uuid
       \/ /\ q.plan = <<q.plan[1]>>
          /\ Empties(q.base, q.plan[1])

Renaming(q) ==
    q.op = "rename" /\ q.plan = <<q.plan[1]>> /\ Renames(q.base, q.plan[1])

Deletion(q) ==
    /\ q.op = "delete" /\ q.plan = <<q.plan[1]>>
    /\ q.plan[1].do = "drop" /\ q.plan[1].at \in Loaded(q.base)
    /\ q.base.files[q.plan[1].at].uuid = q.uuid

OfCollections(q) ==
    \/ q.op = "mkcoll" /\ q.plan = <<q.plan[1]>> /\ q.plan[1].do = "mkdir"
    \/ /\ q.op = "rmcoll" /\ q.plan = <<q.plan[1]>> /\ q.plan[1].do = "rmdir"
       /\ NamesOf(q.base, q.plan[1].dir) = {}
    \/ q.op = "wipe" /\ \A i \in DOMAIN q.plan : q.plan[i].do = "rmdir"

Sensible(q, h, m) ==
    \/ NewArtifact(q, m) \/ NewBlob(q, m) \/ NewCollection(q, m)
    \/ Edit(q, h) \/ Rewrite(q) \/ Exchange(q)
    \/ Renaming(q) \/ Deletion(q) \/ OfCollections(q)

\* Of a plan.
LEMMA PlanIs ==
    ASSUME NEW U, NEW plan, SoundPlan(plan, U), plan # <<>>
    PROVE  /\ Head(plan) = plan[1] /\ 1 \in DOMAIN plan /\ SoundStep(plan[1], U)
           /\ \A i \in DOMAIN plan : SoundStep(plan[i], U)
           /\ \A i \in DOMAIN Tail(plan) : i + 1 \in DOMAIN plan /\ Tail(plan)[i] = plan[i + 1]
           /\ DOMAIN plan \subseteq Nat
PROOF
  <1>1. plan \in Seq(Steps) /\ Len(plan) \in Nat \ {0}
    BY DEF SoundPlan
  <1> QED
    BY <1>1 DEF SoundPlan

\* The paths of the steps.
LEMMA StepPaths ==
    ASSUME NEW U, NEW a, SoundStep(a, U)
    PROVE  /\ a.do \in {"put", "drop", "dropif"} => a.at \in Paths
           /\ a.do = "put" => a.file \in File
           /\ a.do = "move" => a.at \in ArtifactPath /\ a.to \in ArtifactPath
           /\ a.do \in {"put", "drop", "dropif", "move", "mkdir", "rmdir"}
           /\ a.do \in {"put", "drop", "dropif", "move"} => a.at \in Paths
PROOF
  BY DEF SoundStep, Steps, ArtifactPath

\* The next step is of a kind, and about no list.
LEMMA SensibleHead ==
    ASSUME NEW U, NEW q, SoundPlan(q.plan, U), q.plan # <<>>, SoundTree(q.base, U),
           NEW h, NEW m, Sensible(q, h, m)
    PROVE  Kind(q.base, q.plan[1]) /\ OffLists(q.plan[1])
PROOF
  <1> DEFINE a == q.plan[1]
  <1>0. SoundStep(a, U) /\ 1 \in DOMAIN q.plan
    BY PlanIs
  <1>p. \A p \in Loaded(q.base) : p \in ArtifactPath
    BY LoadedIs
  <1>d. a.at \in Paths /\ a.at.ext # List => OffLists(a)
    BY DEF OffLists, ArtifactPath
  <1>1. ASSUME Adds(q.base, a) PROVE Kind(q.base, a) /\ OffLists(a)
    <2>1. a.at.ext # List
      BY <1>1, ExtKinds DEF Adds, Readable, IsSidecar
    <2> QED
      BY <1>0, <1>1, <1>d, <2>1, StepPaths DEF Adds, Kind
  <1>2. ASSUME Fills(q.base, a) PROVE Kind(q.base, a) /\ OffLists(a)
    <2>1. a.at.ext # List
      BY <1>2, ExtKinds DEF Fills, IsBin
    <2> QED
      BY <1>0, <1>2, <1>d, <2>1, StepPaths DEF Fills, Kind
  <1>3. ASSUME Edits(q.base, a) PROVE Kind(q.base, a) /\ OffLists(a)
    BY <1>3, <1>p DEF Edits, OffLists, Kind
  <1>4. ASSUME Renames(q.base, a) PROVE Kind(q.base, a) /\ OffLists(a)
    BY <1>4, <1>p DEF Renames, OffLists, Kind
  <1>5. ASSUME a.do \in {"mkdir", "rmdir"} PROVE Kind(q.base, a) /\ OffLists(a)
    BY <1>5 DEF OffLists, Kind
  <1>6. ASSUME a.do \in {"drop", "dropif"}, a.at \in Loaded(q.base)
        PROVE  Kind(q.base, a) /\ OffLists(a)
    <2>1. ~IsBin(a.at)
      BY <1>6, LoadedAre, ExtKinds DEF LoadsFile, IsSidecar, IsBin
    <2> QED
      BY <1>6, <1>p, <2>1 DEF OffLists, Kind, Takes
  <1>7. ASSUME Empties(q.base, a) PROVE Kind(q.base, a) /\ OffLists(a)
    <2>1. a.at.ext # List
      BY <1>7, ExtKinds DEF Empties
    <2> QED
      BY <1>0, <1>7, <1>d, <2>1, StepPaths DEF Empties, Kind
  <1>8. CASE NewArtifact(q, m)
    BY <1>1, <1>8 DEF NewArtifact
  <1>9. CASE NewBlob(q, m)
    BY <1>2, <1>9 DEF NewBlob
  <1>10. CASE NewCollection(q, m)
    <2>1. PICK d \in Dirs :
            \/ a.do = "mkdir"
            \/ /\ a.do = "put" /\ a.at.dir = d /\ a.at.ext = Md
               /\ a.file.form = "front" /\ a.file.shape # "blob" /\ d \in DOMAIN q.base.dirs
      BY <1>0, <1>10 DEF NewCollection
    <2>2. a.do = "put" => Adds(q.base, a)
      BY <2>1 DEF Adds, Readable
    <2> QED
      BY <1>1, <1>5, <2>1, <2>2
  <1>11. CASE Edit(q, h)
    BY <1>3, <1>11 DEF Edit
  <1>12. CASE Rewrite(q)
    BY <1>2, <1>12 DEF Rewrite
  <1>13. CASE Exchange(q)
    BY <1>1, <1>2, <1>6, <1>7, <1>13 DEF Exchange, Pair
  <1>14. CASE Renaming(q)
    BY <1>4, <1>14 DEF Renaming
  <1>15. CASE Deletion(q)
    BY <1>6, <1>15 DEF Deletion
  <1>16. CASE OfCollections(q)
    BY <1>0, <1>5, <1>16 DEF OfCollections
  <1> QED
    BY <1>8, <1>9, <1>10, <1>11, <1>12, <1>13, <1>14, <1>15, <1>16 DEF Sensible

\* Bytes leave what is loaded alone and make room for their metadata.
LEMMA FillsThen ==
    ASSUME NEW U, NEW t, SoundTree(t, U), Orderly(t), NEW a, SoundStep(a, U), Fills(t, a)
    PROVE  /\ Loaded(After(t, a)) = Loaded(t)
           /\ \A p \in Loaded(t) : After(t, a).files[p] = t.files[p]
           /\ \A b : /\ b.do = "put" /\ b.file.form = "json" /\ b.file.shape = "blob"
                     /\ b.at.ext = Side(b.file.text) /\ a.at = BytesOf(b.at, b.file)
                     /\ b.at \in Paths
                     => Adds(After(t, a), b)
PROOF
  <1> DEFINE new == After(t, a)
  <1>0. Kind(t, a) /\ a.do = "put" /\ IsBin(a.at)
    BY DEF Kind, Fills
  <1>1. /\ DOMAIN new.files = DOMAIN t.files \cup {a.at}
        /\ \A q \in DOMAIN t.files : q # a.at => new.files[q] = t.files[q]
        /\ new.dirs = t.dirs
    BY <1>0, AfterIs
  <1>2. \A p \in Loaded(t) \cup Loaded(new) : ~IsBin(p)
    BY <1>0, KindKeepsOrder, LoadedAre, ExtKinds DEF LoadsFile, IsSidecar, IsBin
  <1>3. \A p \in Loaded(new) : p \in Loaded(t)
    BY <1>0, <1>2, KindLoads DEF Renames
  <1>4. \A p \in Loaded(t) : p \in Loaded(new)
    BY <1>0, <1>2, KindLeaves
  <1>5. \A p \in Loaded(t) : new.files[p] = t.files[p]
    BY <1>0, <1>1, <1>2, LoadedAre
  <1>6. ASSUME NEW b, b.do = "put", b.file.form = "json", b.file.shape = "blob",
               b.at.ext = Side(b.file.text), a.at = BytesOf(b.at, b.file), b.at \in Paths
        PROVE  Adds(new, b)
    <2>1. a.at.dir = b.at.dir
      BY SMTT(20), <1>6, ExtKinds
    <2>2. b.at.dir \in DOMAIN new.dirs
      BY <1>1, <2>1 DEF Fills
    <2>3. IsSidecar(b.at)
      BY <1>6, ExtKinds DEF IsSidecar
    <2>4. BytesOf(b.at, b.file) \in DOMAIN new.files
      BY <1>1, <1>6
    <2> QED
      BY <1>6, <2>2, <2>3, <2>4 DEF Adds, Readable
  <1> QED
    BY <1>3, <1>4, <1>5, <1>6

LEMMA Tails ==
    /\ \A x : Tail(<<x>>) = <<>>
    /\ \A x, y : Tail(<<x, y>>) = <<y>>
    /\ \A x, y, z : Tail(<<x, y, z>>) = <<y, z>>
    /\ \A x, y, z, v : Tail(<<x, y, z, v>>) = <<y, z, v>>
PROOF
  OBVIOUS

LEMMA Entries ==
    /\ \A s, x : s = <<x>> => s[1] = x /\ s = <<s[1]>>
    /\ \A s, x, y : s = <<x, y>> => s[1] = x /\ s[2] = y /\ s = <<s[1], s[2]>>
    /\ \A s, x, y, z : s = <<x, y, z>> =>
            s[1] = x /\ s[2] = y /\ s[3] = z /\ s = <<s[1], s[2], s[3]>>
PROOF
  OBVIOUS

\* What is left of a sensible plan is sensible in the tree the step leaves.
LEMMA SensibleTail ==
    ASSUME NEW U, NEW q, SoundPlan(q.plan, U), q.plan # <<>>,
           SoundTree(q.base, U), Orderly(q.base),
           NEW h, NEW m, NEW n, m => n, Sensible(q, h, m),
           q.plan[1].do = "mkdir" /\ ~n => \A p \in DOMAIN q.base.files : p.dir # q.plan[1].dir,
           NEW w, w.op = q.op, w.uuid = q.uuid, w.plan = Tail(q.plan), w.plan # <<>>,
           w.base = After(q.base, q.plan[1])
    PROVE  Sensible(w, h, n)
PROOF
  <1> DEFINE a == q.plan[1]
             t == q.base
             new == After(t, a)
  <1>0. /\ SoundStep(a, U) /\ 1 \in DOMAIN q.plan
        /\ \A i \in DOMAIN q.plan : SoundStep(q.plan[i], U)
        /\ \A i \in DOMAIN w.plan : i + 1 \in DOMAIN q.plan /\ w.plan[i] = q.plan[i + 1]
        /\ DOMAIN q.plan \subseteq Nat
    BY PlanIs
  <1>1. Kind(t, a) /\ w.base = new
    BY SensibleHead
  <1>o. q.plan # <<q.plan[1]>>
    BY Tails
  <1> HIDE DEF a, t, new
  <1>s. SoundStep(a, U)
    BY <1>0 DEF a
  <1>2. ASSUME NEW b, q.plan = <<a, b>>
        PROVE  w.plan = <<w.plan[1]>> /\ w.plan[1] = b /\ SoundStep(b, U)
    <2>0. Tail(<<a, b>>) = <<b>>
      BY Tails
    <2>1. w.plan = <<b>>
      BY <2>0, <1>2, Tails
    <2>2. 2 \in DOMAIN q.plan /\ q.plan[2] = b
      BY <1>2
    <2>3. /\ w.plan[1] = b
          /\ w.plan = <<w.plan[1]>>
      BY <2>1, Entries
    <2> QED
      BY <1>0, <2>2, <2>3
  <1>3. ASSUME NEW b, NEW c, q.plan = <<a, b, c>>
        PROVE  w.plan = <<w.plan[1], w.plan[2]>> /\ w.plan[1] = b /\ w.plan[2] = c
               /\ SoundStep(b, U) /\ SoundStep(c, U)
    <2>0. Tail(<<a, b, c>>) = <<b, c>>
      BY Tails
    <2> DEFINE v == w.plan
    <2>1. v = <<b, c>>
      BY <2>0, <1>3
    <2>2. 2 \in DOMAIN q.plan /\ q.plan[2] = b /\ 3 \in DOMAIN q.plan /\ q.plan[3] = c
      BY <1>3
    <2> HIDE DEF v
    <2>3. /\ v[1] = b
          /\ v[2] = c
          /\ v = <<v[1], v[2]>>
      BY <2>1, Entries
    <2> QED
      BY <1>0, <2>2, <2>3 DEF v
  <1>4. ASSUME NEW b, NEW c, NEW d, q.plan = <<a, b, c, d>>
        PROVE  w.plan = <<w.plan[1], w.plan[2], w.plan[3]>>
               /\ w.plan[1] = b /\ w.plan[2] = c /\ w.plan[3] = d
               /\ SoundStep(b, U) /\ SoundStep(c, U) /\ SoundStep(d, U)
    <2>0. Tail(<<a, b, c, d>>) = <<b, c, d>>
      BY Tails
    <2> DEFINE v == w.plan
    <2>1. v = <<b, c, d>>
      BY <2>0, <1>4
    <2>2. 2 \in DOMAIN q.plan /\ q.plan[2] = b /\ 3 \in DOMAIN q.plan /\ q.plan[3] = c /\ 4 \in DOMAIN q.plan /\ q.plan[4] = d
      BY <1>4
    <2> HIDE DEF v
    <2>3. /\ v[1] = b
          /\ v[2] = c
          /\ v[3] = d
          /\ v = <<v[1], v[2], v[3]>>
      BY <2>1, Entries
    <2> QED
      BY <1>0, <2>2, <2>3 DEF v
  <1>5. CASE NewBlob(q, m)
    <2> DEFINE b == q.plan[2]
    <2>1. /\ q.plan = <<a, b>> /\ Fills(t, a) /\ w.op \in Creators
          /\ b.do = "put" /\ b.file.form = "json" /\ b.file.shape = "blob"
          /\ b.at.ext = Side(b.file.text) /\ a.at = BytesOf(b.at, b.file)
          /\ ~m => b.at \notin Loaded(t)
      BY <1>5 DEF NewBlob, a, t
    <2> HIDE DEF b
    <2>2. w.plan = <<w.plan[1]>> /\ w.plan[1] = b /\ SoundStep(b, U)
      BY <1>2, <2>1
    <2>3. Adds(new, b) /\ Loaded(new) = Loaded(t)
      BY <1>0, <2>1, <2>2, FillsThen, StepPaths DEF a, t, new
    <2>4. NewArtifact(w, n)
      BY <1>1, <2>1, <2>2, <2>3 DEF NewArtifact
    <2> QED
      BY <2>4 DEF Sensible
  <1>6. CASE NewCollection(q, m)
    <2>1. PICK d \in Dirs :
        /\ \A i \in DOMAIN q.plan :
            \/ i = 1 /\ q.plan[i].do = "mkdir" /\ q.plan[i].dir = d
            \/ /\ q.plan[i].do = "put" /\ q.plan[i].at.dir = d /\ q.plan[i].at.ext = Md
               /\ q.plan[i].file.form = "front" /\ q.plan[i].file.shape # "blob"
               /\ a.do = "put" => d \in DOMAIN t.dirs
               /\ a.do = "put" /\ ~m => q.plan[i].at \notin Loaded(t)
        /\ \A i, j \in DOMAIN q.plan :
            q.plan[i].do = "put" /\ q.plan[j].do = "put" /\ i # j =>
                q.plan[i].at # q.plan[j].at /\ q.plan[i].file.uuid # q.plan[j].file.uuid
      BY <1>6 DEF NewCollection, a, t
    <2>2. w.op \in Creators
      BY <1>6 DEF NewCollection
    <2>3. ASSUME NEW i \in DOMAIN w.plan
          PROVE  /\ w.plan[i].do = "put" /\ w.plan[i].at.dir = d /\ w.plan[i].at.ext = Md
                 /\ w.plan[i].file.form = "front" /\ w.plan[i].file.shape # "blob"
                 /\ d \in DOMAIN new.dirs
                 /\ ~n => w.plan[i].at \notin Loaded(new)
      <3>1. i + 1 \in DOMAIN q.plan /\ w.plan[i] = q.plan[i + 1] /\ i + 1 # 1
        BY <1>0
      <3>2. /\ w.plan[i].do = "put" /\ w.plan[i].at.dir = d /\ w.plan[i].at.ext = Md
            /\ w.plan[i].file.form = "front" /\ w.plan[i].file.shape # "blob"
            /\ a.do = "put" => d \in DOMAIN t.dirs
            /\ a.do = "put" /\ ~m => w.plan[i].at \notin Loaded(t)
        BY <2>1, <3>1
      <3>3. CASE a.do = "mkdir"
        <4>1. a.dir = d
          BY <1>0, <2>1, <3>3 DEF a
        <4>2. new.files = t.files /\ DOMAIN new.dirs = DOMAIN t.dirs \cup {d}
          BY <3>3, <4>1, AfterIs DEF new, t
        <4>3. ~n => w.plan[i].at \notin DOMAIN new.files
          BY <3>2, <3>3, <4>1, <4>2 DEF a, t
        <4>4. Loaded(new) \subseteq DOMAIN new.files
          BY DEF Loaded
        <4> QED
          BY <3>2, <4>2, <4>3, <4>4
      <3>4. CASE a.do = "put"
        <4>1. new.dirs = t.dirs
          BY <3>4, AfterIs DEF new, t
        <4>2. a.at # w.plan[i].at
          BY <1>0, <2>1, <3>1, <3>2, <3>4 DEF a
        <4>3. ~n => w.plan[i].at \notin Loaded(new)
          BY <1>0, <1>1, <3>2, <3>4, <4>2, KindLoads DEF new, t, Renames
        <4> QED
          BY <3>2, <3>4, <4>1, <4>3
      <3> QED
        BY <1>0, <2>1, <3>3, <3>4 DEF a
    <2>4. ASSUME NEW i \in DOMAIN w.plan, NEW j \in DOMAIN w.plan, i # j
          PROVE  w.plan[i].at # w.plan[j].at /\ w.plan[i].file.uuid # w.plan[j].file.uuid
      <3>1. /\ i + 1 \in DOMAIN q.plan /\ w.plan[i] = q.plan[i + 1]
            /\ j + 1 \in DOMAIN q.plan /\ w.plan[j] = q.plan[j + 1]
        BY <1>0
      <3>2. i + 1 # j + 1
        <4>1. i \in Nat /\ j \in Nat
          <5>1. w.plan \in Seq(Steps)
            BY PlansAreSound DEF SoundPlan
          <5> QED
            BY <5>1
        <4> QED
          BY <2>4, <4>1
      <3>3. w.plan[i].do = "put" /\ w.plan[j].do = "put"
        BY <2>3
      <3> QED
        BY <2>1, <3>1, <3>2, <3>3
    <2>5. NewCollection(w, n)
      BY <1>1, <2>2, <2>3, <2>4 DEF NewCollection
    <2> QED
      BY <2>5 DEF Sensible
  <1>7. CASE Rewrite(q)
    <2> DEFINE b == q.plan[2]
    <2>1. q.plan = <<a, b>> /\ Fills(t, a) /\ Edits(t, b) /\ w.op = "replace"
      BY <1>7 DEF Rewrite, a, t
    <2> HIDE DEF b
    <2>2. w.plan = <<w.plan[1]>> /\ w.plan[1] = b /\ SoundStep(b, U)
      BY <1>2, <2>1
    <2>3. Loaded(new) = Loaded(t) /\ \A p \in Loaded(t) : new.files[p] = t.files[p]
      BY <1>0, <2>1, FillsThen DEF new, t, a
    <2>4. Edits(new, b)
      BY <2>1, <2>3 DEF Edits
    <2>5. Edit(w, h)
      BY <1>1, <2>1, <2>2, <2>4 DEF Edit
    <2> QED
      BY <2>5 DEF Sensible
  <1>8. CASE Exchange(q)
    <2>0. w.op = "replace" /\ \A p \in Loaded(t) : p \in DOMAIN t.files
      BY <1>8 DEF Exchange, Loaded
    <2>1. ASSUME NEW b, NEW c, NEW e, q.plan = <<a, b, c, e>>, Fills(t, a),
                 a.at = BytesOf(b.at, b.file), Successor(t, b, c), Pair(c, e)
          PROVE  Exchange(w)
      <3>1. /\ w.plan = <<w.plan[1], w.plan[2], w.plan[3]>>
            /\ w.plan[1] = b /\ w.plan[2] = c /\ w.plan[3] = e /\ SoundStep(b, U)
        BY <1>4, <2>1
      <3>2. Loaded(new) = Loaded(t) /\ \A p \in Loaded(t) : new.files[p] = t.files[p]
        BY <1>0, <2>1, FillsThen DEF new, t, a
      <3>3. Adds(new, b)
        BY SMTT(20), <1>0, <2>1, <3>1, FillsThen, StepPaths DEF new, t, a, Successor
      <3>4. Successor(new, b, c)
        BY <2>1, <3>2 DEF Successor
      <3> QED
        BY <1>1, <2>0, <2>1, <3>1, <3>3, <3>4 DEF Exchange
    <2>2. ASSUME NEW c, NEW e, q.plan = <<a, c, e>>, Adds(t, a), Successor(t, a, c), Pair(c, e)
          PROVE  Exchange(w)
      <3>1. w.plan = <<w.plan[1], w.plan[2]>> /\ w.plan[1] = c /\ w.plan[2] = e
        BY <1>3, <2>2
      <3>2. /\ a.do = "put" /\ c.at \in Loaded(t) /\ t.files[c.at].uuid = a.file.uuid
            /\ a.at # c.at /\ SameName(a.at, c.at)
        BY <2>2 DEF Successor
      <3>3. /\ DOMAIN new.files = DOMAIN t.files \cup {a.at} /\ new.files[a.at] = a.file
            /\ \A p \in DOMAIN t.files : p # a.at => new.files[p] = t.files[p]
            /\ new.dirs = t.dirs
        BY <3>2, AfterIs DEF new, t
      <3>4. SoundTree(new, U) /\ Orderly(new)
        BY <1>0, <1>1, KindKeepsOrder DEF new, t
      <3>5. c.at \in Loaded(new)
        BY <1>0, <1>1, <3>2, KindLeaves DEF new, t
      <3>6. a.at \in Loaded(new)
        <4>1. LoadsFile(a.at, a.file)
          BY <2>2 DEF Adds, Readable, LoadsFile
        <4> QED
          BY <3>3, <3>4, <4>1, OrderlyAre
      <3>7. new.files[a.at].uuid = new.files[c.at].uuid
        BY <2>0, <3>2, <3>3
      <3> QED
        BY <1>1, <2>0, <2>2, <3>1, <3>2, <3>5, <3>6, <3>7 DEF Exchange
    <2>3. ASSUME NEW e, q.plan = <<a, e>>, Pair(a, e), a.at \in Loaded(t)
          PROVE  Exchange(w)
      <3>1. w.plan = <<w.plan[1]>> /\ w.plan[1] = e
        BY <1>2, <2>3
      <3>2. PICK y \in Exts : a.at.ext = Side(y) /\ e.at = Path(a.at.dir, a.at.name, Bin(y))
        BY <2>3 DEF Pair
      <3>3. a.do = "dropif" /\ e.do = "dropif"
        BY <2>3 DEF Pair
      <3>4. DOMAIN new.files = DOMAIN t.files \ {a.at}
        BY <3>3, AfterIs DEF new, t
      <3>5. Path(a.at.dir, a.at.name, Side(y)) = a.at
        BY SMTT(20), <1>0, <3>2, <3>3, StepPaths, ExtKinds
      <3>6. Empties(new, e)
        BY <3>2, <3>3, <3>4, <3>5, ExtKinds DEF Empties
      <3> QED
        BY <1>1, <2>0, <3>1, <3>6 DEF Exchange
    <2>4. Exchange(w)
      BY <1>8, <1>o, <2>1, <2>2, <2>3 DEF Exchange, a, t
    <2> QED
      BY <2>4 DEF Sensible
  <1>9. CASE OfCollections(q)
    <2>1. q.op = "wipe" /\ \A i \in DOMAIN q.plan : q.plan[i].do = "rmdir"
      BY <1>9, <1>o DEF OfCollections
    <2>2. \A i \in DOMAIN w.plan : w.plan[i].do = "rmdir"
      BY <1>0, <2>1
    <2> QED
      BY <2>1, <2>2 DEF OfCollections, Sensible
  <1> QED
    BY <1>o, <1>5, <1>6, <1>7, <1>8, <1>9
    DEF Sensible, NewArtifact, Edit, Renaming, Deletion

\* An artifact found in an orderly world, by the shape of what was found.
LEMMA FoundOrderly ==
    ASSUME SoundTree(world, used), Orderly(world), NEW u \in UuidsOf(world)
    PROVE  /\ At(world, u) \in Loaded(world) /\ world.files[At(world, u)] = Current(u)
           /\ Current(u).uuid = u
           /\ Current(u).shape = "blob" =>
                At(world, u) = Path(At(world, u).dir, At(world, u).name, Side(Current(u).text))
                /\ Current(u).text \in Exts
PROOF
  <1> DEFINE p == At(world, u)
             f == Current(u)
  <1>1. p \in Loaded(world) /\ f \in StoredArtifact /\ f.uuid = u /\ f = world.files[p]
    BY FoundIs DEF Current
  <1> HIDE DEF p, f
  <1>2. p \in DOMAIN world.files /\ LoadsFile(p, f) /\ p \in Paths
    BY <1>1, LoadedAre, TreeIs
  <1>3. p.ext # List
    BY <1>2, ExtKinds DEF LoadsFile, IsSidecar
  <1>4. OrderlyFile(world, p, f)
    BY <1>1, <1>2, <1>3, OrderlyIs
  <1>5. ASSUME f.shape = "blob"
        PROVE  p.ext = Side(f.text) /\ f.text \in Exts
    <2>1. p.ext = Side(f.text)
      BY <1>2, <1>4, <1>5 DEF OrderlyFile, LoadsFile
    <2>2. f.text \in Exts
      BY <1>1, <1>5 DEF StoredArtifact, Of
    <2> QED
      BY <2>1, <2>2
  <1>6. p = Path(p.dir, p.name, p.ext)
    BY <1>2, ExtKinds
  <1> QED
    BY <1>1, <1>5, <1>6 DEF p, f

LEMMA NotTaken ==
    ASSUME NEW d, NEW n, ~Taken(d, n)
    PROVE  \A x : Path(d, n, x) \notin Loaded(world)
PROOF
  BY ExtKinds DEF Taken, NamesOf

LEMMA Concatenated ==
    ASSUME NEW a, NEW b, NEW c, NEW e
    PROVE  <<a, b>> \o <<c, e>> = <<a, b, c, e>>
PROOF
  <1> DEFINE s == <<a, b>> \o <<c, e>>
             v == <<a, b, c, e>>
             S == {a, b, c, e}
  <1>1. <<a, b>> \in Seq(S) /\ <<c, e>> \in Seq(S) /\ v \in Seq(S)
    OBVIOUS
  <1>2. s \in Seq(S) /\ Len(s) = 4 /\ Len(v) = 4
    BY <1>1
  <1>3. s[1] = a /\ s[2] = b /\ s[3] = c /\ s[4] = e
    BY <1>1
  <1>4. v[1] = a /\ v[2] = b /\ v[3] = c /\ v[4] = e
    OBVIOUS
  <1> HIDE DEF s, v
  <1>5. ASSUME NEW i \in 1..Len(s) PROVE s[i] = v[i]
    <2>1. i = 1 \/ i = 2 \/ i = 3 \/ i = 4
      BY <1>2
    <2> QED
      BY <2>1, <1>3, <1>4
  <1> HIDE DEF S
  <1>6. s = v
    BY <1>1, <1>2, <1>5
  <1> QED
    BY <1>6 DEF s, v

\* The two files of a blob, written alone or before two more steps.
LEMMA BlobPlan ==
    ASSUME NEW d \in Dirs, NEW n \in Names, NEW f, f.text \in Exts
    PROVE  LET a == Put(Path(d, n, Bin(f.text)), Bytes)
               b == Put(Path(d, n, Side(f.text)), f)
           IN  /\ BlobWrites(d, n, f) = <<a, b>>
               /\ \A c, e : BlobWrites(d, n, f) \o <<c, e>> = <<a, b, c, e>>
               /\ a.at = BytesOf(b.at, b.file) /\ b.at.ext = Side(b.file.text)
               /\ a.do = "put" /\ b.do = "put" /\ b.file = f
               /\ b.at = Path(d, n, Side(f.text))
               /\ \A t : d \in DOMAIN t.dirs => Fills(t, a)
PROOF
  <1> DEFINE a == Put(Path(d, n, Bin(f.text)), Bytes)
             b == Put(Path(d, n, Side(f.text)), f)
  <1>1. a.do = "put" /\ a.at = Path(d, n, Bin(f.text)) /\ a.file = Bytes
    BY DEF Put
  <1>2. b.do = "put" /\ b.at = Path(d, n, Side(f.text)) /\ b.file = f
    BY DEF Put
  <1>3. BlobWrites(d, n, f) = <<a, b>>
    BY DEF BlobWrites
  <1> HIDE DEF a, b
  <1>4. \A c, e : BlobWrites(d, n, f) \o <<c, e>> = <<a, b, c, e>>
    BY <1>3, Concatenated
  <1>5. b.at \in Paths /\ b.at.dir = d /\ b.at.name = n
    <2>1. Path(d, n, Side(f.text)) \in ArtifactPath
      BY PathsTyped
    <2> QED
      BY <1>2, <2>1, ExtKinds DEF ArtifactPath
  <1>6. a.at = BytesOf(b.at, b.file)
    <2>1. BytesOf(b.at, b.file) = Path(b.at.dir, b.at.name, Bin(b.file.text))
      BY <1>5, ExtKinds
    <2> QED
      BY <1>1, <1>2, <1>5, <2>1
  <1>7. \A t : d \in DOMAIN t.dirs => Fills(t, a)
    <2>1. a.at.ext = Bin(f.text) /\ a.at.dir = d
      BY <1>1, ExtKinds
    <2>2. IsBin(a.at)
      BY <2>1, ExtKinds DEF IsBin
    <2> QED
      BY <1>1, <2>1, <2>2 DEF Fills
  <1>8. b.at.ext = Side(b.file.text)
    BY <1>2, ExtKinds
  <1> QED
    BY <1>1, <1>2, <1>3, <1>4, <1>6, <1>7, <1>8 DEF a, b

\* What a creator puts carries an identity handed out for it.
Fathered(op, plan, news) ==
    op \in Creators => \A i \in DOMAIN plan :
        plan[i].do = "put" => plan[i].file.uuid \in news \cup {None}

Base(op) == IF op = "adopt" THEN disk ELSE world

LEMMA MakersAreSensible ==
    ASSUME SoundTree(disk, used), SoundTree(world, used), Orderly(disk), Orderly(world),
           NEW r \in Requests, NEW h, NEW m,
           Create(r) \/ CreateUrl(r) \/ CreateBlob(r) \/ Adopt(r)
    PROVE  \E op, u, news, plan :
            /\ Plans(r, op, u, news, plan) /\ news \cap used = {} /\ Fathered(op, plan, news)
            /\ \A q : q.op = op /\ q.uuid = u /\ q.plan = plan /\ q.base = Base(op)
                      => Sensible(q, h, m)
PROOF
  <1>c. {"create", "createurl", "createblob", "adopt"} \subseteq Creators
    BY DEF Creators
  <1>i. Fresh # {} => {Mint} \cap used = {}
    BY MintIs
  \* One file put where nothing of its name is loaded.
  <1>a. ASSUME NEW op \in Creators, NEW p, NEW f, Plans(r, op, Mint, {Mint}, <<Put(p, f)>>),
               Fresh # {}, f.uuid = Mint, Readable(Base(op), p, f), p \notin Loaded(Base(op))
        PROVE  \E u, news, plan :
            /\ Plans(r, op, u, news, plan) /\ news \cap used = {} /\ Fathered(op, plan, news)
            /\ \A q : q.op = op /\ q.uuid = u /\ q.plan = plan /\ q.base = Base(op)
                      => Sensible(q, h, m)
    <2> DEFINE a == Put(p, f)
    <2>1. a.do = "put" /\ a.at = p /\ a.file = f
      BY DEF Put
    <2> HIDE DEF a
    <2>2. Fathered(op, <<a>>, {Mint})
      BY <1>a, <2>1 DEF Fathered
    <2>3. ASSUME NEW q, q.op = op, q.plan = <<a>>, q.base = Base(op)
          PROVE  Sensible(q, h, m)
      <3>1. q.plan = <<q.plan[1]>> /\ q.plan[1] = a
        BY <2>3, Entries
      <3>2. Adds(q.base, a)
        BY <1>a, <2>1, <2>3 DEF Adds
      <3>3. NewArtifact(q, m)
        BY <1>a, <2>1, <2>3, <3>1, <3>2 DEF NewArtifact
      <3> QED
        BY <3>3 DEF Sensible
    <2> QED
      BY <1>a, <1>i, <2>2, <2>3 DEF a
  <1>1. CASE Create(r)
    <2>1. PICK d \in Dirs, n \in Names :
            Makes(r, "create", d, n,
                  <<Put(Path(d, n, Md), Artifact(Mint, "content", "front", None))>>)
      BY <1>1 DEF Create
    <2>2. d \in DOMAIN world.dirs /\ ~Taken(d, n) /\ Base("create") = world /\ Fresh # {}
      BY <2>1 DEF Makes, Finds, Base
    <2>3. Readable(world, Path(d, n, Md), Artifact(Mint, "content", "front", None))
          /\ Artifact(Mint, "content", "front", None).uuid = Mint
      BY <2>2, ExtKinds DEF Readable, Artifact
    <2> QED
      BY <1>a, <1>c, <2>1, <2>2, <2>3, NotTaken DEF Makes
  <1>2. CASE CreateUrl(r)
    <2>1. PICK d \in Dirs, n \in Names, t \in Texts :
            Makes(r, "createurl", d, n,
                  <<Put(Path(d, n, UrlSide), Artifact(Mint, "url", "json", t))>>)
      BY <1>2 DEF CreateUrl
    <2>2. d \in DOMAIN world.dirs /\ ~Taken(d, n) /\ Base("createurl") = world /\ Fresh # {}
      BY <2>1 DEF Makes, Finds, Base
    <2>3. Readable(world, Path(d, n, UrlSide), Artifact(Mint, "url", "json", t))
          /\ Artifact(Mint, "url", "json", t).uuid = Mint
      BY <2>2, ExtKinds DEF Readable, Artifact, IsSidecar
    <2> QED
      BY <1>a, <1>c, <2>1, <2>2, <2>3, NotTaken DEF Makes
  <1>3. CASE CreateBlob(r)
    <2>1. PICK d \in Dirs, n \in Names, e \in Exts :
            Makes(r, "createblob", d, n,
                  BlobWrites(d, n, Artifact(Mint, "blob", "json", e)))
      BY <1>3 DEF CreateBlob
    <2> DEFINE f == Artifact(Mint, "blob", "json", e)
               a == Put(Path(d, n, Bin(f.text)), Bytes)
               b == Put(Path(d, n, Side(f.text)), f)
    <2>2. d \in DOMAIN world.dirs /\ ~Taken(d, n) /\ Base("createblob") = world /\ Fresh # {}
      BY <2>1 DEF Makes, Finds, Base
    <2>3. f.text = e /\ f.uuid = Mint /\ f.form = "json" /\ f.shape = "blob"
      BY DEF Artifact
    <2>f. a.file = Bytes /\ Bytes.uuid = None
      BY DEF Put, Bytes, Artifact
    <2> HIDE DEF f
    <2>4. /\ BlobWrites(d, n, f) = <<a, b>>
          /\ a.at = BytesOf(b.at, b.file) /\ b.at.ext = Side(b.file.text)
          /\ a.do = "put" /\ b.do = "put" /\ b.file = f
          /\ b.at = Path(d, n, Side(f.text)) /\ Fills(world, a)
      BY <2>2, <2>3, BlobPlan
    <2>5. b.at \notin Loaded(world)
      BY <2>2, <2>4, NotTaken
    <2> HIDE DEF a, b
    <2>6. Fathered("createblob", <<a, b>>, {Mint})
      BY <2>3, <2>4, <2>f DEF Fathered
    <2>7. ASSUME NEW q, q.op = "createblob", q.plan = <<a, b>>, q.base = Base("createblob")
          PROVE  Sensible(q, h, m)
      <3>1. q.plan = <<q.plan[1], q.plan[2]>> /\ q.plan[1] = a /\ q.plan[2] = b
        BY <2>7
      <3>2. NewBlob(q, m)
        BY <1>c, <2>2, <2>3, <2>4, <2>5, <2>7, <3>1 DEF NewBlob
      <3> QED
        BY <3>2 DEF Sensible
    <2>8. Plans(r, "createblob", Mint, {Mint}, <<a, b>>)
      BY <2>1, <2>4 DEF Makes, f
    <2> QED
      BY <1>i, <2>2, <2>6, <2>7, <2>8
  <1>4. CASE Adopt(r)
    <2>1. PICK p \in DOMAIN disk.files, n \in Names :
            /\ p.ext[1] = "bin" /\ [p EXCEPT !.ext = Side(p.ext[2])] \notin DOMAIN disk.files
            /\ Makes(r, "adopt", p.dir, n,
                     <<Put([p EXCEPT !.ext = Side(p.ext[2])],
                           Artifact(Mint, "blob", "json", p.ext[2]))>>)
      BY <1>4 DEF Adopt
    <2> DEFINE side == [p EXCEPT !.ext = Side(p.ext[2])]
               f == Artifact(Mint, "blob", "json", p.ext[2])
    <2>2. p \in Paths /\ p = Path(p.dir, p.name, p.ext) /\ p.ext # List
      BY <2>1, TreeIs, ExtKinds
    <2>3. p.ext = Bin(p.ext[2])
      <3>1. p.ext \in {Md, UrlSide} \cup {Side(e) : e \in Exts} \cup {Bin(e) : e \in Exts}
        BY <2>2, ExtKinds DEF Paths
      <3> QED
        BY <2>1, <3>1, ExtKinds
    <2>4. side = Path(p.dir, p.name, Side(p.ext[2]))
      BY <2>2 DEF Path, Paths
    <2>5. f.text = p.ext[2] /\ f.uuid = Mint /\ f.form = "json" /\ f.shape = "blob"
      BY DEF Artifact
    <2>6. p.dir \in DOMAIN disk.dirs
      BY <2>2, OrderlyIs DEF OrderlyFile
    <2> HIDE DEF side, f
    <2>7. BytesOf(side, f) = p
      <3>1. BytesOf(side, f) = Path(p.dir, p.name, Bin(p.ext[2]))
        BY <2>4, <2>5 DEF BytesOf, Path
      <3> QED
        BY <2>2, <2>3, <3>1
    <2>8. Readable(disk, side, f) /\ side \notin Loaded(disk)
      BY <2>1, <2>4, <2>5, <2>6, <2>7, ExtKinds DEF Readable, IsSidecar, side, Loaded
    <2>9. Plans(r, "adopt", Mint, {Mint}, <<Put(side, f)>>) /\ Fresh # {} /\ Base("adopt") = disk
      BY <2>1 DEF Makes, side, f, Base
    <2> QED
      BY <1>a, <1>c, <2>5, <2>8, <2>9
  <1> QED
    BY <1>1, <1>2, <1>3, <1>4

LEMMA EditorsAreSensible ==
    ASSUME SoundTree(disk, used), SoundTree(world, used), Orderly(disk), Orderly(world),
           NEW r \in Requests, NEW h, NEW m,
           Update(r) \/ Check(r) \/ Review(r) \/ Rename(r) \/ Delete(r) \/ ReplaceBlob(r)
    PROVE  \E op, u, news, plan :
            /\ Plans(r, op, u, news, plan) /\ news \cap used = {} /\ Fathered(op, plan, news)
            /\ \A q : q.op = op /\ q.uuid = u /\ q.plan = plan /\ q.base = Base(op)
                      => Sensible(q, h, m)
PROOF
  <1>c. \A op \in {"update", "check", "review", "rename", "delete", "replace"} : \A plan :
            Fathered(op, plan, {}) /\ Base(op) = world /\ op # "apply"
    BY DEF Creators, Fathered, Base
  \* The file of an artifact, written again.
  <1>a. ASSUME NEW op \in {"update", "check", "review"}, NEW u \in UuidsOf(world), NEW f,
               Plans(r, op, u, {}, <<Put(At(world, u), f)>>), Same(f, Current(u))
        PROVE  \E news, plan :
            /\ Plans(r, op, u, news, plan) /\ news \cap used = {} /\ Fathered(op, plan, news)
            /\ \A q : q.op = op /\ q.uuid = u /\ q.plan = plan /\ q.base = Base(op)
                      => Sensible(q, h, m)
    <2> DEFINE a == Put(At(world, u), f)
    <2>1. a.do = "put" /\ a.at = At(world, u) /\ a.file = f
      BY DEF Put
    <2>2. At(world, u) \in Loaded(world) /\ world.files[At(world, u)] = Current(u)
      BY FoundOrderly
    <2> HIDE DEF a
    <2>3. Edits(world, a)
      BY <1>a, <2>1, <2>2 DEF Edits
    <2>4. ASSUME NEW q, q.op = op, q.plan = <<a>>, q.base = Base(op)
          PROVE  Sensible(q, h, m)
      <3>1. q.plan = <<q.plan[1]>> /\ q.plan[1] = a
        BY <2>4, Entries
      <3>2. Edit(q, h)
        BY <1>a, <1>c, <2>3, <2>4, <3>1 DEF Edit
      <3> QED
        BY <3>2 DEF Sensible
    <2> QED
      BY <1>a, <1>c, <2>4 DEF a
  <1>1. CASE Update(r)
    <2>1. PICK u \in Uuids, t \in Texts \cup {None} :
            /\ Held(u) /\ (t # None => Current(u).shape = "url")
            /\ Plans(r, "update", u, {}, <<Put(At(world, u), Edited(Current(u), t))>>)
      BY <1>1 DEF Update
    <2>2. u \in UuidsOf(world) /\ Current(u) \in StoredArtifact
      BY <2>1, FoundIs DEF Held
    <2>3. Same(Edited(Current(u), t), Current(u))
      BY <2>1, <2>2 DEF Same, Edited, StoredArtifact, Of
    <2> QED
      BY <1>a, <2>1, <2>2, <2>3
  <1>2. CASE Check(r)
    <2>1. PICK u \in Uuids :
            /\ Held(u)
            /\ Plans(r, "check", u, {}, <<Put(At(world, u), Checked(Current(u)))>>)
      BY <1>2 DEF Check
    <2>2. u \in UuidsOf(world) /\ Current(u) \in StoredArtifact
      BY <2>1, FoundIs DEF Held
    <2>3. Same(Checked(Current(u)), Current(u))
      BY <2>2 DEF Same, Checked, StoredArtifact, Of
    <2> QED
      BY <1>a, <2>1, <2>2, <2>3
  <1>3. CASE Review(r)
    <2>0. PICK u \in Uuids :
            /\ Held(u)
            /\ \E e \in Reviews(Current(u).log) :
                Plans(r, "review", u, {},
                      <<Put(At(world, u), [Current(u) EXCEPT !.form = "front",
                                                             !.log = Append(@, e)])>>)
      BY <1>3 DEF Review
    <2>1. PICK e \in Reviews(Current(u).log) :
                Plans(r, "review", u, {},
                      <<Put(At(world, u), [Current(u) EXCEPT !.form = "front",
                                                             !.log = Append(@, e)])>>)
      BY <2>0
    <2>2. u \in UuidsOf(world) /\ Current(u) \in StoredArtifact
      BY <2>0, FoundIs DEF Held
    <2>3. Same([Current(u) EXCEPT !.form = "front", !.log = Append(@, e)], Current(u))
      BY <2>2 DEF Same, StoredArtifact, Of
    <2> QED
      BY <1>a, <2>1, <2>2, <2>3
  <1>4. CASE Rename(r)
    <2>1. PICK u \in Uuids, n \in Names :
            /\ Held(u) /\ ~Taken(At(world, u).dir, n)
            /\ Plans(r, "rename", u, {},
                     <<Move(At(world, u), Path(At(world, u).dir, n, Md))>>)
      BY <1>4 DEF Rename
    <2> DEFINE a == Move(At(world, u), Path(At(world, u).dir, n, Md))
    <2>2. /\ a.do = "move" /\ a.at = At(world, u) /\ a.to.dir = At(world, u).dir
          /\ a.to.name = n /\ a.to.ext = Md
      BY ExtKinds DEF Move
    <2>3. At(world, u) \in Loaded(world)
      BY <2>1, FoundOrderly DEF Held
    <2> HIDE DEF a
    <2>4. Renames(world, a)
      BY <2>1, <2>2, <2>3 DEF Renames, Taken
    <2>5. ASSUME NEW q, q.op = "rename", q.plan = <<a>>, q.base = Base("rename")
          PROVE  Sensible(q, h, m)
      <3>1. q.plan = <<q.plan[1]>> /\ q.plan[1] = a
        BY <2>5, Entries
      <3>2. Renaming(q)
        BY <1>c, <2>4, <2>5, <3>1 DEF Renaming
      <3> QED
        BY <3>2 DEF Sensible
    <2> QED
      BY <1>c, <2>1, <2>5 DEF a
  <1>5. CASE Delete(r)
    <2>1. PICK u \in UuidsOf(world) : Plans(r, "delete", u, {}, <<Drop(At(world, u))>>)
      BY <1>5 DEF Delete
    <2> DEFINE a == Drop(At(world, u))
    <2>2. a.do = "drop" /\ a.at = At(world, u)
      BY DEF Drop
    <2>3. At(world, u) \in Loaded(world) /\ world.files[At(world, u)].uuid = u
      BY FoundOrderly
    <2> HIDE DEF a
    <2>5. ASSUME NEW q, q.op = "delete", q.uuid = u, q.plan = <<a>>, q.base = Base("delete")
          PROVE  Sensible(q, h, m)
      <3>1. q.plan = <<q.plan[1]>> /\ q.plan[1] = a
        BY <2>5, Entries
      <3>2. Deletion(q)
        BY <1>c, <2>2, <2>3, <2>5, <3>1 DEF Deletion
      <3> QED
        BY <3>2 DEF Sensible
    <2> QED
      BY <1>c, <2>1, <2>5 DEF a
  <1>6. CASE ReplaceBlob(r)
    <2>1. PICK u \in Uuids, e \in Exts :
            /\ Held(u) /\ Current(u).shape = "blob"
            /\ Plans(r, "replace", u, {},
                     IF e = Current(u).text
                     THEN BlobWrites(At(world, u).dir, At(world, u).name,
                                     [Current(u) EXCEPT !.text = e])
                     ELSE BlobWrites(At(world, u).dir, At(world, u).name,
                                     [Current(u) EXCEPT !.text = e])
                          \o <<DropIf(At(world, u)), DropIf(BytesOf(At(world, u), Current(u)))>>)
      BY <1>6 DEF ReplaceBlob
    <2> DEFINE p == At(world, u)
               g == Current(u)
               f == [g EXCEPT !.text = e]
               c == DropIf(p)
               z == DropIf(BytesOf(p, g))
               a == Put(Path(p.dir, p.name, Bin(f.text)), Bytes)
               b == Put(Path(p.dir, p.name, Side(f.text)), f)
    <2>2. u \in UuidsOf(world) /\ g \in StoredArtifact
      BY <2>1, FoundIs DEF Held
    <2>3. /\ p \in Loaded(world) /\ world.files[p] = g /\ g.uuid = u /\ g.text \in Exts
          /\ p = Path(p.dir, p.name, Side(g.text))
      BY <2>1, <2>2, FoundOrderly
    <2>4. f.text = e /\ f.uuid = g.uuid /\ f.shape = "blob" /\ f.form = g.form /\ f.links = g.links
          /\ g.shape = "blob"
      BY <2>1, <2>2 DEF StoredArtifact, Of
    <2>5. p \in ArtifactPath /\ p.dir \in Dirs /\ p.name \in Names /\ p.dir \in DOMAIN world.dirs
          /\ LoadsFile(p, g)
      BY <2>3, LoadedIs, LoadedAre, PathsTyped
    <2>6. g.form = "json"
      <3>1. p.ext = Side(g.text)
        BY <2>3, ExtKinds
      <3>2. p.ext # Md
        BY <3>1, ExtKinds
      <3> QED
        BY <2>5, <3>2 DEF LoadsFile
    <2>7. c.do = "dropif" /\ c.at = p /\ z.do = "dropif" /\ z.at = BytesOf(p, g)
      BY DEF DropIf
    <2>8. BytesOf(p, g) = Path(p.dir, p.name, Bin(g.text))
      BY <2>5, ExtKinds DEF ArtifactPath
    <2>9. Plans(r, "replace", u, {}, IF e = g.text THEN BlobWrites(p.dir, p.name, f)
                                     ELSE BlobWrites(p.dir, p.name, f) \o <<c, z>>)
      BY <2>1
    <2> HIDE DEF p, g, f, c, z
    <2>10. /\ BlobWrites(p.dir, p.name, f) = <<a, b>>
           /\ BlobWrites(p.dir, p.name, f) \o <<c, z>> = <<a, b, c, z>>
           /\ a.at = BytesOf(b.at, b.file) /\ b.at.ext = Side(b.file.text)
           /\ a.do = "put" /\ b.do = "put" /\ b.file = f
           /\ b.at = Path(p.dir, p.name, Side(f.text))
           /\ Fills(world, a)
      <3> DEFINE d == p.dir
                 n == p.name
      <3>1. d \in Dirs /\ n \in Names /\ f.text \in Exts /\ d \in DOMAIN world.dirs
        BY <2>4, <2>5
      <3> HIDE DEF d, n
      <3>2. LET a1 == Put(Path(d, n, Bin(f.text)), Bytes)
                b1 == Put(Path(d, n, Side(f.text)), f)
            IN  /\ BlobWrites(d, n, f) = <<a1, b1>>
                /\ BlobWrites(d, n, f) \o <<c, z>> = <<a1, b1, c, z>>
                /\ a1.at = BytesOf(b1.at, b1.file) /\ b1.at.ext = Side(b1.file.text)
                /\ a1.do = "put" /\ b1.do = "put" /\ b1.file = f
                /\ b1.at = Path(d, n, Side(f.text))
                /\ Fills(world, a1)
        BY <3>1, BlobPlan
      <3> QED
        BY <3>2 DEF d, n
    <2> HIDE DEF a, b
    <2>11. CASE e = g.text
      <3>1. b.at = p
        BY <2>3, <2>4, <2>10, <2>11
      <3>2. Edits(world, b)
        BY <2>3, <2>4, <2>10, <2>11, <3>1 DEF Edits, Same
      <3>3. ASSUME NEW q, q.op = "replace", q.plan = <<a, b>>, q.base = Base("replace")
            PROVE  Sensible(q, h, m)
        <4>1. q.plan = <<q.plan[1], q.plan[2]>> /\ q.plan[1] = a /\ q.plan[2] = b
          BY <3>3
        <4>2. Rewrite(q)
          BY <1>c, <2>10, <3>2, <3>3, <4>1 DEF Rewrite
        <4> QED
          BY <4>2 DEF Sensible
      <3>4. Plans(r, "replace", u, {}, <<a, b>>)
        BY <2>9, <2>10, <2>11
      <3> QED
        BY <1>c, <3>3, <3>4
    <2>12. CASE e # g.text
      <3>1. b.at # p
        <4>1. b.at.ext = Side(e) /\ p.ext = Side(g.text)
          BY <2>3, <2>4, <2>10, ExtKinds
        <4> QED
          BY <2>12, <4>1, ExtKinds
      <3>2. SameName(b.at, p)
        BY <2>10, ExtKinds DEF SameName
      <3>3. Successor(world, b, c)
        BY <2>3, <2>4, <2>6, <2>7, <2>10, <3>1, <3>2 DEF Successor
      <3>4. Pair(c, z)
        BY <2>3, <2>7, <2>8, ExtKinds DEF Pair
      <3>5. ASSUME NEW q, q.op = "replace", q.plan = <<a, b, c, z>>, q.base = Base("replace")
            PROVE  Sensible(q, h, m)
        <4>1. /\ q.plan = <<q.plan[1], q.plan[2], q.plan[3], q.plan[4]>>
              /\ q.plan[1] = a /\ q.plan[2] = b /\ q.plan[3] = c /\ q.plan[4] = z
          BY <3>5
        <4>2. Exchange(q)
          BY <1>c, <2>10, <3>3, <3>4, <3>5, <4>1 DEF Exchange
        <4> QED
          BY <4>2 DEF Sensible
      <3>6. Plans(r, "replace", u, {}, <<a, b, c, z>>)
        BY <2>9, <2>10, <2>12
      <3> QED
        BY <1>c, <3>5, <3>6
    <2> QED
      BY <2>11, <2>12
  <1> QED
    BY <1>1, <1>2, <1>3, <1>4, <1>5, <1>6

LEMMA RemovalsAreSensible ==
    ASSUME NEW s, NEW h, NEW m
    PROVE  \A q : q.op = "wipe" /\ q.plan = Removals(s) => Sensible(q, h, m)
PROOF
  <1> DEFINE plan == Removals(s)
  <1>1. \A i \in DOMAIN plan : plan[i].do = "rmdir"
    BY DEF Removals, RmDir
  <1> HIDE DEF plan
  <1>2. ASSUME NEW q, q.op = "wipe", q.plan = plan PROVE Sensible(q, h, m)
    BY <1>1, <1>2 DEF OfCollections, Sensible
  <1> QED
    BY <1>2 DEF plan

LEMMA CollectorsAreSensible ==
    ASSUME SoundTree(disk, used), SoundTree(world, used), Orderly(disk), Orderly(world),
           NEW r \in Requests, NEW h, NEW m,
           CreateCollection(r) \/ DeleteCollection(r) \/ Wipe(r) \/ Import(r) \/ Sample(r)
    PROVE  \E op, u, news, plan :
            /\ Plans(r, op, u, news, plan) /\ news \cap used = {} /\ Fathered(op, plan, news)
            /\ \A q : q.op = op /\ q.uuid = u /\ q.plan = plan /\ q.base = Base(op)
                      => Sensible(q, h, m)
PROOF
  <1>c. /\ \A op \in {"mkcoll", "rmcoll", "wipe"} : \A plan : Fathered(op, plan, {})
        /\ \A op \in {"mkcoll", "rmcoll", "wipe", "import", "sample"} : Base(op) = world
        /\ {"import", "sample"} \subseteq Creators
    BY DEF Creators, Fathered, Base
  <1>1. CASE CreateCollection(r)
    <2>1. PICK d \in Dirs, x \in Prefixes : Plans(r, "mkcoll", None, {}, <<MkDir(d, x)>>)
      BY <1>1 DEF CreateCollection
    <2> DEFINE a == MkDir(d, x)
    <2>2. a.do = "mkdir"
      BY DEF MkDir
    <2> HIDE DEF a
    <2>3. ASSUME NEW q, q.op = "mkcoll", q.plan = <<a>> PROVE Sensible(q, h, m)
      <3>1. q.plan = <<q.plan[1]>> /\ q.plan[1] = a
        BY <2>3, Entries
      <3> QED
        BY <2>2, <2>3, <3>1 DEF OfCollections, Sensible
    <2> QED
      BY <1>c, <2>1, <2>3 DEF a
  <1>2. CASE DeleteCollection(r)
    <2>1. PICK d \in Dirs : /\ NamesOf(world, d) = {}
                            /\ Plans(r, "rmcoll", None, {}, <<RmDir(d)>>)
      BY <1>2 DEF DeleteCollection
    <2> DEFINE a == RmDir(d)
    <2>2. a.do = "rmdir" /\ a.dir = d
      BY DEF RmDir
    <2> HIDE DEF a
    <2>3. ASSUME NEW q, q.op = "rmcoll", q.plan = <<a>>, q.base = Base("rmcoll")
          PROVE  Sensible(q, h, m)
      <3>1. q.plan = <<q.plan[1]>> /\ q.plan[1] = a
        BY <2>3, Entries
      <3> QED
        BY <1>c, <2>1, <2>2, <2>3, <3>1 DEF OfCollections, Sensible
    <2> QED
      BY <1>c, <2>1, <2>3 DEF a
  <1>3. CASE Wipe(r)
    <2>1. PICK s \in Orders(OnDisk(disk)) : Plans(r, "wipe", None, {}, Removals(s))
      BY <1>3 DEF Wipe
    <2> DEFINE plan == Removals(s)
    <2>3. \A q : q.op = "wipe" /\ q.plan = plan => Sensible(q, h, m)
      BY RemovalsAreSensible
    <2> HIDE DEF plan
    <2> QED
      BY <1>c, <2>1, <2>3 DEF plan
  <1>4. CASE Import(r)
    <2>1. PICK x \in Prefixes, n \in Names, k \in Names, v \in {w \in Fresh : w # Mint} :
            n # k /\ Plans(r, "import", None, {Mint, v}, ImportPlan(x, n, k, Mint, v))
      BY <1>4 DEF Import
    <2> DEFINE item == [Artifact(Mint, "content", "front", None) EXCEPT
                            !.log = <<Entry("approved", None)>>, !.links = {v}]
               a == MkDir(Slug[x], x)
               b == Put(Path(Slug[x], n, Md), item)
               c == Put(Path(Slug[x], k, Md), Artifact(v, "url", "front", None))
               plan == <<a, b, c>>
    <2>2. /\ a.do = "mkdir" /\ a.dir = Slug[x]
          /\ b.do = "put" /\ b.at = Path(Slug[x], n, Md)
          /\ b.file.uuid = Mint /\ b.file.form = "front" /\ b.file.shape = "content"
          /\ c.do = "put" /\ c.at = Path(Slug[x], k, Md)
          /\ c.file.uuid = v /\ c.file.form = "front" /\ c.file.shape = "url"
      BY DEF MkDir, Put, Artifact
    <2>3. Mint # v /\ v \notin used /\ Mint \notin used /\ Slug[x] \in Dirs
      BY <2>1, MintIs DEF Fresh
    <2>4. Plans(r, "import", None, {Mint, v}, plan)
      BY <2>1 DEF ImportPlan
    <2> HIDE DEF a, b, c
    <2>5. DOMAIN plan = {1, 2, 3} /\ plan[1] = a /\ plan[2] = b /\ plan[3] = c
      OBVIOUS
    <2>6. b.at # c.at
      BY <2>1, <2>2, ExtKinds
    <2>7. b.at.dir = Slug[x] /\ b.at.ext = Md /\ c.at.dir = Slug[x] /\ c.at.ext = Md
      BY <2>2, ExtKinds
    <2> HIDE DEF plan
    <2>8. ASSUME NEW q, q.op = "import", q.plan = plan PROVE Sensible(q, h, m)
      <3>1. \A i \in DOMAIN q.plan :
            \/ i = 1 /\ q.plan[i].do = "mkdir" /\ q.plan[i].dir = Slug[x]
            \/ /\ q.plan[i].do = "put" /\ q.plan[i].at.dir = Slug[x] /\ q.plan[i].at.ext = Md
               /\ q.plan[i].file.form = "front" /\ q.plan[i].file.shape # "blob"
               /\ q.plan[1].do = "put" => Slug[x] \in DOMAIN q.base.dirs
               /\ q.plan[1].do = "put" /\ ~m => q.plan[i].at \notin Loaded(q.base)
        BY <2>2, <2>5, <2>7, <2>8
      <3>2. \A i, j \in DOMAIN q.plan :
            q.plan[i].do = "put" /\ q.plan[j].do = "put" /\ i # j =>
                q.plan[i].at # q.plan[j].at /\ q.plan[i].file.uuid # q.plan[j].file.uuid
        BY <2>2, <2>3, <2>5, <2>6, <2>8
      <3>3. NewCollection(q, m)
        BY <1>c, <2>3, <2>8, <3>1, <3>2 DEF NewCollection
      <3> QED
        BY <3>3 DEF Sensible
    <2>9. Fathered("import", plan, {Mint, v})
      BY <2>2, <2>5 DEF Fathered
    <2>10. {Mint, v} \cap used = {}
      BY <2>3
    <2> QED
      BY <2>4, <2>8, <2>9, <2>10
  <1>5. CASE Sample(r)
    <2>1. PICK x \in Prefixes, n \in Names :
            /\ Fresh # {}
            /\ Plans(r, "sample", None, {Mint},
                     <<MkDir(Slug[x], x),
                       Put(Path(Slug[x], n, Md), Artifact(Mint, "content", "front", None))>>)
      BY <1>5 DEF Sample
    <2> DEFINE a == MkDir(Slug[x], x)
               b == Put(Path(Slug[x], n, Md), Artifact(Mint, "content", "front", None))
               plan == <<a, b>>
    <2>2. /\ a.do = "mkdir" /\ a.dir = Slug[x]
          /\ b.do = "put" /\ b.at = Path(Slug[x], n, Md)
          /\ b.file.uuid = Mint /\ b.file.form = "front" /\ b.file.shape = "content"
      BY DEF MkDir, Put, Artifact
    <2>3. Mint \notin used /\ Slug[x] \in Dirs
      BY <2>1, MintIs
    <2>4. Plans(r, "sample", None, {Mint}, plan)
      BY <2>1
    <2> HIDE DEF a, b
    <2>5. DOMAIN plan = {1, 2} /\ plan[1] = a /\ plan[2] = b
      OBVIOUS
    <2>7. b.at.dir = Slug[x] /\ b.at.ext = Md
      BY <2>2, ExtKinds
    <2> HIDE DEF plan
    <2>8. ASSUME NEW q, q.op = "sample", q.plan = plan PROVE Sensible(q, h, m)
      <3>1. \A i \in DOMAIN q.plan :
            \/ i = 1 /\ q.plan[i].do = "mkdir" /\ q.plan[i].dir = Slug[x]
            \/ /\ q.plan[i].do = "put" /\ q.plan[i].at.dir = Slug[x] /\ q.plan[i].at.ext = Md
               /\ q.plan[i].file.form = "front" /\ q.plan[i].file.shape # "blob"
               /\ q.plan[1].do = "put" => Slug[x] \in DOMAIN q.base.dirs
               /\ q.plan[1].do = "put" /\ ~m => q.plan[i].at \notin Loaded(q.base)
        BY <2>2, <2>5, <2>7, <2>8
      <3>2. \A i, j \in DOMAIN q.plan :
            q.plan[i].do = "put" /\ q.plan[j].do = "put" => i = j
        BY <2>2, <2>5, <2>8
      <3>3. NewCollection(q, m)
        BY <1>c, <2>3, <2>8, <3>1, <3>2 DEF NewCollection
      <3> QED
        BY <3>3 DEF Sensible
    <2>9. Fathered("sample", plan, {Mint})
      BY <2>2, <2>5 DEF Fathered
    <2> QED
      BY <2>3, <2>4, <2>8, <2>9
  <1> QED
    BY <1>1, <1>2, <1>3, <1>4, <1>5

LEMMA AsksAreSensible ==
    ASSUME SoundTree(disk, used), SoundTree(world, used), Orderly(disk), Orderly(world),
           NEW r \in Requests, NEW h, NEW m, Asks(r)
    PROVE  \E op, u, news, plan :
            /\ Plans(r, op, u, news, plan) /\ news \cap used = {} /\ Fathered(op, plan, news)
            /\ \A q : q.op = op /\ q.uuid = u /\ q.plan = plan /\ q.base = Base(op)
                      => Sensible(q, h, m)
PROOF
  <1>1. CASE Create(r) \/ CreateUrl(r) \/ CreateBlob(r) \/ Adopt(r)
    BY <1>1, MakersAreSensible
  <1>2. CASE Update(r) \/ Check(r) \/ Review(r) \/ Rename(r) \/ Delete(r) \/ ReplaceBlob(r)
    BY <1>2, EditorsAreSensible
  <1>3. CASE CreateCollection(r) \/ DeleteCollection(r) \/ Wipe(r) \/ Import(r) \/ Sample(r)
    BY <1>3, CollectorsAreSensible
  <1> QED
    BY <1>1, <1>2, <1>3 DEF Asks

-----------------------------------------------------------------------------
(***************************************************************************)
(* A write that meets nothing it has not seen makes on disk the step it    *)
(* makes on its snapshot.                                                  *)
(***************************************************************************)

LEMMA SlotLoads ==
    ASSUME NEW U, NEW s, NEW t, SoundTree(s, U), SoundTree(t, U), NEW d, NEW n,
           \A p : p.dir = d /\ p.name = n => Agree(s, t, p),
           d \in DOMAIN s.dirs <=> d \in DOMAIN t.dirs
    PROVE  \A p : p.dir = d /\ p.name = n => (p \in Loaded(s) <=> p \in Loaded(t))
PROOF
  <1>1. ASSUME NEW p, p.dir = d, p.name = n
        PROVE  /\ p \in DOMAIN s.files <=> p \in DOMAIN t.files
               /\ p \in DOMAIN s.files => s.files[p] = t.files[p]
               /\ \A y : Path(p.dir, p.name, Bin(y)) \in DOMAIN s.files
                         <=> Path(p.dir, p.name, Bin(y)) \in DOMAIN t.files
    BY <1>1, ExtKinds DEF Agree
  <1> QED
    BY <1>1, LoadedAre

LEMMA KindMeets ==
    ASSUME NEW U, NEW s, NEW t, SoundTree(s, U), SoundTree(t, U),
           NEW a, SoundStep(a, U), NEW op, op \notin {"wipe", "analyze"},
           Touched(s, a, op) = Touched(t, a, op)
    PROVE  /\ a.do \in {"put", "drop", "dropif", "move"} =>
                \A p : SameName(p, a.at) =>
                    Agree(s, t, p) /\ (p \in Loaded(s) <=> p \in Loaded(t))
           /\ a.do \in {"mkdir", "rmdir"} =>
                \A p : p.dir = a.dir =>
                    Agree(s, t, p) /\ (p \in Loaded(s) <=> p \in Loaded(t))
           /\ Adds(s, a) => Adds(t, a)
           /\ Fills(s, a) => Fills(t, a)
           /\ Edits(s, a) => Edits(t, a)
           /\ Empties(s, a) => Empties(t, a)
           /\ Renames(s, a) => Renames(t, a)
PROOF
  <1>1. a.do \in {"put", "drop", "dropif", "move"} =>
            /\ \A p : p.dir = a.at.dir /\ p.name = a.at.name => Agree(s, t, p)
            /\ a.at.dir \in DOMAIN s.dirs <=> a.at.dir \in DOMAIN t.dirs
    BY Unmet
  <1>2. a.do = "move" => \A p : p.dir = a.at.dir /\ p.name = a.to.name => Agree(s, t, p)
    BY Unmet
  <1>3. a.do \in {"mkdir", "rmdir"} =>
            /\ \A p : p.dir = a.dir => Agree(s, t, p)
            /\ a.dir \in DOMAIN s.dirs <=> a.dir \in DOMAIN t.dirs
    BY Unmet
  <1>4. ASSUME a.do \in {"put", "drop", "dropif", "move"}, NEW p, SameName(p, a.at)
        PROVE  Agree(s, t, p) /\ (p \in Loaded(s) <=> p \in Loaded(t))
    <2>1. p.dir = a.at.dir /\ p.name = a.at.name
      BY <1>4 DEF SameName
    <2> QED
      BY <1>1, <1>4, <2>1, SlotLoads
  <1>5. ASSUME a.do \in {"mkdir", "rmdir"}, NEW p, p.dir = a.dir
        PROVE  Agree(s, t, p) /\ (p \in Loaded(s) <=> p \in Loaded(t))
    <2>1. \A x : x.dir = a.dir /\ x.name = p.name => Agree(s, t, x)
      BY <1>3, <1>5
    <2>2. \A x : x.dir = a.dir /\ x.name = p.name => (x \in Loaded(s) <=> x \in Loaded(t))
      BY <1>3, <1>5, <2>1, SlotLoads
    <2> QED
      BY <1>3, <1>5, <2>2
  <1>6. ASSUME Adds(s, a) PROVE Adds(t, a)
    <2>1. a.do = "put" /\ Readable(s, a.at, a.file) /\ a.at \in Paths
      BY <1>6, StepPaths DEF Adds
    <2>2. SameName(BytesOf(a.at, a.file), a.at)
      BY <2>1, ExtKinds DEF SameName
    <2>3. Agree(s, t, BytesOf(a.at, a.file))
      BY <1>4, <2>1, <2>2
    <2> QED
      BY <1>1, <2>1, <2>3 DEF Adds, Readable, Agree
  <1>7. ASSUME Fills(s, a) PROVE Fills(t, a)
    BY <1>1, <1>7 DEF Fills
  <1>8. ASSUME Edits(s, a) PROVE Edits(t, a)
    <2>1. SameName(a.at, a.at) /\ a.do = "put" /\ a.at \in Loaded(s) /\ a.at \in DOMAIN s.files
      BY <1>8 DEF SameName, Edits, Loaded
    <2> QED
      BY <1>4, <1>8, <2>1 DEF Edits, Agree
  <1>9. ASSUME Empties(s, a) PROVE Empties(t, a)
    <2>1. PICK y \in Exts : /\ a.at.ext = Bin(y)
                            /\ Path(a.at.dir, a.at.name, Side(y)) \notin DOMAIN s.files
      BY <1>9 DEF Empties
    <2>2. SameName(Path(a.at.dir, a.at.name, Side(y)), a.at) /\ a.do = "dropif"
      BY <1>9, ExtKinds DEF SameName, Empties
    <2> QED
      BY <1>4, <2>1, <2>2 DEF Empties, Agree
  <1>10. ASSUME Renames(s, a) PROVE Renames(t, a)
    <2>1. a.do = "move" /\ a.at \in Loaded(s) /\ SameName(a.at, a.at)
      BY <1>10 DEF Renames, SameName
    <2>2. \A x : x.dir = a.at.dir /\ x.name = a.to.name => (x \in Loaded(s) <=> x \in Loaded(t))
      BY <1>1, <1>2, <2>1, SlotLoads
    <2>3. a.to.name \notin NamesOf(t, a.at.dir)
      BY <1>10, <2>2 DEF Renames, NamesOf
    <2> QED
      BY <1>4, <1>10, <2>1, <2>3 DEF Renames
  <1> QED
    BY <1>4, <1>5, <1>6, <1>7, <1>8, <1>9, <1>10

-----------------------------------------------------------------------------
(***************************************************************************)
(* As long as no write met a change its request had not seen, the trees    *)
(* are orderly and the plans are sensible.                                 *)
(***************************************************************************)

\* Of a request: its snapshots are orderly and what it has to write follows
\* from the one it was decided on.
OrderOf(q, h, m, handedOut) ==
    /\ q.pc \in {"saving", "writing"} => SoundTree(q.base, handedOut) /\ Orderly(q.base)
    /\ q.pc = "read" => Orderly(q.seen)
    /\ q.pc \notin {"saving", "writing"} => q.plan = <<>>
    /\ q.pc = "writing" /\ q.plan # <<>> => Sensible(q, h, m)
    /\ q.pc = "saving" =>
        /\ q.op \in ListOps
        /\ q.plan # <<>> => \E S \in SUBSET Proposed :
                                q.plan = <<Put(ListOf(q.op), ListFile(S))>>

OrderInv ==
    ~crossed =>
        /\ Orderly(disk) /\ Orderly(world)
        /\ \A r \in Requests : OrderOf(req[r], held[r], misfit, used)

LEMMA SensibleStays ==
    ASSUME NEW q, NEW h, NEW m, NEW n, m => n, Sensible(q, h, m)
    PROVE  Sensible(q, h, n)
PROOF
  <1>1. NewArtifact(q, m) => NewArtifact(q, n)
    BY DEF NewArtifact
  <1>2. NewBlob(q, m) => NewBlob(q, n)
    BY DEF NewBlob
  <1>3. NewCollection(q, m) => NewCollection(q, n)
    BY DEF NewCollection
  <1> QED
    BY <1>1, <1>2, <1>3 DEF Sensible

LEMMA SensibleOps ==
    ASSUME NEW q, NEW h, NEW m, Sensible(q, h, m)
    PROVE  /\ q.op \notin ListOps
           /\ q.op = "apply" => Edit(q, h) /\ q.plan = <<q.plan[1]>>
           /\ q.op = "wipe" => \A i \in DOMAIN q.plan : q.plan[i].do = "rmdir"
           /\ q.op \in Creators => NewArtifact(q, m) \/ NewBlob(q, m) \/ NewCollection(q, m)
           /\ q.op = "delete" => Deletion(q)
PROOF
  BY DEF Sensible, NewArtifact, NewBlob, NewCollection, Edit, Rewrite, Exchange, Renaming,
         Deletion, OfCollections, Creators, ListOps

LEMMA OneOrder ==
    ASSUME SuggestionsInv, OrderInv, ~crossed, NEW r \in Requests, NEW q, NEW h,
           req' = [req EXCEPT ![r] = q], held' = [held EXCEPT ![r] = h],
           used \subseteq used', misfit => misfit',
           OrderOf(q, h, misfit', used'), Orderly(disk'), Orderly(world')
    PROVE  OrderInv'
PROOF
  <1>1. \A s \in Requests : /\ req'[s] = IF s = r THEN q ELSE req[s]
                            /\ held'[s] = IF s = r THEN h ELSE held[s]
    BY DEF SuggestionsInv, RequestsAreSound, HeldIsTyped
  <1>2. ASSUME NEW s \in Requests, s # r
        PROVE  OrderOf(req[s], held[s], misfit', used')
    <2>1. OrderOf(req[s], held[s], misfit, used)
      BY DEF OrderInv
    <2>2. \A t : SoundTree(t, used) => SoundTree(t, used')
      BY SoundStays
    <2>3. Sensible(req[s], held[s], misfit) => Sensible(req[s], held[s], misfit')
      BY SensibleStays
    <2> QED
      BY <2>1, <2>2, <2>3 DEF OrderOf
  <1> QED
    BY <1>1, <1>2 DEF OrderInv

-----------------------------------------------------------------------------
(***************************************************************************)
(* The steps of the store and of the suggestions, by what they do to one   *)
(* request, as long as no write met a change it had not seen.              *)
(***************************************************************************)

\* One request goes on, with q to do and h in hand.
Turns(r, q, h) == req' = [req EXCEPT ![r] = q] /\ held' = [held EXCEPT ![r] = h]

\* Nothing is written.
Quiet ==
    /\ disk' = disk /\ owed' = owed /\ linked' = linked /\ crossed' = crossed
    /\ misfit' = misfit /\ ops' = ops /\ crashes' = crashes /\ since' = since
    /\ halved \subseteq halved'

\* A request is let through, or goes on to remove what came since: its plan
\* follows from the snapshot.
Asked(r, q, h) ==
    /\ Turns(r, q, h) /\ Quiet /\ world' = world /\ q.pc = "writing" /\ req[r].plan = <<>>
    /\ q.base \in {disk, world} /\ Sensible(q, h, misfit)
    /\ q.op \in ops \/ (req[r].pc = "writing" /\ q.op = req[r].op /\ q.op # "apply")
    /\ analyses' = analyses
    /\ \E news : used' = used \cup news /\ news \cap used = {} /\ Fathered(q.op, q.plan, news)

\* The link that was accepted is to be written.
Applied(r, q, h) ==
    /\ Turns(r, q, h) /\ Quiet /\ world' = world /\ q.pc = "writing" /\ used' = used
    /\ req[r].pc = "saving" /\ q.op = "apply" /\ q.base = world /\ Sensible(q, h, misfit) /\ analyses' = analyses

\* Nothing is left to write, or nothing yet, or an error ended it.
Emptied(r, q, h) ==
    /\ Turns(r, q, h) /\ Quiet /\ q.plan = <<>> /\ used' = used
    /\ req[r].plan = <<>> \/ halved' = halved \cup Cut(r)
    /\ \/ q.pc \in {"idle", "asking"} /\ world' = world
       \/ q.pc = "read" /\ world' = world /\ q.seen = disk
       \/ q.pc = "published" /\ req[r].pc = "read" /\ world' = req[r].seen
    /\ IF q.pc = "asking"
       THEN analyses' = analyses + 1 /\ q.uuid = analyses + 1 /\ h = Declined
       ELSE analyses' = analyses

\* What a list is made of.
Drawn(r, op, h, S) ==
    /\ op \in {"accept", "reject", "reinstate"} => S \subseteq Listed(disk, ListOf(op))
    /\ op = "decline" => h \in Proposed /\ S = Listed(disk, ListOf(op)) \cup {h}
    /\ op = "analyze" =>
        /\ req[r].pc = "asking"
        /\ \A s \in S : s.run = req[r].uuid /\ ~\E x \in held[r] : x.key = s.key

\* One list is to be saved.
Listing(r, q, h) ==
    /\ Turns(r, q, h) /\ Quiet /\ world' = world /\ used' = used /\ req[r].pc # "writing"
    /\ q.pc = "saving" /\ q.op \in ListOps /\ q.base = disk /\ analyses' = analyses
    /\ \E S \in SUBSET Proposed :
        q.plan = <<Put(ListOf(q.op), ListFile(S))>> /\ Drawn(r, q.op, h, S)

\* The next step of a plan is made on disk.
Landing(r, q, h) ==
    LET p == req[r]
        a == p.plan[1]
    IN  /\ Turns(r, q, h) /\ world' = world /\ used' = used /\ ops' = ops
        /\ crashes' = crashes /\ p.plan # <<>> /\ ~Fails(disk, a) /\ disk' = After(disk, a)
        /\ q.pc = p.pc /\ q.op = p.op /\ q.uuid = p.uuid
        /\ q.plan = Tail(p.plan) /\ q.base = After(p.base, a)
        /\ owed' = (owed \cup Promised(r, a)) \ Released(r, a)
        /\ misfit' = (misfit \/ Misfit(disk, a)) /\ halved' = halved
        /\ Touched(disk, a, p.op) = Touched(p.base, a, p.op)
        /\ linked' = IF p.op = "apply" /\ InOneFile(held[r].key[1])
                     THEN linked \cup {held[r].key} ELSE linked
        /\ since' = IF p.op = "decline" THEN [since EXCEPT ![held[r].key] = analyses] ELSE since
        /\ analyses' = analyses
        /\ p.op # "apply" /\ p.op # "decline" => h = held[r]
        /\ SoundPlan(p.plan, used) /\ SoundStep(a, used)
        /\ Kind(disk, a) /\ Kind(p.base, a)
        /\ \/ p.pc = "writing" /\ Sensible(p, held[r], misfit) /\ OffLists(a)
           \/ p.pc = "saving" /\ p.op \in ListOps /\ Lists(a) /\ q.plan = <<>>

\* What has the same plan in view of the same snapshot is as sensible.
LEMMA SensibleAlike ==
    ASSUME NEW p, NEW h, NEW m, Sensible(p, h, m), NEW q,
           q.op = p.op, q.uuid = p.uuid, q.plan = p.plan, q.base = p.base
    PROVE  Sensible(q, h, m)
PROOF
  <1>1. NewArtifact(p, m) => NewArtifact(q, m)
    BY DEF NewArtifact
  <1>2. NewBlob(p, m) => NewBlob(q, m)
    BY DEF NewBlob
  <1>3. NewCollection(p, m) => NewCollection(q, m)
    BY DEF NewCollection
  <1>4. Edit(p, h) => Edit(q, h)
    BY DEF Edit
  <1>5. Rewrite(p) => Rewrite(q)
    BY DEF Rewrite
  <1>6. Exchange(p) => Exchange(q)
    BY DEF Exchange
  <1>7. Renaming(p) => Renaming(q)
    BY DEF Renaming
  <1>8. Deletion(p) => Deletion(q)
    BY DEF Deletion
  <1>9. OfCollections(p) => OfCollections(q)
    BY DEF OfCollections
  <1> QED
    BY <1>1, <1>2, <1>3, <1>4, <1>5, <1>6, <1>7, <1>8, <1>9 DEF Sensible

\* On disk the step is of the kind it is of on the snapshot.
LEMMA MeetsItsKind ==
    ASSUME NEW U, NEW s, NEW t, SoundTree(s, U), SoundTree(t, U),
           NEW a, SoundStep(a, U), Kind(s, a), NEW op,
           op \in {"wipe", "analyze"} => a.do = "rmdir" \/ Lists(a),
           Touched(s, a, op) = Touched(t, a, op)
    PROVE  Kind(t, a)
PROOF
  <1>1. CASE op \in {"wipe", "analyze"}
    BY <1>1 DEF Kind
  <1>2. CASE op \notin {"wipe", "analyze"}
    <2>1. /\ Adds(s, a) => Adds(t, a)
          /\ Fills(s, a) => Fills(t, a)
          /\ Edits(s, a) => Edits(t, a)
          /\ Empties(s, a) => Empties(t, a)
          /\ Renames(s, a) => Renames(t, a)
      BY <1>2, KindMeets
    <2> QED
      BY <2>1 DEF Kind
  <1> QED
    BY <1>1, <1>2

LEMMA AskIs ==
    ASSUME SuggestionsInv, OrderInv, ~crossed, NEW r \in Requests, Asks(r), Stores(r)
    PROVE  \E q, h : Asked(r, q, h)
PROOF
  <1>0. /\ SoundTree(disk, used) /\ SoundTree(world, used) /\ Orderly(disk) /\ Orderly(world)
        /\ OrderOf(req[r], held[r], misfit, used)
    BY DEF SuggestionsInv, TreesAreSound, OrderInv
  <1>1. PICK op, u, news, plan :
            /\ Plans(r, op, u, news, plan) /\ news \cap used = {} /\ Fathered(op, plan, news)
            /\ \A q : q.op = op /\ q.uuid = u /\ q.plan = plan /\ q.base = Base(op)
                      => Sensible(q, held[r], misfit)
    BY <1>0, AsksAreSensible
  <1> DEFINE q == [pc |-> "writing", op |-> op, uuid |-> u, plan |-> plan, seen |-> None,
                   base |-> IF op = "adopt" THEN disk ELSE world]
  <1>2. req[r].pc = "idle" /\ req' = [req EXCEPT ![r] = q] /\ op \in ops
        /\ used' = used \cup news /\ disk' = disk /\ world' = world /\ ops' = ops
        /\ crashes' = crashes /\ owed' = owed /\ crossed' = crossed /\ misfit' = misfit
        /\ halved' = halved
    BY <1>1 DEF Plans, ghosts
  <1>3. /\ q.pc = "writing" /\ q.op = op /\ q.uuid = u /\ q.plan = plan
        /\ q.base = Base(op) /\ q.base \in {disk, world}
    BY DEF Base
  <1> HIDE DEF q
  <1>4. Sensible(q, held[r], misfit)
    BY <1>1, <1>3
  <1>5. req[r].plan = <<>>
    BY <1>0, <1>2 DEF OrderOf
  <1>6. held' = [held EXCEPT ![r] = held[r]] /\ linked' = linked /\ since' = since /\ analyses' = analyses
    <2>1. ~Lands(r, "apply") /\ ~Lands(r, "decline")
      BY <1>5 DEF Lands
    <2>2. held' = held /\ linked' = linked /\ since' = since /\ analyses' = analyses
      BY <2>1 DEF Stores
    <2> QED
      BY <2>2, HeldStays DEF SuggestionsInv
  <1>7. Asked(r, q, held[r])
    BY <1>1, <1>2, <1>3, <1>4, <1>5, <1>6 DEF Asked, Turns, Quiet
  <1> QED
    BY <1>7

LEMMA WriteIs ==
    ASSUME SuggestionsInv, OrderInv, ~crossed', NEW r \in Requests, Write(r), Stores(r)
    PROVE  ~crossed /\ \E q, h : Landing(r, q, h)
PROOF
  <1> DEFINE p == req[r]
             a == p.plan[1]
  <1>c. ~crossed
    BY DEF Write, ghosts
  <1>0. /\ SoundTree(disk, used) /\ Orderly(disk) /\ SoundRequest(p, used)
        /\ OrderOf(p, held[r], misfit, used) /\ p.plan # <<>> /\ SoundPlan(p.plan, used)
    BY <1>c DEF SuggestionsInv, TreesAreSound, RequestsAreSound, SoundRequest, OrderInv, Write
  <1>1. Head(p.plan) = a /\ SoundStep(a, used)
    BY <1>0, PlanIs
  <1>2. p.pc \in {"saving", "writing"} /\ SoundTree(p.base, used) /\ Orderly(p.base)
    BY <1>0 DEF OrderOf
  <1>k. \/ /\ p.pc = "writing" /\ Sensible(p, held[r], misfit) /\ OffLists(a)
           /\ Kind(p.base, a) /\ (p.op = "wipe" => a.do = "rmdir") /\ p.op \notin ListOps
        \/ /\ p.pc = "saving" /\ p.op \in ListOps /\ Lists(a) /\ Tail(p.plan) = <<>>
    <2>1. CASE p.pc = "writing"
      <3>1. Sensible(p, held[r], misfit) /\ 1 \in DOMAIN p.plan
        BY <1>0, <2>1, PlanIs DEF OrderOf
      <3>2. Kind(p.base, a) /\ OffLists(a)
        BY <1>0, <1>2, <3>1, SensibleHead
      <3> QED
        BY <2>1, <3>1, <3>2, SensibleOps
    <2>2. CASE p.pc = "saving"
      <3>1. PICK S \in SUBSET Proposed : p.plan = <<Put(ListOf(p.op), ListFile(S))>>
        BY <1>0, <2>2 DEF OrderOf
      <3>2. a = Put(ListOf(p.op), ListFile(S)) /\ Tail(p.plan) = <<>>
        BY <3>1, Entries, Tails
      <3> QED
        BY <1>0, <2>2, <3>2 DEF OrderOf, Lists, ListOf, Put
    <2> QED
      BY <1>2, <2>1, <2>2
  <1> HIDE DEF a
  <1>4. ~Fails(disk, a)
    BY <1>1 DEF Write
  <1>5. \E q, h : Landing(r, q, h)
    <2> DEFINE q == [req[r] EXCEPT !.plan = Tail(@), !.base = After(@, a)]
    <2>1. /\ disk' = After(disk, a) /\ world' = world /\ used' = used /\ ops' = ops
          /\ crashes' = crashes /\ halved' = halved
          /\ req' = [req EXCEPT ![r].plan = Tail(@), ![r].base = After(@, a)]
          /\ owed' = (owed \cup Promised(r, a)) \ Released(r, a)
          /\ misfit' = (misfit \/ Misfit(disk, a))
          /\ Touched(disk, a, p.op) = Touched(p.base, a, p.op)
      BY <1>1, <1>4 DEF Write
    <2>2. req' = [req EXCEPT ![r] = q]
      BY <2>1 DEF SuggestionsInv, RequestsAreSound
    <2>3. /\ q.pc = p.pc /\ q.op = p.op /\ q.uuid = p.uuid
          /\ q.plan = Tail(p.plan) /\ q.base = After(p.base, a)
      BY <1>0 DEF SoundRequest
    <2> HIDE DEF q
    <2>4. \E h : /\ held' = [held EXCEPT ![r] = h]
                 /\ p.op # "apply" /\ p.op # "decline" => h = held[r]
      <3>1. CASE Lands(r, "apply") \/ Lands(r, "decline")
        BY <3>1 DEF Stores, Lands
      <3>2. CASE ~(Lands(r, "apply") \/ Lands(r, "decline"))
        <4>1. held' = [held EXCEPT ![r] = held[r]]
          BY <3>2, HeldStays DEF Stores, SuggestionsInv
        <4> QED
          BY <4>1
      <3> QED
        BY <3>1, <3>2
    <2>5. /\ linked' = IF p.op = "apply" /\ InOneFile(held[r].key[1])
                       THEN linked \cup {held[r].key} ELSE linked
          /\ since' = IF p.op = "decline"
                      THEN [since EXCEPT ![held[r].key] = analyses] ELSE since
          /\ analyses' = analyses
      BY <1>0 DEF Stores, Lands
    <2>6. Kind(p.base, a)
      BY <1>k DEF Kind
    <2>7. p.op \in {"wipe", "analyze"} => a.do = "rmdir" \/ Lists(a)
      BY <1>k DEF ListOps
    <2>8. Kind(disk, a)
      BY <1>0, <1>1, <1>2, <2>1, <2>6, <2>7, MeetsItsKind
    <2>9. PICK h : /\ held' = [held EXCEPT ![r] = h]
                   /\ p.op # "apply" /\ p.op # "decline" => h = held[r]
      BY <2>4
    <2>10. \/ p.pc = "writing" /\ Sensible(p, held[r], misfit) /\ OffLists(a)
           \/ p.pc = "saving" /\ p.op \in ListOps /\ Lists(a) /\ q.plan = <<>>
      BY <1>k, <2>3
    <2>11. Landing(r, q, h)
      BY <1>0, <1>1, <1>4, <2>1, <2>2, <2>3, <2>5, <2>6, <2>8, <2>9, <2>10
      DEF Landing, Turns, a
    <2> QED
      BY <2>11
  <1> QED
    BY <1>c, <1>5

\* What came since the wipe began is removed in turn.
LEMMA DeinitIs ==
    ASSUME SuggestionsInv, OrderInv, ~crossed, NEW r \in Requests, Deinit(r), Stores(r)
    PROVE  \E q, h : Asked(r, q, h)
PROOF
  <1>1. PICK s \in Orders(OnDisk(disk)) :
            req' = [req EXCEPT ![r].plan = Removals(s), ![r].base = disk]
    BY DEF Deinit
  <1> DEFINE q == [req[r] EXCEPT !.plan = Removals(s), !.base = disk]
  <1>2. req' = [req EXCEPT ![r] = q]
    BY <1>1 DEF SuggestionsInv, RequestsAreSound
  <1>3. /\ req[r].pc = "writing" /\ req[r].plan = <<>> /\ req[r].op = "wipe"
        /\ world' = world /\ used' = used /\ disk' = disk /\ ops' = ops /\ crashes' = crashes
        /\ owed' = owed /\ crossed' = crossed /\ misfit' = misfit /\ halved' = halved
    BY DEF Deinit, ghosts
  <1>4. /\ q.pc = "writing" /\ q.op = "wipe" /\ q.plan = Removals(s) /\ q.base = disk
    BY <1>3 DEF SuggestionsInv, RequestsAreSound, SoundRequest
  <1> HIDE DEF q
  <1>5. Sensible(q, held[r], misfit)
    BY <1>4, RemovalsAreSensible
  <1>6. held' = [held EXCEPT ![r] = held[r]] /\ linked' = linked /\ since' = since /\ analyses' = analyses
    <2>1. ~Lands(r, "apply") /\ ~Lands(r, "decline")
      BY <1>3 DEF Lands
    <2>2. held' = held /\ linked' = linked /\ since' = since /\ analyses' = analyses
      BY <2>1 DEF Stores
    <2> QED
      BY <2>2, HeldStays DEF SuggestionsInv
  <1>7. /\ used' = used \cup {} /\ {} \cap used = {} /\ Fathered(q.op, q.plan, {})
    BY <1>3, <1>4 DEF Fathered, Creators
  <1>8. Asked(r, q, held[r])
    BY <1>2, <1>3, <1>4, <1>5, <1>6, <1>7 DEF Asked, Turns, Quiet
  <1> QED
    BY <1>8

\* An error ends a request with nothing written.
LEMMA ErrorIs ==
    ASSUME NEW r \in Requests, Errs(r)
    PROVE  Emptied(r, Idle, None)
PROOF
  <1>1. Idle.pc = "idle" /\ Idle.plan = <<>>
    BY DEF Idle
  <1> QED
    BY <1>1 DEF Errs, GiveUp, Emptied, Turns, Quiet

LEMMA RefreshIs ==
    ASSUME SuggestionsInv, OrderInv, ~crossed, NEW r \in Requests,
           Read(r) \/ Publish(r) \/ Answer(r), Stores(r)
    PROVE  \E q, h : Emptied(r, q, h)
PROOF
  <1>0. /\ SoundRequest(req[r], used) /\ OrderOf(req[r], held[r], misfit, used)
        /\ req = [s \in Requests |-> req[s]]
    BY DEF SuggestionsInv, RequestsAreSound, OrderInv
  <1>1. req[r].plan = <<>>
    BY <1>0 DEF Read, Publish, Answer, OrderOf
  <1>2. /\ held' = [held EXCEPT ![r] = held[r]] /\ linked' = linked
        /\ since' = since /\ analyses' = analyses
    <2>1. ~Lands(r, "apply") /\ ~Lands(r, "decline")
      BY <1>1 DEF Lands
    <2>2. held' = held /\ linked' = linked /\ since' = since /\ analyses' = analyses
      BY <2>1 DEF Stores
    <2> QED
      BY <2>2, HeldStays DEF SuggestionsInv
  <1>3. CASE Read(r)
    <2> DEFINE q == [req[r] EXCEPT !.pc = "read", !.seen = disk, !.base = None]
    <2>1. req' = [req EXCEPT ![r] = q]
      BY <1>0, <1>3 DEF Read
    <2>2. q.pc = "read" /\ q.seen = disk /\ q.plan = <<>>
      BY <1>0, <1>1 DEF SoundRequest
    <2> HIDE DEF q
    <2>3. world' = world /\ used' = used /\ Quiet
      BY <1>2, <1>3 DEF Read, Quiet, ghosts
    <2>4. Emptied(r, q, held[r])
      BY <1>1, <1>2, <2>1, <2>2, <2>3 DEF Emptied, Turns
    <2> QED
      BY <2>4
  <1>4. CASE Publish(r)
    <2> DEFINE q == [req[r] EXCEPT !.pc = "published", !.seen = None]
    <2>1. req' = [req EXCEPT ![r] = q]
      BY <1>0, <1>4 DEF Publish
    <2>2. q.pc = "published" /\ q.plan = <<>>
      BY <1>0, <1>1 DEF SoundRequest
    <2> HIDE DEF q
    <2>3. world' = req[r].seen /\ used' = used /\ Quiet /\ req[r].pc = "read"
      BY <1>2, <1>4 DEF Publish, Quiet, ghosts
    <2>4. Emptied(r, q, held[r])
      BY <1>1, <1>2, <2>1, <2>2, <2>3 DEF Emptied, Turns
    <2> QED
      BY <2>4
  <1>5. CASE Answer(r)
    <2>1. Idle.pc = "idle" /\ Idle.plan = <<>>
      BY DEF Idle
    <2>2. req' = [req EXCEPT ![r] = Idle] /\ world' = world /\ used' = used /\ Quiet
      BY <1>2, <1>5 DEF Answer, Quiet, ghosts
    <2>3. Emptied(r, Idle, held[r])
      BY <1>1, <1>2, <2>1, <2>2 DEF Emptied, Turns
    <2> QED
      BY <2>3
  <1> QED
    BY <1>3, <1>4, <1>5

\* A list that is saved, and no other.
LEMMA SavesIs ==
    ASSUME NEW r \in Requests, req[r].pc # "writing",
           NEW op \in ListOps, NEW S \in SUBSET Proposed, NEW h,
           Saves(r, op, ListOf(op), S, h), Drawn(r, op, h, S), rest' = rest, analyses' = analyses
    PROVE  \E q : Listing(r, q, h)
PROOF
  <1> DEFINE plan == <<Put(ListOf(op), ListFile(S))>>
             q == [pc |-> "saving", op |-> op, uuid |-> None, plan |-> plan,
                   base |-> disk, seen |-> None]
  <1>1. req' = [req EXCEPT ![r] = q] /\ held' = [held EXCEPT ![r] = h]
    BY DEF Saves
  <1>2. q.pc = "saving" /\ q.op = op /\ q.base = disk /\ q.plan = plan
    OBVIOUS
  <1> HIDE DEF q
  <1>3. Quiet /\ world' = world /\ used' = used
    BY DEF rest, ghosts, Quiet
  <1>4. Listing(r, q, h)
    BY <1>1, <1>2, <1>3 DEF Listing, Turns
  <1> QED
    BY <1>4

LEMMA EndsIs ==
    ASSUME NEW r \in Requests, req[r].plan = <<>>,
           Ends(r), rest' = rest, analyses' = analyses
    PROVE  \E q, h : Emptied(r, q, h)
PROOF
  <1>1. Idle.pc = "idle" /\ Idle.plan = <<>>
    BY DEF Idle
  <1>2. Quiet /\ world' = world /\ used' = used
    BY DEF rest, ghosts, Quiet
  <1>3. Emptied(r, Idle, None)
    BY <1>1, <1>2 DEF Ends, Emptied, Turns
  <1> QED
    BY <1>3

LEMMA ApplyIs ==
    ASSUME SuggestionsInv, OrderInv, ~crossed, NEW r \in Requests, Apply(r)
    PROVE  \E q, h : Applied(r, q, h) \/ Emptied(r, q, h)
PROOF
  <1> DEFINE k == held[r].key
  <1>0. /\ rest' = rest /\ analyses' = analyses
        /\ req[r].pc = "saving" /\ req[r].plan = <<>>
    BY DEF Apply, rest, Saved
  <1>1. CASE Applies(k)
    <2> DEFINE f == WithLink(Current(k[1]), k[2])
               a == Put(At(world, k[1]), f)
               plan == <<a>>
               q == [pc |-> "writing", op |-> "apply", uuid |-> k[1], seen |-> None,
                     plan |-> plan, base |-> world]
    <2>1. req' = [req EXCEPT ![r] = q] /\ held' = held
      BY <1>1 DEF Apply
    <2>2. /\ q.pc = "writing" /\ q.op = "apply" /\ q.base = world /\ q.plan = plan
      OBVIOUS
    <2> HIDE DEF q
    <2>3. plan[1] = a /\ plan = <<plan[1]>>
      OBVIOUS
    <2> HIDE DEF plan
    <2>4. a.do = "put" /\ a.at = At(world, k[1]) /\ a.file = f
      BY DEF Put
    <2> HIDE DEF a
    <2>5. k[1] \in UuidsOf(world) /\ SoundTree(world, used) /\ Orderly(world)
      BY <1>1 DEF Applies, Held, SuggestionsInv, TreesAreSound, OrderInv
    <2> DEFINE g == Current(k[1])
    <2>6. /\ At(world, k[1]) \in Loaded(world) /\ world.files[At(world, k[1])] = g
          /\ g.uuid = k[1] /\ g \in StoredArtifact
      BY <2>5, FoundOrderly, FoundIs
    <2>7. Same(f, g) /\ f.uuid = k[1] /\ k[2] \in f.links
      <3> HIDE DEF k, g
      <3>1. g = [form |-> g.form, shape |-> g.shape, uuid |-> g.uuid, text |-> g.text,
                 checked |-> g.checked, links |-> g.links, log |-> g.log]
        BY <2>6 DEF StoredArtifact, Of
      <3>2. /\ WithLink(g, k[2]).uuid = g.uuid /\ WithLink(g, k[2]).shape = g.shape
            /\ WithLink(g, k[2]).links = g.links \cup {k[2]}
            /\ WithLink(g, k[2]).text = g.text
        BY <3>1 DEF WithLink
      <3> QED
        BY <2>6, <3>2 DEF Same, g
    <2>8. Edits(world, a)
      BY <2>4, <2>6, <2>7 DEF Edits
    <2>9. Edit(q, held[r])
      BY <2>2, <2>3, <2>4, <2>7, <2>8 DEF Edit
    <2>10. Quiet /\ world' = world /\ used' = used /\ analyses' = analyses
      BY <1>0 DEF rest, ghosts, Quiet
    <2>11. held' = [held EXCEPT ![r] = held[r]]
      BY <2>1, HeldStays DEF SuggestionsInv
    <2>12. Applied(r, q, held[r])
      BY <1>0, <2>1, <2>2, <2>9, <2>10, <2>11 DEF Applied, Turns, Sensible
    <2> QED
      BY <2>12
  <1>2. CASE ~Applies(k)
    <2>1. Ends(r)
      BY <1>2 DEF Apply
    <2> QED
      BY <1>0, <2>1, EndsIs
  <1> QED
    BY <1>1, <1>2

LEMMA SuggestionIs ==
    ASSUME SuggestionsInv, OrderInv, ~crossed, NEW r \in Requests,
           \/ Analyze(r) \/ Analyzed(r) \/ Accept(r) \/ Reject(r) \/ Reinstate(r)
           \/ Decline(r) \/ Apply(r) \/ Done(r)
    PROVE  \E q, h : Listing(r, q, h) \/ Applied(r, q, h) \/ Emptied(r, q, h)
PROOF
  <1>0. /\ Pending \in SUBSET Proposed /\ Declined \in SUBSET Proposed
        /\ {"analyze", "accept", "reject", "reinstate", "decline"} \subseteq ListOps
        /\ \A op \in {"analyze", "accept", "reject"} : ListOf(op) = PendingAt
        /\ \A op \in {"reinstate", "decline"} : ListOf(op) = DeclinedAt
    BY ListedIs DEF SuggestionsInv, TreesAreSound, ListOps, ListOf
  <1>p. req[r].pc \notin {"saving", "writing"} => req[r].plan = <<>>
    BY DEF OrderInv, OrderOf
  <1>1. CASE Analyze(r)
    <2> DEFINE q == [Idle EXCEPT !.pc = "asking", !.op = "analyze", !.uuid = analyses + 1]
    <2>1. /\ req' = [req EXCEPT ![r] = q] /\ held' = [held EXCEPT ![r] = Declined]
          /\ rest' = rest /\ analyses' = analyses + 1
      BY <1>1 DEF Analyze, Begins, rest
    <2>2. q.pc = "asking" /\ q.plan = <<>> /\ q.uuid = analyses + 1
      BY DEF Idle
    <2> HIDE DEF q
    <2>3. Quiet /\ world' = world /\ used' = used
      BY <2>1 DEF rest, ghosts, Quiet
    <2>4. Emptied(r, q, Declined)
      BY <1>1, <1>p, <2>1, <2>2, <2>3 DEF Emptied, Turns, Analyze, Begins
    <2> QED
      BY <2>4
  <1>2. CASE Analyzed(r)
    <2>1. rest' = rest /\ analyses' = analyses
      BY <1>2 DEF Analyzed, rest
    <2>2. CASE Ends(r)
      BY <1>2, <1>p, <2>1, <2>2, EndsIs DEF Analyzed
    <2>3. CASE \E answer \in SUBSET Keys :
                Saves(r, "analyze", PendingAt, Proposes(answer, held[r], req[r].uuid), None)
      <3>1. PICK answer \in SUBSET Keys :
                Saves(r, "analyze", PendingAt, Proposes(answer, held[r], req[r].uuid), None)
        BY <2>3
      <3>2. req[r].uuid \in Nat
        BY <1>2 DEF Analyzed, SuggestionsInv, RequestsAreSound, SoundRequest
      <3>3. Proposes(answer, held[r], req[r].uuid) \in SUBSET Proposed
        BY <3>2 DEF Proposes, Suggestion, Proposed
      <3>4. Drawn(r, "analyze", None, Proposes(answer, held[r], req[r].uuid))
        BY <1>2 DEF Drawn, Analyzed, Proposes, Suggestion
      <3> QED
        BY <1>0, <1>2, <2>1, <3>1, <3>3, <3>4, SavesIs DEF Analyzed
    <2> QED
      BY <1>2, <2>2, <2>3 DEF Analyzed
  <1>3. CASE Accept(r)
    <2>1. PICK s \in Pending : Saves(r, "accept", PendingAt, Pending \ {s}, s)
      BY <1>3 DEF Accept
    <2>2. rest' = rest /\ analyses' = analyses
      BY <1>3 DEF Accept, rest
    <2> DEFINE left == Pending \ {s}
    <2>3. left \in SUBSET Proposed /\ Saves(r, "accept", PendingAt, left, s)
      BY <1>0, <2>1
    <2>4. Drawn(r, "accept", s, left)
      BY <1>0 DEF Drawn, Pending
    <2> HIDE DEF left
    <2> QED
      BY <1>0, <1>3, <2>2, <2>3, <2>4, SavesIs DEF Accept, Begins
  <1>4. CASE Reject(r)
    <2>1. PICK s \in Pending : Saves(r, "reject", PendingAt, Pending \ {s}, s)
      BY <1>4 DEF Reject
    <2>2. rest' = rest /\ analyses' = analyses
      BY <1>4 DEF Reject, rest
    <2> DEFINE left == Pending \ {s}
    <2>3. left \in SUBSET Proposed /\ Saves(r, "reject", PendingAt, left, s)
      BY <1>0, <2>1
    <2>4. Drawn(r, "reject", s, left)
      BY <1>0 DEF Drawn, Pending
    <2> HIDE DEF left
    <2> QED
      BY <1>0, <1>4, <2>2, <2>3, <2>4, SavesIs DEF Reject, Begins
  <1>5. CASE Reinstate(r)
    <2>1. PICK s \in Declined : Saves(r, "reinstate", DeclinedAt, Declined \ {s}, s)
      BY <1>5 DEF Reinstate
    <2>2. rest' = rest /\ analyses' = analyses
      BY <1>5 DEF Reinstate, rest
    <2> DEFINE left == Declined \ {s}
    <2>3. left \in SUBSET Proposed /\ Saves(r, "reinstate", DeclinedAt, left, s)
      BY <1>0, <2>1
    <2>4. Drawn(r, "reinstate", s, left)
      BY <1>0 DEF Drawn, Declined
    <2> HIDE DEF left
    <2> QED
      BY <1>0, <1>5, <2>2, <2>3, <2>4, SavesIs DEF Reinstate, Begins
  <1>6. CASE Decline(r)
    <2>1. /\ Saves(r, "decline", DeclinedAt, Declined \cup {held[r]}, held[r])
          /\ rest' = rest /\ analyses' = analyses
      BY <1>6 DEF Decline, rest
    <2>2. held[r] \in Proposed
      BY <1>6 DEF Decline, Saved, SuggestionsInv, HeldIsTyped
    <2>3. Declined \cup {held[r]} \in SUBSET Proposed
      BY <1>0, <2>2
    <2>4. Drawn(r, "decline", held[r], Declined \cup {held[r]})
      BY <1>0, <2>2 DEF Drawn, Declined
    <2> QED
      BY <1>0, <1>6, <2>1, <2>3, <2>4, SavesIs DEF Decline, Saved
  <1>7. CASE Apply(r)
    BY <1>7, ApplyIs
  <1>8. CASE Done(r)
    <2>1. Ends(r) /\ rest' = rest /\ analyses' = analyses /\ req[r].plan = <<>>
      BY <1>8 DEF Done, rest, Saved
    <2> QED
      BY <2>1, EndsIs
  <1> QED
    BY <1>1, <1>2, <1>3, <1>4, <1>5, <1>6, <1>7, <1>8

\* Every step is one of these.
LEMMA StepsAre ==
    ASSUME SuggestionsInv, OrderInv, [SuggestionsNext]_svars, ~crossed'
    PROVE  /\ ~crossed
           /\ \/ UNCHANGED svars
              \/ Stops
              \/ \E r \in Requests : \E q, h :
                    \/ Asked(r, q, h) \/ Applied(r, q, h) \/ Emptied(r, q, h)
                    \/ Listing(r, q, h) \/ Landing(r, q, h)
PROOF
  <1>1. CASE UNCHANGED svars
    BY <1>1 DEF svars, vars
  <1>2. CASE \E r \in Requests : Stores(r)
    <2>1. PICK r \in Requests : Stores(r)
      BY <1>2
    <2>2. CASE Asks(r)
      <3>1. PICK op, u, news, plan : Plans(r, op, u, news, plan)
        BY <2>2, AsksArePlans DEF SuggestionsInv, TreesAreSound
      <3>2. ~crossed
        BY <3>1 DEF Plans, ghosts
      <3> QED
        BY <2>1, <2>2, <3>2, AskIs
    <2>3. CASE Write(r)
      BY <2>1, <2>3, WriteIs
    <2>4. CASE Read(r) \/ Publish(r) \/ Answer(r)
      <3>1. ~crossed
        BY <2>4 DEF Read, Publish, Answer, ghosts
      <3> QED
        BY <2>1, <2>4, <3>1, RefreshIs
    <2>5. CASE PartlyRemoves(r) \/ Ignores(r)
      BY <2>5 DEF PartlyRemoves, Ignores
    <2>6. CASE Deinit(r)
      <3>1. ~crossed
        BY <2>6 DEF Deinit, ghosts
      <3> QED
        BY <2>1, <2>6, <3>1, DeinitIs
    <2> QED
      BY <2>1, <2>2, <2>3, <2>4, <2>5, <2>6 DEF Stores
  <1>3. CASE \E r \in Requests :
                \/ Analyze(r) \/ Analyzed(r) \/ Accept(r) \/ Reject(r) \/ Reinstate(r)
                \/ Decline(r) \/ Apply(r) \/ Done(r)
    <2>1. PICK r \in Requests :
                \/ Analyze(r) \/ Analyzed(r) \/ Accept(r) \/ Reject(r) \/ Reinstate(r)
                \/ Decline(r) \/ Apply(r) \/ Done(r)
      BY <1>3
    <2>2. rest' = rest
      BY <2>1 DEF Analyze, Analyzed, Accept, Reject, Reinstate, Decline, Apply, Done, rest
    <2>3. ~crossed
      BY <2>2 DEF rest, ghosts
    <2> QED
      BY <2>1, <2>3, SuggestionIs
  <1>4. CASE Stops
    BY <1>4 DEF Stops, Crash, ghosts
  <1>5. CASE NobodyAsks
    BY <1>1, <1>5 DEF NobodyAsks
  <1>6. CASE \E r \in Requests : Errs(r)
    <2>1. PICK r \in Requests : Errs(r)
      BY <1>6
    <2>2. ~crossed
      BY <2>1 DEF Errs, GiveUp
    <2> QED
      BY <2>1, <2>2, ErrorIs
  <1> QED
    BY <1>1, <1>2, <1>3, <1>4, <1>5, <1>6 DEF SuggestionsNext

LEMMA OrderStarts == SuggestionsInit => OrderInv
PROOF
  <1> SUFFICES ASSUME SuggestionsInit PROVE OrderInv
    OBVIOUS
  <1>1. PICK s \in Scenes : disk = s.tree
    BY DEF SuggestionsInit, Init
  <1>2. Orderly(disk) /\ world = disk
    BY <1>1, ScenesAssumption DEF SuggestionsInit, Init
  <1>3. \A r \in Requests : req[r] = Idle
    BY DEF SuggestionsInit, Init
  <1>4. \A r \in Requests : OrderOf(req[r], held[r], misfit, used)
    BY <1>3 DEF OrderOf, Idle
  <1> QED
    BY <1>2, <1>4 DEF OrderInv

\* What is left of a plan after its step is made.
LEMMA LandingOrder ==
    ASSUME SuggestionsInv, OrderInv, ~crossed, NEW r \in Requests, NEW q, NEW h,
           Landing(r, q, h)
    PROVE  OrderOf(q, h, misfit', used)
PROOF
  <1> DEFINE p == req[r]
             a == p.plan[1]
  <1>1. /\ OrderOf(p, held[r], misfit, used) /\ p.plan # <<>>
        /\ SoundTree(disk, used) /\ Orderly(disk)
        /\ SoundPlan(p.plan, used) /\ SoundStep(a, used) /\ Kind(p.base, a)
        /\ q.pc = p.pc /\ q.op = p.op /\ q.uuid = p.uuid /\ q.plan = Tail(p.plan)
        /\ q.base = After(p.base, a)
        /\ misfit' = (misfit \/ Misfit(disk, a))
        /\ Touched(disk, a, p.op) = Touched(p.base, a, p.op)
        /\ p.op # "apply" /\ p.op # "decline" => h = held[r]
    BY DEF OrderInv, SuggestionsInv, TreesAreSound, Landing
  <1>2. p.pc \in {"saving", "writing"} /\ SoundTree(p.base, used) /\ Orderly(p.base)
    BY <1>1 DEF OrderOf
  <1>3. SoundTree(q.base, used) /\ Orderly(q.base)
    BY <1>1, <1>2, KindKeepsOrder
  <1>4. CASE p.pc = "saving"
    <2>1. q.plan = <<>> /\ p.op \in ListOps
      BY <1>4 DEF Landing
    <2> QED
      BY <1>1, <1>3, <1>4, <2>1 DEF OrderOf
  <1>5. CASE p.pc = "writing"
    <2>1. Sensible(p, held[r], misfit) /\ OffLists(a)
      BY <1>5 DEF Landing
    <2>2. ASSUME q.plan # <<>> PROVE Sensible(q, h, misfit')
      <3>1. h = held[r]
        <4>1. p.op # "apply"
          <5>1. ASSUME p.op = "apply" PROVE FALSE
            <6>1. p.plan = <<p.plan[1]>>
              BY <2>1, <5>1, SensibleOps
            <6>2. Tail(<<p.plan[1]>>) = <<>>
              BY Tails
            <6> DEFINE v == p.plan
            <6>3. v = <<p.plan[1]>> /\ q.plan = Tail(v)
              BY <6>1, <1>1
            <6> HIDE DEF v
            <6> QED
              BY <2>2, <6>2, <6>3
          <5> QED
            BY <5>1
        <4>2. p.op # "decline"
          BY <2>1, SensibleOps DEF ListOps
        <4> QED
          BY <1>1, <4>1, <4>2
      <3>2. a.do = "mkdir" /\ ~misfit' => \A x \in DOMAIN p.base.files : x.dir # a.dir
        <4> SUFFICES ASSUME a.do = "mkdir", ~misfit', NEW x \in DOMAIN p.base.files, x.dir = a.dir
                     PROVE  FALSE
          OBVIOUS
        <4>1. a.dir \notin OnDisk(disk)
          BY <1>1 DEF Misfit
        <4>2. p.op \notin {"wipe", "analyze"}
          <5>1. p.op # "wipe"
            <6>1. p.op = "wipe" => a.do = "rmdir"
              <7>1. 1 \in DOMAIN p.plan
                BY <1>1, PlanIs
              <7> QED
                BY <2>1, <7>1, SensibleOps
            <6> QED
              BY <6>1
          <5> QED
            BY <2>1, <5>1, SensibleOps DEF ListOps
        <4>3. Agree(disk, p.base, x)
          BY <1>1, <4>2, Unmet
        <4> QED
          BY <4>1, <4>3 DEF Agree, OnDisk
      <3> HIDE DEF p
      <3> QED
        BY <1>1, <1>2, <2>1, <2>2, <3>1, <3>2, SensibleTail
    <2> QED
      BY <1>1, <1>3, <1>5, <2>2 DEF OrderOf
  <1> QED
    BY <1>2, <1>4, <1>5

LEMMA OrderStays ==
    SuggestionsInv /\ OrderInv /\ [SuggestionsNext]_svars => OrderInv'
PROOF
  <1> SUFFICES ASSUME SuggestionsInv, OrderInv, [SuggestionsNext]_svars, ~crossed'
               PROVE  OrderInv'
    BY DEF OrderInv
  <1>0. /\ ~crossed /\ SuggestionsInv'
        /\ \/ UNCHANGED svars
           \/ Stops
           \/ \E r \in Requests : \E q, h :
                 \/ Asked(r, q, h) \/ Applied(r, q, h) \/ Emptied(r, q, h)
                 \/ Listing(r, q, h) \/ Landing(r, q, h)
    BY StepsAre, StepsKeep
  <1>1. /\ Orderly(disk) /\ Orderly(world) /\ SoundTree(disk, used) /\ SoundTree(world, used)
        /\ SoundTree(disk', used') /\ SoundTree(world', used')
    BY <1>0 DEF OrderInv, SuggestionsInv, TreesAreSound
  <1>2. CASE UNCHANGED svars
    BY <1>2 DEF svars, vars, OrderInv
  <1>3. CASE Stops
    <2>1. /\ disk' = disk /\ world' = disk
          /\ \A r \in Requests : req'[r] = Idle
      BY <1>3 DEF Stops, Crash
    <2>2. \A r \in Requests : OrderOf(req'[r], held'[r], misfit', used')
      BY <2>1 DEF OrderOf, Idle
    <2> QED
      BY <1>1, <2>1, <2>2 DEF OrderInv
  <1>4. ASSUME NEW r \in Requests, NEW q, NEW h, Asked(r, q, h)
        PROVE  OrderInv'
    <2>1. Turns(r, q, h) /\ Quiet /\ world' = world /\ used \subseteq used'
      BY <1>4 DEF Asked
    <2>2. q.pc = "writing" /\ q.base \in {disk, world} /\ Sensible(q, h, misfit)
      BY <1>4 DEF Asked
    <2>3. SoundTree(q.base, used')
      BY <1>1, <2>1, <2>2 DEF Quiet
    <2>4. misfit' = misfit /\ disk' = disk
      BY <2>1 DEF Quiet
    <2>5. OrderOf(q, h, misfit', used')
      BY <1>1, <2>2, <2>3, <2>4 DEF OrderOf
    <2> QED
      BY <1>0, <1>1, <2>1, <2>4, <2>5, OneOrder DEF Turns
  <1>5. ASSUME NEW r \in Requests, NEW q, NEW h, Applied(r, q, h)
        PROVE  OrderInv'
    <2>1. Turns(r, q, h) /\ Quiet /\ world' = world /\ used' = used
      BY <1>5 DEF Applied
    <2>2. q.pc = "writing" /\ q.base = world /\ Sensible(q, h, misfit)
      BY <1>5 DEF Applied
    <2>4. misfit' = misfit /\ disk' = disk
      BY <2>1 DEF Quiet
    <2>5. OrderOf(q, h, misfit', used')
      BY <1>1, <2>1, <2>2, <2>4 DEF OrderOf
    <2> QED
      BY <1>0, <1>1, <2>1, <2>4, <2>5, OneOrder DEF Turns
  <1>6. ASSUME NEW r \in Requests, NEW q, NEW h, Emptied(r, q, h)
        PROVE  OrderInv'
    <2>1. Turns(r, q, h) /\ Quiet /\ used' = used /\ q.plan = <<>>
      BY <1>6 DEF Emptied
    <2>2. q.pc \notin {"saving", "writing"} /\ (q.pc = "read" => q.seen = disk)
      BY <1>6 DEF Emptied
    <2>4. misfit' = misfit /\ disk' = disk
      BY <2>1 DEF Quiet
    <2>5. OrderOf(q, h, misfit', used')
      BY <1>1, <2>1, <2>2 DEF OrderOf
    <2>6. Orderly(world')
      <3>1. req[r].pc = "read" => Orderly(req[r].seen)
        BY <1>0 DEF OrderInv, OrderOf
      <3> QED
        BY <1>1, <1>6, <3>1 DEF Emptied
    <2> QED
      BY <1>0, <1>1, <2>1, <2>4, <2>5, <2>6, OneOrder DEF Turns
  <1>7. ASSUME NEW r \in Requests, NEW q, NEW h, Listing(r, q, h)
        PROVE  OrderInv'
    <2>1. Turns(r, q, h) /\ Quiet /\ world' = world /\ used' = used
      BY <1>7 DEF Listing
    <2>2. /\ q.pc = "saving" /\ q.base = disk /\ q.op \in ListOps
          /\ \E S \in SUBSET Proposed : q.plan = <<Put(ListOf(q.op), ListFile(S))>>
      BY <1>7 DEF Listing
    <2>4. misfit' = misfit /\ disk' = disk
      BY <2>1 DEF Quiet
    <2>5. OrderOf(q, h, misfit', used')
      BY <1>1, <2>1, <2>2 DEF OrderOf
    <2> QED
      BY <1>0, <1>1, <2>1, <2>4, <2>5, OneOrder DEF Turns
  <1>8. ASSUME NEW r \in Requests, NEW q, NEW h, Landing(r, q, h)
        PROVE  OrderInv'
    <2>1. /\ Turns(r, q, h) /\ world' = world /\ used' = used
          /\ disk' = After(disk, req[r].plan[1]) /\ Kind(disk, req[r].plan[1])
          /\ SoundStep(req[r].plan[1], used) /\ (misfit => misfit')
      BY <1>8 DEF Landing
    <2>2. Orderly(disk')
      BY <1>1, <2>1, KindKeepsOrder
    <2>3. OrderOf(q, h, misfit', used')
      BY <1>0, <1>8, <2>1, LandingOrder
    <2> QED
      BY <1>0, <1>1, <2>1, <2>2, <2>3, OneOrder DEF Turns
  <1> QED
    BY <1>0, <1>2, <1>3, <1>4, <1>5, <1>6, <1>7, <1>8

\* As long as no write meets a change its request had not seen, the trees are
\* orderly, and what every request has still to write follows from the
\* snapshot it was decided on.
THEOREM TheTreesAreOrderly == SuggestionsSpec => [](SuggestionsInv /\ OrderInv)
PROOF
  <1>1. SuggestionsInit => SuggestionsInv /\ OrderInv
    BY StartsSound, OrderStarts
  <1>2. SuggestionsInv /\ OrderInv /\ [SuggestionsNext]_svars => (SuggestionsInv /\ OrderInv)'
    BY StepsKeep, OrderStays
  <1> QED
    BY <1>1, <1>2, PTL DEF SuggestionsSpec

\* A blob's metadata never stands without its bytes, at any step of an upload,
\* a replacement or an adoption, and after an error or a restart at any of
\* them, as long as no removal stopped half way: BinaryStands, a part of
\* FilesStand.
THEOREM TheBytesStand == SuggestionsSpec => []BinaryStands
PROOF
  <1>1. SuggestionsInv /\ OrderInv => BinaryStands
    <2> SUFFICES ASSUME SuggestionsInv, OrderInv, ~crossed,
                        NEW p \in DOMAIN disk.files, IsSidecar(p),
                        disk.files[p].form = "json", disk.files[p].shape = "blob"
                 PROVE  BytesOf(p, disk.files[p]) \in DOMAIN disk.files
      BY DEF BinaryStands
    <2>1. Orderly(disk) /\ p.ext # List
      BY ExtKinds DEF OrderInv, IsSidecar
    <2> QED
      BY <2>1 DEF Orderly
  <1> QED
    BY <1>1, TheTreesAreOrderly, PTL

-----------------------------------------------------------------------------
(***************************************************************************)
(* What was declined stays out.                                            *)
(***************************************************************************)

LEMMA ListsStart == SuggestionsInit => ListsInv
PROOF
  <1> SUFFICES ASSUME SuggestionsInit PROVE ListsInv
    OBVIOUS
  <1>1. PICK s \in Scenes : disk = s.tree
    BY DEF SuggestionsInit, Init
  <1>2. \A p \in DOMAIN disk.files : p.ext = List => \A x \in disk.files[p].text : x.run = 0
    BY <1>1, ScenesAssumption
  <1>3. /\ analyses = 0 /\ since = [k \in Keys |-> 0]
        /\ \A r \in Requests : req[r] = Idle
    BY DEF SuggestionsInit, Init
  <1>4. \A x \in Pending : x.run = 0
    BY <1>2, PathKinds DEF Pending, Listed
  <1>5. Pending \in SUBSET Proposed
    BY StartsSound, ListedIs DEF SuggestionsInv, TreesAreSound
  <1>6. Shut(Pending, Declined)
    BY <1>3, <1>4, <1>5 DEF Shut, Proposed
  <1>7. \A r \in Requests : ListsOf(req[r], held[r])
    BY <1>3 DEF ListsOf, Idle
  <1> QED
    BY <1>3, <1>4, <1>6, <1>7 DEF ListsInv

\* The steps of one request leave the lists of the others.
LEMMA OneLister ==
    ASSUME SuggestionsInv, ListsInv, ~crossed, NEW r \in Requests, NEW q, NEW h,
           Turns(r, q, h), analyses <= analyses', analyses' \in Nat,
           \A d \in Declined' : d \in Declined \/ since'[d.key] = analyses,
           \A k \in Keys : since'[k] >= since[k],
           since' \in [Keys -> Nat], \A k \in Keys : since'[k] <= analyses',
           \A s \in Pending' : s.run <= analyses', Shut(Pending, Declined)',
           ListsOf(q, h)'
    PROVE  ListsInv'
PROOF
  <1>0. Declined \in SUBSET Proposed /\ since \in [Keys -> Nat] /\ analyses \in Nat
    BY ListedIs DEF SuggestionsInv, TreesAreSound, CountsAreTyped, ListsInv
  <1>1. \A s \in Requests : /\ req'[s] = IF s = r THEN q ELSE req[s]
                            /\ held'[s] = IF s = r THEN h ELSE held[s]
    BY DEF SuggestionsInv, RequestsAreSound, HeldIsTyped, Turns
  <1>2. ASSUME NEW s \in Requests, s # r
        PROVE  ListsOf(req[s], held[s])'
    <2>1. ListsOf(req[s], held[s])
      BY DEF ListsInv
    <2>2. req'[s] = req[s] /\ held'[s] = held[s]
      BY <1>1, <1>2
    <2>3. ASSUME req[s].pc = "asking"
          PROVE  /\ req[s].uuid <= analyses'
                 /\ \A d \in Declined' : (\E x \in held[s] : x.key = d.key)
                                         \/ since'[d.key] >= req[s].uuid
      <3>1. req[s].uuid \in Nat /\ req[s].uuid <= analyses
        BY <2>1, <2>3 DEF ListsOf, SuggestionsInv, RequestsAreSound, SoundRequest
      <3>2. ASSUME NEW d \in Declined', d \in Declined
            PROVE  (\E x \in held[s] : x.key = d.key) \/ since'[d.key] >= req[s].uuid
        <4>1. d.key \in Keys
          BY <1>0, <3>2 DEF Proposed
        <4>2. (\E x \in held[s] : x.key = d.key) \/ since[d.key] >= req[s].uuid
          BY <2>1, <2>3, <3>2 DEF ListsOf
        <4>3. since[d.key] \in Nat /\ since'[d.key] \in Nat /\ since'[d.key] >= since[d.key]
          BY <1>0, <4>1
        <4> QED
          BY <3>1, <4>2, <4>3
      <3> QED
        BY <1>0, <3>1, <3>2
    <2>4. ASSUME req[s].pc = "saving", req[s].plan # <<>>
          PROVE  Saving(req[s], held[s])'
      <3>1. Saving(req[s], held[s])
        BY <2>1, <2>4 DEF ListsOf
      <3>2. PICK S \in SUBSET Proposed :
                /\ req[s].plan = <<Put(ListOf(req[s].op), ListFile(S))>>
                /\ req[s].op \in {"accept", "reject", "reinstate"}
                        => S \subseteq Listed(req[s].base, ListOf(req[s].op))
                /\ req[s].op = "decline" =>
                        /\ held[s] \in Proposed
                        /\ S = Listed(req[s].base, ListOf(req[s].op)) \cup {held[s]}
                /\ req[s].op = "analyze" => (\A x \in S : x.run <= analyses) /\ Shut(S, Declined)
        BY <3>1 DEF Saving
      <3>3. ASSUME \A x \in S : x.run <= analyses, Shut(S, Declined)
            PROVE  (\A x \in S : x.run <= analyses') /\ Shut(S, Declined)'
        <4>1. ASSUME NEW x \in S
              PROVE  /\ x.run \in Nat /\ x.key \in Keys /\ x.run <= analyses
                     /\ x.run <= analyses'
          BY <1>0, <3>3 DEF Proposed
        <4>2. ASSUME NEW x \in S, NEW d \in Declined', x.key = d.key
              PROVE  since'[x.key] >= x.run
          <5>1. /\ since[x.key] \in Nat /\ since'[x.key] \in Nat
                /\ since'[x.key] >= since[x.key]
            BY <1>0, <4>1
          <5>2. d \in Declined => since[x.key] >= x.run
            BY <3>3, <4>2 DEF Shut
          <5> QED
            BY <1>0, <4>1, <4>2, <5>1, <5>2
        <4> QED
          BY <4>1, <4>2 DEF Shut
      <3> QED
        BY <2>2, <3>2, <3>3 DEF Saving
    <2> QED
      BY <2>2, <2>3, <2>4 DEF ListsOf
  <1>3. ListsOf(req[r], held[r])'
    BY <1>1
  <1> QED
    BY <1>2, <1>3 DEF ListsInv

\* A list written, or left, as a step of a plan lands.
LEMMA LandingLists ==
    ASSUME SuggestionsInv, ListsInv, OrderInv, ~crossed, NEW r \in Requests, NEW q, NEW h,
           Landing(r, q, h)
    PROVE  ListsInv'
PROOF
  <1> DEFINE p == req[r]
             a == p.plan[1]
  <1>0. /\ SoundTree(disk, used) /\ SoundStep(a, used) /\ ~Fails(disk, a)
        /\ disk' = After(disk, a) /\ Turns(r, q, h) /\ p.plan # <<>>
        /\ since' = IF p.op = "decline" THEN [since EXCEPT ![held[r].key] = analyses] ELSE since
        /\ analyses' = analyses /\ q.pc = p.pc
        /\ Touched(disk, a, p.op) = Touched(p.base, a, p.op)
    BY DEF SuggestionsInv, TreesAreSound, Landing
  <1>1. /\ since \in [Keys -> Nat] /\ (\A k \in Keys : since[k] <= analyses) /\ analyses \in Nat
        /\ (\A s \in Pending : s.run <= analyses) /\ Shut(Pending, Declined)
        /\ ListsOf(req[r], held[r])
        /\ Pending \in SUBSET Proposed /\ Declined \in SUBSET Proposed
        /\ \A s \in Pending : s.run \in Nat /\ s.key \in Keys
    BY ListedIs DEF ListsInv, SuggestionsInv, TreesAreSound, CountsAreTyped, Proposed
  <1>f. /\ analyses' \in Nat /\ analyses <= analyses'
        /\ since' = since =>
            /\ since' \in [Keys -> Nat]
            /\ \A k \in Keys : since'[k] >= since[k] /\ since'[k] <= analyses'
    <2>1. analyses' = analyses /\ analyses \in Nat
      BY <1>0, <1>1
    <2>2. \A k \in Keys : since[k] \in Nat /\ since[k] >= since[k] /\ since[k] <= analyses
      BY <1>1
    <2> QED
      BY <1>1, <2>1, <2>2
  <1>2. CASE p.pc = "writing"
    <2>1. OffLists(a) /\ p.op # "decline"
      BY <1>2, SensibleOps DEF Landing, ListOps
    <2>2. Pending' \subseteq Pending /\ Declined' \subseteq Declined
      BY <1>0, <2>1, ListsAfter DEF Pending, Declined
    <2>3. since' = since
      BY <1>0, <2>1
    <2>4. Shut(Pending, Declined)'
      BY <1>1, <2>2, <2>3 DEF Shut
    <2>5. ListsOf(q, h)'
      BY <1>0, <1>2 DEF ListsOf
    <2> HIDE DEF p
    <2> QED
      BY <1>0, <1>1, <1>f, <2>2, <2>3, <2>4, <2>5, OneLister
  <1>3. CASE p.pc = "saving"
    <2>1. p.op \in ListOps /\ q.plan = <<>>
      BY <1>3 DEF Landing
    <2>2. PICK S \in SUBSET Proposed :
                /\ p.plan = <<Put(ListOf(p.op), ListFile(S))>>
                /\ p.op \in {"accept", "reject", "reinstate"}
                        => S \subseteq Listed(p.base, ListOf(p.op))
                /\ p.op = "decline" =>
                        /\ held[r] \in Proposed
                        /\ S = Listed(p.base, ListOf(p.op)) \cup {held[r]}
                /\ p.op = "analyze" => (\A x \in S : x.run <= analyses) /\ Shut(S, Declined)
      BY <1>0, <1>1, <1>3 DEF ListsOf, Saving
    <2>3. a = Put(ListOf(p.op), ListFile(S)) /\ ListOf(p.op) \in {PendingAt, DeclinedAt}
      <3>1. a = Put(ListOf(p.op), ListFile(S))
        BY <2>2, Entries
      <3>2. ListOf(p.op) \in {PendingAt, DeclinedAt}
        BY DEF ListOf
      <3> QED
        BY <3>1, <3>2
    <2>4. p.op # "analyze" => Listed(p.base, ListOf(p.op)) = Listed(disk, ListOf(p.op))
      <3> SUFFICES ASSUME p.op # "analyze"
                   PROVE  Listed(p.base, ListOf(p.op)) = Listed(disk, ListOf(p.op))
        OBVIOUS
      <3> DEFINE b == Put(ListOf(p.op), ListFile(S))
      <3>1. p.op \notin {"wipe", "analyze"}
        BY <2>1 DEF ListOps
      <3>2. Touched(disk, b, p.op) = Touched(p.base, b, p.op)
        BY <1>0, <2>3
      <3> DEFINE l == ListOf(p.op)
                 f == ListFile(S)
                 base == p.base
                 op == p.op
      <3>3. l \in {PendingAt, DeclinedAt} /\ op \notin {"wipe", "analyze"}
            /\ Touched(disk, Put(l, f), op) = Touched(base, Put(l, f), op)
        BY <2>3, <3>1, <3>2
      <3> HIDE DEF a, p, l, f, base, op
      <3>4. Listed(disk, l) = Listed(base, l)
        BY ZenonT(30), <3>3, ListUnmet
      <3> QED
        BY <3>4 DEF l, base
    <2>5. /\ Pending' = (IF PendingAt = ListOf(p.op) THEN S ELSE Pending)
          /\ Declined' = (IF DeclinedAt = ListOf(p.op) THEN S ELSE Declined)
      BY <1>0, <2>3, ListSaved DEF Pending, Declined
    <2>6. ListsOf(q, h)'
      BY <1>0, <1>3, <2>1 DEF ListsOf
    <2> HIDE DEF p, a
    <2>7. ASSUME p.op \in {"accept", "reject", "analyze"}
          PROVE  ListsInv'
      <3>1. Pending' = S /\ Declined' = Declined /\ since' = since
        BY <1>0, <2>5, <2>7, ListPaths DEF ListOf
      <3>2. p.op # "analyze" => S \subseteq Pending
        BY <2>2, <2>4, <2>7 DEF Pending, ListOf
      <3>3. (\A x \in S : x.run <= analyses) /\ Shut(S, Declined)
        BY <1>1, <2>2, <2>7, <3>2 DEF Shut
      <3>4. Shut(Pending, Declined)'
        BY <3>1, <3>3 DEF Shut
      <3> QED
        BY <1>0, <1>1, <1>f, <2>6, <3>1, <3>3, <3>4, OneLister
    <2>8. ASSUME p.op = "reinstate"
          PROVE  ListsInv'
      <3>1. Pending' = Pending /\ Declined' = S /\ since' = since
        BY <1>0, <2>5, <2>8, ListPaths DEF ListOf
      <3>2. S \subseteq Declined
        BY <2>2, <2>4, <2>8 DEF Declined, ListOf
      <3>3. Shut(Pending, Declined)'
        BY <1>1, <3>1, <3>2 DEF Shut
      <3> QED
        BY <1>0, <1>1, <1>f, <2>6, <3>1, <3>2, <3>3, OneLister
    <2>9. ASSUME p.op = "decline"
          PROVE  ListsInv'
      <3>1. /\ Pending' = Pending /\ Declined' = S
            /\ since' = [since EXCEPT ![held[r].key] = analyses]
        BY <1>0, <2>5, <2>9, ListPaths DEF ListOf
      <3>2. S = Declined \cup {held[r]} /\ held[r].key \in Keys
        BY <2>2, <2>4, <2>9 DEF Declined, ListOf, Proposed
      <3>3. /\ \A k \in Keys : since'[k] = IF k = held[r].key THEN analyses ELSE since[k]
            /\ since' \in [Keys -> Nat]
        BY <1>1, <3>1, <3>2
      <3>4. \A k \in Keys : since'[k] >= since[k] /\ since'[k] <= analyses
        BY <1>1, <3>3
      <3>5. \A d \in Declined' : d \in Declined \/ since'[d.key] = analyses
        BY <3>1, <3>2, <3>3
      <3>6. ASSUME NEW s \in Pending, NEW d \in S, s.key = d.key
            PROVE  since'[s.key] >= s.run
        <4>1. s.key \in Keys /\ s.run \in Nat /\ s.run <= analyses /\ since[s.key] \in Nat
          BY <1>1
        <4>2. d \in Declined => since[s.key] >= s.run
          BY <1>1, <3>6 DEF Shut
        <4>3. since'[s.key] = IF s.key = held[r].key THEN analyses ELSE since[s.key]
          BY <3>3, <4>1
        <4> QED
          BY <1>1, <3>2, <3>6, <4>1, <4>2, <4>3
      <3>7. Shut(Pending, Declined)'
        BY <3>1, <3>6 DEF Shut
      <3> QED
        BY <1>0, <1>1, <2>6, <3>1, <3>3, <3>4, <3>5, <3>7, OneLister
    <2> QED
      BY <2>1, <2>7, <2>8, <2>9 DEF ListOps
  <1> QED
    BY <1>2, <1>3 DEF Landing

LEMMA ListsStay ==
    SuggestionsInv /\ OrderInv /\ ListsInv /\ [SuggestionsNext]_svars => ListsInv'
PROOF
  <1> SUFFICES ASSUME SuggestionsInv, OrderInv, ListsInv, [SuggestionsNext]_svars, ~crossed'
               PROVE  ListsInv'
    BY DEF ListsInv
  <1>0. /\ ~crossed
        /\ \/ UNCHANGED svars
           \/ Stops
           \/ \E r \in Requests : \E q, h :
                 \/ Asked(r, q, h) \/ Applied(r, q, h) \/ Emptied(r, q, h)
                 \/ Listing(r, q, h) \/ Landing(r, q, h)
    BY StepsAre
  <1>1. /\ since \in [Keys -> Nat] /\ (\A k \in Keys : since[k] <= analyses) /\ analyses \in Nat
        /\ (\A s \in Pending : s.run <= analyses) /\ Shut(Pending, Declined)
        /\ Pending \in SUBSET Proposed /\ Declined \in SUBSET Proposed
        /\ \A s \in Pending : s.run \in Nat /\ s.key \in Keys
    BY <1>0, ListedIs DEF ListsInv, SuggestionsInv, TreesAreSound, CountsAreTyped, Proposed
  <1>2. CASE UNCHANGED svars
    <2>1. /\ disk' = disk /\ since' = since /\ analyses' = analyses /\ req' = req
          /\ held' = held
      BY <1>2 DEF svars, vars
    <2>2. Pending' = Pending /\ Declined' = Declined
      BY <2>1 DEF Pending, Declined
    <2>3. ASSUME NEW r \in Requests PROVE ListsOf(req[r], held[r])'
      <3>1. ListsOf(req[r], held[r])
        BY <1>0 DEF ListsInv
      <3> QED
        BY <2>1, <2>2, <3>1 DEF ListsOf, Saving, Shut
    <2>4. Shut(Pending, Declined)'
      BY <1>1, <2>1, <2>2 DEF Shut
    <2> QED
      BY <1>1, <2>1, <2>2, <2>3, <2>4 DEF ListsInv
  <1>3. CASE Stops
    <2>1. /\ disk' = disk /\ since' = since /\ analyses' = analyses
          /\ \A r \in Requests : req'[r] = Idle
      BY <1>3 DEF Stops, Crash
    <2>2. Pending' = Pending /\ Declined' = Declined
      BY <2>1 DEF Pending, Declined
    <2>3. \A r \in Requests : ListsOf(req[r], held[r])'
      BY <2>1 DEF ListsOf, Idle
    <2>4. Shut(Pending, Declined)'
      BY <1>1, <2>1, <2>2 DEF Shut
    <2> QED
      BY <1>1, <2>1, <2>2, <2>3, <2>4 DEF ListsInv
  \* Nothing is written, and the request keeps to the lists.
  <1>4. ASSUME NEW r \in Requests, NEW q, NEW h, Turns(r, q, h), Quiet,
               analyses' = analyses \/ analyses' = analyses + 1, ListsOf(q, h)'
        PROVE  ListsInv'
    <2>1. disk' = disk /\ since' = since
      BY <1>4 DEF Quiet
    <2>2. Pending' = Pending /\ Declined' = Declined
      BY <2>1 DEF Pending, Declined
    <2>3. /\ analyses' \in Nat /\ analyses <= analyses'
          /\ \A k \in Keys : since'[k] >= since[k] /\ since'[k] <= analyses'
      BY <1>1, <1>4, <2>1
    <2>4. \A s \in Pending : s.run <= analyses'
      BY <1>1, <1>4
    <2>5. Shut(Pending, Declined)'
      BY <1>1, <2>1, <2>2 DEF Shut
    <2> QED
      BY <1>0, <1>1, <1>4, <2>1, <2>2, <2>3, <2>4, <2>5, OneLister
  <1>5. ASSUME NEW r \in Requests, NEW q, NEW h, Asked(r, q, h) \/ Applied(r, q, h)
        PROVE  ListsInv'
    <2>1. Turns(r, q, h) /\ Quiet /\ analyses' = analyses /\ q.pc = "writing"
      BY <1>5 DEF Asked, Applied
    <2>2. ListsOf(q, h)'
      BY <2>1 DEF ListsOf
    <2> QED
      BY <1>4, <2>1, <2>2
  <1>6. ASSUME NEW r \in Requests, NEW q, NEW h, Emptied(r, q, h)
        PROVE  ListsInv'
    <2>1. /\ Turns(r, q, h) /\ Quiet /\ q.plan = <<>>
          /\ IF q.pc = "asking"
             THEN analyses' = analyses + 1 /\ q.uuid = analyses + 1 /\ h = Declined
             ELSE analyses' = analyses
      BY <1>6 DEF Emptied
    <2>2. Declined' = Declined
      BY <2>1 DEF Quiet, Declined
    <2>3. ListsOf(q, h)'
      BY <1>1, <2>1, <2>2 DEF ListsOf
    <2> QED
      BY <1>4, <2>1, <2>3
  <1>7. ASSUME NEW r \in Requests, NEW q, NEW h, Listing(r, q, h)
        PROVE  ListsInv'
    <2>1. /\ Turns(r, q, h) /\ Quiet /\ analyses' = analyses /\ q.pc = "saving"
          /\ q.base = disk
      BY <1>7 DEF Listing
    <2>2. PICK S \in SUBSET Proposed :
            q.plan = <<Put(ListOf(q.op), ListFile(S))>> /\ Drawn(r, q.op, h, S)
      BY <1>7 DEF Listing
    <2>3. Declined' = Declined /\ since' = since
      BY <2>1 DEF Quiet, Declined
    <2>4. ASSUME q.op = "analyze"
          PROVE  (\A x \in S : x.run <= analyses) /\ Shut(S, Declined)
      <3>1. /\ req[r].pc = "asking"
            /\ \A s \in S : s.run = req[r].uuid /\ ~\E x \in held[r] : x.key = s.key
        BY <2>2, <2>4 DEF Drawn
      <3>2. /\ req[r].uuid <= analyses
            /\ \A d \in Declined : (\E x \in held[r] : x.key = d.key)
                                   \/ since[d.key] >= req[r].uuid
        BY <1>0, <3>1 DEF ListsInv, ListsOf
      <3>3. ASSUME NEW s \in S, NEW d \in Declined, s.key = d.key
            PROVE  since[s.key] >= s.run
        BY <3>1, <3>2, <3>3
      <3> QED
        BY <3>1, <3>2, <3>3 DEF Shut
    <2>5. Saving(q, h)'
      <3>1. (\A x \in S : x.run <= analyses) /\ Shut(S, Declined)
            => (\A x \in S : x.run <= analyses') /\ Shut(S, Declined)'
        BY <2>1, <2>3 DEF Shut
      <3> QED
        BY <2>1, <2>2, <2>4, <3>1 DEF Saving, Drawn
    <2>6. ListsOf(q, h)'
      BY <2>1, <2>5 DEF ListsOf
    <2> QED
      BY <1>4, <2>1, <2>6
  <1>8. ASSUME NEW r \in Requests, NEW q, NEW h, Landing(r, q, h)
        PROVE  ListsInv'
    BY <1>0, <1>8, LandingLists
  <1> QED
    BY <1>0, <1>2, <1>3, <1>5, <1>6, <1>7, <1>8

\* A link an operator declined is proposed again only by an analysis that was
\* under way when it was declined: DeclinedStaysOut, a part of DecisionsStand.
THEOREM TheDeclinedStayOut == SuggestionsSpec => []DeclinedStaysOut
PROOF
  <1>1. SuggestionsInit => ListsInv
    BY ListsStart
  <1>2. (SuggestionsInv /\ OrderInv) /\ ListsInv /\ [SuggestionsNext]_svars => ListsInv'
    BY ListsStay
  <1>3. ListsInv => DeclinedStaysOut
    BY DEF ListsInv, DeclinedStaysOut, Shut
  <1> QED
    BY <1>1, <1>2, <1>3, TheTreesAreOrderly, PTL DEF SuggestionsSpec

-----------------------------------------------------------------------------
(***************************************************************************)
(* What the next step of a plan does for its request, in the tree it is    *)
(* made on.                                                                *)
(***************************************************************************)

Succeeds(t, p) ==
    /\ p.op = "replace" /\ p.plan = <<p.plan[1], p.plan[2], p.plan[3]>>
    /\ Adds(t, p.plan[1]) /\ Successor(t, p.plan[1], p.plan[2]) /\ Pair(p.plan[2], p.plan[3])

Retires(t, p) ==
    /\ p.op = "replace" /\ p.plan = <<p.plan[1], p.plan[2]>>
    /\ Pair(p.plan[1], p.plan[2]) /\ p.plan[1].at \in Loaded(t)
    /\ \E x \in Loaded(t) :
        /\ x # p.plan[1].at /\ SameName(x, p.plan[1].at)
        /\ t.files[x].uuid = t.files[p.plan[1].at].uuid

Deed(t, p, h, m) ==
    LET a == p.plan[1]
    IN  \/ p.op \in Creators /\ Adds(t, a) /\ (~m => a.at \notin Loaded(t))
        \/ Fills(t, a)
        \/ /\ Edits(t, a)
           /\ p.op = "apply" => a.file.uuid = h.key[1] /\ h.key[2] \in a.file.links
        \/ Succeeds(t, p)
        \/ Retires(t, p)
        \/ p.op = "replace" /\ Empties(t, a)
        \/ Renames(t, a)
        \/ /\ p.op = "delete" /\ a.do = "drop" /\ a.at \in Loaded(t)
           /\ t.files[a.at].uuid = p.uuid
        \/ a.do = "mkdir"
        \/ /\ a.do = "rmdir"
           /\ p.op = "wipe" \/ NamesOf(t, a.dir) = {}

LEMMA SensibleDeed ==
    ASSUME NEW U, NEW p, SoundPlan(p.plan, U), p.plan # <<>>, NEW h, NEW m, Sensible(p, h, m)
    PROVE  Deed(p.base, p, h, m)
PROOF
  <1> DEFINE a == p.plan[1]
  <1>0. 1 \in DOMAIN p.plan
    BY PlanIs
  <1>1. CASE NewArtifact(p, m)
    BY <1>1 DEF NewArtifact, Deed
  <1>2. CASE NewBlob(p, m)
    BY <1>2 DEF NewBlob, Deed
  <1>3. CASE NewCollection(p, m)
    <2>1. PICK d \in Dirs :
            \/ a.do = "mkdir"
            \/ /\ a.do = "put" /\ a.at.dir = d /\ a.at.ext = Md
               /\ a.file.form = "front" /\ a.file.shape # "blob" /\ d \in DOMAIN p.base.dirs
               /\ ~m => a.at \notin Loaded(p.base)
      BY <1>0, <1>3 DEF NewCollection
    <2>2. a.do = "put" => Adds(p.base, a)
      BY <2>1 DEF Adds, Readable
    <2>3. p.op \in Creators
      BY <1>3 DEF NewCollection
    <2> QED
      BY <2>1, <2>2, <2>3 DEF Deed
  <1>4. CASE Edit(p, h)
    BY <1>4 DEF Edit, Deed
  <1>5. CASE Rewrite(p)
    BY <1>5 DEF Rewrite, Deed
  <1>6. CASE Exchange(p)
    <2>1. \/ Fills(p.base, a)
          \/ Succeeds(p.base, p)
          \/ Retires(p.base, p)
          \/ p.op = "replace" /\ Empties(p.base, a)
      BY <1>6 DEF Exchange, Succeeds, Retires
    <2> QED
      BY <2>1 DEF Deed
  <1>7. CASE Renaming(p)
    BY <1>7 DEF Renaming, Deed
  <1>8. CASE Deletion(p)
    BY <1>8 DEF Deletion, Deed
  <1>9. CASE OfCollections(p)
    BY <1>0, <1>9 DEF OfCollections, Deed
  <1> QED
    BY <1>1, <1>2, <1>3, <1>4, <1>5, <1>6, <1>7, <1>8, <1>9 DEF Sensible

\* A write that meets nothing it has not seen does on disk what it does on its
\* snapshot.
LEMMA DeedMeets ==
    ASSUME NEW U, NEW s, NEW t, SoundTree(s, U), SoundTree(t, U),
           NEW p, SoundStep(p.plan[1], U), NEW h, NEW m, Deed(s, p, h, m),
           p.op \notin {"wipe", "analyze"}, Touched(s, p.plan[1], p.op) = Touched(t, p.plan[1], p.op)
    PROVE  Deed(t, p, h, m)
PROOF
  <1> DEFINE a == p.plan[1]
  <1>1. /\ a.do \in {"put", "drop", "dropif", "move"} =>
                \A x : SameName(x, a.at) =>
                    Agree(s, t, x) /\ (x \in Loaded(s) <=> x \in Loaded(t))
        /\ a.do \in {"mkdir", "rmdir"} =>
                \A x : x.dir = a.dir =>
                    Agree(s, t, x) /\ (x \in Loaded(s) <=> x \in Loaded(t))
        /\ Adds(s, a) => Adds(t, a)
        /\ Fills(s, a) => Fills(t, a)
        /\ Edits(s, a) => Edits(t, a)
        /\ Empties(s, a) => Empties(t, a)
        /\ Renames(s, a) => Renames(t, a)
    BY KindMeets
  <1>2. \A x \in Loaded(s) : Agree(s, t, x) => t.files[x] = s.files[x]
    BY DEF Loaded, Agree
  <1>3. SameName(a.at, a.at)
    BY DEF SameName
  <1>4. CASE Adds(s, a) /\ (~m => a.at \notin Loaded(s)) /\ p.op \in Creators
    <2>1. a.do = "put"
      BY <1>4 DEF Adds
    <2> QED
      BY <1>1, <1>3, <1>4, <2>1 DEF Deed
  <1>5. CASE Fills(s, a) \/ Renames(s, a) \/ (Empties(s, a) /\ p.op = "replace")
    BY <1>1, <1>5 DEF Deed
  <1>6. CASE Edits(s, a) /\ (p.op = "apply" => a.file.uuid = h.key[1] /\ h.key[2] \in a.file.links)
    BY <1>1, <1>6 DEF Deed
  <1>7. CASE Succeeds(s, p)
    <2> DEFINE c == p.plan[2]
    <2>1. Adds(t, a) /\ a.do = "put" /\ Successor(s, a, c)
      BY <1>1, <1>7 DEF Succeeds, Adds
    <2>2. SameName(c.at, a.at) /\ c.at \in Loaded(s)
      BY <2>1 DEF Successor, SameName
    <2>3. c.at \in Loaded(t) /\ t.files[c.at] = s.files[c.at]
      BY <1>1, <1>2, <2>1, <2>2
    <2>4. Successor(t, a, c)
      BY <2>1, <2>3 DEF Successor
    <2>5. Succeeds(t, p)
      BY <1>7, <2>1, <2>4 DEF Succeeds
    <2> QED
      BY <2>5 DEF Deed
  <1>8. CASE Retires(s, p)
    <2>1. a.do = "dropif" /\ a.at \in Loaded(s)
      BY <1>8 DEF Retires, Pair
    <2>2. PICK x \in Loaded(s) : x # a.at /\ SameName(x, a.at) /\ s.files[x].uuid = s.files[a.at].uuid
      BY <1>8 DEF Retires
    <2>3. /\ a.at \in Loaded(t) /\ t.files[a.at] = s.files[a.at]
          /\ x \in Loaded(t) /\ t.files[x] = s.files[x]
      BY <1>1, <1>2, <1>3, <2>1, <2>2
    <2>4. Retires(t, p)
      BY <1>8, <2>2, <2>3 DEF Retires
    <2> QED
      BY <2>4 DEF Deed
  <1>9. CASE /\ p.op = "delete" /\ a.do = "drop" /\ a.at \in Loaded(s)
             /\ s.files[a.at].uuid = p.uuid
    <2>1. a.at \in Loaded(t) /\ t.files[a.at] = s.files[a.at]
      BY <1>1, <1>2, <1>3, <1>9
    <2> QED
      BY <1>9, <2>1 DEF Deed
  <1>10. CASE a.do = "mkdir"
    BY <1>10 DEF Deed
  <1>11. CASE a.do = "rmdir" /\ NamesOf(s, a.dir) = {}
    <2>1. NamesOf(t, a.dir) = {}
      BY <1>1, <1>11 DEF NamesOf
    <2> QED
      BY <1>11, <2>1 DEF Deed
  <1>12. \/ Adds(s, a) /\ (~m => a.at \notin Loaded(s)) /\ p.op \in Creators
         \/ Fills(s, a) \/ Renames(s, a)
         \/ Empties(s, a) /\ p.op = "replace"
         \/ Edits(s, a) /\ (p.op = "apply" => a.file.uuid = h.key[1] /\ h.key[2] \in a.file.links)
         \/ Succeeds(s, p)
         \/ Retires(s, p)
         \/ /\ p.op = "delete" /\ a.do = "drop" /\ a.at \in Loaded(s)
            /\ s.files[a.at].uuid = p.uuid
         \/ a.do = "mkdir"
         \/ a.do = "rmdir" /\ NamesOf(s, a.dir) = {}
    BY Zenon DEF Deed
  <1> HIDE DEF a
  <1> QED
    BY <1>4, <1>5, <1>6, <1>7, <1>8, <1>9, <1>10, <1>11, <1>12

\* So of a step that lands, both in the tree on disk and in the snapshot.
LEMMA LandingDeed ==
    ASSUME SuggestionsInv, OrderInv, ~crossed, NEW r \in Requests, NEW q, NEW h,
           Landing(r, q, h), req[r].pc = "writing"
    PROVE  /\ Deed(disk, req[r], held[r], misfit)
           /\ Deed(req[r].base, req[r], held[r], misfit)
           /\ SoundTree(req[r].base, used) /\ Orderly(req[r].base)
           /\ SoundTree(disk, used) /\ Orderly(disk)
           /\ Sensible(req[r], held[r], misfit) /\ SoundStep(req[r].plan[1], used)
           /\ req[r].op # "analyze"
PROOF
  <1> DEFINE p == req[r]
  <1>1. /\ SoundPlan(p.plan, used) /\ p.plan # <<>> /\ SoundStep(p.plan[1], used)
        /\ Touched(p.base, p.plan[1], p.op) = Touched(disk, p.plan[1], p.op)
        /\ Sensible(p, held[r], misfit)
    BY DEF Landing
  <1>2. /\ SoundTree(p.base, used) /\ Orderly(p.base)
        /\ SoundTree(disk, used) /\ Orderly(disk)
    BY DEF OrderInv, OrderOf, SuggestionsInv, TreesAreSound
  <1> HIDE DEF p
  <1>3. Deed(p.base, p, held[r], misfit)
    BY <1>1, SensibleDeed
  <1>4. p.op # "analyze"
    BY <1>1, SensibleOps DEF ListOps
  <1>5. CASE p.op # "wipe"
    <2>1. Deed(disk, p, held[r], misfit)
      BY <1>1, <1>2, <1>3, <1>4, <1>5, DeedMeets
    <2> QED
      BY <1>1, <1>2, <1>3, <1>4, <2>1 DEF p
  <1>6. CASE p.op = "wipe"
    <2>1. p.plan[1].do = "rmdir"
      BY <1>1, <1>6, SensibleOps, PlanIs
    <2>2. Deed(disk, p, held[r], misfit)
      BY <1>6, <2>1 DEF Deed
    <2> QED
      BY <1>1, <1>2, <1>3, <1>4, <2>2 DEF p
  <1> QED
    BY <1>5, <1>6

-----------------------------------------------------------------------------
(***************************************************************************)
(* Identities that were handed out and are not written yet.                *)
(***************************************************************************)

\* q has still to write the first file of u.
Bears(q, u) ==
    /\ q.op \in Creators /\ u # None
    /\ \E i \in DOMAIN q.plan : q.plan[i].do = "put" /\ q.plan[i].file.uuid = u

Knows(t) == {t.files[p].uuid : p \in DOMAIN t.files}
KnownTo(q) ==
    IF q.pc \in {"saving", "writing"} THEN Knows(q.base)
    ELSE IF q.pc = "read" THEN Knows(q.seen) ELSE {}

\* No file has the identity, in any tree that somebody may write from.
Unborn(u) ==
    /\ u \in used /\ u \notin Knows(disk) /\ u \notin Knows(world)
    /\ \A s \in Requests : u \notin KnownTo(req[s])
    /\ \A k \in linked : k[1] # u

BornInv ==
    ~crossed =>
        /\ \A r \in Requests : \A u : Bears(req[r], u) =>
            Unborn(u) /\ \A s \in Requests : s # r => ~Bears(req[s], u)
        /\ \A k \in linked : k[1] \in used
        /\ \A r \in Requests : req[r].pc = "writing" /\ req[r].op # "apply" => req[r].op \in ops

LEMMA KnowsAfter ==
    ASSUME NEW U, NEW t, SoundTree(t, U), NEW a, SoundStep(a, U),
           a.do = "move" => a.at \in DOMAIN t.files
    PROVE  \A u \in Knows(After(t, a)) : u \in Knows(t) \/ (a.do = "put" /\ u = a.file.uuid)
PROOF
  <1> DEFINE new == After(t, a)
  <1>1. CASE a.do = "put"
    <2>1. /\ DOMAIN new.files = DOMAIN t.files \cup {a.at} /\ new.files[a.at] = a.file
          /\ \A q \in DOMAIN t.files : q # a.at => new.files[q] = t.files[q]
      BY <1>1, AfterIs
    <2> HIDE DEF new
    <2> QED
      BY <1>1, <2>1 DEF Knows, new
  <1>2. CASE a.do \in {"drop", "dropif"}
    <2>1. /\ DOMAIN new.files = DOMAIN t.files \ {a.at}
          /\ \A q \in DOMAIN t.files : q # a.at => new.files[q] = t.files[q]
      BY <1>2, AfterIs
    <2> QED
      BY <2>1 DEF Knows
  <1>3. CASE a.do = "move"
    <2>1. /\ DOMAIN new.files = (DOMAIN t.files \ {a.at}) \cup {a.to}
          /\ new.files[a.to] = t.files[a.at]
          /\ \A q \in DOMAIN t.files \ {a.at} : q # a.to => new.files[q] = t.files[q]
      BY <1>3, AfterIs
    <2> HIDE DEF new
    <2> QED
      BY <1>3, <2>1 DEF Knows, new
  <1>4. CASE a.do = "mkdir"
    <2>1. new.files = t.files
      BY <1>4, AfterIs
    <2> QED
      BY <2>1 DEF Knows
  <1>5. CASE a.do = "rmdir"
    <2>1. /\ \A q : q \in DOMAIN new.files <=> q \in DOMAIN t.files /\ q.dir # a.dir
          /\ \A q \in DOMAIN new.files : new.files[q] = t.files[q]
      BY <1>5, AfterIs
    <2> QED
      BY <2>1 DEF Knows
  <1> QED
    BY <1>1, <1>2, <1>3, <1>4, <1>5 DEF SoundStep, Steps

\* What is known was handed out.
LEMMA KnownIsUsed ==
    /\ \A U, t : SoundTree(t, U) => Knows(t) \subseteq U \cup {None}
    /\ SuggestionsInv /\ OrderInv /\ ~crossed =>
        \A s \in Requests : KnownTo(req[s]) \subseteq used \cup {None}
PROOF
  <1>1. ASSUME NEW U, NEW t, SoundTree(t, U) PROVE Knows(t) \subseteq U \cup {None}
    BY <1>1, TreeIs DEF Knows, SoundAt, SoundFile
  <1>2. ASSUME SuggestionsInv, OrderInv, ~crossed, NEW s \in Requests
        PROVE  KnownTo(req[s]) \subseteq used \cup {None}
    <2>1. /\ req[s].pc \in {"saving", "writing"} => SoundTree(req[s].base, used)
          /\ req[s].pc = "read" => SoundTree(req[s].seen, used)
      BY <1>2 DEF SuggestionsInv, RequestsAreSound, SoundRequest, OrderInv, OrderOf
    <2> QED
      BY <1>1, <2>1 DEF KnownTo
  <1> QED
    BY <1>1, <1>2

\* Of a creator's plan every identity is written once.
LEMMA BearsOnce ==
    ASSUME NEW U, NEW p, SoundPlan(p.plan, U), p.plan # <<>>, NEW h, NEW m, Sensible(p, h, m),
           NEW q, q.op = p.op, q.plan = Tail(p.plan), NEW u, Bears(q, u)
    PROVE  Bears(p, u) /\ ~(p.plan[1].do = "put" /\ p.plan[1].file.uuid = u)
PROOF
  <1> DEFINE a == p.plan[1]
  <1>0. /\ 1 \in DOMAIN p.plan /\ DOMAIN p.plan \subseteq Nat
        /\ \A i \in DOMAIN q.plan : i + 1 \in DOMAIN p.plan /\ q.plan[i] = p.plan[i + 1]
        /\ p.plan \in Seq(Steps)
    BY PlanIs DEF SoundPlan
  <1>1. PICK i \in DOMAIN q.plan : q.plan[i].do = "put" /\ q.plan[i].file.uuid = u
    BY DEF Bears
  <1>2. i \in Nat \ {0}
    <2>1. Tail(p.plan) \in Seq(Steps)
      BY <1>0, PlansAreSound DEF SoundPlan
    <2> QED
      BY <2>1
  <1>3. i + 1 \in DOMAIN p.plan /\ i + 1 # 1 /\ p.plan[i + 1] = q.plan[i]
    BY <1>0, <1>2
  <1>4. Bears(p, u)
    BY <1>1, <1>3 DEF Bears
  <1>5. ASSUME a.do = "put", a.file.uuid = u PROVE FALSE
    <2>1. CASE NewArtifact(p, m)
      <3>1. p.plan = <<a>>
        BY <2>1 DEF NewArtifact
      <3>2. DOMAIN p.plan = {1}
        BY <3>1
      <3> QED
        BY <1>3, <3>2
    <2>2. CASE NewBlob(p, m)
      BY <1>5, <2>2 DEF NewBlob, Fills, Bears, Bytes, Artifact
    <2>3. CASE NewCollection(p, m)
      BY <1>0, <1>1, <1>3, <1>5, <2>3 DEF NewCollection
    <2> QED
      BY <2>1, <2>2, <2>3, SensibleOps DEF Bears
  <1> QED
    BY <1>4, <1>5

\* What is written without being new was there before.
LEMMA WritesOfTheKnown ==
    ASSUME NEW U, NEW p, SoundTree(p.base, U), NEW h, NEW m, Deed(p.base, p, h, m),
           p.op \notin Creators, p.plan[1].do = "put"
    PROVE  p.plan[1].file.uuid \in Knows(p.base) \cup {None}
PROOF
  <1> DEFINE a == p.plan[1]
             t == p.base
  <1>0. \A x \in Loaded(t) : t.files[x].uuid \in Knows(t)
    BY DEF Loaded, Knows
  <1>1. CASE Fills(t, a)
    BY <1>1 DEF Fills, Bytes, Artifact
  <1>2. CASE Edits(t, a)
    BY <1>0, <1>2 DEF Edits, Same
  <1>3. CASE Succeeds(t, p)
    BY <1>0, <1>3 DEF Succeeds, Successor
  <1>4. ~Retires(t, p) /\ ~Empties(t, a) /\ ~Renames(t, a)
    BY DEF Retires, Empties, Renames, Pair
  <1> HIDE DEF a, t
  <1> QED
    BY <1>1, <1>2, <1>3, <1>4 DEF Deed, a, t

LEMMA BornStarts == SuggestionsInit => BornInv
PROOF
  BY DEF SuggestionsInit, Init, BornInv, Bears, Idle, Creators

\* A turn that writes nothing and has nothing new to write.
LEMMA BornTurns ==
    ASSUME SuggestionsInv, BornInv, ~crossed, NEW r \in Requests, NEW q, NEW h,
           Turns(r, q, h), Quiet, used' = used, \A u : ~Bears(q, u),
           Knows(world') \subseteq Knows(world) \cup KnownTo(req[r]),
           KnownTo(q) \subseteq Knows(disk) \cup Knows(world),
           q.pc = "writing" => q.op = "apply"
    PROVE  BornInv'
PROOF
  <1>1. \A s \in Requests : req'[s] = IF s = r THEN q ELSE req[s]
    BY DEF SuggestionsInv, RequestsAreSound, Turns
  <1>2. disk' = disk /\ linked' = linked /\ ops' = ops
    BY DEF Quiet
  <1>3. ASSUME NEW u, Unborn(u) PROVE Unborn(u)'
    BY <1>1, <1>2, <1>3 DEF Unborn
  <1>4. \A s \in Requests : \A u : Bears(req'[s], u) => s # r /\ Bears(req[s], u)
    BY <1>1
  <1>5. /\ \A s \in Requests : \A u : Bears(req[s], u) =>
                Unborn(u) /\ \A x \in Requests : x # s => ~Bears(req[x], u)
        /\ \A k \in linked : k[1] \in used
        /\ \A s \in Requests : req[s].pc = "writing" /\ req[s].op # "apply" => req[s].op \in ops
    BY DEF BornInv
  <1>6. \A s \in Requests : \A u : Bears(req'[s], u) =>
                Unborn(u)' /\ \A x \in Requests : x # s => ~Bears(req'[x], u)
    BY <1>3, <1>4, <1>5
  <1>7. /\ \A k \in linked' : k[1] \in used'
        /\ \A s \in Requests : req'[s].pc = "writing" /\ req'[s].op # "apply" => req'[s].op \in ops'
    BY <1>1, <1>2, <1>5
  <1> QED
    BY <1>6, <1>7 DEF BornInv

\* A request that is let through bears what was handed out for it.
LEMMA BornAsked ==
    ASSUME SuggestionsInv, OrderInv, BornInv, ~crossed, NEW r \in Requests, NEW q, NEW h,
           Asked(r, q, h)
    PROVE  BornInv'
PROOF
  <1>1. \A s \in Requests : req'[s] = IF s = r THEN q ELSE req[s]
    BY DEF SuggestionsInv, RequestsAreSound, Asked, Turns
  <1>2. disk' = disk /\ world' = world /\ linked' = linked /\ ops' = ops
    BY DEF Asked, Quiet
  <1>3. PICK news : used' = used \cup news /\ news \cap used = {} /\ Fathered(q.op, q.plan, news)
    BY DEF Asked
  <1>4. /\ q.pc = "writing" /\ q.base \in {disk, world}
        /\ q.op \in ops \/ (req[r].pc = "writing" /\ q.op = req[r].op /\ q.op # "apply")
    BY DEF Asked
  <1>5. \A u : Bears(q, u) => u \in news
    BY <1>3 DEF Bears, Fathered
  <1>6. /\ \A s \in Requests : \A u : Bears(req[s], u) =>
                Unborn(u) /\ \A x \in Requests : x # s => ~Bears(req[x], u)
        /\ \A k \in linked : k[1] \in used
        /\ \A s \in Requests : req[s].pc = "writing" /\ req[s].op # "apply" => req[s].op \in ops
    BY DEF BornInv
  <1>7. /\ Knows(disk) \subseteq used \cup {None} /\ Knows(world) \subseteq used \cup {None}
        /\ \A s \in Requests : KnownTo(req[s]) \subseteq used \cup {None}
    BY KnownIsUsed DEF SuggestionsInv, TreesAreSound
  <1>8. KnownTo(q) \in {Knows(disk), Knows(world)}
    BY <1>4 DEF KnownTo
  <1>9. ASSUME NEW u, Unborn(u) PROVE Unborn(u)' /\ ~Bears(q, u)
    BY <1>1, <1>2, <1>3, <1>5, <1>8, <1>9 DEF Unborn
  <1>10. ASSUME NEW u, Bears(q, u)
         PROVE  Unborn(u)' /\ \A s \in Requests : ~Bears(req[s], u)
    <2>1. u \in news /\ u \notin used /\ u # None /\ u \in used'
      BY <1>3, <1>5, <1>10 DEF Bears
    <2>2. \A s \in Requests : ~Bears(req[s], u)
      BY <1>6, <2>1 DEF Unborn
    <2>3. Unborn(u)'
      BY <1>1, <1>2, <1>6, <1>7, <1>8, <2>1 DEF Unborn
    <2> QED
      BY <2>2, <2>3
  <1>11. \A s \in Requests : \A u : Bears(req'[s], u) =>
                Unborn(u)' /\ \A x \in Requests : x # s => ~Bears(req'[x], u)
    BY <1>1, <1>6, <1>9, <1>10
  <1>12. /\ \A k \in linked' : k[1] \in used'
         /\ \A s \in Requests : req'[s].pc = "writing" /\ req'[s].op # "apply" => req'[s].op \in ops'
    BY <1>1, <1>2, <1>3, <1>4, <1>6
  <1> QED
    BY <1>11, <1>12 DEF BornInv

\* What is written is known from then on.
LEMMA BornLands ==
    ASSUME SuggestionsInv, OrderInv, BornInv, ~crossed, NEW r \in Requests, NEW q, NEW h,
           Landing(r, q, h)
    PROVE  BornInv'
PROOF
  <1> DEFINE p == req[r]
             a == p.plan[1]
  <1>1. \A s \in Requests : req'[s] = IF s = r THEN q ELSE req[s]
    BY DEF SuggestionsInv, RequestsAreSound, Landing, Turns
  <1>2. /\ disk' = After(disk, a) /\ world' = world /\ ops' = ops /\ used' = used
        /\ q.pc = p.pc /\ q.op = p.op /\ q.plan = Tail(p.plan) /\ q.base = After(p.base, a)
        /\ SoundStep(a, used) /\ SoundPlan(p.plan, used) /\ p.plan # <<>>
        /\ linked' = (IF p.op = "apply" /\ InOneFile(held[r].key[1])
                      THEN linked \cup {held[r].key} ELSE linked)
        /\ Kind(disk, a) /\ Kind(p.base, a) /\ p.pc \in {"saving", "writing"}
    BY DEF Landing
  <1>3. /\ SoundTree(disk, used) /\ SoundTree(p.base, used)
        /\ a.do = "move" => a.at \in DOMAIN disk.files /\ a.at \in DOMAIN p.base.files
    <2>1. SoundTree(disk, used) /\ SoundTree(p.base, used)
      BY <1>2 DEF OrderInv, OrderOf, SuggestionsInv, TreesAreSound
    <2>2. a.do = "move" => a.at \in Loaded(disk) /\ a.at \in Loaded(p.base)
      BY <1>2 DEF Kind, Adds, Fills, Edits, Takes, Empties, Renames, Lists
    <2> QED
      BY <2>1, <2>2 DEF Loaded
  <1>4. /\ \A u \in Knows(disk') : u \in Knows(disk) \/ (a.do = "put" /\ u = a.file.uuid)
        /\ \A u \in KnownTo(q) : u \in KnownTo(p) \/ (a.do = "put" /\ u = a.file.uuid)
    BY <1>2, <1>3, KnowsAfter DEF KnownTo
  <1>6. /\ \A s \in Requests : \A u : Bears(req[s], u) =>
                Unborn(u) /\ \A x \in Requests : x # s => ~Bears(req[x], u)
        /\ \A k \in linked : k[1] \in used
        /\ \A s \in Requests : req[s].pc = "writing" /\ req[s].op # "apply" => req[s].op \in ops
    BY DEF BornInv
  \* What is still to be written for the first time is not what was written,
  <1>7. ASSUME NEW s \in Requests, NEW u, Bears(req'[s], u)
        PROVE  Bears(req[s], u) /\ ~(a.do = "put" /\ u = a.file.uuid)
    <2>1. CASE p.pc = "saving"
      <3>1. p.op \in ListOps /\ Lists(a) /\ q.plan = <<>>
        BY <2>1 DEF Landing
      <3>2. a.do = "put" /\ a.at.ext = List
        BY <3>1, ExtKinds DEF Lists
      <3>3. a.file.uuid = None
        BY <1>2, <3>2 DEF SoundStep, SoundAt, SoundFile, File, ListOfSuggestions, StoredArtifact,
                          BytesFile, Of
      <3>4. s # r
        BY <1>1, <1>7, <3>1 DEF Bears
      <3> QED
        BY <1>1, <1>7, <3>3, <3>4 DEF Bears
    <2>2. CASE p.pc = "writing"
      <3>1. Sensible(p, held[r], misfit) /\ Deed(p.base, p, held[r], misfit)
        BY <2>2, LandingDeed
      <3>2. CASE s = r
        <4>1. Bears(q, u)
          BY <1>1, <1>7, <3>2
        <4> HIDE DEF p
        <4>2. Bears(p, u) /\ ~(a.do = "put" /\ a.file.uuid = u)
          BY <1>2, <3>1, <4>1, BearsOnce
        <4> QED
          BY <3>2, <4>2 DEF p
      <3>3. CASE s # r
        <4>0. Bears(req[s], u)
          BY <1>1, <1>7, <3>3
        <4>1. Bears(req[s], u) /\ u # None /\ ~Bears(p, u)
          BY <1>6, <3>3, <4>0 DEF Bears
        <4>2. u \notin KnownTo(p)
          BY <1>6, <4>1 DEF Unborn
        <4>3. CASE p.op \in Creators
          <5>1. 1 \in DOMAIN p.plan
            BY <1>2, PlanIs
          <5> QED
            BY <4>1, <4>3, <5>1 DEF Bears
        <4>4. CASE p.op \notin Creators
          <5>1. a.do = "put" => a.file.uuid \in Knows(p.base) \cup {None}
            <6> HIDE DEF p
            <6> QED
              BY <1>3, <3>1, <4>4, WritesOfTheKnown
          <5> QED
            BY <2>2, <4>1, <4>2, <5>1 DEF KnownTo
        <4> QED
          BY <4>3, <4>4
      <3> QED
        BY <3>2, <3>3
    <2> QED
      BY <1>2, <2>1, <2>2
  \* and a link is accepted for what is known.
  <1>8. p.op = "apply" => /\ held[r].key[1] \in used
                          /\ held[r].key[1] \in KnownTo(p)
    <2> SUFFICES ASSUME p.op = "apply"
                 PROVE  held[r].key[1] \in used /\ held[r].key[1] \in KnownTo(p)
      OBVIOUS
    <2>1. p.pc = "writing" /\ Sensible(p, held[r], misfit)
      BY <1>2 DEF Landing, ListOps
    <2>2. Edit(p, held[r])
      BY <2>1, SensibleOps
    <2>3. a.at \in Loaded(p.base) /\ p.base.files[a.at].uuid = held[r].key[1]
      BY <2>2 DEF Edit, Edits, Same
    <2>4. held[r].key[1] \in used
      BY <1>3, <2>3, LoadedIs
    <2> QED
      BY <2>1, <2>3, <2>4 DEF KnownTo, Knows, Loaded
  <1> HIDE DEF p, a
  <1>9. ASSUME NEW s \in Requests, NEW u, Bears(req'[s], u)
        PROVE  Unborn(u)'
    <2>1. Bears(req[s], u) /\ ~(a.do = "put" /\ u = a.file.uuid)
      BY <1>7, <1>9
    <2>2. Unborn(u)
      BY <1>6, <2>1
    <2>3. u \notin KnownTo(p)
      BY <2>2 DEF Unborn, p
    <2>4. \A k \in linked' : k[1] # u
      BY <1>2, <1>8, <2>2, <2>3 DEF Unborn
    <2>5. \A x \in Requests : u \notin KnownTo(req'[x])
      BY <1>1, <1>4, <2>1, <2>2, <2>3 DEF Unborn
    <2> QED
      BY <1>2, <1>4, <2>1, <2>2, <2>4, <2>5 DEF Unborn
  <1>10. \A s \in Requests : \A u : Bears(req'[s], u) =>
                Unborn(u)' /\ \A x \in Requests : x # s => ~Bears(req'[x], u)
    BY <1>6, <1>7, <1>9
  <1>11. \A k \in linked' : k[1] \in used'
    BY <1>2, <1>6, <1>8
  <1>12. \A s \in Requests : req'[s].pc = "writing" /\ req'[s].op # "apply" => req'[s].op \in ops'
    BY <1>1, <1>2, <1>6 DEF p
  <1> QED
    BY <1>10, <1>11, <1>12 DEF BornInv

LEMMA BornStays ==
    SuggestionsInv /\ OrderInv /\ BornInv /\ [SuggestionsNext]_svars => BornInv'
PROOF
  <1> SUFFICES ASSUME SuggestionsInv, OrderInv, BornInv, [SuggestionsNext]_svars, ~crossed'
               PROVE  BornInv'
    BY DEF BornInv
  <1>0. /\ ~crossed
        /\ \/ UNCHANGED svars
           \/ Stops
           \/ \E r \in Requests : \E q, h :
                 \/ Asked(r, q, h) \/ Applied(r, q, h) \/ Emptied(r, q, h)
                 \/ Listing(r, q, h) \/ Landing(r, q, h)
    BY StepsAre
  <1>1. CASE UNCHANGED svars
    BY <1>1 DEF svars, vars, BornInv, Unborn, KnownTo
  <1>2. CASE Stops
    <2>1. /\ \A r \in Requests : req'[r] = Idle
          /\ linked' = linked /\ used' = used
      BY <1>2 DEF Stops, Crash
    <2>2. \A r \in Requests : \A u : ~Bears(req'[r], u)
      BY <2>1 DEF Bears, Idle
    <2>3. \A r \in Requests : req'[r].pc # "writing"
      BY <2>1 DEF Idle
    <2> QED
      BY <1>0, <2>1, <2>2, <2>3 DEF BornInv
  <1>3. ASSUME NEW r \in Requests, NEW q, NEW h, Applied(r, q, h)
        PROVE  BornInv'
    <2>1. /\ Turns(r, q, h) /\ Quiet /\ used' = used /\ world' = world
          /\ q.op = "apply" /\ q.base = world /\ q.pc = "writing"
      BY <1>3 DEF Applied
    <2>2. (\A u : ~Bears(q, u)) /\ KnownTo(q) = Knows(world)
      BY <2>1 DEF Bears, Creators, KnownTo
    <2> QED
      BY <1>0, <2>1, <2>2, BornTurns
  <1>4. ASSUME NEW r \in Requests, NEW q, NEW h, Listing(r, q, h)
        PROVE  BornInv'
    <2>1. /\ Turns(r, q, h) /\ Quiet /\ used' = used /\ world' = world
          /\ q.op \in ListOps /\ q.base = disk /\ q.pc = "saving"
      BY <1>4 DEF Listing
    <2>2. (\A u : ~Bears(q, u)) /\ KnownTo(q) = Knows(disk)
      BY <2>1 DEF Bears, Creators, KnownTo, ListOps
    <2> QED
      BY <1>0, <2>1, <2>2, BornTurns
  <1>5. ASSUME NEW r \in Requests, NEW q, NEW h, Emptied(r, q, h)
        PROVE  BornInv'
    <2>1. /\ Turns(r, q, h) /\ Quiet /\ used' = used /\ q.plan = <<>>
          /\ \/ q.pc \in {"idle", "asking"} /\ world' = world
             \/ q.pc = "read" /\ world' = world /\ q.seen = disk
             \/ q.pc = "published" /\ req[r].pc = "read" /\ world' = req[r].seen
      BY <1>5 DEF Emptied
    <2>2. \A u : ~Bears(q, u)
      BY <2>1 DEF Bears
    <2>3. /\ KnownTo(q) \subseteq Knows(disk)
          /\ Knows(world') \subseteq Knows(world) \cup KnownTo(req[r])
      BY <2>1 DEF KnownTo
    <2> QED
      BY <1>0, <2>1, <2>2, <2>3, BornTurns
  <1> QED
    BY <1>0, <1>1, <1>2, <1>3, <1>4, <1>5, BornAsked, BornLands

-----------------------------------------------------------------------------
(***************************************************************************)
(* What is loaded after a step of a request, and how the name it is about  *)
(* looked in its snapshot.                                                 *)
(***************************************************************************)

LEMMA LandingLoads ==
    ASSUME SuggestionsInv, OrderInv, ~crossed, NEW r \in Requests, NEW q, NEW h,
           Landing(r, q, h)
    PROVE  \A x \in Loaded(disk') :
            /\ \/ x \in Loaded(disk) /\ Same(disk'.files[x], disk.files[x])
               \/ /\ x = req[r].plan[1].at /\ req[r].plan[1].do = "put"
                  /\ req[r].pc = "writing"
                  /\ req[r].op \in Creators \/ Succeeds(disk, req[r])
               \/ /\ x = req[r].plan[1].to /\ Renames(disk, req[r].plan[1])
                  /\ req[r].plan[1].at.ext = Md
                  /\ disk'.files[x] = disk.files[req[r].plan[1].at]
            /\ req[r].plan[1].do = "put" /\ x = req[r].plan[1].at
                    => disk'.files[x] = req[r].plan[1].file
            /\ req[r].plan[1].do \in {"drop", "dropif", "move"} => x # req[r].plan[1].at
            /\ disk'.files[x].uuid \in Uuids /\ disk'.files[x].uuid # None
PROOF
  <1> DEFINE p == req[r]
             a == p.plan[1]
  <1>1. /\ SoundTree(disk, used) /\ Orderly(disk) /\ SoundStep(a, used) /\ Kind(disk, a)
        /\ disk' = After(disk, a) /\ p.pc \in {"writing", "saving"}
    BY DEF OrderInv, SuggestionsInv, TreesAreSound, Landing
  <1>2. \A x \in Loaded(disk') :
            /\ \/ x \in Loaded(disk) /\ Same(disk'.files[x], disk.files[x])
               \/ x = a.at /\ Adds(disk, a)
               \/ x = a.to /\ Renames(disk, a) /\ a.at.ext = Md
                  /\ disk'.files[x] = disk.files[a.at]
            /\ a.do = "put" /\ x = a.at => disk'.files[x] = a.file
            /\ a.do \in {"drop", "dropif", "move"} => x # a.at
    BY <1>1, KindLoads
  <1>3. \A x \in Loaded(disk') : disk'.files[x].uuid \in Uuids /\ disk'.files[x].uuid # None
    <2>1. SoundTree(disk', used)
      BY <1>1, KindKeepsOrder
    <2> QED
      BY <2>1, LoadedIs DEF StoredArtifact, Of
  <1> HIDE DEF p, a
  <1>4. ASSUME NEW x \in Loaded(disk'), x = a.at, Adds(disk, a)
        PROVE  \/ x \in Loaded(disk) /\ Same(disk'.files[x], disk.files[x])
               \/ /\ a.do = "put" /\ p.pc = "writing"
                  /\ p.op \in Creators \/ Succeeds(disk, p)
    <2>1. a.do = "put" /\ ~IsBin(a.at) /\ a.at.ext # List
      BY <1>4, ExtKinds DEF Adds, Readable, IsSidecar, IsBin
    <2>2. p.pc = "writing"
      BY <1>1, <2>1, ExtKinds DEF Landing, Lists, p, a
    <2>3. Deed(disk, p, held[r], misfit)
      BY <2>2, LandingDeed DEF p
    <2>4. p.op \in Creators \/ Succeeds(disk, p) \/ Edits(disk, a)
      BY <2>1, <2>3 DEF Deed, a, Fills, Retires, Pair, Empties, Renames
    <2>5. Edits(disk, a) => x \in Loaded(disk) /\ Same(disk'.files[x], disk.files[x])
      BY <1>2, <1>4, <2>1 DEF Edits
    <2> QED
      BY <2>1, <2>2, <2>4, <2>5
  <1>5. ASSUME NEW x \in Loaded(disk')
        PROVE  \/ x \in Loaded(disk) /\ Same(disk'.files[x], disk.files[x])
               \/ /\ x = a.at /\ a.do = "put" /\ p.pc = "writing"
                  /\ p.op \in Creators \/ Succeeds(disk, p)
               \/ x = a.to /\ Renames(disk, a) /\ a.at.ext = Md
                  /\ disk'.files[x] = disk.files[a.at]
    BY <1>2, <1>4
  <1> QED
    BY <1>2, <1>3, <1>5 DEF p, a

LEMMA LandingSlot ==
    ASSUME SuggestionsInv, OrderInv, ~crossed, NEW r \in Requests, NEW q, NEW h,
           Landing(r, q, h), req[r].pc = "writing",
           req[r].plan[1].do \in {"put", "drop", "dropif", "move"}
    PROVE  \A x : SameName(x, req[r].plan[1].at) =>
            /\ x \in Loaded(req[r].base) <=> x \in Loaded(disk)
            /\ x \in Loaded(disk) => req[r].base.files[x] = disk.files[x]
PROOF
  <1> DEFINE p == req[r]
             a == p.plan[1]
  <1>1. /\ SoundTree(disk, used) /\ SoundTree(p.base, used) /\ SoundStep(a, used)
        /\ Sensible(p, held[r], misfit) /\ p.op # "analyze"
    BY LandingDeed
  <1>2. Touched(disk, a, p.op) = Touched(p.base, a, p.op) /\ p.plan # <<>> /\ SoundPlan(p.plan, used)
    BY DEF Landing
  <1>3. p.op # "wipe"
    <2>1. 1 \in DOMAIN p.plan
      BY <1>2, PlanIs
    <2>2. p.op = "wipe" => a.do = "rmdir"
      BY <1>1, <2>1, SensibleOps
    <2> QED
      BY <2>2
  <1>4. \A x : SameName(x, a.at) =>
            Agree(disk, p.base, x) /\ (x \in Loaded(disk) <=> x \in Loaded(p.base))
    BY <1>1, <1>2, <1>3, KindMeets
  <1> QED
    BY <1>4 DEF Agree, Loaded

-----------------------------------------------------------------------------
(***************************************************************************)
(* One identity, one artifact: a blob that is being replaced has two sets  *)
(* of metadata, until the request that replaces it takes the old one away. *)
(***************************************************************************)

Twins(t, x, y) ==
    x \in Loaded(t) /\ y \in Loaded(t) /\ x # y /\ t.files[x].uuid = t.files[y].uuid

\* q is about to take one of every two away.
Finishing(q, x) ==
    /\ q.pc = "writing" /\ q.op = "replace" /\ q.plan = <<q.plan[1], q.plan[2]>>
    /\ Pair(q.plan[1], q.plan[2]) /\ SameName(q.plan[1].at, x)
    /\ \A y, z : Twins(q.base, y, z) /\ SameName(y, x) /\ SameName(z, x)
                 => q.plan[1].at \in {y, z}

TwinsInv ==
    ~crossed =>
        \A x, y : Twins(disk, x, y) =>
            /\ "replace" \in ops /\ SameName(x, y)
            /\ disk.files[x].shape = "blob" /\ disk.files[y].shape = "blob"
            /\ Slot(x) \in halved \/ \E r \in Requests : Finishing(req[r], x)

LEMMA OfOneName ==
    /\ \A x : SameName(x, x)
    /\ \A x, y : SameName(x, y) => SameName(y, x)
    /\ \A x, y, z : SameName(x, y) /\ SameName(y, z) => SameName(x, z)
    /\ \A q, x, y : Finishing(q, x) /\ SameName(x, y) => Finishing(q, y)
    /\ \A t, x, y : Twins(t, x, y) => Twins(t, y, x)
PROOF
  BY DEF SameName, Finishing, Twins

\* What is still to be finished counts as cut short if it stops here.
LEMMA FinishingCuts ==
    ASSUME NEW r, NEW x, Finishing(req[r], x)
    PROVE  Slot(x) \in Cut(r) /\ req[r].plan # <<>>
PROOF
  <1> DEFINE v == req[r].plan
  <1>1. v = <<v[1], v[2]>> /\ v[1].do = "dropif" /\ SameName(v[1].at, x)
    BY DEF Finishing, Pair
  <1> HIDE DEF v
  <1>2. 1 \in DOMAIN v /\ v # <<>>
    <2>1. \A y, z : 1 \in DOMAIN <<y, z>> /\ <<y, z>> # <<>>
      OBVIOUS
    <2> QED
      BY <1>1, <2>1
  <1>3. Slot(v[1].at) = Slot(x)
    BY <1>1 DEF Slot, SameName
  <1> QED
    BY <1>1, <1>2, <1>3 DEF Cut, v

LEMMA TwinsStart == SuggestionsInit => TwinsInv
PROOF
  <1> SUFFICES ASSUME SuggestionsInit, NEW x, NEW y, Twins(disk, x, y) PROVE FALSE
    BY DEF TwinsInv
  <1>1. PICK s \in Scenes : disk = s.tree
    BY DEF SuggestionsInit, Init
  <1>2. x \in Loaded(disk) /\ y \in Loaded(disk)
        /\ x \in DOMAIN disk.files /\ y \in DOMAIN disk.files
    BY DEF Twins, Loaded
  <1>3. SoundTree(disk, used)
    BY StartsSound DEF SuggestionsInv, TreesAreSound
  <1>4. disk.files[x].uuid # None
    BY <1>2, <1>3, LoadedIs DEF StoredArtifact, Of
  <1> QED
    BY <1>1, <1>2, <1>4, ScenesAssumption DEF Twins

\* A replacement takes one of two away, or has just brought the second.
LEMMA SucceedsFinishes ==
    ASSUME SuggestionsInv, OrderInv, TwinsInv, ~crossed,
           NEW r \in Requests, NEW q, NEW h,
           Landing(r, q, h), req[r].pc = "writing", Succeeds(disk, req[r])
    PROVE  \/ Slot(req[r].plan[1].at) \in halved
           \/ \E s \in Requests : Finishing(req'[s], req[r].plan[1].at)
PROOF
  <1> DEFINE p == req[r]
             a == p.plan[1]
             c == p.plan[2]
             e == p.plan[3]
  <1>1. \A s \in Requests : req'[s] = IF s = r THEN q ELSE req[s]
    BY DEF SuggestionsInv, RequestsAreSound, Landing, Turns
  <1>2. /\ q.pc = "writing" /\ q.op = p.op /\ q.plan = Tail(p.plan) /\ q.base = After(p.base, a)
        /\ Kind(p.base, a) /\ SoundStep(a, used)
    BY DEF Landing
  <1>3. /\ p.op = "replace" /\ p.plan = <<a, c, e>> /\ a.do = "put" /\ Pair(c, e)
        /\ SameName(a.at, c.at) /\ c.at \in Loaded(disk) /\ disk.files[c.at].uuid = a.file.uuid
    BY DEF Succeeds, Successor
  <1>4. SoundTree(p.base, used) /\ Orderly(p.base)
    BY LandingDeed
  <1>5. \A x : SameName(x, a.at) =>
            /\ x \in Loaded(p.base) <=> x \in Loaded(disk)
            /\ x \in Loaded(disk) => p.base.files[x] = disk.files[x]
    BY <1>3, LandingSlot
  <1> HIDE DEF p, a, c, e
  <1>6. q.plan = <<q.plan[1], q.plan[2]>> /\ q.plan[1] = c /\ q.plan[2] = e
    <2> DEFINE v == q.plan
    <2>1. v = <<c, e>>
      BY <1>2, <1>3, Tails
    <2> HIDE DEF v
    <2>2. /\ v[1] = c
          /\ v[2] = e
          /\ v = <<v[1], v[2]>>
      BY <2>1, Entries
    <2> QED
      BY <2>2 DEF v
  <1>7. CASE \E y, z : Twins(disk, y, z) /\ SameName(y, a.at)
    <2>1. PICK y, z : Twins(disk, y, z) /\ SameName(y, a.at)
      BY <1>7
    <2>0. Slot(y) = Slot(a.at)
      BY <2>1 DEF Slot, SameName
    <2> SUFFICES ASSUME Slot(y) \notin halved PROVE \E s \in Requests : Finishing(req'[s], a.at)
      BY <2>0 DEF a, p
    <2>2. PICK s \in Requests : Finishing(req[s], y)
      BY <2>1 DEF TwinsInv
    <2>3. s # r
      <3>1. ASSUME s = r PROVE FALSE
        <4>1. p.plan[1].do = "dropif"
          BY <2>2, <3>1 DEF Finishing, Pair, p
        <4> QED
          BY <1>3, <4>1 DEF a
      <3> QED
        BY <3>1
    <2> QED
      BY <1>1, <2>1, <2>2, <2>3, OfOneName DEF a, p
  <1>8. CASE ~\E y, z : Twins(disk, y, z) /\ SameName(y, a.at)
    <2>1. \A x \in Loaded(q.base) :
            /\ x # a.at => x \in Loaded(p.base) /\ Same(q.base.files[x], p.base.files[x])
            /\ x = a.at => q.base.files[x] = a.file
      <3>1. ~Renames(p.base, a)
        BY <1>3 DEF Renames
      <3> QED
        BY <1>2, <1>3, <1>4, <3>1, KindLoads
    <2>2. ASSUME NEW y, NEW z, Twins(q.base, y, z), SameName(y, a.at), SameName(z, a.at)
          PROVE  c.at \in {y, z}
      <3>1. y \in Loaded(q.base) /\ z \in Loaded(q.base) /\ y # z
            /\ q.base.files[y].uuid = q.base.files[z].uuid
        BY <2>2 DEF Twins
      \* Of the two one is what was just written, the other what it replaces.
      <3>2. ASSUME NEW x \in Loaded(q.base), x # a.at, SameName(x, a.at)
            PROVE  /\ x \in Loaded(disk) /\ q.base.files[x].uuid = disk.files[x].uuid
                   /\ q.base.files[x].uuid = a.file.uuid => x = c.at
        <4>1. x \in Loaded(disk) /\ q.base.files[x].uuid = disk.files[x].uuid
          BY <1>5, <2>1, <3>2 DEF Same
        <4> QED
          BY <1>3, <1>8, <3>2, <4>1 DEF Twins
      <3>3. CASE y # a.at /\ z # a.at
        <4>1. Twins(disk, y, z)
          BY <2>2, <3>1, <3>2, <3>3 DEF Twins
        <4> QED
          BY <1>8, <2>2, <4>1
      <3>4. CASE y = a.at
        BY <2>1, <2>2, <3>1, <3>2, <3>4
      <3>5. CASE z = a.at
        BY <2>1, <2>2, <3>1, <3>2, <3>5
      <3> QED
        BY <3>3, <3>4, <3>5
    <2>3. Finishing(q, a.at)
      BY <1>2, <1>3, <1>6, <2>2, OfOneName DEF Finishing
    <2> QED
      BY <1>1, <2>3 DEF a, p
  <1> QED
    BY <1>7, <1>8

\* What a step brings has an identity nobody has, or that of the blob it is
\* about to replace.
LEMMA WhatComes ==
    ASSUME SuggestionsInv, OrderInv, BornInv, ~crossed, NEW r \in Requests, NEW q, NEW h,
           Landing(r, q, h), req[r].pc = "writing", req[r].plan[1].do = "put",
           req[r].op \in Creators \/ Succeeds(disk, req[r]),
           req[r].plan[1].at \in Loaded(disk')
    PROVE  LET a == req[r].plan[1]
               c == req[r].plan[2]
           IN  /\ disk'.files[a.at] = a.file
               /\ \/ /\ \A x \in Loaded(disk) : disk.files[x].uuid # a.file.uuid
                     /\ \A k \in linked : k[1] # a.file.uuid
                  \/ /\ Succeeds(disk, req[r]) /\ "replace" \in ops
                     /\ SameName(a.at, c.at) /\ c.at \in Loaded(disk)
                     /\ disk.files[c.at].uuid = a.file.uuid
                     /\ disk.files[c.at].shape = "blob" /\ a.file.shape = "blob"
                     /\ disk.files[c.at].links \subseteq a.file.links
PROOF
  <1> DEFINE p == req[r]
             a == p.plan[1]
             c == p.plan[2]
  <1>1. disk'.files[a.at] = a.file /\ a.file.uuid # None
    BY LandingLoads
  <1>2. CASE p.op \in Creators
    <2>1. 1 \in DOMAIN p.plan
      BY PlanIs DEF Landing
    <2>2. Bears(p, a.file.uuid)
      BY <1>1, <1>2, <2>1 DEF Bears
    <2>3. Unborn(a.file.uuid)
      BY <2>2 DEF BornInv
    <2>4. \A x \in Loaded(disk) : disk.files[x].uuid # a.file.uuid
      BY <2>3 DEF Unborn, Knows, Loaded
    <2> QED
      BY <1>1, <2>3, <2>4 DEF Unborn
  <1>3. CASE Succeeds(disk, p)
    <2>1. p.op = "replace" /\ Successor(disk, a, c)
      BY <1>3 DEF Succeeds
    <2>2. "replace" \in ops
      BY <2>1 DEF BornInv
    <2> QED
      BY <1>1, <1>3, <2>1, <2>2 DEF Successor
  <1> QED
    BY <1>2, <1>3

LEMMA TwinsLand ==
    ASSUME SuggestionsInv, OrderInv, BornInv, TwinsInv, ~crossed,
           NEW r \in Requests, NEW q, NEW h, Landing(r, q, h)
    PROVE  TwinsInv'
PROOF
  <1> DEFINE p == req[r]
             a == p.plan[1]
             G(x, y) == /\ "replace" \in ops /\ SameName(x, y)
                        /\ disk'.files[x].shape = "blob" /\ disk'.files[y].shape = "blob"
                        /\ Slot(x) \in halved \/ \E s \in Requests : Finishing(req'[s], x)
             Old(x) == x \in Loaded(disk) /\ Same(disk'.files[x], disk.files[x])
             Came(x) == /\ x = a.at /\ a.do = "put" /\ p.pc = "writing"
                        /\ p.op \in Creators \/ Succeeds(disk, p)
             Moved(x) == /\ x = a.to /\ Renames(disk, a) /\ a.at.ext = Md
                         /\ disk'.files[x] = disk.files[a.at]
  <1>1. \A s \in Requests : req'[s] = IF s = r THEN q ELSE req[s]
    BY DEF SuggestionsInv, RequestsAreSound, Landing, Turns
  <1>2. /\ ops' = ops /\ halved' = halved /\ p.pc \in {"saving", "writing"} /\ p.plan # <<>>
        /\ SoundTree(disk, used) /\ Orderly(disk)
    BY DEF Landing, SuggestionsInv, TreesAreSound, OrderInv
  <1>3. \A x \in Loaded(disk') :
            /\ Old(x) \/ Came(x) \/ Moved(x)
            /\ a.do = "put" /\ x = a.at => disk'.files[x] = a.file
            /\ a.do \in {"drop", "dropif", "move"} => x # a.at
    BY LandingLoads
  <1>4. \A x, y : G(x, y) => G(y, x)
    BY OfOneName DEF Slot, SameName
  <1>5. ASSUME NEW x, NEW y, Twins(disk', x, y), Old(x), Old(y)
        PROVE  G(x, y)
    <2>1. Twins(disk, x, y)
      BY <1>5 DEF Twins, Same
    <2>2. /\ "replace" \in ops /\ SameName(x, y)
          /\ disk.files[x].shape = "blob" /\ disk.files[y].shape = "blob"
          /\ Slot(x) \in halved \/ \E s \in Requests : Finishing(req[s], x)
      BY <2>1 DEF TwinsInv
    <2>3. ASSUME Finishing(p, x) PROVE FALSE
      <3>1. /\ a.do = "dropif" /\ SameName(a.at, x) /\ p.pc = "writing"
            /\ \A y1, z1 : Twins(p.base, y1, z1) /\ SameName(y1, x) /\ SameName(z1, x)
                           => a.at \in {y1, z1}
        BY <2>3 DEF Finishing, Pair
      <3>2. SameName(x, a.at) /\ SameName(y, a.at)
        BY <2>2, <3>1, OfOneName
      <3>3. Twins(p.base, x, y)
        BY <2>1, <3>1, <3>2, LandingSlot DEF Twins
      <3>4. a.at \in {x, y}
        BY <2>2, <3>1, <3>3, OfOneName
      <3> QED
        BY <1>3, <1>5, <3>1, <3>4 DEF Twins
    <2>4. Slot(x) \in halved \/ \E s \in Requests : Finishing(req'[s], x)
      BY <1>1, <2>2, <2>3
    <2> QED
      BY <1>5, <2>2, <2>4 DEF Same
  <1>6. ASSUME NEW x, NEW y, Twins(disk', x, y), Came(x), Old(y)
        PROVE  G(x, y)
    <2> DEFINE c == p.plan[2]
    <2>0. x \in Loaded(disk') /\ disk'.files[x].uuid = disk'.files[y].uuid
      BY <1>6 DEF Twins
    <2>1. /\ disk'.files[a.at] = a.file
          /\ \/ /\ \A z \in Loaded(disk) : disk.files[z].uuid # a.file.uuid
                /\ \A k \in linked : k[1] # a.file.uuid
             \/ /\ Succeeds(disk, p) /\ "replace" \in ops
                /\ SameName(a.at, c.at) /\ c.at \in Loaded(disk)
                /\ disk.files[c.at].uuid = a.file.uuid
                /\ disk.files[c.at].shape = "blob" /\ a.file.shape = "blob"
      BY <1>6, <2>0, WhatComes
    <2>2. y \in Loaded(disk) /\ disk.files[y].uuid = a.file.uuid
          /\ disk.files[y].shape = disk'.files[y].shape
      BY <1>6, <2>0, <2>1 DEF Same
    <2>3. /\ Succeeds(disk, p) /\ "replace" \in ops
          /\ SameName(a.at, c.at) /\ c.at \in Loaded(disk)
          /\ disk.files[c.at].uuid = a.file.uuid
          /\ disk.files[c.at].shape = "blob" /\ a.file.shape = "blob"
      BY <2>1, <2>2
    <2>4. SameName(a.at, y) /\ disk.files[y].shape = "blob"
      <3>1. CASE y = c.at
        BY <2>3, <3>1
      <3>2. CASE y # c.at
        <4>1. Twins(disk, c.at, y)
          BY <2>2, <2>3, <3>2 DEF Twins
        <4>2. SameName(c.at, y) /\ disk.files[y].shape = "blob"
          BY <4>1 DEF TwinsInv
        <4> QED
          BY <2>3, <4>2, OfOneName
      <3> QED
        BY <3>1, <3>2
    <2>5. Slot(a.at) \in halved \/ \E s \in Requests : Finishing(req'[s], a.at)
      BY <1>6, <2>3, SucceedsFinishes
    <2> HIDE DEF p, c
    <2> QED
      BY <1>6, <2>1, <2>2, <2>3, <2>4, <2>5
  <1>7. ASSUME NEW x, NEW y, Twins(disk', x, y), Moved(x), Old(y)
        PROVE  G(x, y)
    <2>1. a.at \in Loaded(disk) /\ a.do = "move" /\ y # a.at /\ y \in Loaded(disk)
      BY <1>3, <1>7 DEF Renames, Twins
    <2>2. Twins(disk, a.at, y)
      BY <1>7, <2>1 DEF Twins, Same
    <2>3. disk.files[a.at].shape = "blob"
      BY <2>2 DEF TwinsInv
    <2>4. LoadsFile(a.at, disk.files[a.at]) /\ a.at \in DOMAIN disk.files
      BY <1>2, <2>1, OrderlyAre
    <2>5. OrderlyFile(disk, a.at, disk.files[a.at])
      BY <1>2, <1>7, <2>4, OrderlyIs, ExtKinds
    <2> QED
      BY <1>7, <2>3, <2>4, <2>5, ExtKinds DEF OrderlyFile, LoadsFile, IsSidecar
  <1>8. \A x, y : Twins(disk', x, y) => x \in Loaded(disk') /\ y \in Loaded(disk') /\ x # y
    BY DEF Twins
  <1>9. \A x, y : ~(Came(x) /\ Moved(y)) /\ (Came(x) /\ Came(y) => x = y)
                  /\ (Moved(x) /\ Moved(y) => x = y)
    BY DEF Renames
  <1>10. \A x, y : Twins(disk', x, y) => Twins(disk', y, x)
    BY OfOneName
  <1> HIDE DEF G, Old, Came, Moved
  <1>11. ASSUME NEW x, NEW y, Twins(disk', x, y) PROVE G(x, y)
    <2>1. (Old(x) \/ Came(x) \/ Moved(x)) /\ (Old(y) \/ Came(y) \/ Moved(y)) /\ x # y
      BY <1>3, <1>8, <1>11
    <2>2. Twins(disk', y, x)
      BY <1>10, <1>11
    <2> QED
      BY <1>4, <1>5, <1>6, <1>7, <1>9, <1>11, <2>1, <2>2
  <1> QED
    BY <1>2, <1>11 DEF TwinsInv, G, Twins

\* A turn that writes nothing leaves what is to be finished, or it is cut short.
LEMMA TwinsTurn ==
    ASSUME SuggestionsInv, TwinsInv, NEW r \in Requests, NEW q, NEW h,
           Turns(r, q, h), Quiet, \A x : Finishing(req[r], x) => Slot(x) \in halved'
    PROVE  TwinsInv'
PROOF
  <1>1. \A s \in Requests : req'[s] = IF s = r THEN q ELSE req[s]
    BY DEF SuggestionsInv, RequestsAreSound, Turns
  <1>2. disk' = disk /\ ops' = ops /\ crossed' = crossed /\ halved \subseteq halved'
    BY DEF Quiet
  <1>3. \A x : Slot(x) \in halved \/ (\E s \in Requests : Finishing(req[s], x))
                => Slot(x) \in halved' \/ \E s \in Requests : Finishing(req'[s], x)
    BY <1>1, <1>2
  <1> QED
    BY <1>2, <1>3 DEF TwinsInv, Twins

LEMMA TwinsStay ==
    SuggestionsInv /\ OrderInv /\ BornInv /\ TwinsInv /\ [SuggestionsNext]_svars => TwinsInv'
PROOF
  <1> SUFFICES ASSUME SuggestionsInv, OrderInv, BornInv, TwinsInv, [SuggestionsNext]_svars,
                      ~crossed'
               PROVE  TwinsInv'
    BY DEF TwinsInv
  <1>0. /\ ~crossed
        /\ \/ UNCHANGED svars
           \/ Stops
           \/ \E r \in Requests : \E q, h :
                 \/ Asked(r, q, h) \/ Applied(r, q, h) \/ Emptied(r, q, h)
                 \/ Listing(r, q, h) \/ Landing(r, q, h)
    BY StepsAre
  <1>1. CASE UNCHANGED svars
    BY <1>1 DEF svars, vars, TwinsInv, Twins
  <1>2. CASE Stops
    <2>1. /\ disk' = disk /\ ops' = ops /\ crossed' = crossed
          /\ halved' = halved \cup UNION {Cut(r) : r \in Requests}
      BY <1>2 DEF Stops, Crash
    <2>2. \A x : Slot(x) \in halved \/ (\E r \in Requests : Finishing(req[r], x))
                  => Slot(x) \in halved'
      BY <2>1, FinishingCuts
    <2> QED
      BY <2>1, <2>2 DEF TwinsInv, Twins
  <1>3. ASSUME NEW r \in Requests, NEW q, NEW h,
               Asked(r, q, h) \/ Applied(r, q, h) \/ Emptied(r, q, h) \/ Listing(r, q, h)
        PROVE  TwinsInv'
    <2>1. Turns(r, q, h) /\ Quiet
      BY <1>3 DEF Asked, Applied, Emptied, Listing
    <2>2. \/ req[r].pc # "writing"
          \/ req[r].plan = <<>> \/ halved' = halved \cup Cut(r)
      BY <1>3 DEF Asked, Applied, Emptied, Listing
    <2>3. ASSUME NEW x, Finishing(req[r], x) PROVE Slot(x) \in halved'
      <3>1. req[r].pc = "writing"
        BY <2>3 DEF Finishing
      <3> QED
        BY <2>2, <2>3, <3>1, FinishingCuts
    <2> QED
      BY <2>1, <2>3, TwinsTurn
  <1> QED
    BY <1>0, <1>1, <1>2, <1>3, TwinsLand

-----------------------------------------------------------------------------
(***************************************************************************)
(* The links that were accepted.                                           *)
(***************************************************************************)

LinksInv ==
    ~crossed =>
        \A k \in linked : \A x \in Loaded(disk) :
            disk.files[x].uuid = k[1] => k[2] \in disk.files[x].links

LEMMA LinksLand ==
    ASSUME SuggestionsInv, OrderInv, BornInv, LinksInv, ~crossed,
           NEW r \in Requests, NEW q, NEW h, Landing(r, q, h)
    PROVE  LinksInv'
PROOF
  <1> DEFINE p == req[r]
             a == p.plan[1]
             Old(x) == x \in Loaded(disk) /\ Same(disk'.files[x], disk.files[x])
             Came(x) == /\ x = a.at /\ a.do = "put" /\ p.pc = "writing"
                        /\ p.op \in Creators \/ Succeeds(disk, p)
             Moved(x) == /\ x = a.to /\ Renames(disk, a) /\ a.at.ext = Md
                         /\ disk'.files[x] = disk.files[a.at]
  <1>1. /\ ops' = ops /\ p.pc \in {"saving", "writing"} /\ p.plan # <<>>
        /\ linked' = IF p.op = "apply" /\ InOneFile(held[r].key[1])
                     THEN linked \cup {held[r].key} ELSE linked
    BY DEF Landing
  <1>2. \A x \in Loaded(disk') :
            /\ Old(x) \/ Came(x) \/ Moved(x)
            /\ a.do = "put" /\ x = a.at => disk'.files[x] = a.file
    BY LandingLoads
  <1> SUFFICES ASSUME NEW k \in linked', NEW x \in Loaded(disk'), disk'.files[x].uuid = k[1]
               PROVE  k[2] \in disk'.files[x].links
    BY DEF LinksInv
  <1>3. CASE k \in linked
    <2>1. CASE Old(x)
      BY <1>3, <2>1 DEF Same, LinksInv
    <2>2. CASE Came(x)
      <3>1. /\ disk'.files[a.at] = a.file
            /\ \/ \A i \in linked : i[1] # a.file.uuid
               \/ /\ p.plan[2].at \in Loaded(disk)
                  /\ disk.files[p.plan[2].at].uuid = a.file.uuid
                  /\ disk.files[p.plan[2].at].links \subseteq a.file.links
        BY <2>2, WhatComes
      <3> QED
        BY <1>3, <2>2, <3>1 DEF LinksInv
    <2>3. CASE Moved(x)
      <3>1. a.at \in Loaded(disk)
        BY <2>3 DEF Renames
      <3> QED
        BY <1>3, <2>3, <3>1 DEF LinksInv
    <2> QED
      BY <1>2, <2>1, <2>2, <2>3
  <1>4. CASE k \notin linked
    <2>1. p.op = "apply" /\ k = held[r].key /\ InOneFile(k[1])
      BY <1>1, <1>4
    <2>2. p.pc = "writing" /\ Sensible(p, held[r], misfit)
      BY <1>1, <2>1 DEF Landing, ListOps
    <2>3. Edit(p, held[r])
      BY <2>1, <2>2, SensibleOps
    <2>4. /\ a.do = "put" /\ a.file.uuid = k[1] /\ k[2] \in a.file.links
          /\ a.at \in Loaded(p.base) /\ p.base.files[a.at].uuid = k[1]
      BY <2>1, <2>3 DEF Edit, Edits, Same
    <2>5. a.at \in Loaded(disk) /\ disk.files[a.at].uuid = k[1]
      BY <2>2, <2>4, LandingSlot, OfOneName
    <2>6. CASE x = a.at
      BY <1>2, <2>4, <2>6
    <2>7. CASE x # a.at
      <3>1. Old(x)
        BY <1>2, <2>4, <2>7 DEF Renames
      <3> QED
        BY <2>1, <2>5, <2>7, <3>1 DEF InOneFile, Same
    <2> QED
      BY <2>6, <2>7
  <1> QED
    BY <1>3, <1>4

LEMMA LinksStay ==
    SuggestionsInv /\ OrderInv /\ BornInv /\ LinksInv /\ [SuggestionsNext]_svars
        => LinksInv'
PROOF
  <1> SUFFICES ASSUME SuggestionsInv, OrderInv, BornInv, LinksInv,
                      [SuggestionsNext]_svars, ~crossed'
               PROVE  LinksInv'
    BY DEF LinksInv
  <1>0. /\ ~crossed
        /\ \/ UNCHANGED svars
           \/ Stops
           \/ \E r \in Requests : \E q, h :
                 \/ Asked(r, q, h) \/ Applied(r, q, h) \/ Emptied(r, q, h)
                 \/ Listing(r, q, h) \/ Landing(r, q, h)
    BY StepsAre
  <1>1. ASSUME disk' = disk, linked' = linked PROVE LinksInv'
    BY <1>0, <1>1 DEF LinksInv
  <1>2. CASE UNCHANGED svars
    BY <1>1, <1>2 DEF svars, vars
  <1>3. CASE Stops
    BY <1>1, <1>3 DEF Stops, Crash
  <1>4. ASSUME NEW r \in Requests, NEW q, NEW h,
               Asked(r, q, h) \/ Applied(r, q, h) \/ Emptied(r, q, h) \/ Listing(r, q, h)
        PROVE  LinksInv'
    <2>1. Quiet
      BY <1>4 DEF Asked, Applied, Emptied, Listing
    <2> QED
      BY <1>1, <2>1 DEF Quiet
  <1> QED
    BY <1>0, <1>2, <1>3, <1>4, LinksLand

-----------------------------------------------------------------------------
(***************************************************************************)
(* What the store owes.                                                    *)
(***************************************************************************)

\* Nothing is lost as long as what is loaded under one name is one artifact.
LostInv ==
    ~crossed /\ ~misfit =>
        /\ \A x, y \in Loaded(disk) :
            SameName(x, y) => disk.files[x].uuid = disk.files[y].uuid
        /\ owed \subseteq UuidsOf(disk)

LEMMA LostStart == SuggestionsInit => LostInv
PROOF
  <1> SUFFICES ASSUME SuggestionsInit PROVE LostInv
    OBVIOUS
  <1>1. PICK s \in Scenes : disk = s.tree
    BY DEF SuggestionsInit, Init
  <1>2. \A x, y \in Loaded(disk) : SameName(x, y) => x = y
    BY <1>1, ScenesAssumption
  <1>3. owed = UuidsOf(disk)
    BY DEF SuggestionsInit, Init
  <1> QED
    BY <1>2, <1>3 DEF LostInv

\* A step that fits leaves one artifact under a name,
LEMMA NamesLand ==
    ASSUME SuggestionsInv, OrderInv, LostInv, ~crossed, NEW r \in Requests, NEW q, NEW h,
           Landing(r, q, h), ~misfit'
    PROVE  \A x, y \in Loaded(disk') :
            SameName(x, y) => disk'.files[x].uuid = disk'.files[y].uuid
PROOF
  <1> DEFINE p == req[r]
             a == p.plan[1]
  <1>1. /\ SoundTree(disk, used) /\ Orderly(disk) /\ SoundStep(a, used) /\ Kind(disk, a)
        /\ disk' = After(disk, a) /\ ~misfit /\ ~Misfit(disk, a)
    BY DEF OrderInv, SuggestionsInv, TreesAreSound, Landing
  <1>2. \A x, y \in Loaded(disk) : SameName(x, y) => disk.files[x].uuid = disk.files[y].uuid
    BY <1>1 DEF LostInv
  <1>3. \A x \in Loaded(disk') :
            /\ \/ x \in Loaded(disk) /\ Same(disk'.files[x], disk.files[x])
               \/ x = a.at /\ Adds(disk, a)
               \/ x = a.to /\ Renames(disk, a) /\ a.at.ext = Md
                  /\ disk'.files[x] = disk.files[a.at]
            /\ a.do = "put" /\ x = a.at => disk'.files[x] = a.file
    BY <1>1, KindLoads
  <1> HIDE DEF a
  <1>4. ASSUME NEW x \in Loaded(disk'), NEW y \in Loaded(disk'), x # y, SameName(x, y),
               x = a.at, Adds(disk, a)
        PROVE  disk'.files[x].uuid = disk'.files[y].uuid
    <2>1. a.do = "put" /\ a.file.form \in {"front", "json"} /\ disk'.files[x] = a.file
      BY <1>3, <1>4 DEF Adds, Readable
    <2>2. y \in Loaded(disk) /\ disk'.files[y].uuid = disk.files[y].uuid
      BY <1>3, <1>4, <2>1 DEF Renames, Same
    <2>3. disk.files[y].uuid = a.file.uuid
      BY <1>1, <1>4, <2>1, <2>2 DEF Misfit, SameName
    <2> QED
      BY <2>1, <2>2, <2>3
  <1>5. ASSUME NEW x \in Loaded(disk'), NEW y \in Loaded(disk'), x # y, SameName(x, y),
               x = a.to, Renames(disk, a)
        PROVE  FALSE
    <2>1. y \in Loaded(disk)
      BY <1>3, <1>5 DEF Adds, Renames
    <2> QED
      BY <1>5, <2>1 DEF Renames, NamesOf, SameName
  <1>6. \A x, y : SameName(x, y) => SameName(y, x)
    BY OfOneName
  <1> QED
    BY <1>2, <1>3, <1>4, <1>5, <1>6 DEF Same

\* keeps what was stored, unless it was to be deleted,
LEMMA StoredStays ==
    ASSUME SuggestionsInv, OrderInv, LostInv, ~crossed, NEW r \in Requests, NEW q, NEW h,
           Landing(r, q, h), ~misfit', NEW u \in UuidsOf(disk)
    PROVE  u \in UuidsOf(disk') \/ u \in Released(r, req[r].plan[1])
PROOF
  <1> DEFINE p == req[r]
             a == p.plan[1]
  <1>1. /\ SoundTree(disk, used) /\ Orderly(disk) /\ SoundStep(a, used) /\ Kind(disk, a)
        /\ disk' = After(disk, a) /\ ~misfit /\ ~Misfit(disk, a) /\ p.pc \in {"saving", "writing"}
    BY DEF OrderInv, SuggestionsInv, TreesAreSound, Landing
  <1>2. \A x, y \in Loaded(disk) : SameName(x, y) => disk.files[x].uuid = disk.files[y].uuid
    BY <1>1 DEF LostInv
  <1>3. PICK x \in Loaded(disk) : disk.files[x].uuid = u
    BY DEF UuidsOf
  <1>4. \A y \in Loaded(disk) :
            \/ y \in Loaded(disk') /\ disk'.files[y].uuid = disk.files[y].uuid
            \/ a.do \in {"drop", "dropif"} /\ y = a.at
            \/ a.do = "put" /\ y = a.at /\ Adds(disk, a) /\ y \in Loaded(disk')
            \/ a.do = "put" /\ y = a.at /\ Edits(disk, a) /\ ~FitsForm(y, a.file)
            \/ /\ a.do = "move" /\ y = a.at
               /\ y.ext = Md => /\ a.to \in Loaded(disk')
                                /\ disk'.files[a.to].uuid = disk.files[y].uuid
            \/ a.do = "rmdir" /\ y.dir = a.dir
    BY <1>1, KindLeaves
  <1>5. /\ x \in DOMAIN disk.files /\ u \in Uuids /\ u # None /\ ~IsBin(x) /\ x.ext # List
    <2>1. x \in DOMAIN disk.files /\ u \in Uuids
      BY <1>1, <1>3, LoadedIs DEF StoredArtifact, Of
    <2>2. ~IsBin(x) /\ x.ext # List
      BY <1>1, <1>3, OrderlyAre, ExtKinds DEF LoadsFile, IsSidecar, IsBin
    <2> QED
      BY <2>1, <2>2
  <1>6. ASSUME NEW y \in Loaded(disk'), disk'.files[y].uuid = u PROVE u \in UuidsOf(disk')
    BY <1>6 DEF UuidsOf
  <1>7. p.pc = "writing" => Deed(disk, p, held[r], misfit)
    BY LandingDeed
  <1>8. p.pc = "saving" => Lists(a)
    BY DEF Landing
  <1> HIDE DEF p, a
  <1>9. CASE a.do \in {"drop", "dropif"} /\ x = a.at
    <2>1. p.pc = "writing"
      BY <1>1, <1>8, <1>9 DEF Lists
    <2>2. ~Empties(disk, a)
      BY <1>5, <1>9, ExtKinds DEF Empties, IsBin
    <2>3. CASE Retires(disk, p)
      <3>1. PICK y \in Loaded(disk) : y # x /\ disk.files[y].uuid = u
        BY <1>3, <1>9, <2>3 DEF Retires, a
      <3>2. y \in Loaded(disk') /\ disk'.files[y].uuid = u
        BY <1>4, <1>9, <3>1
      <3> QED
        BY <1>6, <3>2
    <2>4. CASE p.op = "delete" /\ disk.files[a.at].uuid = p.uuid
      BY <1>3, <1>9, <2>4 DEF Released, p
    <2>5. Retires(disk, p) \/ (p.op = "delete" /\ disk.files[a.at].uuid = p.uuid)
      BY <1>7, <1>9, <2>1, <2>2 DEF Deed, a, Adds, Fills, Edits, Succeeds, Renames
    <2> QED
      BY <2>3, <2>4, <2>5 DEF a
  <1>10. CASE a.do = "put" /\ x = a.at /\ Adds(disk, a) /\ x \in Loaded(disk')
    <2>1. p.pc = "writing"
      BY <1>1, <1>5, <1>8, <1>10, ExtKinds DEF Lists
    <2>2. disk'.files[x] = a.file
      BY <1>1, <1>10, AfterIs
    <2>3. \/ p.op \in Creators /\ a.at \notin Loaded(disk)
          \/ Edits(disk, a)
          \/ Succeeds(disk, p)
          \/ Fills(disk, a)
      BY <1>1, <1>7, <1>10, <2>1 DEF Deed, a, Retires, Pair, Empties, Renames
    <2>4. CASE Edits(disk, a)
      BY <1>3, <1>6, <1>10, <2>2, <2>4 DEF Edits, Same
    <2>5. CASE Succeeds(disk, p)
      <3>1. /\ SameName(a.at, p.plan[2].at) /\ p.plan[2].at \in Loaded(disk)
            /\ disk.files[p.plan[2].at].uuid = a.file.uuid
        BY <2>5 DEF Succeeds, Successor, a
      <3>2. a.file.uuid = u
        BY <1>2, <1>3, <1>10, <3>1
      <3> QED
        BY <1>6, <1>10, <2>2, <3>2
    <2>6. ~Fills(disk, a)
      BY <1>5, <1>10 DEF Fills
    <2> QED
      BY <1>10, <2>3, <2>4, <2>5, <2>6
  <1>11. CASE a.do = "put" /\ x = a.at /\ Edits(disk, a) /\ ~FitsForm(x, a.file)
    <2>1. a.file.uuid = u /\ a.file \in File
      BY <1>1, <1>3, <1>11 DEF Edits, Same, SoundStep, SoundAt, SoundFile
    <2>2. a.file.form \in {"front", "json"}
      BY <1>5, <2>1 DEF File, StoredArtifact, BytesFile, ListOfSuggestions, Of
    <2>3. Misfit(disk, a)
      BY <1>11, <2>2 DEF Misfit, FitsForm
    <2> QED
      BY <1>1, <2>3
  <1>12. CASE /\ a.do = "move" /\ x = a.at
              /\ x.ext = Md => /\ a.to \in Loaded(disk')
                               /\ disk'.files[a.to].uuid = disk.files[x].uuid
    <2>1. x.ext = Md
      BY <1>1, <1>12 DEF Misfit
    <2> QED
      BY <1>3, <1>6, <1>12, <2>1
  <1>13. CASE a.do = "rmdir" /\ x.dir = a.dir
    <2>1. p.pc = "writing"
      BY <1>1, <1>8, <1>13 DEF Lists
    <2>2. NamesOf(disk, a.dir) # {}
      BY <1>3, <1>13 DEF NamesOf
    <2>3. p.op = "wipe"
      BY <1>7, <1>13, <2>1, <2>2
      DEF Deed, a, Adds, Fills, Edits, Succeeds, Retires, Pair, Empties, Renames
    <2>4. u \in Released(r, a)
      BY <1>3, <1>5, <1>13, <2>3 DEF Released, p
    <2> QED
      BY <2>4 DEF a, p
  <1> QED
    BY <1>3, <1>4, <1>6, <1>9, <1>10, <1>11, <1>12, <1>13

\* and stores what it promises.
LEMMA PromisedIsStored ==
    ASSUME SuggestionsInv, OrderInv, BornInv, ~crossed, NEW r \in Requests, NEW q, NEW h,
           Landing(r, q, h), NEW u \in Promised(r, req[r].plan[1])
    PROVE  u \in UuidsOf(disk')
PROOF
  <1> DEFINE p == req[r]
             a == p.plan[1]
  <1>1. /\ p.op \in Creators /\ a.do = "put" /\ u = a.file.uuid /\ u # None
    BY DEF Promised
  <1>2. p.pc = "writing"
    BY <1>1 DEF Landing, ListOps, Creators
  <1>3. /\ Deed(disk, p, held[r], misfit) /\ Sensible(p, held[r], misfit)
        /\ SoundTree(disk, used) /\ Orderly(disk)
    BY <1>2, LandingDeed
  <1>4. SoundStep(a, used) /\ Kind(disk, a) /\ disk' = After(disk, a) /\ SoundPlan(p.plan, used)
        /\ p.plan # <<>>
    BY DEF Landing
  <1> HIDE DEF p
  <1>5. Adds(disk, a)
    <2>1. ~Fills(disk, a)
      BY <1>1 DEF Fills, Bytes, Artifact
    <2>2. Bears(p, u)
      <3>1. 1 \in DOMAIN p.plan
        BY <1>4, PlanIs
      <3> QED
        BY <1>1, <3>1 DEF Bears
    <2>3. u \notin Knows(disk)
      BY <2>2 DEF BornInv, Unborn, p
    <2>4. ~Edits(disk, a)
      BY <1>1, <2>3 DEF Edits, Same, Knows, Loaded
    <2>5. p.op \notin {"replace", "delete"}
      BY <1>1 DEF Creators
    <2> QED
      BY <1>1, <1>3, <2>1, <2>4, <2>5 DEF Deed, Succeeds, Retires, Renames
  <1>6. SoundTree(disk', used) /\ Orderly(disk')
    BY <1>3, <1>4, KindKeepsOrder
  <1>7. a.at \in DOMAIN disk'.files /\ disk'.files[a.at] = a.file
    BY <1>1, <1>3, <1>4, AfterIs
  <1>8. LoadsFile(a.at, a.file)
    BY <1>5 DEF Adds, Readable, LoadsFile
  <1>9. a.at \in Loaded(disk')
    BY <1>6, <1>7, <1>8, OrderlyAre
  <1> QED
    BY <1>1, <1>7, <1>9 DEF UuidsOf

LEMMA LostStay ==
    SuggestionsInv /\ OrderInv /\ BornInv /\ LostInv /\ [SuggestionsNext]_svars => LostInv'
PROOF
  <1> SUFFICES ASSUME SuggestionsInv, OrderInv, BornInv, LostInv, [SuggestionsNext]_svars,
                      ~crossed', ~misfit'
               PROVE  LostInv'
    BY DEF LostInv
  <1>0. /\ ~crossed
        /\ \/ UNCHANGED svars
           \/ Stops
           \/ \E r \in Requests : \E q, h :
                 \/ Asked(r, q, h) \/ Applied(r, q, h) \/ Emptied(r, q, h)
                 \/ Listing(r, q, h) \/ Landing(r, q, h)
    BY StepsAre
  <1>1. ASSUME disk' = disk, owed' = owed, misfit' = misfit PROVE LostInv'
    BY <1>0, <1>1 DEF LostInv
  <1>2. CASE UNCHANGED svars
    BY <1>1, <1>2 DEF svars, vars
  <1>3. CASE Stops
    BY <1>1, <1>3 DEF Stops, Crash, ghosts
  <1>4. ASSUME NEW r \in Requests, NEW q, NEW h,
               Asked(r, q, h) \/ Applied(r, q, h) \/ Emptied(r, q, h) \/ Listing(r, q, h)
        PROVE  LostInv'
    <2>1. Quiet
      BY <1>4 DEF Asked, Applied, Emptied, Listing
    <2> QED
      BY <1>1, <2>1 DEF Quiet
  <1>5. ASSUME NEW r \in Requests, NEW q, NEW h, Landing(r, q, h)
        PROVE  LostInv'
    <2> DEFINE a == req[r].plan[1]
    <2>1. /\ owed' = (owed \cup Promised(r, a)) \ Released(r, a)
          /\ misfit' = (misfit \/ Misfit(disk, a))
      BY <1>5 DEF Landing
    <2>2. owed \subseteq UuidsOf(disk)
      BY <1>0, <2>1 DEF LostInv
    <2>3. \A u \in UuidsOf(disk) : u \in UuidsOf(disk') \/ u \in Released(r, a)
      BY <1>0, <1>5, StoredStays
    <2>4. \A u \in Promised(r, a) : u \in UuidsOf(disk')
      BY <1>0, <1>5, PromisedIsStored
    <2>5. owed' \subseteq UuidsOf(disk')
      BY <2>1, <2>2, <2>3, <2>4
    <2>6. \A x, y \in Loaded(disk') :
            SameName(x, y) => disk'.files[x].uuid = disk'.files[y].uuid
      BY <1>0, <1>5, NamesLand
    <2>7. UuidsOf(disk)' = UuidsOf(disk')
      OBVIOUS
    <2> QED
      BY <2>5, <2>6 DEF LostInv
  <1> QED
    BY <1>0, <1>2, <1>3, <1>4, <1>5

LEMMA LinksStart == SuggestionsInit => LinksInv
PROOF
  BY DEF SuggestionsInit, LinksInv

\* As long as no write meets a change its request had not seen: an identity
\* is handed to one request and written once, two files are one artifact only
\* where a blob is being replaced or its replacement was cut short, accepted
\* links are in place and what is owed is stored.
THEOREM TheStoreStands ==
    SuggestionsSpec => []((SuggestionsInv /\ OrderInv) /\ BornInv /\ TwinsInv /\ LinksInv /\ LostInv)
PROOF
  <1>1. SuggestionsInit => BornInv /\ TwinsInv /\ LinksInv /\ LostInv
    BY BornStarts, TwinsStart, LinksStart, LostStart
  <1>2. /\ SuggestionsInv /\ OrderInv /\ BornInv /\ TwinsInv /\ LinksInv /\ LostInv
        /\ [SuggestionsNext]_svars
        => (BornInv /\ TwinsInv /\ LinksInv /\ LostInv)'
    BY BornStays, TwinsStay, LinksStay, LostStay
  <1> QED
    BY <1>1, <1>2, TheTreesAreOrderly, PTL DEF SuggestionsSpec

\* One identity is in two files only under a name whose blob a request is
\* replacing, or whose replacement an error or a stop cut short, as long as no
\* removal failed and no write met a change it had not seen: IdentityIsUnique,
\* a part of FilesStand.
THEOREM OneIdentityOneArtifact == SuggestionsSpec => []IdentityIsUnique
PROOF
  <1>1. TwinsInv => IdentityIsUnique
    <2> SUFFICES ASSUME TwinsInv, ~crossed,
                        NEW p \in Loaded(disk), NEW q \in Loaded(disk),
                        disk.files[p].uuid = disk.files[q].uuid, p # q
                 PROVE  /\ Slot(p) = Slot(q)
                        /\ Slot(p) \in halved \cup UNION {Cut(r) : r \in Requests}
      BY DEF IdentityIsUnique
    <2>1. Twins(disk, p, q)
      BY DEF Twins
    <2>2. SameName(p, q) /\ (Slot(p) \in halved \/ \E r \in Requests : Finishing(req[r], p))
      BY <2>1 DEF TwinsInv
    <2>3. Slot(p) = Slot(q)
      BY <2>2 DEF Slot, SameName
    <2> QED
      BY <2>2, <2>3, FinishingCuts
  <1> QED
    BY <1>1, TheStoreStands, PTL

\* What was stored stays readable until somebody deletes it, through edits,
\* renames, removals of empty collections, imports and restarts: NothingLost,
\* a part of FilesStand.
THEOREM NothingIsLost == SuggestionsSpec => []NothingLost
PROOF
  <1>1. LostInv => NothingLost
    BY DEF LostInv, NothingLost
  <1> QED
    BY <1>1, TheStoreStands, PTL

\* Every file says one thing about one artifact and none goes unasked,
\* whatever overlapped, failed or was stopped half way: FilesStand.
THEOREM TheFilesStand == SuggestionsSpec => []FilesStand
PROOF
  <1>1. CheckIsOfTheUrl /\ BinaryStands /\ IdentityIsUnique /\ NothingLost => FilesStand
    BY DEF FilesStand
  <1> QED
    BY <1>1, ChecksAreOfTheirUrls, TheBytesStand, OneIdentityOneArtifact, NothingIsLost, PTL

\* An artifact that is stored is found under its identity.
LEMMA StoredIsFound ==
    ASSUME NEW t, NEW u \in UuidsOf(t)
    PROVE  At(t, u) \in Loaded(t) /\ t.files[At(t, u)].uuid = u
PROOF
  <1> DEFINE all == {p \in Loaded(t) : t.files[p].uuid = u}
             content == {p \in all : p.ext = Md}
  <1>1. \E p \in all : content # {} => p \in content
    BY DEF UuidsOf
  <1> HIDE DEF content
  <1>2. (CHOOSE p \in all : content # {} => p \in content) \in all
    BY <1>1
  <1> QED
    BY <1>2 DEF At, content

\* An accepted link stays in its artifact through reviews, checks, edits of
\* other fields and further accepted links: AcceptedLinksStay, a part of
\* DecisionsStand.
THEOREM TheAcceptedStay == SuggestionsSpec => []AcceptedLinksStay
PROOF
  <1>1. LinksInv => AcceptedLinksStay
    <2> SUFFICES ASSUME LinksInv, ~crossed, NEW k \in linked, k[1] \in UuidsOf(disk)
                 PROVE  k[2] \in disk.files[At(disk, k[1])].links
      BY DEF AcceptedLinksStay
    <2>1. At(disk, k[1]) \in Loaded(disk) /\ disk.files[At(disk, k[1])].uuid = k[1]
      BY StoredIsFound
    <2> QED
      BY <2>1 DEF LinksInv
  <1> QED
    BY <1>1, TheStoreStands, PTL

\* What an operator decided of a suggestion stands, whichever way it went:
\* DecisionsStand.
THEOREM TheDecisionsStand == SuggestionsSpec => []DecisionsStand
PROOF
  <1>1. DeclinedStaysOut /\ AcceptedLinksStay => DecisionsStand
    BY DEF DecisionsStand
  <1> QED
    BY <1>1, TheDeclinedStayOut, TheAcceptedStay, PTL
=============================================================================
