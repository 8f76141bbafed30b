------------------------------ MODULE Doorstop ------------------------------
(***************************************************************************)
(* The doorstop importer (provreq-model's doorstop, http/handlers.rs and   *)
(* the import dialog of the web client): a tree of documents is read,      *)
(* planned against the published project, and written file by file; then   *)
(* a wizard renames what was imported.  Nothing is locked: the source, the *)
(* project and other imports move between any two steps.                   *)
(*                                                                         *)
(* Titles, bodies, levels, flags and tags of an item go to its artifact as *)
(* they are and are left out.                                              *)
(***************************************************************************)
EXTENDS Naturals, Sequences, FiniteSets, SequencesExt, TLC

CONSTANTS
    Uids, Names,       \* UIDs of items; what an artifact may be called
    Collections,       \* prefixes of documents and of collections
    Dirs,
    Slug,              \* slugify_prefix
    Fits,              \* the UIDs that are a prefix, its separator and more
    RefName,           \* what an item's URL companion is called
    Suggested,         \* the names a model comes up with
    Scenes,            \* projects with the trees their source may become
    Requests,
    MaxRuns,           \* bound: imports begun
    None

Item == [uid : Uids, form : {"mapping", "list"}, links : Seq({"uid", "hashed", "odd"} \X Uids),
         ref : {"none", "url", "text"}, reviewed : BOOLEAN, extra : BOOLEAN]
Document == [marker : {"ok", "bad"}, prefix : Collections, items : Seq(Item)]

\* A project before any import: its files lie in its directories, and no run
\* gave them an identity.
Home(tree) ==
    /\ tree = [dirs |-> tree.dirs, files |-> tree.files]
    /\ DOMAIN tree.files \subseteq (DOMAIN tree.dirs) \X Names
    /\ \A p \in DOMAIN tree.files : tree.files[p].uuid[1] = 0

ASSUME DoorstopAssumption ==
    /\ Uids \cup Suggested \subseteq Names /\ None \notin Names
    /\ Slug \in [Collections -> Dirs]
    /\ Fits \subseteq Uids \X Collections
    /\ RefName \in [Uids -> Names]
    /\ \A u, v \in Uids : RefName[u] = RefName[v] => u = v
    /\ MaxRuns \in Nat
    /\ \A s \in Scenes : Home(s.home) /\ s.trees \subseteq Seq(Document)

VARIABLES
    scene, source,     \* the doorstop tree: documents in the order of their paths
    disk, world,       \* the project in its files, and as last published
    runs,              \* imports begun; the number of one makes its identities
    req,               \* the imports under way
    report,            \* the last report, in memory
    dialog, wizard,    \* the web client's
    crossed            \* ghost: imports that failed late, or whose files another run or rename met

vars == <<scene, source, disk, world, runs, req, report, dialog, wizard, crossed>>

-----------------------------------------------------------------------------
(***************************************************************************)
(* Reading: a document is a directory with a marker and its items.         *)
(***************************************************************************)

Positions(t) == UNION {{d} \X DOMAIN t[d].items : d \in DOMAIN t}
ItemAt(t, p) == t[p[1]].items[p[2]]

\* discover: one marker or item that does not parse ends it.
Readable(t) ==
    \A d \in DOMAIN t : t[d].marker = "ok" /\ \A i \in DOMAIN t[d].items : t[d].items[i].form = "mapping"

\* parse_links: a UID, or a UID with the hash it was reviewed at.
LinksOf(item) ==
    FlattenSeq([k \in DOMAIN item.links |->
        IF item.links[k][1] \in {"uid", "hashed"} THEN <<item.links[k][2]>> ELSE <<>>])

-----------------------------------------------------------------------------
(***************************************************************************)
(* Planning.  Identities are of a run: an item's, its companion's, the one *)
(* the report promises for the companion, and one that nothing has.        *)
(***************************************************************************)

Id(n, kind, p, k) == <<n, kind, p, k>>

Later(p, q) == p[1] > q[1] \/ (p[1] = q[1] /\ p[2] > q[2])
Listed(t, u) == {p \in Positions(t) : ItemAt(t, p).uid = u /\ <<u, t[p[1]].prefix>> \in Fits}

\* A fault: a link is resolved among the documents read so far.
IndexSoFar(t, n, d) ==
    LET Seen(u) == {p \in Listed(t, u) : p[1] <= d}
    IN  [u \in {v \in Uids : Seen(v) # {}} |->
            Id(n, "item", CHOOSE p \in Seen(u) : \A q \in Seen(u) : q = p \/ Later(p, q), 0)]

\* The first pass; of one UID listed twice the last entry stays.
Index(t, n, d) ==
    [u \in {v \in Uids : Listed(t, v) # {}} |->
        Id(n, "item", CHOOSE p \in Listed(t, u) : \A q \in Listed(t, u) : q = p \/ Later(p, q), 0)]

DerivedLinks(t, n, p) ==
    LET index == Index(t, n, p[1])
        uids == LinksOf(ItemAt(t, p))
    IN  [k \in DOMAIN uids |->
            [type |-> "derives-from", name |-> uids[k],
             to |-> IF uids[k] \in DOMAIN index THEN index[uids[k]] ELSE Id(n, "nobody", p, k)]]

Companion(n, p) == Id(n, "companion", p, 0)

\* build_artifact_links names the companion and its identity; the disposition
\* the report is made from has an identity of its own.
CitesLinks(t, n, p) ==
    IF ItemAt(t, p).ref = "url"
    THEN <<[type |-> "cites", name |-> RefName[ItemAt(t, p).uid], to |-> Companion(n, p)]>> ELSE <<>>

PlannedItem(t, n, p) ==
    LET item == ItemAt(t, p)
    IN  [uuid |-> Index(t, n, p[1])[item.uid], name |-> item.uid, uid |-> item.uid,
         links |-> DerivedLinks(t, n, p) \o CitesLinks(t, n, p),
         ref |-> [kind |-> item.ref, promised |-> Id(n, "promised", p, 0)],
         reviewed |-> item.reviewed, extra |-> item.extra]

PlannedCompanion(t, n, p) ==
    [uuid |-> Companion(n, p), name |-> RefName[ItemAt(t, p).uid], uid |-> None, links |-> <<>>,
     ref |-> [kind |-> "none", promised |-> None], reviewed |-> FALSE, extra |-> FALSE]

\* An item that does not fit its document is left out with a warning, unless
\* another document lists its UID.
PlannedOf(t, n, p) ==
    IF ItemAt(t, p).uid \notin DOMAIN Index(t, n, p[1]) THEN <<>>
    ELSE <<PlannedItem(t, n, p)>>
         \o (IF ItemAt(t, p).ref = "url" THEN <<PlannedCompanion(t, n, p)>> ELSE <<>>)

BuildPlan(t, n) ==
    [d \in DOMAIN t |->
        [prefix |-> t[d].prefix, dir |-> Slug[t[d].prefix],
         artifacts |-> FlattenSeq([i \in DOMAIN t[d].items |-> PlannedOf(t, n, <<d, i>>)])]]

PrefixesOf(tree) == {tree.dirs[d] : d \in DOMAIN tree.dirs}
Collides(t) == \E d \in DOMAIN t : t[d].prefix \in PrefixesOf(world)

-----------------------------------------------------------------------------
(***************************************************************************)
(* Executing: a directory and its sidecar, then its artifacts.             *)
(***************************************************************************)

\* url_from_siblings: the artifact that promised this companion has its URL.
UrlOf(collection, a) ==
    IF \E i \in DOMAIN collection.artifacts : collection.artifacts[i].ref.promised = a.uuid
    THEN "url" ELSE None

BuildArtifactFile(collection, a) ==
    [uuid |-> a.uuid, uid |-> a.uid, links |-> a.links,
     shape |-> IF a.uid = None THEN "url" ELSE "content",
     url |-> IF a.uid = None THEN UrlOf(collection, a) ELSE None,
     log |-> IF a.reviewed THEN <<"approved">> ELSE <<>>,
     legacy |-> (IF a.ref.kind = "text" THEN {"ref"} ELSE {}) \cup (IF a.extra THEN {"extra"} ELSE {})]

WritesOf(plan) ==
    FlattenSeq([d \in DOMAIN plan |->
        <<[dir |-> plan[d].dir, prefix |-> plan[d].prefix]>>
        \o [i \in DOMAIN plan[d].artifacts |->
               [dir |-> plan[d].dir, name |-> plan[d].artifacts[i].name,
                file |-> BuildArtifactFile(plan[d], plan[d].artifacts[i])]]])

Positioned(plan) == UNION {{d} \X DOMAIN plan[d].artifacts : d \in DOMAIN plan}
CountOf(plan, counted) == Cardinality({p \in Positioned(plan) : plan[p[1]].artifacts[p[2]] \in counted})
LinksIn(plan, counted) ==
    LET Of(p) == plan[p[1]].artifacts[p[2]].links
    IN  Cardinality({x \in UNION {{p} \X DOMAIN Of(p) : p \in Positioned(plan)} :
                        Of(x[1])[x[2]] \in counted})

\* The totals.  That of the derives-from links is never added to.
ReportOf(t, n) ==
    LET plan == BuildPlan(t, n)
        all == {plan[p[1]].artifacts[p[2]] : p \in Positioned(plan)}
        links == UNION {ToSet(a.links) : a \in all}
    IN  [run |-> n, tree |-> t,
         artifacts |-> CountOf(plan, all),
         urls |-> CountOf(plan, {a \in all : a.ref.kind = "url"}),
         legacyRefs |-> CountOf(plan, {a \in all : a.ref.kind = "text"}),
         reviews |-> CountOf(plan, {a \in all : a.reviewed}),
         preserved |-> CountOf(plan, {a \in all : a.extra}),
         cites |-> LinksIn(plan, {l \in links : l.type = "cites"}),
         unresolved |-> LinksIn(plan, {l \in links : l.to[2] = "nobody"}),
         derives |-> 0]

-----------------------------------------------------------------------------

Idle == [pc |-> "idle", run |-> 0, tree |-> <<>>, todo |-> <<>>]
Shows(stage, r) == [stage |-> stage, awaits |-> r]
NoWizard == [open |-> FALSE, rows |-> <<>>, offered |-> <<>>, todo |-> <<>>, applied |-> FALSE]

Init ==
    /\ scene \in Scenes
    /\ \E t \in scene.trees : source = t
    /\ disk = scene.home /\ world = disk
    /\ runs = 0 /\ crossed = {}
    /\ req = [r \in Requests |-> Idle]
    /\ report = None
    /\ dialog = Shows("source", None)
    /\ wizard = NoWizard

\* doorstop_preview: nothing is written.  The button stays off on a collision.
Preview ==
    /\ dialog.stage = "source" /\ Readable(source)
    /\ dialog' = Shows(IF Collides(source) THEN "blocked" ELSE "preview", None)
    /\ UNCHANGED <<scene, source, disk, world, runs, req, report, wizard, crossed>>

Back ==
    /\ dialog.stage \in {"preview", "blocked"}
    /\ dialog' = Shows("source", None)
    /\ UNCHANGED <<scene, source, disk, world, runs, req, report, wizard, crossed>>

\* Escape, Cancel or Done; an import or renames under way go on without it.
CloseDialog ==
    /\ dialog.stage # "source"
    /\ dialog' = Shows("source", None)
    /\ wizard' = [NoWizard EXCEPT !.todo = wizard.todo]
    /\ UNCHANGED <<scene, source, disk, world, runs, req, report, crossed>>

\* doorstop_import reads and plans once more, and answers 409 on a collision.
StartImport(r) ==
    /\ dialog.stage = "preview" /\ req[r].pc = "idle" /\ runs < MaxRuns
    /\ IF ~Readable(source) \/ Collides(source)
       THEN /\ dialog' = Shows("blocked", None)
            /\ UNCHANGED <<runs, req>>
       ELSE /\ runs' = runs + 1
            /\ req' = [req EXCEPT ![r] = [pc |-> "writing", run |-> runs + 1, tree |-> source,
                                          todo |-> WritesOf(BuildPlan(source, runs + 1))]]
            /\ dialog' = Shows("waiting", r)
    /\ UNCHANGED <<scene, source, disk, world, report, wizard, crossed>>

\* One file, made or replaced.
Put(f, x, y) == [z \in DOMAIN f \cup {x} |-> IF z = x THEN y ELSE f[z]]
Written(tree, w) ==
    IF "prefix" \in DOMAIN w
    THEN [tree EXCEPT !.dirs = Put(@, w.dir, w.prefix)]
    ELSE [tree EXCEPT !.files = Put(@, <<w.dir, w.name>>, w.file)]

Write(r) ==
    /\ req[r].pc = "writing" /\ req[r].todo # <<>>
    /\ disk' = Written(disk, Head(req[r].todo))
    /\ req' = [req EXCEPT ![r].todo = Tail(@)]
    /\ crossed' = crossed \cup ((1..runs) \ {req[r].run})
    /\ UNCHANGED <<scene, source, world, runs, report, dialog, wizard>>

\* What was written stays; the project is not read again.
Fail(r) ==
    /\ req[r].pc = "writing" /\ req[r].todo # <<>>
    /\ req' = [req EXCEPT ![r] = Idle]
    /\ dialog' = IF dialog.awaits = r THEN Shows("preview", None) ELSE dialog
    /\ UNCHANGED <<scene, source, disk, world, runs, report, wizard, crossed>>

Finish(r) ==
    /\ req[r].pc = "writing" /\ req[r].todo = <<>>
    /\ report' = ReportOf(req[r].tree, req[r].run)
    /\ req' = [req EXCEPT ![r].pc = "reported"]
    /\ UNCHANGED <<scene, source, disk, world, runs, dialog, wizard, crossed>>

\* Once the report stands, the refresh may fail all the same; the import then
\* counts as one that went wrong.
Answer(r) ==
    /\ req[r].pc = "reported"
    /\ req' = [req EXCEPT ![r] = Idle]
    /\ \E refreshed \in BOOLEAN :
        /\ world' = IF refreshed THEN disk ELSE world
        /\ dialog' = IF dialog.awaits = r THEN Shows(IF refreshed THEN "done" ELSE "preview", None)
                     ELSE dialog
        /\ crossed' = IF refreshed THEN crossed ELSE crossed \cup {req[r].run}
    /\ UNCHANGED <<scene, source, disk, runs, report, wizard>>

\* The watcher publishes; the source is edited; the server starts anew.
Watch ==
    /\ world # disk /\ world' = disk
    /\ UNCHANGED <<scene, source, disk, runs, req, report, dialog, wizard, crossed>>

EditSource ==
    /\ source' \in scene.trees \ {source}
    /\ UNCHANGED <<scene, disk, world, runs, req, report, dialog, wizard, crossed>>

Restart ==
    /\ \E r \in Requests : req[r].pc # "idle"
    /\ req' = [r \in Requests |-> Idle] /\ report' = None /\ world' = disk
    /\ dialog' = IF dialog.awaits # None THEN Shows("preview", None) ELSE dialog
    /\ UNCHANGED <<scene, source, disk, runs, wizard, crossed>>

-----------------------------------------------------------------------------
(***************************************************************************)
(* The rename wizard.  A row is an artifact under the name it was listed   *)
(* by; a model's names are checked for form, not for being free.           *)
(***************************************************************************)

Located(tree, u) == CHOOSE p \in DOMAIN tree.files : tree.files[p].uuid = u
UuidsOf(tree) == {tree.files[p].uuid : p \in DOMAIN tree.files}

OpenWizard ==
    /\ dialog.stage = "done" /\ wizard = NoWizard /\ report # None
    /\ LET rows == {p \in DOMAIN world.files :
                       \E d \in DOMAIN report.tree : world.dirs[p[1]] = report.tree[d].prefix}
       IN  /\ rows # {}
           /\ wizard' = [NoWizard EXCEPT !.open = TRUE,
                         !.rows = [u \in {world.files[p].uuid : p \in rows} |-> Located(world, u)[2]]]
    /\ UNCHANGED <<scene, source, disk, world, runs, req, report, dialog, crossed>>

\* parse_suggestions: not the name the artifact has.
NamesFor(current) == Suggested \ {current}

\* bulk_rename_suggestions: the name each has by now, and an error for what is
\* gone; that a model fails for some is like picking nothing for them.
Suggest ==
    /\ wizard.open /\ wizard.offered = <<>>
    /\ wizard' = [wizard EXCEPT !.offered =
           [u \in DOMAIN wizard.rows |->
               IF u \in UuidsOf(world) THEN NamesFor(Located(world, u)[2]) ELSE {}]]
    /\ UNCHANGED <<scene, source, disk, world, runs, req, report, dialog, crossed>>

ApplyAll ==
    /\ wizard.open /\ ~wizard.applied /\ wizard.offered # <<>>      \* bound: once
    /\ \E picks \in SUBSET DOMAIN wizard.rows :
        /\ picks # {} /\ Cardinality(picks) <= 2      \* bound
        /\ \E todo \in [picks -> Suggested] :
            /\ \A u \in picks : todo[u] \in wizard.offered[u]
            /\ wizard' = [wizard EXCEPT !.todo = todo, !.applied = TRUE]
    /\ UNCHANGED <<scene, source, disk, world, runs, req, report, dialog, crossed>>

\* The loop goes on after an artifact that is gone, a name that is taken or a
\* rename that fails; a rename to the name it has succeeds.
ApplyOne == \E u \in DOMAIN wizard.todo :
    LET name == wizard.todo[u]
    IN  /\ wizard' = [wizard EXCEPT !.todo = Restrict(@, DOMAIN @ \ {u})]
        /\ \/ UNCHANGED <<disk, world, crossed>>
           \/ /\ u \in UuidsOf(world) /\ Located(world, u) \in DOMAIN disk.files
              /\ LET old == Located(world, u)
                     new == <<old[1], name>>
                 IN  /\ new \notin DOMAIN world.files
                     /\ disk' = [disk EXCEPT !.files =
                            [p \in (DOMAIN @ \ {old}) \cup {new} |-> IF p = new THEN @[old] ELSE @[p]]]
              /\ world' = disk'
              /\ crossed' = crossed \cup {req[r].run : r \in {q \in Requests : req[q].pc # "idle"}}
        /\ UNCHANGED <<scene, source, runs, req, report, dialog>>

-----------------------------------------------------------------------------

NobodyImports == (\A r \in Requests : req[r].pc = "idle") /\ UNCHANGED vars

Next ==
    \/ Preview \/ Back \/ CloseDialog
    \/ \E r \in Requests : StartImport(r) \/ Write(r) \/ Fail(r) \/ Finish(r) \/ Answer(r)
    \/ Watch \/ EditSource \/ Restart
    \/ OpenWizard \/ Suggest \/ ApplyAll \/ ApplyOne
    \/ NobodyImports

Spec == Init /\ [][Next]_vars

-----------------------------------------------------------------------------
(***************************************************************************)
(* Properties.                                                             *)
(***************************************************************************)

\* A tree that maps file by file: no UID twice, no directory twice, no item
\* called like a companion beside it.
MapsOneToOne(t) ==
    /\ \A p, q \in Positions(t) : ItemAt(t, p).uid = ItemAt(t, q).uid => p = q
    /\ \A d, e \in DOMAIN t : Slug[t[d].prefix] = Slug[t[e].prefix] => d = e
    /\ \A p, q \in Positions(t) :
        ItemAt(t, p).ref = "url" => RefName[ItemAt(t, p).uid] # ItemAt(t, q).uid

Imported(t, p) == Listed(t, ItemAt(t, p).uid) # {}
FilesOf(n) == {disk.files[a] : a \in {b \in DOMAIN disk.files : disk.files[b].uuid[1] = n}}
FileOf(uuid) == disk.files[Located(disk, uuid)]

\* What item p of the tree of run n has become.
ItemStands(t, n, p) ==
    LET item == ItemAt(t, p)
        uuid == Id(n, "item", p, 0)
        uids == LinksOf(item)
    IN  /\ uuid \in UuidsOf(disk)
        /\ Located(disk, uuid)[1] = Slug[t[p[1]].prefix] /\ FileOf(uuid).uid = item.uid
        /\ FileOf(uuid).log # <<>> <=> item.reviewed
        /\ "ref" \in FileOf(uuid).legacy <=> item.ref = "text"
        /\ \A k \in DOMAIN uids :
            LET to == FileOf(uuid).links[k].to
            IN  IF Listed(t, uids[k]) = {} THEN to \notin UuidsOf(disk)
                ELSE to \in UuidsOf(disk) /\ FileOf(to).uid = uids[k]
        /\ item.ref = "url" =>
            LET l == Last(FileOf(uuid).links)
            IN  l.type = "cites" /\ l.to \in UuidsOf(disk) /\ FileOf(l.to).shape = "url"

\* The report counts what lies in the files.
CountsFiles(rep) ==
    LET files == FilesOf(rep.run)
        Linked(Test(_)) == Cardinality({x \in UNION {{f} \X DOMAIN f.links : f \in files} :
                                            Test(x[1].links[x[2]])})
    IN  /\ rep.artifacts = Cardinality(files)
        /\ rep.urls = Cardinality({f \in files : f.shape = "url"})
        /\ rep.legacyRefs = Cardinality({f \in files : "ref" \in f.legacy})
        /\ rep.preserved = Cardinality({f \in files : "extra" \in f.legacy})
        /\ rep.reviews = Cardinality({f \in files : f.log # <<>>})
        /\ rep.cites = Linked(LAMBDA l : l.type = "cites")
        /\ rep.unresolved = Linked(LAMBDA l : l.to \notin UuidsOf(disk))

\* An import that was answered for stands whole, through failed and repeated
\* runs before it, edits of the source and renames after it: every item has its
\* artifact, every link that could resolve leads to the artifact of its UID,
\* wherever its document comes in the walk, and the report says what there is
\* (build_plan, execute).
ImportStands ==
    (report # None /\ report.run \notin crossed /\ MapsOneToOne(report.tree)) =>
        /\ \A p \in Positions(report.tree) :
            Imported(report.tree, p) => ItemStands(report.tree, report.run, p)
        /\ CountsFiles(report)

\* A collection of the project is left as it is by an import whose directories
\* are others, even where the published project is an old one.
HomeStays ==
    (\A t \in scene.trees : \A d \in DOMAIN t : Slug[t[d].prefix] \notin DOMAIN scene.home.dirs) =>
        /\ \A d \in DOMAIN scene.home.dirs : disk.dirs[d] = scene.home.dirs[d]
        /\ \A p \in DOMAIN scene.home.files : p \in DOMAIN disk.files /\ disk.files[p] = scene.home.files[p]

DoorstopOK == ImportStands /\ HomeStays

\* INTEROP-doorstopRefHandling: "the importer creates a new URL-reference
\* artifact holding the URL".
CompanionsHoldTheirUrl ==
    \A p \in DOMAIN disk.files : disk.files[p].shape = "url" => disk.files[p].url # None
=============================================================================
