--------------------------- MODULE ArtifactStore ---------------------------
(***************************************************************************)
(* The artifact store behind the management API (http/handlers.rs over     *)
(* provreq-model's load, write, reviews and doorstop): artifacts of three  *)
(* shapes in collections of one project, created, edited, reviewed,        *)
(* renamed, checked, replaced, adopted, imported and deleted.              *)
(*                                                                         *)
(* A handler decides on a snapshot of the published world, lets it go,     *)
(* writes to disk one file at a time, reads the tree again, publishes what *)
(* it read and answers from the world of that moment.  Nothing is locked   *)
(* between these steps, and the server may stop at any of them.            *)
(***************************************************************************)
EXTENDS Naturals, Sequences, FiniteSets, TLC

CONSTANTS
    Uuids,      \* identities to hand out
    Names,      \* artifact names: file stems
    Dirs,       \* collection directories
    Prefixes,   \* collection prefixes
    Slug,       \* slugify_prefix: the directory an import gives a prefix
    Texts,      \* bodies of content, addresses of URL artifacts
    Exts,       \* blob extensions
    Todos,      \* identities of review TODOs
    Requests,   \* requests in flight
    Scenes,     \* bound of the model: a tree to start from, handlers that meet
    MaxStarted, \* bound of the model: requests in all
    MaxCrashes, \* bound of the model: restarts
    None        \* no text, no identity

ASSUME StoreAssumption ==
    /\ Slug \in [Prefixes -> Dirs]
    /\ None \notin Uuids \cup Texts \cup Exts \cup Todos
    /\ MaxStarted \in Nat /\ MaxCrashes \in Nat
ASSUME DirsAssumption == IsFiniteSet(Dirs)

VARIABLES
    disk,     \* the project's tree: collection configs and files
    world,    \* the tree as last published
    req,      \* the local variables of each request
    ops,      \* the handlers of this behaviour
    used,     \* identities handed out
    started,  \* requests so far
    crashes,  \* restarts so far
    owed,     \* ghost: artifacts that were stored and that nobody deleted
    crossed,  \* ghost: a write met a change its request had not seen, or a
              \* removal left behind what it was to take away
    halved,   \* ghost: names of blobs whose replacement was cut short
    misfit    \* ghost: a file its path cannot hold, or a name held twice

vars == <<disk, world, req, ops, used, started, crashes, owed, crossed, halved, misfit>>

-----------------------------------------------------------------------------
(***************************************************************************)
(* The tree.  NAME.md holds frontmatter and body, NAME.provreq.json a URL  *)
(* artifact, NAME.EXT.provreq.json a blob artifact whose bytes are NAME.EXT*)
(***************************************************************************)

Md == <<"md">>
UrlSide == <<"side">>
Side(e) == <<"side", e>>
Bin(e) == <<"bin", e>>
List == <<"list">>  \* what module Suggestions keeps in the tree

Path(d, n, x) == [dir |-> d, name |-> n, ext |-> x]
IsSidecar(p) == p.ext[1] = "side"

\* text: the body, the address, or the extension of the bytes; checked: the
\* address the check status is about.
Artifact(u, shape, form, text) ==
    [form |-> form, shape |-> shape, uuid |-> u, text |-> text,
     checked |-> None, links |-> {}, log |-> <<>>]

Entry(outcome, todo) == [outcome |-> outcome, todo |-> todo]

Bytes == Artifact(None, "blob", "bytes", None)

BytesOf(p, f) == [p EXCEPT !.ext = Bin(f.text)]

\* load_collection: what is read back as an artifact.
Loads(t, p) ==
    LET f == t.files[p]
    IN  /\ p.dir \in DOMAIN t.dirs
        /\ \/ p.ext = Md /\ f.form = "front"
           \/ /\ IsSidecar(p) /\ f.form = "json"
              /\ \/ f.shape = "url"
                 \/ f.shape = "blob" /\ BytesOf(p, f) \in DOMAIN t.files

Loaded(t) == {p \in DOMAIN t.files : Loads(t, p)}
UuidsOf(t) == {t.files[p].uuid : p \in Loaded(t)}
NamesOf(t, d) == {p.name : p \in {q \in Loaded(t) : q.dir = d}}
PrefixesOf(t) == {t.dirs[d] : d \in DOMAIN t.dirs}

\* build_uuid_index: of two files with one identity the first read counts,
\* and content files are read before sidecars.
At(t, u) ==
    LET all == {p \in Loaded(t) : t.files[p].uuid = u}
        content == {p \in all : p.ext = Md}
    IN  CHOOSE p \in all : content # {} => p \in content

-----------------------------------------------------------------------------
(***************************************************************************)
(* Steps of a write.                                                       *)
(***************************************************************************)

Put(p, f) == [do |-> "put", at |-> p, file |-> f]
Drop(p) == [do |-> "drop", at |-> p]
DropIf(p) == [do |-> "dropif", at |-> p]
Move(p, q) == [do |-> "move", at |-> p, to |-> q]
MkDir(d, x) == [do |-> "mkdir", dir |-> d, prefix |-> x]
RmDir(d) == [do |-> "rmdir", dir |-> d]

OnDisk(t) == DOMAIN t.dirs \cup {p.dir : p \in DOMAIN t.files}
Only(f, D) == [x \in D |-> f[x]]
With(f, x, y) == [z \in DOMAIN f \cup {x} |-> IF z = x THEN y ELSE f[z]]

Fails(t, a) ==
    \/ a.do \in {"drop", "move"} /\ a.at \notin DOMAIN t.files
    \/ a.do = "rmdir" /\ a.dir \notin OnDisk(t)

After(t, a) ==
    CASE a.do = "put" -> [t EXCEPT !.files = With(@, a.at, a.file)]
      [] a.do \in {"drop", "dropif"} ->
            [t EXCEPT !.files = Only(@, DOMAIN @ \ {a.at})]
      [] a.do = "move" ->
            [t EXCEPT !.files = With(Only(@, DOMAIN @ \ {a.at}), a.to, @[a.at])]
      [] a.do = "mkdir" -> [t EXCEPT !.dirs = With(@, a.dir, a.prefix)]
      [] a.do = "rmdir" ->
            [files |-> Only(t.files, {p \in DOMAIN t.files : p.dir # a.dir}),
             dirs |-> Only(t.dirs, DOMAIN t.dirs \ {a.dir})]

\* write_artifact_file or write_sidecar_only, by shape alone.
FormOf(shape) == IF shape = "content" THEN "front" ELSE "json"

\* What a step touches: the files of the names it writes, or the directory
\* it makes or removes.  A wipe and a link analysis mean to replace whatever
\* they find.
Touched(t, a, op) ==
    LET dir == IF a.do \in {"mkdir", "rmdir"} THEN a.dir ELSE a.at.dir
        mine(p) == /\ p.dir = dir
                   /\ \/ a.do \in {"mkdir", "rmdir"}
                      \/ p.name = a.at.name
                      \/ a.do = "move" /\ p.name = a.to.name
    IN  IF op \in {"wipe", "analyze"} THEN None
        ELSE [files |-> Only(t.files, {p \in DOMAIN t.files : mine(p)}),
              dirs |-> Only(t.dirs, DOMAIN t.dirs \cap {dir})]

\* A form its path is not read in, a second artifact of one name, or a
\* directory another collection is in.
Misfit(t, a) ==
    \/ a.do = "put" /\ a.file.form \in {"front", "json"}
       /\ \/ a.file.form # (IF a.at.ext = Md THEN "front" ELSE "json")
          \/ \E p \in Loaded(t) :
                /\ p.dir = a.at.dir /\ p.name = a.at.name /\ p # a.at
                /\ t.files[p].uuid # a.file.uuid
    \/ a.do = "move" /\ a.at.ext # Md
    \/ a.do = "mkdir" /\ a.dir \in OnDisk(t)

-----------------------------------------------------------------------------

Idle == [pc |-> "idle", op |-> None, uuid |-> None, plan |-> <<>>,
         base |-> None, seen |-> None]

\* The server is up and nothing is asked yet.
Init ==
    /\ \E s \in Scenes : disk = s.tree /\ ops = s.ops
    /\ world = disk
    /\ req = [r \in Requests |-> Idle]
    /\ used = {disk.files[p].uuid : p \in DOMAIN disk.files} \ {None}
    /\ owed = UuidsOf(disk)
    /\ started = 0 /\ crashes = 0
    /\ crossed = FALSE /\ halved = {} /\ misfit = FALSE

ghosts == <<owed, crossed, halved, misfit>>
Fresh == Uuids \ used
Mint == CHOOSE u \in Fresh : TRUE

\* find_collection: of two collections of one prefix the first is meant.
Finds(t, d) ==
    d \in DOMAIN t.dirs /\ d = CHOOSE e \in DOMAIN t.dirs : t.dirs[e] = t.dirs[d]

Held(u) == u \in UuidsOf(world) /\ Finds(world, At(world, u).dir)
Current(u) == world.files[At(world, u)]
Taken(d, n) == n \in NamesOf(world, d)

\* A request whose checks passed on the published world goes on to its writes.
Plans(r, op, u, news, plan) ==
    /\ req[r].pc = "idle" /\ op \in ops /\ started < MaxStarted
    /\ started' = started + 1
    /\ req' = [req EXCEPT ![r] = [pc |-> "writing", op |-> op, uuid |-> u,
                                  plan |-> plan, seen |-> None,
                                  base |-> IF op = "adopt" THEN disk ELSE world]]
    /\ used' = used \cup news
    /\ UNCHANGED <<disk, world, ops, crashes, ghosts>>

\* One new artifact, written by `plan`.
Makes(r, op, d, n, plan) ==
    /\ Fresh # {} /\ Finds(world, d) /\ ~Taken(d, n)
    /\ Plans(r, op, Mint, {Mint}, plan)

Create(r) == \E d \in Dirs, n \in Names :
    Makes(r, "create", d, n,
          <<Put(Path(d, n, Md), Artifact(Mint, "content", "front", None))>>)

CreateUrl(r) == \E d \in Dirs, n \in Names, t \in Texts :
    Makes(r, "createurl", d, n,
          <<Put(Path(d, n, UrlSide), Artifact(Mint, "url", "json", t))>>)

\* A fault: the metadata before the bytes.
SidecarFirst(d, n, f) ==
    <<Put(Path(d, n, Side(f.text)), f), Put(Path(d, n, Bin(f.text)), Bytes)>>

\* write_blob_and_sidecar: the bytes first.
BlobWrites(d, n, f) ==
    <<Put(Path(d, n, Bin(f.text)), Bytes), Put(Path(d, n, Side(f.text)), f)>>

CreateBlob(r) == \E d \in Dirs, n \in Names, e \in Exts :
    Makes(r, "createblob", d, n,
          BlobWrites(d, n, Artifact(Mint, "blob", "json", e)))

\* The sidecar is named for the binary, the name checked is the one asked for;
\* the two files are looked up on disk.
Adopt(r) == \E p \in DOMAIN disk.files, n \in Names :
    /\ p.ext[1] = "bin"
    /\ LET side == [p EXCEPT !.ext = Side(p.ext[2])]
       IN  /\ side \notin DOMAIN disk.files
           /\ Makes(r, "adopt", p.dir, n,
                    <<Put(side, Artifact(Mint, "blob", "json", p.ext[2]))>>)

\* The whole file is written from the snapshot; a new address drops its check.
Edited(f, t) ==
    IF t = None THEN [f EXCEPT !.form = FormOf(f.shape)]
    ELSE [f EXCEPT !.form = FormOf(f.shape), !.text = t, !.checked = None]

\* A fault: an address given to an artifact of any shape.
UpdateAnyShape(r) == \E u \in Uuids, t \in Texts \cup {None} :
    /\ Held(u)
    /\ Plans(r, "update", u, {}, <<Put(At(world, u), Edited(Current(u), t))>>)

Update(r) == \E u \in Uuids, t \in Texts \cup {None} :
    /\ Held(u) /\ (t # None => Current(u).shape = "url")
    /\ Plans(r, "update", u, {}, <<Put(At(world, u), Edited(Current(u), t))>>)

\* run_url_check: the status is of the address read before the fetch; without
\* an address there is none.
Checked(f) == [f EXCEPT !.checked = f.text, !.form = "json"]

Check(r) == \E u \in Uuids :
    /\ Held(u) /\ Current(u).shape = "url" /\ Current(u).text # None
    /\ Plans(r, "check", u, {}, <<Put(At(world, u), Checked(Current(u)))>>)

Rename(r) == \E u \in Uuids, n \in Names :
    /\ Held(u) /\ ~Taken(At(world, u).dir, n)
    /\ Plans(r, "rename", u, {},
             <<Move(At(world, u), Path(At(world, u).dir, n, Md))>>)

Delete(r) == \E u \in UuidsOf(world) :
    Plans(r, "delete", u, {}, <<Drop(At(world, u))>>)

\* A binary of another extension is a new pair of files, then the old go.
ReplaceBlob(r) == \E u \in Uuids, e \in Exts :
    /\ Held(u) /\ Current(u).shape = "blob"
    /\ LET p == At(world, u)
           new == BlobWrites(p.dir, p.name, [Current(u) EXCEPT !.text = e])
           old == <<DropIf(p), DropIf(BytesOf(p, Current(u)))>>
       IN  Plans(r, "replace", u, {},
                 IF e = Current(u).text THEN new ELSE new \o old)

CreateCollection(r) == \E d \in Dirs, x \in Prefixes :
    /\ x \notin PrefixesOf(world) /\ d \notin DOMAIN world.dirs
    /\ Plans(r, "mkcoll", None, {}, <<MkDir(d, x)>>)

\* A fault: only content keeps a collection from being removed.
DeleteWithoutContent(r) == \E d \in Dirs :
    /\ Finds(world, d) /\ ~\E p \in Loaded(world) : p.dir = d /\ p.ext = Md
    /\ Plans(r, "rmcoll", None, {}, <<RmDir(d)>>)

DeleteCollection(r) == \E d \in Dirs :
    /\ Finds(world, d) /\ NamesOf(world, d) = {}
    /\ Plans(r, "rmcoll", None, {}, <<RmDir(d)>>)

\* The directories are those on disk when the handler lists them.
Orders(D) ==
    {s \in [1..Cardinality(D) -> D] : \A i, j \in DOMAIN s : s[i] = s[j] => i = j}
Removals(s) == [i \in DOMAIN s |-> RmDir(s[i])]

Wipe(r) == \E s \in Orders(OnDisk(disk)) : Plans(r, "wipe", None, {}, Removals(s))

\* build_plan and build_artifact_file: a collection, an item already approved,
\* and the URL artifact it cites; both are written as Markdown.  The citation
\* and its URL artifact were given two identities, so url_from_siblings finds
\* no address for it.
ImportPlan(x, n, m, u, v) ==
    LET item == [Artifact(u, "content", "front", None) EXCEPT
                    !.log = <<Entry("approved", None)>>, !.links = {v}]
    IN  <<MkDir(Slug[x], x), Put(Path(Slug[x], n, Md), item),
          Put(Path(Slug[x], m, Md), Artifact(v, "url", "front", None))>>

\* execute refuses only a prefix that is taken.
Import(r) == \E x \in Prefixes, n, m \in Names, v \in {w \in Fresh : w # Mint} :
    /\ x \notin PrefixesOf(world) /\ n # m
    /\ Plans(r, "import", None, {Mint, v}, ImportPlan(x, n, m, Mint, v))

\* write_sample_content, into a project without collections; its directories
\* and prefixes are fixed.
Sample(r) == \E x \in Prefixes, n \in Names :
    /\ DOMAIN world.dirs = {} /\ Fresh # {}
    /\ Plans(r, "sample", None, {Mint},
             <<MkDir(Slug[x], x),
               Put(Path(Slug[x], n, Md), Artifact(Mint, "content", "front", None))>>)

-----------------------------------------------------------------------------
(***************************************************************************)
(* Reviews.  One call appends one entry to the log in the file.            *)
(***************************************************************************)

LastApproval(log) ==
    CHOOSE i \in 0..Len(log) :
        /\ i = 0 \/ log[i].outcome = "approved"
        /\ \A j \in i + 1..Len(log) : log[j].outcome # "approved"

\* A fault: only a rejection's TODO blocks.
BlockingOfRejections(log) ==
    {log[i].todo : i \in {j \in LastApproval(log) + 1..Len(log) :
                            /\ log[j].outcome = "rejected"
                            /\ \A k \in j + 1..Len(log) :
                                log[k] # Entry("todo-resolved", log[j].todo)}}

\* collect_open_todos: added since the last approval and not resolved since.
BlockingTodos(log) ==
    LET open[i \in LastApproval(log)..Len(log)] ==
            IF i = LastApproval(log) THEN {}
            ELSE CASE log[i].outcome \in {"rejected", "todo-added"} ->
                        open[i - 1] \cup {log[i].todo}
                   [] log[i].outcome = "todo-resolved" -> open[i - 1] \ {log[i].todo}
                   [] OTHER -> open[i - 1]
    IN  open[Len(log)]

Outcomes(log) == {log[i].outcome : i \in DOMAIN log}

\* validate_and_build_entry: the entries a reviewer may add to this log.
\* Without an approval a review is asked for again only of a rejected artifact.
Reviews(log) ==
    LET settled == {i \in DOMAIN log : log[i].outcome \in
                        {"approved", "rejected", "re-request-review"}}
        rejected == \E i \in settled : /\ \A j \in settled : j <= i
                                       /\ log[i].outcome = "rejected"
    IN  {Entry(o, t) : o \in {"rejected", "todo-added"}, t \in Todos}
        \cup {Entry("todo-resolved", t) : t \in BlockingTodos(log)}
        \cup {e \in {Entry("approved", None)} : BlockingTodos(log) = {}}
        \cup {e \in {Entry("re-request-review", None)} :
                 "approved" \in Outcomes(log) \/ rejected}

\* The file is written as Markdown, whatever its shape.
Review(r) == \E u \in Uuids :
    /\ Held(u)
    /\ \E e \in Reviews(Current(u).log) :
         Plans(r, "review", u, {},
               <<Put(At(world, u), [Current(u) EXCEPT !.form = "front",
                                                      !.log = Append(@, e)])>>)

-----------------------------------------------------------------------------
(***************************************************************************)
(* What every request goes through after its checks.                       *)
(***************************************************************************)

Creators == {"create", "createurl", "createblob", "adopt", "import", "sample"}

\* What a step adds to, and takes from, what the store owes its users.
Promised(r, a) ==
    IF req[r].op \in Creators /\ a.do = "put" THEN {a.file.uuid} \ {None} ELSE {}
Released(r, a) ==
    IF req[r].op = "delete" THEN {req[r].uuid}
    ELSE IF req[r].op = "wipe"
         THEN {disk.files[p].uuid : p \in {q \in DOMAIN disk.files : q.dir = a.dir}}
         ELSE {}

\* One file written, renamed or removed.
Write(r) ==
    /\ req[r].plan # <<>> /\ ~Fails(disk, Head(req[r].plan))
    /\ LET a == Head(req[r].plan)
       IN  /\ disk' = After(disk, a)
           /\ req' = [req EXCEPT ![r].plan = Tail(@), ![r].base = After(@, a)]
           /\ owed' = (owed \cup Promised(r, a)) \ Released(r, a)
           /\ crossed' = (crossed \/ Touched(disk, a, req[r].op)
                                       # Touched(req[r].base, a, req[r].op))
           /\ misfit' = (misfit \/ Misfit(disk, a))
    /\ UNCHANGED <<world, ops, used, started, crashes, halved>>

\* remove_dir_all takes the entries one by one: it may fail, or be overtaken,
\* with some of them gone.
PartlyRemoves(r) ==
    /\ req[r].plan # <<>> /\ Head(req[r].plan).do = "rmdir"
    /\ LET a == Head(req[r].plan)
           inside == {p \in DOMAIN disk.files : p.dir = a.dir}
       IN  /\ \E gone \in SUBSET inside, config \in SUBSET (DOMAIN disk.dirs \cap {a.dir}) :
                disk' = [files |-> Only(disk.files, DOMAIN disk.files \ gone),
                         dirs |-> Only(disk.dirs, DOMAIN disk.dirs \ config)]
           /\ owed' = owed \ Released(r, a)
    /\ disk' # disk /\ crossed' = TRUE
    /\ UNCHANGED <<world, req, ops, used, started, crashes, halved, misfit>>

\* replace_blob ignores that an old file could not be removed.
Ignores(r) ==
    /\ req[r].plan # <<>> /\ Head(req[r].plan).do = "dropif"
    /\ req' = [req EXCEPT ![r].plan = Tail(@)]
    /\ crossed' = TRUE
    /\ UNCHANGED <<disk, world, ops, used, started, crashes, owed, halved, misfit>>

\* ?deinit=true: the root of the artifacts goes too, with what is in it by
\* then.  The project is initialised again before anything else is asked.
Deinit(r) ==
    /\ req[r].pc = "writing" /\ req[r].plan = <<>> /\ req[r].op = "wipe"
    /\ OnDisk(disk) # {}
    /\ \E s \in Orders(OnDisk(disk)) :
        req' = [req EXCEPT ![r].plan = Removals(s), ![r].base = disk]
    /\ UNCHANGED <<disk, world, ops, used, started, crashes, ghosts>>

\* The names under which a request has still to take old metadata away.
Slot(p) == [dir |-> p.dir, name |-> p.name]
Cut(r) == {Slot(req[r].plan[i].at) :
             i \in {j \in DOMAIN req[r].plan : req[r].plan[j].do = "dropif"}}

\* An error at any of its steps, in setting a file's owner or in the refresh
\* ends the request; what is written stays, and nothing is published.
GiveUp(r) ==
    /\ req[r].pc \in {"writing", "saving"}
    /\ req' = [req EXCEPT ![r] = Idle]
    /\ halved' = halved \cup Cut(r)
    /\ UNCHANGED <<disk, world, ops, used, started, crashes, owed, crossed, misfit>>

\* AppState::refresh: read the tree,
Read(r) ==
    /\ req[r].pc = "writing" /\ req[r].plan = <<>>
    /\ req' = [req EXCEPT ![r].pc = "read", ![r].seen = disk, ![r].base = None]
    /\ UNCHANGED <<disk, world, ops, used, started, crashes, ghosts>>

\* and publish what was read.
Publish(r) ==
    /\ req[r].pc = "read"
    /\ world' = req[r].seen
    /\ req' = [req EXCEPT ![r].pc = "published", ![r].seen = None]
    /\ UNCHANGED <<disk, ops, used, started, crashes, ghosts>>

Answer(r) ==
    /\ req[r].pc = "published"
    /\ req' = [req EXCEPT ![r] = Idle]
    /\ UNCHANGED <<disk, world, ops, used, started, crashes, ghosts>>

\* The server stops between two steps and comes up again.
Crash ==
    /\ crashes < MaxCrashes /\ \E r \in Requests : req[r].pc # "idle"
    /\ crashes' = crashes + 1
    /\ req' = [r \in Requests |-> Idle]
    /\ world' = disk
    /\ halved' = halved \cup UNION {Cut(r) : r \in Requests}
    /\ UNCHANGED <<disk, ops, used, started, owed, crossed, misfit>>

Asks(r) ==
    \/ Create(r) \/ CreateUrl(r) \/ CreateBlob(r) \/ Adopt(r)
    \/ Update(r) \/ Check(r) \/ Review(r) \/ Rename(r) \/ Delete(r) \/ ReplaceBlob(r)
    \/ CreateCollection(r) \/ DeleteCollection(r) \/ Wipe(r)
    \/ Import(r) \/ Sample(r)

-----------------------------------------------------------------------------
(***************************************************************************)
(* Properties.                                                             *)
(***************************************************************************)

\* Every file but the lists of suggestions.
Files == {disk.files[p] : p \in {q \in DOMAIN disk.files : q.ext # List}}

\* Types, and what a file of each shape may hold: an address only in a URL
\* artifact (an imported one has none), an extension only in a blob, no
\* identity that was not handed out.
StoreOK ==
    /\ DOMAIN disk.dirs \subseteq Dirs /\ PrefixesOf(disk) \subseteq Prefixes
    /\ \A p \in {q \in DOMAIN disk.files : q.ext # List} :
        /\ p.dir \in Dirs /\ p.name \in Names
        /\ p.ext \in {Md, UrlSide} \cup {Side(e) : e \in Exts} \cup {Bin(e) : e \in Exts}
    /\ \A f \in Files :
        /\ f.text \in (CASE f.shape = "url" -> Texts \cup {None}
                         [] f.shape = "blob" -> Exts \cup {None}
                         [] f.shape = "content" -> {None})
        /\ f.uuid \in used \cup {None}
    /\ \A r \in Requests :
        req[r].pc \in {"idle", "asking", "saving", "writing", "read", "published"}
    /\ started \in 0..MaxStarted /\ crashes \in 0..MaxCrashes
    /\ owed \subseteq used

\* Before entry i a TODO of the same review round is open.
Open(log, i, t) ==
    \E j \in 1..i - 1 :
        /\ log[j].outcome \in {"rejected", "todo-added"} /\ log[j].todo = t
        /\ \A k \in j + 1..i - 1 :
            log[k].outcome # "approved" /\ log[k] # Entry("todo-resolved", t)

\* No approval while a TODO is open, nothing resolved that was not, no second
\* review asked for before a first one was concluded.
Lawful(log) ==
    \A i \in DOMAIN log :
        /\ log[i].outcome = "approved" => ~\E t \in Todos : Open(log, i, t)
        /\ log[i].outcome = "todo-resolved" => Open(log, i, log[i].todo)
        /\ log[i].outcome = "re-request-review" =>
            \E j \in 1..i - 1 : log[j].outcome \in {"approved", "rejected"}

\* Every review log on disk could have been written by reviewers taking
\* turns, however reviews, edits and checks of the artifact overlap
\* (reviews/validate.rs, and the whole-file writes of http/handlers.rs).
LogsAreLawful == \A f \in Files : Lawful(f.log)

\* A check status stands beside the address that was fetched, whatever edits
\* came between the fetch and its write (update_artifact, run_url_check).
CheckIsOfTheUrl == \A f \in Files : f.checked # None => f.checked = f.text

\* A blob's metadata never stands without its bytes, at any step of an
\* upload, a replacement or an adoption and after an error or a crash at any
\* of them (write_blob_and_sidecar, replace_blob).
BinaryStands ==
    ~crossed =>
        \A p \in DOMAIN disk.files :
            IsSidecar(p) /\ disk.files[p].form = "json" /\ disk.files[p].shape = "blob"
            => BytesOf(p, disk.files[p]) \in DOMAIN disk.files

\* One identity is one artifact: it stands in two files only under one name,
\* while its blob is being replaced or after its replacement was cut short, by
\* an error or by a stop (replace_blob, write_blob_and_sidecar).
IdentityIsUnique ==
    ~crossed =>
        \A p, q \in Loaded(disk) : disk.files[p].uuid = disk.files[q].uuid =>
            \/ p = q
            \/ Slot(p) = Slot(q)
               /\ Slot(p) \in halved \cup UNION {Cut(r) : r \in Requests}

\* What was stored stays readable until somebody deletes it, through edits,
\* renames, removals of empty collections, imports, errors and crashes, unless
\* two requests met on one name, a removal left files behind or a file was put
\* where it cannot be read.
NothingLost == ~crossed /\ ~misfit => owed \subseteq UuidsOf(disk)

\* Every file says one thing about one artifact and none goes unasked, whatever
\* overlapped, failed or was stopped half way: the four above
\* (write_blob_and_sidecar, replace_blob, update_artifact, run_url_check,
\* delete_collection).
FilesStand == CheckIsOfTheUrl /\ BinaryStands /\ IdentityIsUnique /\ NothingLost

\* "UUID is the authoritative identity, so every incoming link keeps resolving
\* after the rename" (rename_artifact): when the answer is due an artifact
\* nobody deleted is still found by its identity.
RenameKeepsIdentity ==
    \A r \in Requests :
        req[r].pc = "published" /\ req[r].op = "rename" /\ ~crossed /\ req[r].uuid \in owed
        => req[r].uuid \in UuidsOf(world)

\* "new artifact missing from index after refresh" (create_artifact's expect):
\* a request that stored an artifact nobody deleted finds it in the world it
\* answers from.
CreatorsFindTheirs ==
    \A r \in Requests :
        req[r].pc = "published" /\ req[r].op = "create" /\ ~crossed /\ req[r].uuid \in owed
        => req[r].uuid \in UuidsOf(world)
=============================================================================
