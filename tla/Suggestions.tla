---------------------------- MODULE Suggestions ----------------------------
(***************************************************************************)
(* Link suggestions (provreq-model's suggestions, http/handlers.rs) over   *)
(* the artifact store: a model proposes links, an operator accepts,        *)
(* declines or reinstates them, and an accepted one becomes a link of its  *)
(* artifact.  The proposals and the declined ones are two files beside the *)
(* collections, each read and written whole, without a lock.               *)
(***************************************************************************)
EXTENDS ArtifactStore

CONSTANTS
    Box,      \* artifacts/.suggestions
    PendingName, DeclinedName,
    Keys      \* what a model may propose: pairs of identities

ASSUME SuggestionsAssumption ==
    /\ Box \notin Dirs /\ PendingName # DeclinedName
    /\ \A k \in Keys : k[1] # k[2]

VARIABLES
    held,      \* what a request took out of a list, or knows of the declined
    analyses,  \* analyses begun
    since,     \* ghost: the analyses begun when a key was last declined
    linked     \* ghost: accepted links, written when one file was the artifact

svars == <<vars, held, analyses, since, linked>>

-----------------------------------------------------------------------------

PendingAt == Path(Box, PendingName, List)
DeclinedAt == Path(Box, DeclinedName, List)

\* A suggestion is of the analysis that made it.
Suggestion(k, n) == [key |-> k, run |-> n]
ListFile(S) == [Artifact(None, "list", "list", S) EXCEPT !.text = S]

\* What is in the tree, by path and by shape: an address in a URL artifact,
\* an extension in a blob's metadata, proposals in a list.
Paths ==
    [dir : Dirs, name : Names,
     ext : {Md, UrlSide} \cup {Side(e) : e \in Exts} \cup {Bin(e) : e \in Exts}]
    \cup {PendingAt, DeclinedAt}
ReviewEntry ==
    [outcome : {"approved", "rejected", "todo-added", "todo-resolved", "re-request-review"},
     todo : Todos \cup {None}]
Of(shape, forms, uuids, texts, checks) ==
    [form : forms, shape : {shape}, uuid : uuids, text : texts, checked : checks,
     links : SUBSET Uuids, log : Seq(ReviewEntry)]
StoredArtifact ==
    Of("content", {"front", "json"}, Uuids, {None}, {None})
    \cup Of("url", {"front", "json"}, Uuids, Texts \cup {None}, Texts \cup {None})
    \cup Of("blob", {"front", "json"}, Uuids, Exts, {None})
BytesFile == Of("blob", {"bytes"}, {None}, {None}, {None})
ListOfSuggestions ==
    Of("list", {"list"}, {None}, SUBSET [key : Keys, run : Nat], {None})
File == StoredArtifact \cup BytesFile \cup ListOfSuggestions

\* Metadata beside its bytes, in a collection; a binary is not described in
\* Markdown.
Orderly(t) ==
    \A p \in {q \in DOMAIN t.files : q.ext # List} :
        LET f == t.files[p]
        IN  /\ p.dir \in DOMAIN t.dirs
            /\ p.ext = Md /\ f.form = "front" => f.shape # "blob"
            /\ IsSidecar(p) /\ f.form = "json" /\ f.shape = "blob" =>
                    p.ext = Side(f.text) /\ BytesOf(p, f) \in DOMAIN t.files

SameName(p, q) == p.dir = q.dir /\ p.name = q.name

\* A tree to start from is one that the program could have left before anything
\* met: by reviewers and URL checks, with one file to an identity and one
\* artifact to a name; what is proposed there is of no analysis counted here.
ASSUME ScenesAssumption ==
    \A s \in Scenes :
        /\ s.tree \in [files : [DOMAIN s.tree.files -> File],
                       dirs : [DOMAIN s.tree.dirs -> Prefixes]]
        /\ DOMAIN s.tree.files \subseteq Paths /\ DOMAIN s.tree.dirs \subseteq Dirs
        /\ \A p \in DOMAIN s.tree.files :
            LET f == s.tree.files[p]
            IN  /\ p.ext = List <=> f.shape = "list"
                /\ p.ext = List => \A x \in f.text : x.run = 0
                /\ Lawful(f.log)
                /\ f.checked # None => f.checked = f.text
        /\ Orderly(s.tree)
        /\ \A p, q \in DOMAIN s.tree.files :
            /\ s.tree.files[p].uuid = s.tree.files[q].uuid
            /\ s.tree.files[p].uuid # None
            => p = q
        /\ \A p, q \in Loaded(s.tree) : SameName(p, q) => p = q

\* load: a missing file is an empty list.
Listed(t, p) == IF p \in DOMAIN t.files THEN t.files[p].text ELSE {}
Pending == Listed(disk, PendingAt)
Declined == Listed(disk, DeclinedAt)

SuggestionsInit ==
    /\ Init
    /\ held = [r \in Requests |-> None]
    /\ analyses = 0
    /\ since = [k \in Keys |-> 0]
    /\ linked = {}

\* A request goes on to write one list it has just read.
Saves(r, op, p, S, s) ==
    /\ req' = [req EXCEPT ![r] = [pc |-> "saving", op |-> op, uuid |-> None,
                                  plan |-> <<Put(p, ListFile(S))>>,
                                  base |-> disk, seen |-> None]]
    /\ held' = [held EXCEPT ![r] = s]

Begins(r, op) ==
    /\ req[r].pc = "idle" /\ op \in ops /\ started < MaxStarted
    /\ started' = started + 1

Ends(r) ==
    /\ req' = [req EXCEPT ![r] = Idle]
    /\ held' = [held EXCEPT ![r] = None]

rest == <<disk, world, ops, used, crashes, ghosts, since, linked>>

\* analyze_link_suggestions: the declined are read, then a model is asked.
Analyze(r) ==
    /\ Begins(r, "analyze")
    /\ analyses' = analyses + 1
    /\ req' = [req EXCEPT ![r] = [Idle EXCEPT !.pc = "asking", !.op = "analyze",
                                              !.uuid = analyses + 1]]
    /\ held' = [held EXCEPT ![r] = Declined]
    /\ UNCHANGED rest

\* A fault: declined suggestions told by identity, which is new every time.
ProposesById(answer, declined, n) ==
    {Suggestion(k, n) : k \in answer} \ declined

\* parse_suggestions: a proposal declined before is left out.
Proposes(answer, declined, n) ==
    {Suggestion(k, n) : k \in answer \ {d.key : d \in declined}}

\* The chain failed, or its answer becomes the list.
Analyzed(r) ==
    /\ req[r].pc = "asking"
    /\ \/ Ends(r)
       \/ \E answer \in SUBSET Keys :
            Saves(r, "analyze", PendingAt,
                  Proposes(answer, held[r], req[r].uuid), None)
    /\ UNCHANGED <<rest, started, analyses>>

\* accept, reject, reinstate: the suggestion leaves its list first.
Accept(r) == \E s \in Pending :
    /\ Begins(r, "accept")
    /\ Saves(r, "accept", PendingAt, Pending \ {s}, s)
    /\ UNCHANGED <<rest, analyses>>

Reject(r) == \E s \in Pending :
    /\ Begins(r, "reject")
    /\ Saves(r, "reject", PendingAt, Pending \ {s}, s)
    /\ UNCHANGED <<rest, analyses>>

Reinstate(r) == \E s \in Declined :
    /\ Begins(r, "reinstate")
    /\ Saves(r, "reinstate", DeclinedAt, Declined \ {s}, s)
    /\ UNCHANGED <<rest, analyses>>

Saved(r, op) == req[r].pc = "saving" /\ req[r].plan = <<>> /\ req[r].op = op

\* declined::append.
Decline(r) ==
    /\ Saved(r, "reject")
    /\ Saves(r, "decline", DeclinedAt, Declined \cup {held[r]}, held[r])
    /\ UNCHANGED <<rest, started, analyses>>

\* Lists are saved without a refresh; an accept whose link is refused ends too.
Done(r) ==
    /\ Saved(r, "analyze") \/ Saved(r, "decline")
    /\ Ends(r)
    /\ UNCHANGED <<rest, started, analyses>>

\* validate_links with no hints: every target must resolve, the old ones too.
Applies(k) ==
    /\ Held(k[1]) /\ Held(k[2])
    /\ Current(k[1]).links \subseteq UuidsOf(world)

WithLink(f, u) == [f EXCEPT !.links = @ \cup {u}, !.form = FormOf(f.shape)]

\* apply_suggestion_as_link, on a new snapshot.
Apply(r) ==
    /\ Saved(r, "accept") \/ Saved(r, "reinstate")
    /\ LET k == held[r].key
       IN  IF Applies(k)
           THEN /\ req' = [req EXCEPT ![r] =
                    [pc |-> "writing", op |-> "apply", uuid |-> k[1], seen |-> None,
                     plan |-> <<Put(At(world, k[1]), WithLink(Current(k[1]), k[2]))>>,
                     base |-> world]]
                /\ UNCHANGED held
           ELSE Ends(r)
    /\ UNCHANGED <<rest, started, analyses>>

\* An artifact has one file, unless a blob is being replaced or its replacement
\* was cut short.
InOneFile(u) ==
    \A p, q \in Loaded(disk) : disk.files[p].uuid = u /\ disk.files[q].uuid = u => p = q

\* The store's own steps.  A link or a decline is on record once written.
Lands(r, op) == req[r].op = op /\ req[r].plan # <<>>
Stores(r) ==
    /\ \/ Asks(r) \/ Write(r) \/ PartlyRemoves(r) \/ Ignores(r) \/ Deinit(r)
       \/ Read(r) \/ Publish(r) \/ Answer(r)
    /\ linked' = IF Lands(r, "apply") /\ InOneFile(held[r].key[1])
                 THEN linked \cup {held[r].key} ELSE linked
    /\ since' = IF Lands(r, "decline")
                THEN [since EXCEPT ![held[r].key] = analyses] ELSE since
    /\ held' = IF Lands(r, "apply") \/ Lands(r, "decline")
               THEN [held EXCEPT ![r] = None] ELSE held
    /\ UNCHANGED analyses

Errs(r) ==
    /\ GiveUp(r)
    /\ held' = [held EXCEPT ![r] = None]
    /\ UNCHANGED <<analyses, since, linked>>

Stops ==
    /\ Crash
    /\ held' = [r \in Requests |-> None]
    /\ UNCHANGED <<analyses, since, linked>>

NobodyAsks == (\A r \in Requests : req[r].pc = "idle") /\ UNCHANGED svars

SuggestionsNext ==
    \/ \E r \in Requests :
        \/ Stores(r) \/ Errs(r)
        \/ Analyze(r) \/ Analyzed(r)
        \/ Accept(r) \/ Reject(r) \/ Reinstate(r)
        \/ Decline(r) \/ Apply(r) \/ Done(r)
    \/ Stops
    \/ NobodyAsks

SuggestionsSpec == SuggestionsInit /\ [][SuggestionsNext]_svars

-----------------------------------------------------------------------------

\* A link an operator declined is proposed again only by an analysis that was
\* under way when it was declined, unless one list was written over a change
\* not read (suggestions/engine.rs, declined.rs).
DeclinedStaysOut ==
    ~crossed =>
        \A s \in Pending, d \in Declined : s.key = d.key => since[s.key] >= s.run

\* An accepted link stays in its artifact through reviews, checks, edits of
\* other fields, replacements of its binary and further accepted links, as long
\* as the artifact is there (apply_suggestion_as_link and the other whole-file
\* writes).
AcceptedLinksStay ==
    ~crossed =>
        \A k \in linked : k[1] \in UuidsOf(disk) =>
            k[2] \in disk.files[At(disk, k[1])].links

\* What an operator decided of a suggestion stands, whichever way it went
\* (suggestions/engine.rs, declined.rs, apply_suggestion_as_link).
DecisionsStand == DeclinedStaysOut /\ AcceptedLinksStay
=============================================================================
