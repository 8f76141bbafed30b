------------------------------ MODULE WebClient -----------------------------
(***************************************************************************)
(* What the pages of provreq serve show (web/src/api): the cache of        *)
(* queries, the requests that fill it, the mutations that change the       *)
(* server and then the cache, and the events that tell it of changes.      *)
(*                                                                         *)
(* The server is one version per resource.  A mutation of an artifact, a   *)
(* collection or a provider publishes a new world, which every connected   *)
(* browser hears of; what writes drafts.yml, triage.yml, verdicts.yml or a *)
(* list of suggestions does not, so its page has to look for itself.       *)
(* The cache itself is that of react-query, modelled by how it is used:    *)
(* an invalidation marks a query and fetches it again if a page shows it,  *)
(* dropping a fetch under way unless there is nothing to show yet.         *)
(***************************************************************************)
EXTENDS Naturals, Sequences, SequencesExt, FiniteSets

CONSTANTS
    Browsed,      \* scene |-> views, mutations, jobs, writes, and what is bounded away
    MaxTruth      \* bound of the model: versions a resource goes through

-----------------------------------------------------------------------------
(***************************************************************************)
(* Queries: their keys, and what the server answers them from.             *)
(***************************************************************************)

\* Two tables as one.
Joined(f, g) == [x \in DOMAIN f \cup DOMAIN g |-> IF x \in DOMAIN f THEN f[x] ELSE g[x]]

Key == [backlog   |-> <<"requirements">>,
        detail    |-> <<"requirements", "id">>,
        engines   |-> <<"engines">>,
        artifact  |-> <<"artifacts", "uuid">>,
        history   |-> <<"artifacts", "uuid", "history">>,
        listing   |-> <<"projects", "slug", "collections", "prefix", "artifacts">>,
        queue     |-> <<"reviews", "queue">>,
        report    |-> <<"reports", "kind", "system">>,
        config    |-> <<"reports", "kind", "config">>,
        pending   |-> <<"projects", "slug", "suggestions", "links", "pending">>,
        declined  |-> <<"projects", "slug", "suggestions", "links", "declined">>,
        providers |-> <<"llm", "providers">>]

ArtifactQueries == [artifact |-> {"world"}, listing |-> {"world"}, queue |-> {"world"}]
ReportQueries == [report |-> {"world"}, config |-> {"config"}]
ListQueries == [pending |-> {"pending"}, declined |-> {"declined"}]
ProofQueries == [backlog |-> {"triage", "drafts", "verdicts"},
                 detail  |-> {"drafts", "verdicts"}]
ProviderQueries == [providers |-> {"world", "health"}]

Shows == Joined(ArtifactQueries, Joined(ReportQueries, Joined(ListQueries,
                                        Joined(ProofQueries, ProviderQueries))))
Queries == DOMAIN Shows
Resources == UNION {Shows[v] : v \in Queries}

-----------------------------------------------------------------------------
(***************************************************************************)
(* Mutations: what the request changes and whether the server tells, then  *)
(* what the hook does to the cache: which keys it invalidates, which query *)
(* it fills from the answer.                                               *)
(***************************************************************************)

Everything == {<<>>}
Asks(writes, told) == [writes |-> writes, told |-> told]
Settles(invalidates, puts) == [invalidates |-> invalidates, puts |-> puts]

\* Whatever writes the tree.
ArtifactMutations ==
    {"create", "update", "rename", "delete", "createCollection", "deleteCollection", "wipe",
     "review", "createBlob", "replaceBlob", "createUrl", "checkUrl", "bulkCheck", "adopt"}
TreeMutations == ArtifactMutations \cup {"import", "migrate", "sample"}

ArtifactRequests == [m \in ArtifactMutations |-> Asks({"world"}, TRUE)]
ImportRequests == [m \in TreeMutations \ ArtifactMutations |-> Asks({"world"}, TRUE)]
ReportRequests == [m \in {"saveConfig", "clearConfig"} |-> Asks({"config"}, FALSE)]
ProviderRequests ==
    Joined([m \in {"addProvider", "replaceProvider", "deleteProvider", "patchProvider"} |->
                Asks({"world"}, TRUE)],
           [m \in {"retest", "acknowledge"} |-> Asks({"health"}, FALSE)])
SuggestionRequests ==
    [analyze   |-> Asks({"pending"}, FALSE),
     accept    |-> Asks({"pending", "world"}, TRUE),
     reject    |-> Asks({"pending", "declined"}, FALSE),
     reinstate |-> Asks({"declined", "world"}, TRUE)]
ProofRequests ==
    [triage |-> Asks({"triage"}, FALSE), seed |-> Asks({"triage"}, FALSE),
     verify |-> Asks({"verdicts"}, FALSE), reverify |-> Asks({"verdicts"}, FALSE),
     draft  |-> Asks({"drafts"}, FALSE)]
RequestOf == Joined(ArtifactRequests, Joined(ImportRequests, Joined(ReportRequests,
                    Joined(ProviderRequests, Joined(SuggestionRequests, ProofRequests)))))

ArtifactHooks == [m \in ArtifactMutations |-> Settles(Everything, {})]
ImportHooks == [m \in TreeMutations \ ArtifactMutations |-> Settles(Everything, {})]
ReportHooks == [m \in DOMAIN ReportRequests |-> Settles({Key.config}, {})]
ProviderHooks == [m \in DOMAIN ProviderRequests |-> Settles({Key.providers}, {})]
SuggestionHooks ==
    [analyze   |-> Settles({Key.pending}, {}),
     accept    |-> Settles(Everything, {}),
     reject    |-> Settles({Key.pending, Key.declined}, {}),
     reinstate |-> Settles(Everything, {})]
TriageHooks == [triage |-> Settles({}, {"backlog"}), seed |-> Settles({}, {"backlog"})]
VerifyHooks == [verify |-> Settles({Key.backlog}, {}), reverify |-> Settles({Key.backlog}, {})]
DraftHooks == [draft |-> Settles({Key.backlog}, {"detail"})]
HookOf == Joined(ArtifactHooks, Joined(ImportHooks, Joined(ReportHooks, Joined(ProviderHooks,
                 Joined(SuggestionHooks, Joined(TriageHooks, Joined(VerifyHooks, DraftHooks)))))))

ASSUME WebAssumption ==
    /\ MaxTruth \in Nat
    /\ \A b \in DOMAIN Browsed :
        LET s == Browsed[b]
        IN  /\ s.views \subseteq Queries /\ s.opening \subseteq s.views
            /\ s.mutations \subseteq DOMAIN RequestOf /\ s.elsewhere \subseteq Resources
            /\ {s.ordered, s.leaves, s.fails, s.breaks} \subseteq BOOLEAN
            /\ "triage" \in s.mutations => "backlog" \in s.views

\* What the theorem about the pages presupposes of a scene.  Answers may overtake
\* each other except before a page has anything to show and where an answer
\* fills a query without invalidating it; otherwise such a mutation is the only
\* one, and so is a triage that may fail.  No triage drops what a detail page
\* is fetching.  Who edits the providers hears that the world has changed.
Fills == {"triage", "seed"}
Alone(s) ==
    /\ \A i, j \in s.jobs : i = j
    /\ s.mutations \subseteq Fills /\ s.elsewhere = {} /\ s.opening = {} /\ ~s.leaves
PagesAreOrderly ==
    \A b \in DOMAIN Browsed :
        LET s == Browsed[b]
        IN  /\ s.ordered \/ s.opening = {}
            /\ s.ordered \/ s.mutations \cap Fills = {} \/ Alone(s)
            /\ s.fails /\ "triage" \in s.mutations => Alone(s)
            /\ "triage" \in s.mutations => "detail" \notin s.views
            /\ s.breaks => s.mutations \cap DOMAIN ProviderRequests = {}

-----------------------------------------------------------------------------
VARIABLES
    browsed,    \* the scene
    truth,      \* resource |-> its version at the server
    query,      \* view |-> its entry in the cache
    mutation,   \* job |-> a mutation under way
    wire,       \* answers and events on their way to the browser, as sent
    connected,  \* the browser holds an event stream
    unheard     \* ghost: resources changed without a word to this browser

webVars == <<browsed, truth, query, mutation, wire, connected, unheard>>

Scene == Browsed[browsed]
NoData == <<>>
Guess == MaxTruth + 1   \* what a page shows of a change it has only asked for
Fresh(v) == [r \in Shows[v] |-> truth[r]]

Entry(data, on) == [data |-> data, invalid |-> FALSE, aged |-> FALSE, on |-> on,
                    fetch |-> IF on /\ data = NoData THEN "asked" ELSE "none", failed |-> FALSE]
NoMutation == [what |-> "", pc |-> "idle", undo |-> NoData, left |-> 0]

\* Pages that have just been opened have nothing to show.
WebInit ==
    /\ browsed \in DOMAIN Browsed
    /\ truth = [r \in Resources |-> 0]
    /\ query = [v \in Scene.views |->
                  Entry(IF v \in Scene.opening THEN NoData ELSE Fresh(v), TRUE)]
    /\ mutation = [j \in Scene.jobs |-> NoMutation]
    /\ wire = <<>>
    /\ connected = TRUE
    /\ unheard = {}

-----------------------------------------------------------------------------
(***************************************************************************)
(* The cache.                                                              *)
(***************************************************************************)

Under(prefixes) == {v \in DOMAIN query : \E p \in prefixes : IsPrefix(p, Key[v])}

Those(w, Test(_)) == FlattenSeq([i \in DOMAIN w |-> IF Test(w[i]) THEN <<w[i]>> ELSE <<>>])

\* A fetch that is dropped is not listened to any more.
Without(w, dropped) == Those(w, LAMBDA m : ~(m.kind = "fetch" /\ m.of \in dropped))

\* A fault: a fetch under way is good enough.
RestartedIfIdle(vs) == {v \in vs : query[v].on /\ query[v].fetch = "none"}

\* The queries whose fetch an invalidation drops to start another.
Restarted(vs) ==
    {v \in vs : query[v].on /\ (query[v].data # NoData \/ query[v].fetch = "none")}

Invalidated(q, vs) ==
    [v \in DOMAIN q |->
        IF v \notin vs THEN q[v]
        ELSE [q[v] EXCEPT !.invalid = TRUE,
                          !.fetch = IF v \in Restarted(vs) THEN "asked" ELSE @]]

\* setQueryData: the query is fresh again; a fetch under way goes on.
Filled(q, v, data) ==
    IF v \notin DOMAIN q THEN q
    ELSE [q EXCEPT ![v] = [@ EXCEPT !.data = data, !.invalid = FALSE, !.aged = FALSE,
                                    !.failed = FALSE]]

\* A page is opened on what the cache has, which is fetched again when it was
\* invalidated or is older than the stale time.
Mount(v) ==
    /\ ~query[v].on
    /\ LET q == query[v]
           stale == q.data = NoData \/ q.invalid \/ q.aged \/ q.failed
       IN  query' = [query EXCEPT ![v] = [q EXCEPT !.on = TRUE,
                        !.fetch = IF stale /\ @ = "none" THEN "asked" ELSE @]]
    /\ UNCHANGED <<browsed, truth, mutation, wire, connected, unheard>>

\* Bound: a page is left while it loads only where answers keep their order.
Unmount(v) ==
    /\ Scene.leaves /\ query[v].on
    /\ query[v].fetch = "none" \/ Scene.ordered
    /\ query' = [query EXCEPT ![v].on = FALSE]
    /\ UNCHANGED <<browsed, truth, mutation, wire, connected, unheard>>

Age(v) ==
    /\ ~query[v].on /\ ~query[v].aged
    /\ query' = [query EXCEPT ![v].aged = TRUE]
    /\ UNCHANGED <<browsed, truth, mutation, wire, connected, unheard>>

ServeFetch(v) ==
    /\ query[v].fetch = "asked"
    /\ query' = [query EXCEPT ![v].fetch = "served"]
    /\ \E data \in {Fresh(v)} \cup (IF Scene.fails THEN {NoData} ELSE {}) :
        wire' = Append(wire, [kind |-> "fetch", of |-> v, data |-> data])
    /\ UNCHANGED <<browsed, truth, mutation, connected, unheard>>

\* Any answer may overtake another, unless the scene keeps their order.
Arrives(i) == i \in DOMAIN wire /\ (Scene.ordered => i = 1)

DeliverFetch(i) ==
    /\ Arrives(i) /\ wire[i].kind = "fetch"
    /\ wire' = RemoveAt(wire, i)
    /\ LET v == wire[i].of
           q == Filled(query, v, wire[i].data)
       IN  query' = IF wire[i].data = NoData
                    THEN [query EXCEPT ![v].fetch = "none", ![v].failed = TRUE]
                    ELSE [q EXCEPT ![v].fetch = "none"]
    /\ UNCHANGED <<browsed, truth, mutation, connected, unheard>>

-----------------------------------------------------------------------------
(***************************************************************************)
(* Mutations.                                                              *)
(***************************************************************************)

\* A triage drops every fetch of a proof page and shows the bucket at once.
Optimistic ==
    LET dropped == Under({Key.backlog})
        q == [v \in DOMAIN query |-> IF v \in dropped THEN [query[v] EXCEPT !.fetch = "none"]
                                                       ELSE query[v]]
    IN  /\ wire' = Without(wire, dropped)
        /\ query' = Filled(q, "backlog", [query.backlog.data EXCEPT !.triage = Guess])

\* Bound: each job runs one mutation, and a triage that may fail is alone.
Mutate(j) == \E what \in Scene.mutations :
    /\ mutation[j] = NoMutation
    /\ what = "triage" => query.backlog.on /\ query.backlog.data # NoData
    /\ mutation' = [mutation EXCEPT ![j] =
            [what |-> what, pc |-> "sent", left |-> IF what = "reverify" THEN 2 ELSE 1,
             undo |-> IF what = "triage" THEN query.backlog.data ELSE NoData]]
    /\ IF what = "triage" THEN Optimistic ELSE UNCHANGED <<query, wire>>
    /\ UNCHANGED <<browsed, truth, connected, unheard>>

Written(rs) == [r \in Resources |-> IF r \in rs THEN truth[r] + 1 ELSE truth[r]]
Writable(rs) == \A r \in rs : truth[r] < MaxTruth

\* A published world is broadcast to the browsers that listen.
Told(w, told) == IF told /\ connected THEN Append(w, [kind |-> "event"]) ELSE w

\* The server does it and answers, with the query the hook fills as of now.
\* Re-verifying sends one request after the other.
ServeMutation(j) ==
    LET m == mutation[j]
        r == RequestOf[m.what]
        after == Written(r.writes)
    IN  /\ m.pc = "sent" /\ m.left > 0 /\ Writable(r.writes)
        /\ truth' = after
        /\ mutation' = [mutation EXCEPT ![j].left = m.left - 1,
                                        ![j].pc = IF m.left = 1 THEN "served" ELSE "sent"]
        /\ wire' = IF m.left > 1 THEN wire
                   ELSE Append(Told(wire, r.told),
                          [kind |-> "done", of |-> j,
                           puts |-> [v \in HookOf[m.what].puts |->
                                        [s \in Shows[v] |-> after[s]]]])
        /\ UNCHANGED <<browsed, query, connected, unheard>>

\* What stands when the answer is an error all the same: the save comes before
\* what fails, and nobody is told.  A tree that was written is published later.
SavedBefore ==
    [triage |-> {"triage"}, seed |-> {"triage"}, verify |-> {"verdicts"}, draft |-> {"drafts"},
     accept |-> {"pending"}, reject |-> {"pending"}, reinstate |-> {"declined"}]
LeftBy(what) == IF what \in DOMAIN SavedBefore THEN SavedBefore[what] ELSE {}

\* The server refuses, or fails at any point.  Re-verifying goes on to the next item.
RefuseMutation(j) == \E left \in SUBSET LeftBy(mutation[j].what) :
    LET m == mutation[j] IN
    /\ m.pc = "sent" /\ m.left > 0 /\ Writable(left)
    /\ m.what = "triage" => Scene.fails
    /\ truth' = Written(left) /\ unheard' = unheard \cup left
    /\ mutation' = [mutation EXCEPT ![j].left = m.left - 1,
                        ![j].pc = IF m.what = "reverify" /\ m.left > 1 THEN "sent" ELSE "served"]
    /\ wire' = IF m.what = "reverify" /\ m.left > 1 THEN wire
               ELSE Append(wire, [kind |-> IF m.what = "reverify" THEN "done" ELSE "refused",
                                  of |-> j, puts |-> NoData])
    /\ UNCHANGED <<browsed, query, connected>>

\* onSuccess: fill, then invalidate.
DeliverMutation(i) ==
    /\ Arrives(i) /\ wire[i].kind = "done"
    /\ LET j == wire[i].of
           hook == HookOf[mutation[j].what]
           filled == [v \in DOMAIN query |->
                        IF v \in DOMAIN wire[i].puts
                        THEN Filled(query, v, wire[i].puts[v])[v] ELSE query[v]]
           vs == Under(hook.invalidates)
       IN  /\ query' = Invalidated(filled, vs)
           /\ wire' = Without(RemoveAt(wire, i), Restarted(vs))
           /\ mutation' = [mutation EXCEPT ![j].pc = "over"]
    /\ UNCHANGED <<browsed, truth, connected, unheard>>

\* onError: a triage puts back what the page showed before.
DeliverRefusal(i) ==
    /\ Arrives(i) /\ wire[i].kind = "refused"
    /\ LET m == mutation[wire[i].of]
       IN  query' = IF m.what = "triage" THEN Filled(query, "backlog", m.undo) ELSE query
    /\ mutation' = [mutation EXCEPT ![wire[i].of].pc = "over"]
    /\ wire' = RemoveAt(wire, i)
    /\ UNCHANGED <<browsed, truth, connected, unheard>>

-----------------------------------------------------------------------------
(***************************************************************************)
(* What others do.                                                         *)
(***************************************************************************)

DeliverEvent(i) ==
    /\ Arrives(i) /\ wire[i].kind = "event"
    /\ query' = Invalidated(query, DOMAIN query)
    /\ wire' = Without(RemoveAt(wire, i), Restarted(DOMAIN query))
    /\ UNCHANGED <<browsed, truth, mutation, connected, unheard>>

\* Another browser, the console or an editor: a change of the tree is
\* published, by the request or by the watcher; one of a store is not.
Elsewhere == \E r \in Scene.elsewhere :
    /\ Writable({r})
    /\ truth' = Written({r})
    /\ wire' = Told(wire, r = "world")
    /\ unheard' = IF r # "world" \/ ~connected THEN unheard \cup {r} ELSE {}
    /\ UNCHANGED <<browsed, query, mutation, connected>>

\* The stream breaks, and with it what was on it; it is opened again.
Disconnect ==
    /\ Scene.breaks /\ connected
    /\ connected' = FALSE
    /\ wire' = Those(wire, LAMBDA m : m.kind # "event")
    /\ unheard' = IF wire' = wire THEN unheard ELSE Resources
    /\ UNCHANGED <<browsed, truth, query, mutation>>

Reconnect ==
    /\ ~connected
    /\ connected' = TRUE
    /\ UNCHANGED <<browsed, truth, query, mutation, wire, unheard>>

WebNext ==
    \/ \E v \in DOMAIN query : Mount(v) \/ Unmount(v) \/ Age(v) \/ ServeFetch(v)
    \/ \E j \in DOMAIN mutation : Mutate(j) \/ ServeMutation(j) \/ RefuseMutation(j)
    \/ \E i \in DOMAIN wire :
        DeliverFetch(i) \/ DeliverMutation(i) \/ DeliverRefusal(i) \/ DeliverEvent(i)
    \/ Elsewhere \/ Disconnect \/ Reconnect

WebSpec == WebInit /\ [][WebNext]_webVars

-----------------------------------------------------------------------------
(***************************************************************************)
(* Properties.                                                             *)
(***************************************************************************)

\* Nothing is on its way and no request of this browser is unanswered.
Quiet ==
    /\ wire = <<>>
    /\ \A v \in DOMAIN query : query[v].fetch = "none"
    /\ \A j \in DOMAIN mutation : mutation[j].pc \in {"idle", "over"}

\* When the traffic is over, every open page shows what the server has, except
\* of what changed without a word to this browser: no answer that was sent
\* before a change, no guess and nothing rolled back is left standing
\* (queries.ts, useServerEvents.ts).
PagesShowTheTruth ==
    Quiet => \A v \in DOMAIN query :
        query[v].on /\ ~query[v].failed =>
            \A r \in Shows[v] \ unheard : query[v].data[r] = truth[r]
=============================================================================
