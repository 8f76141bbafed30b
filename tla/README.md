# A specification of provreq

provreq keeps natural-language requirements together with formal ones. An
operator formalizes a requirement as a PRL text, a mechanical gate checks the
text, a human admits it, engines and tagged tests produce evidence, and a
verdict is recorded that a later run may serve, show as stale, or block a commit
on. A web server shows all of it and lets the operator act on it.

Everything the tool promises rests on a few files that several processes read,
hold in memory for minutes and write back whole. This directory specifies that
part in TLA+, checks it with TLC and proves the central invariants with TLAPS.
Line references are to the repository; what each definition models is listed
line by line in `PROJECT.json` (`map`).

## 1. Inventory

| Component | State it keeps | Operations | Hard part | What makes it correct |
|---|---|---|---|---|
| **Drafts** (`draft.rs`, `formalize.rs`, handlers in `server.rs`, `provreq draft` in `main.rs`) | `drafts.yml`: per item a revision, a candidate, the gate's outcome, an admission, bindings | open, set, check, translate (model + repair loop), ground, admit, write back, discard | every request loads the map, waits (a model, a prompt) and writes it whole; no lock; the save truncates first; the gate changes with the build | an admission and the bindings belong to the text they were made for; only gated, admitted text reaches the subject |
| **Verdict algebra** (`verdict.rs`, `provreq-proofs/masquerade.rs`) | none | aggregate any evidence into status, basis, correspondence | a fold over unordered, partial, contradicting evidence | a test never reads as a proof; evidence never weakens what it supports |
| **Verify, cache, status** (`verify.rs`, `verdict_store.rs`) | `verdicts.yml`, the review log of the artifact | verify, serve from cache, record, log, view | a run reads ten axes at different moments and stamps them at the end | what is served or fresh is what a run would say now |
| **Gate** (`gate.rs`, `run_gate`) | none; reads the record at HEAD | re-verify and compare | compares with the previous change only | a proof is not eroded in steps; measuring does not record |
| **AppState, World, watcher** (`app.rs`, `watcher.rs`, `server.rs`) | published world, LLM runtime, last fingerprint | refresh, publish, tick, invalidate | refreshes overlap in any order; look and build under different locks | no change overlooked; a provider edit takes effect |
| **HTTP management API** (`http/handlers.rs`) | the project's files | CRUD on artifacts, providers, reviews, suggestions | write, then refresh, each may fail | the file and the published world agree in the end |
| **Triage** (`triage.rs`) | `triage.yml` | classify by batch until convergence, operator's override | minutes between load and save | an operator's choice survives a seed |
| **LLM chain** (`llm/chain.rs`, `health.rs`, `privacy.rs`) | health per provider, privacy acknowledgements | fallback, backoff, retest | late answers cross later failures; commands acknowledge their own runtime in code | the served runtime sends nothing unacknowledged; a healthy provider is used |
| **Requirement sources** (`provreq.rs`, `doorstop.rs`, `create.rs`, `migrate.rs`) | the subject's files | discover, annotate, log, create, migrate | write-back next to edits | only earned annotations |
| **Engines and adapters** (`kani.rs`, `creusot.rs`, `prusti.rs`, `tlc.rs`, `lowering.rs`, `grounding.rs`, ...) | a harness and a module line in the subject's tree while they run | generate, write, run, restore, parse | external tools; a run may die or fail at any write | an answer is a function of what the engine read; the subject is put back |
| **Monitors, UI checks, traced tests** (`monitor/`, `ui/`, `trace/`) | none | evaluate a trace, drive a page, run tests | time windows, waiting | as above |
| **PRL front end** (`prl/`) | none | parse, check, vacuity, read-back | | the gate is a function of the text and the build |
| **Artifact store** (`provreq-model/write`, `load`, `scan`) | markdown and json files | atomic write, load | a crash between temp file and rename | old or new, never half |
| **Reviews, suggestions** (`provreq-model/reviews`, `suggestions`) | state per collection | review steps, accept, decline | crash between two files | a declined link stays declined |
| **Doorstop import** (`doorstop/`) | the project's files | preview, import, rename | fails half way | can be run again |
| Schema migration | the project's files | rewrite every file of an older version | no file type has a migration at this commit | |
| **Thumbnail cache** | files by content hash | look up, write, evict | eviction races a lookup | bounded by size |
| Search, links, graph, matrix, browse, reports, exports | none | views of one world | | pure |
| MCP server | none | one request, one HTTP call | | thin |
| Web client | an open dialog | offers operations | shows a state older than the file | the reviewer confirms what they see |

They interact through files (drafts and verify share `drafts.yml`, verify and the
gate share `verdicts.yml` and git's HEAD), through calls (server and console call
the same functions of `draft.rs` and `verify.rs`) and through `AppState` (all
handlers and the watcher share one world and one runtime).

## 2. Modules

| Module | Models |
|---|---|
| `DraftState` | the pure half of `draft.rs`: each operation on the map of drafts |
| `Drafts` | requests on `drafts.yml` as steps: resolve, load, (wait for the model), update, truncate, write; crash, refusal, edits of prose, upgrades of the tool |
| `DraftLedger`, `DraftsRefinement` | what `drafts.yml` promises (one operation, one atomic change of the ledger, or damage), and the mapping under which `Drafts` implements it |
| `DraftsProofs` | proofs about `Drafts` and `Screens` |
| `VerdictAlgebra` | evidence, its combination, the masquerade guard, the gate's comparison |
| `GatedHistory` | one requirement through any number of verified, gated and committed changes |
| `VerifyLoop` | verify, gate, `verdicts.yml` and the review log, step by step, while the world moves |
| `AppWorld` | the served world, the LLM runtime, the watcher, provider edits |
| `Triage` | `triage.yml`: seeds by batches and rounds, reclassification, the record's demonstrated items, the operator's choices |
| `LlmAdapters` | what one exchange with a model comes to: three adapters over HTTP, one over the claude program, and the kinds of error they report |
| `LlmChain`, `LlmChainProofs` | prompts and retests over the chain of providers: health, backoff, acknowledgements, runtimes replaced under requests in flight; proofs about them |
| `ProviderPage` | the settings page of the providers and the handlers it calls: rows that outlive the list they show |
| `ProofDrafting` | `verify --draft-contracts` and `--draft-semantic`: clauses, mirrors and links a model proposes, staged into the sources of the subject, compiled, proved, repaired |
| `McpServer` | the process a coding agent talks to: lines, calls with a deadline, the listing of resources, what a late post still does |
| `DeskProofs` | proofs about `Triage`, `ProviderPage`, `McpServer` and the desk of `MCDesk` that composes them |
| `ArtifactStore` | every handler that writes artifacts, binaries, collections, reviews, an import, a wipe; step by step over the tree |
| `Suggestions` | link suggestions over the store: analyses, accept, reject, reinstate |
| `ArtifactStoreProofs` | proofs about `ArtifactStore` and `Suggestions` |
| `Doorstop`, `DoorstopProofs` | reading, planning and writing an import, the dialog that previews it, the wizard that renames what came; proofs about them |
| `Reports`, `ReportsProofs` | the cycle and impact searches as state machines; six views over one world as operators; proofs about them |
| `EngineRuns` | what a verification writes to the subject's tree and takes away again, and how an engine's output is read |
| `VerdictProofs` | proofs about `GatedHistory`, `VerifyLoop`, `EngineRuns` and `ProofDrafting`, and about `MCVerdicts` that composes them |
| `PrlSyntax` | the text of a requirement: tokens, every rule of the parser and its refusals, comments and raw stretches |
| `Claims` | a formal requirement as abstract syntax: variables, gate, vacuity warnings, read-back |
| `CodeClaims`, `ModelClaims`, `TraceClaims`, `PageClaims` | for each category: grounding, what is refused, the lowering, the answer of the engine (external), and what the confirmed read-back says of the subject |
| `ClaimChecks` | a text written in some layout, read back, gated, bound, rebound and verified while the subject moves |
| `WebClient`, `WebClientProofs` | the browser's cache of queries: fetches, mutations and what each invalidates or fills, the event stream; proofs about it |
| `Screens` | three screens that hold what is being typed: the artifact editor, the review pane, the draft dialog |
| `MCDrafts`, `MCStore`, `MCDoorstop`, `MCClaims` | constants for TLC, one module each |
| `MCVerdicts` | `EngineRuns`, `VerifyLoop`, `GatedHistory`, `ProofDrafting` |
| `MCServed` | `AppWorld`, `LlmChain` |
| `MCDesk` | `Triage`, `ProviderPage`, `McpServer` |
| `MCViews` | `Reports`, `WebClient`, `Screens`, and `Drafts` with one request at a time |
| `MCVerifyLoop` | the constants of `VerifyLoop` |

`MCVerdicts`, `MCServed`, `MCDesk` and `MCViews` put modules that do not interact under one specification, of
which one is studied in each behaviour while the others rest: a run of theirs is
the runs of its parts.

`Drafts` extends `DraftState`; `VerifyLoop`, `GatedHistory` and `EngineRuns` extend
`VerdictAlgebra`; `Suggestions` extends `ArtifactStore`; `ClaimChecks` extends the four
categories and `PrlSyntax`, which extend `Claims`. `VerifyLoop` sees drafts through `Redraft`, whose
moves cover what the requests of `Drafts` can do to what verify reads of a draft;
`LlmChain` sees the rebuilt runtimes of `AppWorld` through `Rebuild`; it and `ProviderPage`
extend `LlmAdapters`.

### How state and actions correspond

**Drafts.** `job[w]` is the local state of one handler or command: `pc` the
await or I/O it is at, `rev` the item as resolved, `mem` the map it loaded and
updated, `seen` the candidate the dialog or listing showed. `drafts` is the last
complete text of the file and `readable` whether it parses. The operations are
`OpenDraft`, `SetDraftCandidate`, `CheckDraft`, `GroundDraft`, `AdmitDraft` (web),
`AdmitCandidate` (console), `DiscardDraft`, `Writeback`, `Ask`/`Propose`/`NoAnswer`
(translate); `Refuse` is every early error, `Truncate`/`Write` are the two halves
of `fs::write`. A candidate is a value; what matters of it is the gate's answer per
build (`GateOf`) and the symbols it declares (`VocabOf`).

**VerifyLoop.** `world` gives each axis a version; `run[w]` is one run of
`verify_with`: loaded, grounded, answered, held (store read), saved. `Stamp` takes
the fingerprints after the engines ran, as `finish` does. What engines and tests
answer is a constant function of a world (`EngineSays`, `TestSays`), whose one
assumption is the kind of evidence each produces.

**GatedHistory.** `ensemble` is what was reported of the current change, `recorded`
the baseline, `first` what the requirement entered with.

**AppWorld.** `task[t]` is one refresh or one handler; `Check` and `Build` are the
two locks of `maybe_init_llm_runtime`; `noticed` holds `last_fp` and `fp`.

**Triage.** `job[w]` is a request or command between loading the map and its last
save: `mem` its copy, `pending` what is left of a round, `before` and `rounds` the
counters of `seed_until_converged`. `Scope` is `seed_backlog` up to its first
question, `Classify` one batch (`Lands` persists it and decides whether the round
and the run are over), `Stop` any failure or death. `since` is a ghost: which items
were written in the file after each job loaded it.

**LlmChain.** `health[g]` and `acked[g]` belong to the runtime `g`; a request keeps
the runtime it took (`req[r].gen`), so `Rebuild` leaves it with the old trackers.
`Pass`/`Send`/`Succeed`/`Fail`/`GiveUp` are the loop of `run_prompt`; `HangUp` is the
dropped future; `page` is what the operator's browser shows when they acknowledge.
`own[c]` is the runtime a command resolves for itself (`resolve_llm`: the console, a
served seed or translation): `Resolve` acknowledges every slot of it, as
`RuntimeBackend::from_providers` and `from_config` do, with no page shown.

**ProviderPage.** `file` is the `llm` array, `listed` what the page was loaded from,
`rows` the state React keeps per index (`confirmingDelete`, the slot in the form).
The ghost `id` of a slot tells slots apart that move; keys are never sent back.

**ArtifactStore, Suggestions.** `disk` is the tree (files by directory, stem and
extension), `world` the snapshot published last. A handler plans on `world`
(`Plans`), and its `plan` is the list of file operations it will do, one per step
(`Write`); then it reads the tree, publishes and answers. A step may also fail:
`GiveUp` ends the request with an error and what it has written so far, `Ignores`
passes over an old file of a replaced blob that could not be removed, `PartlyRemoves`
leaves `remove_dir_all` half way. `Deinit` is the second half of a wipe with
`?deinit=true`. `crossed` records that a step landed on a file that had changed since
its request looked, or that a removal failed or stopped half way; `halved` the names whose replacement
was cut short before the old files went; `misfit` that a file was put where it cannot
be read back. Each property names those it needs.
`Scenes` are the trees to start from and the handlers that may meet.

**Doorstop.** A tree is a sequence of documents, each a marker, a prefix and items.
`BuildPlan` is `plan.rs`: identities are of a run, so a preview and the import after it
have different ones, as in the code. `req[r]` is one import between its steps: read
and planned, each file, refresh, answer; `dialog` and `wizard` are the web client's.
`crossed` is a ghost: imports whose files another import or a rename met.

**Reports.** `walk` holds the local variables of one search, whose neighbours may
come in any order as they come from hash maps.

**EngineRuns.** `disk.root` is the crate root as the operator's text and the module
lines appended to it, `disk.src` and `disk.tests` the harness paths, `disk.there`
what else lies about; `job[r].base` is the root as the run read it and will write
it back. `fs::write` is two steps: `OpenRoot` empties the root, `Attach` or `Restore`
writes it. `Kill` may come between any two, and `CannotWrite`, `CannotAttach`,
`CannotRestore` and the removals may fail where the code goes on or gives up (`Fault`).
Two ghosts tell what became of it: `cut`, a write of the root died or failed after the
root was emptied, and `disturbed`, a run died or could not write or remove something.

**ProofDrafting.** A source is a sequence of lines, of which matters what each is
(signature, clause, marker, link, mirror, import, other) and for which function.
`cli` holds the local variables of the command: the sources as it read them, the
targets it goes through, the drafts so far, the attempt it is at. `told` is what it
printed last of a proof, and of which tree; `touched` is a ghost.

**McpServer.** `proc` is `handle_line`, `call` the HTTP call it waits for, `running`
the verifies that hold a worker of the server, `late` posts given up at the
deadline that the server still has. `began` is a ghost: what was in the tree all
along while one listing walked it.

**WebClient.** `truth` is a version per resource of the server, `query[v]` an entry
of the cache (its data are the versions it was answered from), `wire` what was sent
to the browser and has not arrived. `Restarted` is what an invalidation does to a
fetch under way. `unheard` is a ghost: resources that changed without an event, as
drafts, verdicts and triage do (they do not go through `AppState::publish`), or that a
request wrote before it was refused: `RefuseMutation` leaves any part of what the
handler saves first (`LeftBy`), with an error for an answer and no event.

**Screens.** Each screen is a component's `useState` and `useRef`, the record under
it at the server, and its request. New data simply arrive (`Receive`, `Refetched`,
`LogMoves`); `WebClient` says when. `since` (the versions that arrived since the
editor opened) and `offered` (those it asked about) are ghosts, and so is `typed`, what
the operator typed last and may count on finding: it is given up where they or another
party replace it and where a refetch fails (`Unmounted`, `PaneFails`).

**Claims.** A text is a tree and a layout (`Write` prints it, `Read` is the lexer and
the parser, and what the checks see is what was read); `CodeHarness`, `Generated`, `Formula` and
`UiClaims` are the four lowerings; what the compiler, Kani, Creusot, Prusti, TLC,
MonPoly and the browser do with them is external. Against them stand
`CodeMeaning`, `ModelMeaning`, `TraceMeaning` and `PageMeaning`, written from the
sentences of the read-back the operator confirms.

## 3. Runs

| Run | Question | Bounds | Result |
|---|---|---|---|
| `drafts` | does anything two overlapping requests do leave an admission or a binding on another text? | 2 workers, 1 item, 4 requests, 3 texts, 2 builds that disagree, 2 attempts | holds |
| `cache_prose` | is a served verdict about the prose as it reads? | 1 axis | **violated** |
| `verdicts` | is a verdict about its claim, is the subject put back, is what the cache serves, status calls fresh and the gate passes what a run would say, can a proof erode, a test masquerade, evidence demote? | *runs*: 5 claims, 3 verifications one after another, 2 faults (a kill, a write or a removal that fails), 1 edit. *loop*: 1 worker, 1 item, 4 moving axes, 3 moves between runs. *history*: all evidence, any number of changes. *drafting*: 3 subjects, 2 drafts, 1 touch | holds |
| `served` | is every change shown, does the runtime come back; does the served runtime send text unacknowledged, a dead slot come back, a usable one go unused, a prompt not end? | *world*: 2 requests, watcher, 1 provider, 2 writes. *chain*: 1 prompt, 1 retest, 3 configs, 1 command of 2 prompts, backoff of 2 units | holds (liveness) |
| `desk` | does a seed replace a choice it knew of, uncover an item, ask twice, or not end; does a saved form lose a key; is an agent told what was done? | *triage*: 2 workers, 2 items, batches of 1, 3 rounds, 2 started. *page*: 2 slots, 2 saves, 1 from elsewhere. *agent*: 2 lines, 1 change while one is handled, 1 thread, 1 other client | holds (liveness) |
| `edit_slot` | does a saved form overwrite the slot it was opened for? | 2 slots, 2 saves | **violated** |
| `store` | is anything lost, doubled, mislabelled, or an unlawful log written; does what was decided of a suggestion stand? | 14 scenes, 2 requests at a time, 3 in all, 1 crash, any step failing | holds |
| `doorstop` | does an import that was answered for stand whole, and what the project had stay? | 5 scenes of a project and the trees its source may become, 2 imports | holds |
| `doorstop_url` | does the artifact made for a URL hold it? | the same | **violated** |
| `views` | are the searches right, do the views agree, do pages end up with the truth, is what is typed kept, and is `drafts.yml` an atomic ledger when requests do not overlap? | 5 artifacts, up to 4 links, limits of 2 and 4; 6 scenes of up to 2 queries and 2 mutations, 2 versions; 3 versions of an artifact, 2 requests of a dialog; 1 worker, 2 items, 3 requests, crashes | holds (refinement) |
| `conflict_once` | does every external edit bring up the prompt? | 3 versions | **violated** |
| `claims` | is a text read whole, and does an engine answer what the confirmed read-back says? | some 50 texts of four categories, 20 worlds | holds |

Some properties are conjunctions of named parts. `SubjectIsSound` is `SubjectAsItWas`
(`EngineRuns`) and `ProposalStands` (`ProofDrafting`): a killed run and a half-staged
proposal both would change what is proved. `SlotsAreUsed` is `HardIsForGood` and
`FallbackIsTried`. `WhatIsSaidIsSo` is `FileParses` (`ProviderPage`) and `AnswersInOrder`,
`ListingIsWhole`, `PostedOnce` (`McpServer`). `FilesStand` is `CheckIsOfTheUrl`,
`BinaryStands`, `IdentityIsUnique`, `NothingLost`; `DecisionsStand` is
`DeclinedStaysOut` and `AcceptedLinksStay`; `DoorstopOK` is `ImportStands` and
`HomeStays`. `WorkEnds` is `SeedsEnd` and `LinesAreHandled`; `ServiceResumes` is
`RuntimeComesBack` and `PromptsEnd`.

Why the bounds are enough. *Drafts*: every hazard is between a request that loaded
and one that wrote meanwhile; two in flight and four in all cover set, admit, a
third that replaces, a fourth that uses the result; two builds are needed for a
recorded outcome the running gate contradicts, and the proofs below cover any
numbers. One item suffices for the concurrent run because the requests on an item
touch the others only by writing back what they loaded, which the serial requests
of `views` and the proofs include. *VerifyLoop*: one axis of each way to be compared (fingerprinted
over the working tree, optional, out of the subject, by version), two versions, and
an `EngineSays` that tells every version from every other, so that no stale answer
passes for a current one; three moves are an edit, a draft and a return or a second
edit. *GatedHistory* has no bound. *AppWorld*: a stale refresh needs one write to
miss and one that crosses it; one provider suffices as a runtime is current or not.
*Triage*: two items make two batches of a round, one declined and one placed; the
proofs cover any numbers. *LlmChain*: two slots are a first and a fallback, a retest
and a prompt are a late answer and a failure that crosses it; a backoff of two
units has the doubling and the cap. A command's runtime meets no other request, so
one of two prompts shows whatever it keeps between them; its third configuration has
nothing switched on, where it falls back on the manifest. *ProviderPage*: two rows are
one that moves under the form of the other. *McpServer*: two lines are a post that
comes late and the retry after it; two collections are one listed and one not yet
when an artifact moves. *ProofDrafting*: for either
prover a subject of two sources, with two functions in one whose lines move each
other, one that was drafted before and, for Creusot, one that cannot be mirrored; two drafts
are the proposal and a repair. *Doorstop*: the second
import is the retry of one that failed, or the one its dialog did not know of; two
documents hold a link across them in either order. *Store*: every hazard is between what one
request saw and what another wrote, so two at a time; the third uses the result;
a scene is one kind of artifact with the handlers that touch it. *Reports*: four
links among four artifacts hold two loops that share a node, a loop with a way in,
and two apart; five in a row reach past the impact limit. *WebClient*: one query
that a mutation fills and one it invalidates, two mutations whose answers cross, an
event and a change nobody announced. What the scenes may not combine is
`PagesAreOrderly`, the premise of the theorem about them: answers keep their order for
first loads and where a mutation fills what it does not invalidate, a triage that may
fail is alone, none meets a detail page, and the stream does not break while providers
are edited. Section 4 has what happens otherwise. A page is left while it loads only
where answers keep their order. *Screens*: the editor needs a
version to open on, one to be asked about and one after that; the dialog an answer
that crosses another. *EngineRuns*: one run leaves
something behind, the next trips over it, a third finds the tree as the second left
it; two faults are a run that dies in a write and the next that fails on what it left. What
the operator ran by hand has left comes with `Keep`. *Claims* takes each kind of claim, quantifier, scope and refusal once, with
worlds that make it true, false and unanswerable.

`CHECK_DEADLOCK` is off in `MCViews.cfg` only: a page stays as it is once the
changes it is given are used up. No other model stops.

**Fairness.** In `AppWorld` the watcher's baseline, its ticks, and refreshes that
were begun are weakly fair, because `tokio::time::interval` fires for as long as
the task lives and `spawn_blocking` discovery ends. Nothing obliges anyone to send
a request, to finish one (a client may hang up) or to stop editing short of the
bound on writes. `RuntimeComesBack`,
`PromptsEnd`, `SeedsEnd` and `LinesAreHandled` are stated in the modules they are
about. `EditsAreShown` starts at the baseline, since `watcher.rs` compares
with a fingerprint it takes after the first world was published. `RuntimeComesBack`
starts from a change the watcher has not fingerprinted: a request dropped between
invalidating and refreshing, whose invalidation crossed the watcher's own check,
leaves no runtime until the next change, and the property says exactly that much.
In `Triage` a seed that was begun goes on: each question to a model is answered or
times out (`timeout_seconds`); so do the requests of `LlmChain` (`Walk`), where time
passes too (`Tick`). Nobody has to begin anything, retest or acknowledge. In `McpServer` a line that was
read is worked on, and each call comes back or meets its deadline
(`client.rs` gives every one a timeout); the agent need not write, and the server
need not finish a verify.

## 4. What does not hold

Four runs end in a counterexample; each is a place where the code and a sentence of
the repository disagree, and `PROJECT.json` (`findings`) quotes the sentence.

- `cache_prose`: `reusable` compares the stored revision with the draft's, not with
  the item's, so prose edited under an admitted draft is invisible to it.
- `conflict_once`: `resolveConflict` sets a flag nothing clears, so only the first
  external edit of a session is asked about.
- `doorstop_url`: the artifact an import makes for the URL of an item is written
  without it.
- `edit_slot`: a form of the settings page is opened for a row, rows are named by
  their index, and a save replaces whatever slot has that index by then.

The passing runs leave out what the following show. Each is reproduced by a change
to a configuration: the property alone, and the constants named.

| Configuration | Change | TLC refutes | What it shows |
|---|---|---|---|
| `MCDrafts.cfg` | | `ReadBackConfirmed` | `apply_admit_draft` admits what the file holds, the request does not name the candidate: a dialog open while another request replaces the candidate has its confirmation applied to the new one |
| `MCDrafts.cfg` | | `AdmittedAtCurrentRevision` | `admit` keeps the revision the candidate was written against, so "re-admit against the current text" does not clear a drift |
| `MCCacheProse.cfg` | `Axes`, `Movable`, `Moving` = `{"scope"}` | `ServedIsAnswer` | the scope's fingerprint is taken after the engines ran |
| `MCCacheProse.cfg` | two workers, two items, nothing moves | `NothingForgotten` | `finish` reads and rewrites `verdicts.yml` without a lock |
| `MCServed.cfg` | one client | `SettingsTakeEffect` | a refresh that read the tree before a provider edit can rebuild the runtime after the edit invalidated it |
| `MCDesk.cfg` | | `NeverByARun` | a seed that was running when the operator chose overwrites the choice with its next batch |
| `MCStore.cfg` | | `RenameKeepsIdentity` | a rename moves whatever is at the artifact's path to `NAME.md`: a URL or blob artifact is not found under its identity afterwards |
| `MCStore.cfg` | | `CreatorsFindTheirs` | the `expect` "new artifact missing from index after refresh" can fail: a refresh that read the tree earlier may publish later |
| `MCViews.cfg` | | `CyclesInScopeReported` | the search reports the loops its own tree closes; the one that passes through the scope may not be among them |
| `MCVerdicts.cfg` | `Runs` of two, `Overlap = TRUE`, `OwnGoals = FALSE`, claims `sorted` and `bounded`, without `Premises` | `VerdictIsOfTheClaim` | two verifications write one crate root: the second drops the module line of the first |
| `MCVerdicts.cfg` | `Again = TRUE`, without `Premises` | `SubjectIsSound` | a draft asked for on top of one that is staged stacks a second link, mirror or set of clauses |
| `MCVerdicts.cfg` | `Interferes = TRUE`, without `Premises` | `SubjectIsSound` | the sources are read once and the lines of the functions before that: an edit made while a model is awaited is overwritten, or a draft goes above another line than its function's |
| `MCClaims.cfg` | `Scenes <- NamesakeScenes` | `AnswersMeanTheClaim` | two types of one last name: parameters are compared by it |
| `MCClaims.cfg` | `Scenes <- AliasScenes` | `AnswersMeanTheClaim` | two declared events with one name in the trace: the log keeps the arguments of the first |
| `MCClaims.cfg` | `Scenes <- ShadowScenes` | `ReadBackIsWhatRuns` | a quantified variable named like a declared predicate is read back as one thing and run as the other |
| `MCClaims.cfg` | `Scenes <- HurriedScenes` | `AnswersMeanTheClaim` | the script for a page drops `within`, and a negated response waits for absence |
| `MCClaims.cfg` | `Scenes <- SwallowScenes` | `TextIsReadWhole` | a claim whose name follows a deadline or a `with` is swallowed by the raw stretch before it, up to the next stop word |
| `MCViews.cfg` | scene `pages` with `opening` = both queries | `PagesShowTheTruth` | a first load is not restarted by an event (there is nothing to show yet): the answer it was sent before the change stands |
| `MCViews.cfg` | scene `triage` unordered | `PagesShowTheTruth` | `setQueryData` with the answer of an earlier triage or seed lands over that of a later one |
| `MCViews.cfg` | scene `declined` with two jobs | `PagesShowTheTruth` | a refused triage puts back the page as it was before it, and with it undoes what another did meanwhile |
| `MCViews.cfg` | scene `triage` with `detail` on show, `reverify` among the mutations | `PagesShowTheTruth` | a triage cancels what the detail page is fetching and invalidates nothing it shows |
| `MCViews.cfg` | scene `triage` unordered, of `seed` and `verify` only | `PagesShowTheTruth` | an answer that fills the backlog lands over one computed later |
| `MCViews.cfg` | scene `settings` with `artifact` on show and `breaks` | `PagesShowTheTruth` | the hooks of the provider page invalidate the providers only: the other pages learn of a new world from the event, which is lost with the stream |
| `MCViews.cfg` | `Unmount` without its bound | `PagesShowTheTruth` | a page left while it loads has its invalidation cleared by the older answer |
| `MCViews.cfg` | | `TickIsOfThisText` | the confirmation ticked for one flagged candidate stays ticked when another takes its place in the open dialog |

Other gaps, seen while modelling and without a property.

- *Text.* An argument list nobody closes swallows the rest of the text; a second
  `require`, `vocabulary` or `category` section silently replaces the first; what
  follows the closing brace is not read.
- *Screens.* A save without local edits reverts an external edit of the same artifact
  unasked; the success of a review that was cancelled closes whichever dialog is open
  by then; a refetch that fails puts an error where the draft dialog
  (`ItemDetailDialog.tsx:87`, `ProofPage.tsx:79`), the artifact editor or the review pane
  (`ArtifactPage.tsx:38`) was, and what was typed there is lost; a TODO that is resolved
  by somebody else takes its popover along, and the answer of a save or a
  translation the text typed since it was sent; the verify panel keeps the result of a candidate that is gone; the event of an editor's
  own save, when it arrives before the answer, brings up the conflict prompt.
- *The subject.* Each engine's run writes the crate root with `fs::write`, which empties
  it first, before and after the proof (`creusot.rs:348`, `creusot.rs:368`, `prusti.rs:211`,
  `prusti.rs:235`). A run killed or out of space in between leaves the operator's root
  empty, and there is no copy of it (`cut` in `EngineRuns`); the error of the second write,
  and of every removal after it, is dropped (`let _ =`), so a run may report a verdict and
  leave its module line and harness behind.
- *Privacy.* `docs/reqforge-heritage/artifacts/llm/LLM-privacyWarning.md:26` asks for an
  acknowledgement before anything is sent to an endpoint outside. The runtimes that
  `resolve_llm` builds for the console, for a served seed (`triage.rs:510`) and for a
  translation (`server.rs:572`) acknowledge every slot in code (`llm.rs:338`,
  `llm.rs:354`), so their text leaves with no page shown. `Resolve` and `Command` model
  them; `SentIsAcknowledged` claims nothing of them.
- *Store.* `remove_dir_all` that stops half way (`handlers.rs:1479`, `handlers.rs:1541`) may
  leave metadata without bytes, or a directory without its config. The removal of a
  replaced blob's old files is not checked (`handlers.rs:2061`, `handlers.rs:2064`), and an
  error after both new files stand (`sidecar.rs:74`) ends the request before it: either leaves one
  identity in two files, of which the index takes the first.
- *Pages.* A request that fails after its first save answers with an error, and the hooks
  invalidate on success only (`queries.ts:639`, `queries.ts:742`): a triage or a seed
  (`server.rs:337`, `triage.rs:273`, `triage.rs:362`), a verification (`verify.rs:438`) and an accept,
  reject or reinstate (`handlers.rs:4589`, `handlers.rs:4616`, `handlers.rs:4649`) then leave a
  page with what no longer holds, a triage even with the bucket it rolled back to.
- *Drafting.* With `--draft-contracts` and `--draft-semantic` on a Prusti subject the
  second is dropped without a word (`main.rs:184`); two methods of one name get mirrors
  of one name.
- *Import.* The dialog's preview and the import plan afresh, so identities shown are
  not those written (`plan.rs:86`); `derives_from_links` of the totals is never counted
  up; one UID listed in two documents keeps the last; two prefixes of one slug share a
  directory.
- *Suggestions.* While a replacement has a blob's metadata twice, or was stopped there, an
  accepted link is written into one of the two, and the other may be the one that stays.
  `AcceptedLinksStay` is about links written while their artifact has one file.
- *Providers.* Clearing the endpoint of a slot keeps the old one; editing a slot that
  runs the program saves its label as the endpoint; a change of family keeps the key
  of the other family; a connection refused counts as a failure for good.
- *Agent.* Prompt texts ask for arguments the tools do not take; a verify outlives the
  client's 15 seconds on the server's worker, and the retry runs a second one.

`FreshIsAnswer` of `verdicts` names its premises: a tree that was clean when it was
stamped and is now, and nothing the verdict never had. Its cache property speaks
about the formalization, not the prose, and nothing moves while a run is in flight.

## 5. What is proved

Fifty-seven theorems (`PROJECT.json`, `theorems`) in eight modules, each for every
value of the constants under the assumptions its module names. Those
on constants say that "none" values are not values, that tables have entries for what
they are asked about, and that sets of items, categories or directories are what the
code can hold (finite directories, at least one attempt). Some theorems have a
premise of their own, in their `ASSUME`: it is a formula over the constants that
rules out runs the code really has, whose counterexamples section 4 lists. TLC
evaluates those premises on the instances it checks (`Premises` of `MCVerdicts` and
`MCViews`), so no theorem speaks of nothing.

| Property a run checks | Theorem | Premise |
|---|---|---|
| `TypeOK`, `DraftsSound`, `AnnotationsEarned`, `NoAdmissionPastTheGate`, `ConsoleReadBack` | `TypeCorrect`, `DraftsStaySound`, `AnnotationsStayEarned`, `AdmissionsAreGated`, `ConsoleReadsBack` | |
| `IsLedger` | `SerialRequestsAreTheLedger` | `OneRequestAtATime` |
| `NoErosion`, `NoMasquerade`, `CorroborationNeverDemotes` | `ProofsAreNotEroded`, `NothingMasquerades`, `EvidenceOnlyAdds` | |
| `ServedIsAnswer`, `FreshIsAnswer`, `GatePassIsEarned` | `CacheServesAnswers`, `FreshVerdictsAreAnswers`, `GatePassesAreEarned` | `StillUnderRuns`, `AnswersAreFingerprinted` |
| `LogFollowsStore` | `LogsFollowTheStore`, `RecordsAreKept` | `OneRunAtATime` |
| `VerdictIsOfTheClaim` | `VerdictsAreOfTheirClaims` | `NothingOverlaps` |
| `SubjectIsSound` | `TheSubjectIsSound`, and for its parts `TheSubjectIsRestored`, `TheProposalStands` | `NothingOverlaps`, `DraftedOnce` |
| `TriageOK`, `NothingAskedTwice`, `OperatorPrevails`, `CoverageKept` | `TriageTypeCorrect`, `NothingIsAskedTwice`, `OperatorsPrevail`, `CoverageIsKept` | |
| `SentIsAcknowledged`, `SlotsAreUsed` | `NothingLeavesUnacknowledged`, `SlotsAreUsedWell` | |
| `StoreOK`, `LogsAreLawful` | `StoreTypeCorrect`, `ReviewLogsAreLawful` | |
| `FilesStand` | `TheFilesStand`, and for its parts `ChecksAreOfTheirUrls`, `TheBytesStand`, `OneIdentityOneArtifact`, `NothingIsLost` | |
| `DecisionsStand` | `TheDecisionsStand`, and for its first part `TheDeclinedStayOut` | |
| `SavesAreInformed`, `TypedTextStays` | `SavesAreSentKnowingly`, `WhatIsTypedStays` | |
| `KeysAreKept` | `NoKeyIsLost` | |
| `WhatIsSaidIsSo` | `WhatIsSaidHolds`, and for its parts `TheArrayParses`, `RequestsAreAnsweredInOrder`, `ListingsAreWhole`, `PostsAreCarriedOutOnce` | |
| `DoorstopOK` | `TheImportStands` | |
| `SearchesAreRight`, `ViewsAgree` | `TheSearchesAreRight`, `TheViewsAgree` | |
| `PagesShowTheTruth` | `ThePagesShowTheTruth` | `PagesAreOrderly` |

*Drafts* (`DraftsProofs`). `TypeOK`, `DraftsSound`, `AnnotationsEarned` and the
action property `NoAdmissionPastTheGate`. `DraftsSound` is about the file, but a
request writes what it holds in memory, and it loaded that at a time when the file
was different; so the inductive invariant `Inv` says of every request's `mem` what
it says of the file. It also carries `AskingTranslates`: only a translation is at
the await where a candidate is proposed, without which the bound on attempts is
lost. The argument: every operator of `DraftState` takes a sound map to a sound
map (one lemma per operation); every handler applies one of them to a sound map,
its own or the file's; saving moves a sound map into the file. Since nothing in it
depends on which map was loaded when, it holds for any number of overlapping
requests, crashes and upgrades. `ConsoleReadBack` needs an invariant of its own
(`ReadInv`): wherever a draft is admitted by the console after a mandatory review, what
was shown is the candidate, in the file and in every `mem`. It is not part of `Sound`,
since the web's admission does not promise it (section 4).

*The ledger* (`DraftsProofs`, last part). `SerialRequestsAreTheLedger` proves the
refinement of `DraftsRefinement` step by step under `OneRequestAtATime`. `Serial` says
that the copy a request holds is the file's while it waits for a model, and otherwise
one `Applied` operation away from it (nobody else wrote since, there being one request);
a truncating write maps to the ledger's damage, the write after it to the operation,
a crash between them to nothing more, everything else to a stutter.

*Verdicts* (`VerdictProofs`, first part). `NoMasquerade` and `CorroborationNeverDemotes`
follow from lemmas about the combination for an arbitrary set of evidence.
`NoErosion` is a statement about `first` and `recorded`, which no step compares;
the inductive invariant `Gated` says that `recorded` is no regression of `first`,
and the step needs that regression is transitive: what does not regress from a
verdict that does not regress from a third does not regress from the third.

*Triage* (`DeskProofs`, first part). `TriageOK`, `NothingAskedTwice` and the action properties
`OperatorPrevails` and `CoverageKept`. The action properties compare the file before
and after a save, and a save writes a job's copy; the inductive invariant therefore
says where a copy may differ from the file: only on items written since it was
loaded (`since`), or on items the job may decide (pending or placed by it). What a
job knew the operator had chosen is then in its copy and in none of its batches.

*Verify* (`VerdictProofs`, second part). The properties compare a verdict with what a run would
say of the world as it is; the store has verdicts of worlds long gone. `Earned` says of
a stored verdict that it is the outcome in *every* world that agrees with the versions
it carries (`ItsWorlds`), which needs `AnswersAreFingerprinted`: the answer depends on
nothing the stamp leaves out. Between an engine's answer and the stamp the world must
stand still (`StillUnderRuns`), which `RunHonest` carries through each step of a run.
A hit of the cache, a fresh status and a gate that lets pass are then the same
argument: this world agrees with the stamp. For the log, `InStep` says that the log
ends with the verdict in the store except between a run's save and its entry.

*Engine runs* (`VerdictProofs`, third part). With one run at a time (`NothingOverlaps`), `Decided`
says that the engine about to run finds the claim in the build (`InTheBuild`), whatever
harnesses runs that died have left there, and that every piece of evidence taken is right
of its claim (`Right`). The aggregate of right evidence is
right by the lemmas of the first part. `Kept` adds what the subject has: the
operator's files always and the text of the root but while a run has it open (`RootOpen`) or
once a write of it was cut short (`OperatorsStands`), also in what a run under way will
write back (`RootText`), and that the rest is what that run has put there and will take
away, unless a run died or could not write or remove (`OthersGo`).

*Drafting* (`VerdictProofs`, fourth part). `ProposalStands` speaks of text that is written
file by file out of copies that were read before the first prompt, at lines found before
that. `DraftedOnce` is its premise: nothing is drafted on top of what is staged or
kept for the same function, and nobody writes a source while the command waits for a
model (section 4 has both). The lemmas are about lines: what `InsertAbove` moves and
keeps (`InsertedMoves`, `InsertKeeps`), an import before the items (`ImportKeeps`), and drafts
applied one after the other (`ApplyKeeps`). `after` in `ApplyToSource` is a function on sets
of drafts; the lemma goes up their number, by the least at which it fails, and its step
needs that the topmost comes last, so that every line still to be written to is where it
was. `Whole` is what every text there must be (its lines are of the subject, each draft is
above its function, once, functions are there once), `Grows` what staging adds. `Standing`
is the greatest set closed under its calls, whence no mirror calls one that is not
there (`StandingIs`, `LogicStaged`). The inductive invariant `DraftingInv` says where the
command is (`CliIs`): the copies it read stand as the tree did (`SourcesStand`) and hold no
draft for a target (`Undrafted`); each clause is keyed to one signature and of this round
(`DraftsAre`), each mirror made from an answer for its function (`MirrorsAre`); and
while files are written, each is the staged text or still to be written. It says
nothing once a run has died between two files (`touched`), and the next revert
restores it. `DraftingAssumption` is about a subject before the first command: it compiles, and
what it keeps of earlier proposals stands; TLC evaluates it for the subjects of `MCVerdicts`.

*LLM chain* (`LlmChainProofs`). `SentIsAcknowledged` speaks of what the operator was
shown, `run_prompt` of a set of slots of a runtime it took before. Two invariants
bridge this: an acknowledgement of a slot was made on a page that showed that slot's
provider, or on one older than the runtime (`AckedWasShown`); a prompt at a slot
outside is under an acknowledgement to its end (`SentUnderAck`), since trackers of a
runtime only gain acknowledgements. The runtimes of commands share nothing with it
(`CommandsInv` has their types). For `FallbackIsTried`, `StillAhead`: a slot usable
from a prompt's beginning is one it has not passed. The proof needs the prompts and
the retests to be different requests, which `LlmAssumption` says.

*Store* (`ArtifactStoreProofs`). A file is sound if it is of its type, its log is
lawful and its check is of its address. The lemmas on logs show that the loop of
`collect_open_todos` computes the TODOs that are open (by the least position where it
might not), and that an entry a handler allows keeps a lawful log lawful. Every
handler then writes files that are sound because it derived them from sound ones, of
the tree or of the published world; `SuggestionsInv` says so of the tree, the world,
every snapshot a refresh has in hand and every file still to be written in any plan.
No step mixes two logs, so overlaps, crashes and imports are no special case.

*What the store keeps* (`ArtifactStoreProofs`, from `OrderInv` on). The other parts of
`FilesStand` and `DecisionsStand` speak of runs in which no write met a change that its
request had not seen (`crossed`), so the invariant has to say what a plan assumes. Its
first half is about a plan and its snapshot: `Sensible` names the plans that
requests make (a new artifact, a new blob, an edit, a replacement, ...) and what each
presupposes of the snapshot, at its beginning and after each of its steps. A step that
meets nothing unseen finds under the name it touches what its snapshot has there
(`KindMeets`, `DeedMeets`), and so does on disk what it was meant to do. The second half
is about the disk. `BornInv`: an identity that a creator has still to write is in no tree
that anybody may write from, so nobody else brings it. `TwinsInv`: two files of one
identity are the metadata of a blob, of one name, and some request has nothing left but
to take one of them away (`Finishing`), unless it ended in an error or the server was
stopped before it did, which leaves the name in `halved`; another that brings a third
finds that out as a change it had not seen. An ignored or a partial removal sets
`crossed`, since every plan after it presupposes what is no longer so. `LinksInv` and `LostInv` then go
through the steps one by one: what is dropped is a twin, or what was to be deleted; what
is put over a file carries its identity and its links. The proofs start from the trees that
`ScenesAssumption` describes: those the program could have left before two requests met,
which TLC evaluates for the scenes of `MCStore`.

*Screens* (`DraftsProofs`, last part). `SavesAreInformed` is about a PUT and the
operator who sent it. `EditorInv` says of an open editor that its operator was asked
(`WasAsked`) if its latch has moved since it was opened or its prompt is dismissed,
which is what the PUT takes along; the latch moves in a resolution only, while a refetch
moves the page. `TypedTextStays` is an invariant about text that answers in flight could
replace. `PaneInv` and `DialogInv` say why none does: as long as the operator may count
on what was typed, every answer on its way, every request still to be served, the page
and the server have one candidate (`Promise`, `Settled`), so that what arrives re-seeds
nothing.

*The settings page* (`DeskProofs`). `PageInv` is the array's and the page's types and
that every slot parses. The lemmas say what `RemoveAt` and `InsertAt` do to an array,
position by position, for the three handlers that shift one. `ArrayMoves` says of a step
that an array that is no shorter has each old key still, or a newly entered one in its
place. `FirstFileParses` assumes that the array there is at first parses: the server
does not start otherwise.

*The agent* (`DeskProofs`). `McpAssumption` has the tree's shape: finite, projects in
the system, collections in projects, artifacts in collections. `ListingIsWhole` needs to
know where the walk is with each artifact: `Stage` says that of an artifact that has
stayed where it was since the line was taken, exactly one is ahead, once, or found,
once: the system, its project, its collection, itself; an answer on its way brings the
next of them (`Bringing`). `PostedOnce` needs that a post is at most one of to come,
under way at the server, late, and carried out (`Ledger`, `Posted`): a timeout moves it
to the late ones and takes it out of the process's hands, and each worker thread carries
out one of them. `AnswersInOrder` follows from the numbers of lines alone (`Written`).

*The importer* (`DoorstopProofs`). `DoorstopOK` compares what lies in the files with the
tree an import read, which has changed since, and with a report. The first half of the
proof is about the plan, a sequence flattened from one for each document: `PlanParts`
says that its positions are the parts of the tree (an item, or its companion) and back,
`LinksOfPlan` and the lemmas on counting that the report's totals are the numbers of
those. `FlattenSeq` is recursive; what it gives is shown by the least position where it
would not (`LeastOne`), as for the searches. The second half is the invariant.
`RunsInv`: numbers of imports differ, and what a request has to write is of its plan.
`HomeInv`: in a project whose collections are none of the tree's, what was there is
there, and no file without a run's number is anything else. `WritingInv`: what a run has
left its list is in the files (`BeingWritten`), if no other run or rename met its files.
`ReportInv`: once it is reported, every artifact of the plan is one file of its
directory, whatever the wizard called it, and no other file bears its number
(`AllStand`). It stands on `MapsOneToOne`, the property's own condition (no two items of the
tree under one name), and on what `DoorstopAssumption` says of `Slug`, `RefName` and a
project before its first import; TLC evaluates it for the scenes of `MCDoorstop`.

*The searches* (`ReportsProofs`). Both are specified by what can be reached (`Ball`), which
a search never computes. `Ball` is a recursive function; the lemmas about it are proved
by induction in the form the provers can take: of the numbers of steps at which a claim
failed, a least one (`LeastOne`). That a ball has stopped growing after as many steps as
there are artifacts (`BallCloses`) is counting: each step before adds one. The
breadth-first search keeps `ImpactWalk`: whatever has a depth is at that distance, the
queue is in order and spans two levels, and everything nearer is there (`AtLevel`); what has left
the queue has sent its links (`GoneOn`). The depth-first one keeps `CycleWalk`: the stack is a
path (`StackIsPath`), so a back edge closes a loop; where a link leads from the path is
finished, on the path, or closed a loop that was seen (`Explored`); and what is finished and
on a cycle shares it with a loop seen (`FinishedMet`). When the last is
left, an artifact on a cycle is finished, and when the caps held and nothing was filtered by scope,
what was seen is what is reported. That no reported loop is another turned round needs that a
canonical key starts with its least artifact (`LoopsDiffer`). `ViewsAgree` follows from the
definitions of the views, link by link.

*The pages* (`WebClientProofs`). A page is shown what was true when its answer was
computed, so the invariant has to say which answers may be old. `PagesInv`: of
everything a page shows, an answer on its way will make it show, or the reply to a
mutation will fill in, each resource is at its latest version, unless something on
the wire will bring the news (`Brings`: an event, or the reply of a mutation that
invalidates or fills the query) or a mutation under way has still to send it
(`WillCome`); what changed without a word is out of it (`Heard`). Where answers keep their order, what brings it must come after the old
answer (`Owes`); where they overtake each other, an invalidation restarts the fetch, so
that its old answer is never taken, which is why such pages must have something to
show (`LooseInv`). `WireInv` keeps answers and requests apart: a fetch that was served has
one answer under way, a mutation one reply. That a mutation's reply brings what it
changed, or that the event does, is a matter of the tables: `Coverage` goes through
`RequestOf`, `HookOf` and `Shows` case by case. A triage or a seed that has the backlog to
itself needs none of this and has `AloneInv`, for the rollback of a refused one. As
for the importer, `FlattenSeq` is recursive, and what is left of the wire when some
messages are taken off it is shown by the least position (`IsLeft`).

Every safety property that a passing run checks is proved but the four of `claims`.
Out of the prover's reach and therefore only model-checked: the liveness properties
(`EditsAreShown`, `ServiceResumes`, `WorkEnds`), and `TextIsReadWhole`, `AnswersMeanTheClaim`,
`ReadBackIsWhatRuns` and `VacuousNeverFails`, which are about what recursive operators
over syntax trees compute.

## 6. Abstractions, and what is not modelled

- *Drafts.* Texts are values; a gate's messages are left out. An overlap of two
  writes leaves the file either as the later text or unreadable (the tail of a
  longer text behind a shorter one). `shown`, whether the
  reviewer saw this candidate, is a ghost: the code does not store it. A model may
  answer any of the texts. A revision is the content hash of the prose.
- *ProofDrafting.* What a clause or a mirror says is whether it compiles, holds, and
  what it calls; three lines of a function stand for any number. Compiler and prover
  are external.
- *Doorstop.* An item is its UID, links, ref and state; the levels, titles and bodies
  pass through. An import's files are written one per step, the directories with them.
- *McpServer.* A request is its kind and what it is about; schemas of arguments and the
  wording of answers are left out, and so are the queries answered from tables. A line
  that is not UTF-8 ends the process (`transport.rs:45`) and is not written here.
- *ProviderPage.* One page, others reduced to the requests they send; a request is
  served in one step (`AppWorld` has the races). Acknowledgements are in `LlmChain`.
- *LlmAdapters.* An exchange ends in one of the ways listed; bodies are text or not.
- *Reports.* `MAX_CONFLICT_PAIRS` (500, `compute.rs:45`) is left out: `Conflicts` is the
  whole list.
- *VerifyLoop.* The subject is under git, so the code axis of status is a
  fingerprint and not a bare commit id. An engine reads the world at one moment; running the tests and
  resolving the bindings are one step. Saving `verdicts.yml` is one step (its
  truncating write is the one `Drafts` models). A draft without a candidate cannot
  be admitted (`DraftsSound`) and counts as not admitted. The review log is that of
  provreq's own artifacts; a doorstop subject has none.
- *AppWorld.* Discovery reads the tree in one step; every write has a stamp of its
  own, so two writes within one mtime tick are told apart; the system config is in
  the tree that is watched; sessions, the broadcast
  channel and the report and repository caches are left out. Known and without a
  property: refreshes are not ordered, so an older world may be published over a
  newer one (`app.rs:237`) until the next; a provider edit starts from the config
  of the published world and erases a newer one (`handlers.rs:4948`).
- *Triage.* A batch is any set of pending items; revisions are left out; saving is
  one step.
- *LlmChain.* What a slot answers is success, transient or permanent failure;
  time is what is left of each backoff. The prompts of a command are its number of
  questions; commands do not share a runtime with anything.
- *Store.* The tree is read in one step; bodies and titles of content artifacts are
  not tracked, addresses are; one project; links are changed by accepted
  suggestions and imports only; a model's answer has no duplicates. `provreq.json` is
  not modelled: after a wipe with `deinit` the project is taken to be initialised again
  at once.
- *Engines.* What an engine prints is external: any output its goals and the state
  of the build admit. A crate root that was written in part counts as empty, a harness
  written in part as the harness. The operator edits between runs only (a root restored over an
  edit made during a run, `creusot.rs:368`, is known and without a property).
- *WebClient.* One artifact, one list of each kind; parameters of a query are in its
  key and not told apart. Retries of a failed fetch, focus and interval refetching
  and garbage collection of the cache are left out. The triage badge of the detail
  page is that of the backlog. Every answer of the server arrives: one lost on the way
  after its request was carried out is left out.
- *Screens.* One artifact with a title and a body, one review pane, one draft; an
  editor is not opened again while the save of a closed one is under way. Focus,
  keyboard, markdown and layout are left out, and so are the pages and dialogs that
  only render or collect one request.
- *Claims.* Words are whole tokens; positions in messages are left out. The content of terms, guards, assumptions and identities is left out, and so are
  generic type arguments, traces in MonPoly's own format, model constants and the
  operator a specification is named by. A deadline is a number and its unit, of whose
  spellings one each is written. MonPoly's ways to refuse a formula or a log are one
  refusal. Compilers and provers are exact or
  inconclusive.

## 7. Plan

Done: the modules of section 2 and the proofs of section 5.

Left: the eviction of thumbnails against lookups (section 1), and recursion-free forms of what `Claims` computes, without which
nothing of it can be proved.

## 8. Running it

    tlc -config MCDrafts.cfg MCDrafts.tla
    tlapm DraftsProofs.tla      # also VerdictProofs, LlmChainProofs,
                                # ArtifactStoreProofs, DeskProofs, DoorstopProofs,
                                # ReportsProofs, WebClientProofs

Configurations are named after the module they run, with a suffix for the
question (`MCCacheProse.cfg` checks `MCVerifyLoop`). With two workers each run takes
between a second and three minutes on an idle machine; the proofs of a module take from
seconds to two minutes, those of `WebClientProofs` three, those of `VerdictProofs` and
`ArtifactStoreProofs` six or seven.
