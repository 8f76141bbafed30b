------------------------------- MODULE Drafts -------------------------------
(***************************************************************************)
(* The draft requests of provreq: the HTTP handlers of src/server.rs and   *)
(* the `provreq draft` commands of src/main.rs.  Each one resolves the     *)
(* item, loads drafts.yml, applies one operator of DraftState and writes   *)
(* the WHOLE map back.  Nothing locks the file: two requests (or a request *)
(* and a console) interleave between any two of those steps, and a request *)
(* that waits for a model (translate) keeps its loaded copy while it does. *)
(*                                                                         *)
(* fs::write truncates the file and then writes it, so there is a moment,  *)
(* which a crash makes permanent, in which the file does not parse.        *)
(***************************************************************************)
EXTENDS DraftState, Naturals

CONSTANTS
    Workers,      \* requests the server and the consoles run at a time
    MaxAttempts,  \* formalize::MAX_ATTEMPTS, 3 in the code
    MaxRequests,  \* bound of the model: requests ever started
    NoAnnotation  \* an item without a provreq annotation

ASSUME AttemptAssumption ==
    MaxAttempts \in Nat \ {0} /\ MaxRequests \in Nat

ASSUME ItemAssumption == Items # {}

ASSUME AnnotationAssumption == NoAnnotation \notin Annotation

VARIABLES
    prose,     \* [Items -> Revisions], what the source adapter returns
    annot,     \* the provreq annotation on each item of the subject
    build,     \* the build of the tool that is running
    drafts,    \* what the last complete write left in drafts.yml
    readable,  \* drafts.yml parses
    job,       \* the local variables of each request
    started    \* requests started so far

file == <<drafts, readable>>
world == <<prose, annot, build>>
vars == <<world, file, job, started>>

Op == {"open", "set", "translate", "check", "ground", "admit-web",
       "admit-console", "discard", "writeback"}

Pc == {"idle", "resolved", "asking", "loaded", "writing"}

\* The item as resolved, the candidate on display when the request was made,
\* the calls made to the model and the map as loaded, later as updated.
Job == [pc : Pc, op : Op, item : Items, rev : Revisions,
        seen : Candidates \cup {NoCandidate}, calls : 0 .. MaxAttempts,
        mem : DraftMap]

NoDrafts == [i \in Items |-> NoDraft]

\* A worker between two requests remembers nothing.
AnyItem == CHOOSE i \in Items : TRUE
AnyRevision == CHOOSE r \in Revisions : TRUE

NoJob == [pc |-> "idle", op |-> "open", item |-> AnyItem,
          rev |-> AnyRevision, seen |-> NoCandidate, calls |-> 0,
          mem |-> NoDrafts]

Init ==
    /\ prose \in [Items -> Revisions]
    /\ annot = [i \in Items |-> NoAnnotation]
    /\ build \in Builds
    /\ drafts = NoDrafts
    /\ readable = TRUE
    /\ job = [w \in Workers |-> NoJob]
    /\ started = 0

-----------------------------------------------------------------------------
\* Steps of one request.

\* The candidate an open dialog or listing shows for an item.
Displayed(i) ==
    IF readable /\ HasCandidate(drafts[i]) THEN drafts[i].candidate
                                           ELSE NoCandidate

\* The dialog offers to admit only a candidate on display and not admitted.
Offered(o, i) ==
    o = "admit-web" => Displayed(i) # NoCandidate /\ ~Admitted(drafts[i])

\* A request is made and adopt::resolve reads the items of the subject.
Begin(w, o, i) ==
    /\ job[w].pc = "idle"
    /\ Offered(o, i)
    /\ started < MaxRequests
    /\ started' = started + 1
    /\ job' = [job EXCEPT ![w].pc = "resolved", ![w].op = o, ![w].item = i,
                          ![w].rev = prose[i], ![w].seen = Displayed(i)]
    /\ UNCHANGED <<world, file>>

\* Faulty: a file that does not parse is read as if it did.
LoadsAnyway(w, o) == job[w].pc = "resolved" /\ job[w].op = o

\* draft::load succeeds for a request of kind o.
Loads(w, o) == job[w].pc = "resolved" /\ job[w].op = o /\ readable

\* The draft a request finds in the file.
Found(w) == drafts[job[w].item]

\* The request has computed the map it is about to save.
Hold(w, state) ==
    /\ job' = [job EXCEPT ![w].pc = "loaded", ![w].mem = state]
    /\ UNCHANGED <<world, file, started>>

\* The request is over and leaves the file alone.
End(w) == job' = [job EXCEPT ![w] = NoJob]

OpenDraft(w) ==
    /\ Loads(w, "open")
    /\ Found(w) = NoDraft
    /\ Hold(w, Open(drafts, job[w].item, job[w].rev))

SetDraftCandidate(w) ==
    /\ Loads(w, "set")
    /\ \E c \in Candidates :
        Hold(w, SetCandidate(drafts, job[w].item, job[w].rev, c,
                             GateOf[build][c]))

CheckDraft(w) ==
    /\ Loads(w, "check")
    /\ HasCandidate(Found(w))
    /\ Hold(w, SetGate(drafts, job[w].item,
                       GateOf[build][Found(w).candidate]))

GroundDraft(w) ==
    /\ Loads(w, "ground")
    /\ \E s \in Symbols :
        /\ CanGround(Found(w), build, s)
        /\ Hold(w, SetBinding(drafts, job[w].item, s))

\* The web surface: what the reviewer confirmed is what the dialog showed
\* when the request was made.
AdmitDraft(w) ==
    /\ Loads(w, "admit-web")
    /\ \E confirmed \in BOOLEAN : CanAdmit(Found(w), build, confirmed)
    /\ Hold(w, AdmitGated(drafts, job[w].item, build, "web", job[w].seen))

\* Faulty: the read-back is of the candidate listed before the prompt.
AdmitAsListed(w) ==
    /\ Loads(w, "admit-console")
    /\ \E yes \in BOOLEAN : CanAdmit(Found(w), build, yes)
    /\ Hold(w, AdmitGated(drafts, job[w].item, build, "console",
                          job[w].seen))

\* The console: the read-back is rendered from the state that is then saved.
AdmitCandidate(w) ==
    /\ Loads(w, "admit-console")
    /\ \E yes \in BOOLEAN : CanAdmit(Found(w), build, yes)
    /\ Hold(w, AdmitGated(drafts, job[w].item, build, "console",
                          Found(w).candidate))

DiscardDraft(w) ==
    /\ Loads(w, "discard")
    /\ Hold(w, Discard(drafts, job[w].item))

\* writeback saves no draft: it annotates the item of the subject.
Writeback(w) ==
    /\ Loads(w, "writeback")
    /\ CanWriteBack(Found(w), job[w].rev)
    /\ annot' = [annot EXCEPT ![job[w].item] = AnnotationOf(Found(w))]
    /\ End(w)
    /\ UNCHANGED <<prose, build, file, started>>

\* translate loads the map, then waits for the model.
Ask(w) ==
    /\ Loads(w, "translate")
    /\ job' = [job EXCEPT ![w].pc = "asking", ![w].mem = drafts]
    /\ UNCHANGED <<world, file, started>>

\* Faulty: repairs for as long as the gate rejects.
ProposeUntilAccepted(w, c) ==
    /\ job[w].pc = "asking"
    /\ IF GateOf[build][c] = "rejected"
       THEN job' = [job EXCEPT ![w].calls = @ + 1]
       ELSE job' = [job EXCEPT ![w].pc = "loaded", ![w].calls = @ + 1,
                ![w].mem = SetCandidate(@, job[w].item, job[w].rev, c,
                                        GateOf[build][c])]
    /\ UNCHANGED <<world, file, started>>

\* translate_gated: the model proposes a text.  One the gate rejects is sent
\* back for repair until the attempts are spent; the last one is kept anyway.
Propose(w, c) ==
    /\ job[w].pc = "asking"
    /\ IF GateOf[build][c] = "rejected" /\ job[w].calls + 1 < MaxAttempts
       THEN job' = [job EXCEPT ![w].calls = @ + 1]
       ELSE job' = [job EXCEPT ![w].pc = "loaded", ![w].calls = @ + 1,
                ![w].mem = SetCandidate(@, job[w].item, job[w].rev, c,
                                        GateOf[build][c])]
    /\ UNCHANGED <<world, file, started>>

\* No model is configured, it cannot be reached, or it answers nothing.
NoAnswer(w) ==
    /\ job[w].pc = "asking"
    /\ End(w)
    /\ UNCHANGED <<world, file, started>>

\* What a request can be refused for once the file was read.
Refusable(w) ==
    LET d == Found(w) IN
    \/ job[w].op = "open" /\ d # NoDraft
    \/ job[w].op = "check" /\ ~HasCandidate(d)
    \/ job[w].op = "ground" /\ \E s \in Symbols : ~CanGround(d, build, s)
    \/ /\ job[w].op \in {"admit-web", "admit-console"}
       /\ ~CanAdmit(d, build, FALSE)
    \/ job[w].op = "writeback" /\ ~CanWriteBack(d, job[w].rev)

\* A drafts.yml that does not parse is an error, never an empty map; so is a
\* precondition that fails.  Neither writes anything.
Refuse(w) ==
    /\ job[w].pc = "resolved"
    /\ ~readable \/ Refusable(w)
    /\ End(w)
    /\ UNCHANGED <<world, file, started>>

\* draft::save, first half: fs::write has truncated the file.
Truncate(w) ==
    /\ job[w].pc = "loaded"
    /\ readable' = FALSE
    /\ job' = [job EXCEPT ![w].pc = "writing"]
    /\ UNCHANGED <<world, drafts, started>>

\* draft::save, second half.  When the file parses already, another request
\* wrote it after this one truncated it: the shorter of the two texts leaves
\* the tail of the longer behind it.
Write(w) ==
    /\ job[w].pc = "writing"
    /\ readable' = TRUE \/ (readable /\ readable' = FALSE)
    /\ drafts' = job[w].mem
    /\ End(w)
    /\ UNCHANGED <<world, started>>

\* The process of a request dies wherever it is.
Crash(w) ==
    /\ job[w].pc # "idle"
    /\ End(w)
    /\ UNCHANGED <<world, file, started>>

-----------------------------------------------------------------------------
\* What happens around the requests.

\* The operator edits a requirement, or checks out another branch.
EditProse(i) ==
    /\ \E r \in Revisions : prose' = [prose EXCEPT ![i] = r]
    /\ UNCHANGED <<annot, build, file, job, started>>

\* The tool is replaced by another build; whatever was running is gone.
Upgrade ==
    /\ build' \in Builds
    /\ job' = [w \in Workers |-> NoJob]
    /\ UNCHANGED <<prose, annot, file, started>>

Handle(w) ==
    \/ OpenDraft(w) \/ SetDraftCandidate(w) \/ CheckDraft(w) \/ GroundDraft(w)
    \/ AdmitDraft(w) \/ AdmitCandidate(w) \/ DiscardDraft(w) \/ Writeback(w)
    \/ Ask(w) \/ (\E c \in Candidates : Propose(w, c)) \/ NoAnswer(w)

Next ==
    \/ \E w \in Workers :
        \/ \E o \in Op, i \in Items : Begin(w, o, i)
        \/ Handle(w) \/ Refuse(w)
        \/ Truncate(w) \/ Write(w) \/ Crash(w)
    \/ \E i \in Items : EditProse(i)
    \/ Upgrade

Spec == Init /\ [][Next]_vars

-----------------------------------------------------------------------------
(***************************************************************************)
(* Properties.                                                             *)
(***************************************************************************)

TypeOK ==
    /\ prose \in [Items -> Revisions]
    /\ annot \in [Items -> Annotation \cup {NoAnnotation}]
    /\ build \in Builds
    /\ drafts \in DraftMap
    /\ readable \in BOOLEAN
    /\ job \in [Workers -> Job]
    /\ started \in 0 .. MaxRequests

\* The tier of an admission was given by the gate of some build to this text.
Earned(c, review) ==
    /\ c \in Candidates
    /\ \E b \in Builds : GateOf[b][c] # "rejected" /\ review = Tier(GateOf[b][c])

\* A draft on which a human's decision and a binding mean what they say.
Sound(d) ==
    d # NoDraft =>
        /\ Admitted(d) => Earned(d.candidate, d.review)
        /\ d.bindings # {} => d.candidate \in Candidates
        /\ d.candidate \in Candidates => d.bindings \subseteq VocabOf[d.candidate]
        /\ d.candidate = NoCandidate => d.gate = "ungated"

\* Whatever requests overlap, and wherever one of them dies, no draft in the
\* file or in the memory of a request is admitted without a candidate that
\* gated under the recorded tier, and none binds a symbol its candidate does
\* not declare: an admission and the bindings always belong to the text they
\* were made for (set_candidate, admit_gated, ground in src/draft.rs).
DraftsSound ==
    \A i \in Items :
        /\ Sound(drafts[i])
        /\ \A w \in Workers : Sound(job[w].mem[i])

\* Nothing reaches the subject's own files but a formalization a human had
\* admitted, under the tier the gate gave it (writeback).
AnnotationsEarned ==
    \A i \in Items :
        annot[i] # NoAnnotation => Earned(annot[i].prl, annot[i].review)

\* A mandatory review made at the console was of the text it admits, whatever
\* was saved while the prompt waited (admit_candidate in src/main.rs).
ConsoleReadBack ==
    \A i \in Items : drafts[i] # NoDraft =>
        (drafts[i].review = "mandatory" /\ drafts[i].by = "console"
            => drafts[i].shown)

\* The same of every surface.  The web request names no candidate, so the one
\* that is admitted may have replaced the one the dialog showed.
ReadBackConfirmed ==
    \A i \in Items : drafts[i] # NoDraft =>
        (drafts[i].review = "mandatory" => drafts[i].shown)

\* The step in which a request grants an admission.
Granted(w, i) ==
    /\ job'[w].pc = "loaded" /\ job[w].pc # "loaded"
    /\ job'[w].op \in {"admit-web", "admit-console"}
    /\ Admitted(job'[w].mem[i])
    /\ job'[w].mem[i] # drafts[i]

\* A request grants an admission only to a text the RUNNING gate accepts; the
\* outcome recorded in the draft may be from a build that accepted more
\* (admit_gated in src/draft.rs).
NoAdmissionPastTheGate ==
    [][\A w \in Workers, i \in Items :
        Granted(w, i) =>
            /\ GateOf[build][job'[w].mem[i].candidate] # "rejected"
            /\ job'[w].mem[i].review = Tier(GateOf[build][job'[w].mem[i].candidate])]_vars

\* An admission is recorded against the revision of the requirement that the
\* reviewer admits it for, so admitting again ends a drift (admit and
\* writeback in src/draft.rs).  The code keeps the revision of the candidate.
AdmittedAtCurrentRevision ==
    [][\A w \in Workers, i \in Items :
        Granted(w, i) =>
            job'[w].mem[i].revision = job'[w].rev]_vars
=============================================================================
