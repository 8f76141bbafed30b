------------------------------- MODULE Screens ------------------------------
(***************************************************************************)
(* Three screens that hold what an operator is typing while the data under *)
(* them moves: the artifact editor with its conflict prompt                *)
(* (ArtifactEditor.tsx, ConflictDialog.tsx), the review pane and its       *)
(* dialogs (ReviewPane.tsx, ReviewActionDialogs.tsx), and the draft dialog *)
(* of the proof page (ItemDetailDialog.tsx, VerifyPanel.tsx).  WebClient   *)
(* says how new data gets to a page; here it simply arrives.               *)
(*                                                                         *)
(* An artifact is a title and a body: the description, the tags, the flags *)
(* and the outline level are compared like the title, with what the page   *)
(* has now; the links like the body, with what the editor loaded.          *)
(***************************************************************************)
EXTENDS Naturals, FiniteSets

CONSTANTS
    Screen,     \* the screens under study
    Text,       \* titles, bodies, explanations
    Formula,    \* candidates; all pass the gate
    Flagged,    \* those it passes with a vacuity warning
    MaxVersion, \* bound of the model: versions of the artifact
    MaxSends \* bound of the model: requests of the draft dialog

ASSUME ScreensAssumption ==
    Flagged \subseteq Formula /\ MaxVersion \in Nat /\ MaxSends \in Nat

VARIABLES
    screen,
    disk, onPage,    \* the artifact in its file, and on the page
    editor, save,     \* the open editor, its PUT
    pane, review,     \* the review pane, its POST
    draft, detail,    \* the draft in drafts.yml, and in the dialog
    form, asked,      \* what the dialog holds, its requests
    requests          \* requests sent so far

artifactVars == <<disk, onPage, editor, save>>
paneVars == <<pane, review>>
dialogVars == <<draft, detail, form, asked, requests>>
screenVars == <<screen, artifactVars, paneVars, dialogVars>>

-----------------------------------------------------------------------------
(***************************************************************************)
(* The editor.                                                             *)
(***************************************************************************)

Closed == [open |-> FALSE]
NoSave == [pc |-> "none"]

\* useState and useRef of a new editor.  "since" and "offered" are ghosts: the
\* version it was opened on, and those a prompt was answered about.
Opened(a) == [open |-> TRUE, title |-> a.title, body |-> a.body,
              latch |-> a.at, loaded |-> a.body, dismissed |-> FALSE,
              merging |-> FALSE, merged |-> a.body, since |-> a.at, offered |-> {}]

LocalEdits == editor.body # editor.loaded \/ editor.title # onPage.title
Prompt == editor.open /\ onPage.at # editor.latch /\ LocalEdits /\ ~editor.dismissed
Typing == editor.open /\ ~Prompt   \* the prompt is modal

OpenEditor ==
    /\ ~editor.open /\ save.pc = "none"
    /\ editor' = Opened(onPage)
    /\ UNCHANGED <<disk, onPage, save>>

Type ==
    /\ Typing
    /\ \E t \in Text : editor' \in {[editor EXCEPT !.body = t], [editor EXCEPT !.title = t]}
    /\ UNCHANGED <<disk, onPage, save>>

\* The merge pane starts from the local body each time the prompt comes up.
OpenMerge ==
    /\ Prompt
    /\ \/ ~editor.merging /\ editor' = [editor EXCEPT !.merging = TRUE, !.merged = editor.body]
       \/ editor.merging /\ editor' = [editor EXCEPT !.merging = FALSE]
       \/ editor.merging /\ \E t \in Text : editor' = [editor EXCEPT !.merged = t]
    /\ UNCHANGED <<disk, onPage, save>>

\* resolveConflict: the latches move to the version on the page.
Resolve(choice) ==
    /\ Prompt /\ (choice = "merged") = editor.merging
    /\ LET kept == CASE choice = "discard" -> [editor EXCEPT !.title = onPage.title, !.body = onPage.body]
                     [] choice = "merged"  -> [editor EXCEPT !.body = editor.merged]
                     [] OTHER              -> editor
       IN  editor' = [kept EXCEPT !.latch = onPage.at,
                          !.loaded = IF choice = "merged" THEN editor.merged ELSE onPage.body,
                          !.dismissed = TRUE, !.merging = FALSE, !.offered = @ \cup {onPage.at}]
    /\ UNCHANGED <<disk, onPage, save>>

Save ==
    /\ Typing /\ save.pc = "none"
    /\ save' = [pc |-> "sent", title |-> editor.title, body |-> editor.body, by |-> editor,
                over |-> onPage.at, edits |-> LocalEdits]
    /\ UNCHANGED <<disk, onPage, editor>>

\* Discard, or leaving the page: a PUT under way goes on.
CloseEditor ==
    /\ Typing
    /\ editor' = Closed
    /\ UNCHANGED <<disk, onPage, save>>

\* The file is written whole, whatever it has become; or the server refuses.
ServeSave ==
    /\ save.pc = "sent"
    /\ \/ /\ disk.at < MaxVersion
          /\ disk' = [title |-> save.title, body |-> save.body, at |-> disk.at + 1]
          /\ save' = [save EXCEPT !.pc = "done"]
       \/ disk' = disk /\ save' = [save EXCEPT !.pc = "refused"]
    /\ UNCHANGED <<onPage, editor>>

SaveAnswered ==
    /\ save.pc \in {"done", "refused"}
    /\ editor' = IF save.pc = "done" THEN Closed ELSE editor
    /\ save' = NoSave
    /\ UNCHANGED <<disk, onPage>>

ExternalEdit ==
    /\ disk.at < MaxVersion
    /\ \E t \in Text : disk' \in {[disk EXCEPT !.body = t, !.at = @ + 1],
                                  [disk EXCEPT !.title = t, !.at = @ + 1]}
    /\ UNCHANGED <<onPage, editor, save>>

\* A fault: the editor follows the version it is shown.
ReceiveRelatching ==
    /\ onPage # disk
    /\ onPage' = disk
    /\ editor' = IF editor.open THEN [editor EXCEPT !.latch = disk.at] ELSE editor
    /\ UNCHANGED <<disk, save>>

Receive ==
    /\ onPage # disk
    /\ onPage' = disk
    /\ UNCHANGED <<disk, editor, save>>

\* A fetch that fails takes the page to its error, and the editor with it.
LoadFails ==
    /\ editor.open
    /\ editor' = Closed
    /\ UNCHANGED <<disk, onPage, save>>

Editing ==
    \/ OpenEditor \/ Type \/ OpenMerge \/ Save \/ CloseEditor
    \/ \E choice \in {"keep", "discard", "merged"} : Resolve(choice)
    \/ ServeSave \/ SaveAnswered \/ ExternalEdit \/ Receive \/ LoadFails

-----------------------------------------------------------------------------
(***************************************************************************)
(* The review pane.  Its TODOs are one that may be open or not.            *)
(***************************************************************************)

Dialogs == {"approve", "reject", "addTodo", "reRequest", "resolve"}
\* "typed" is a ghost, here and in the draft dialog: what the operator typed
\* last and may count on finding there.
NoDialog == [dialog |-> "none", text |-> "", typed |-> "", blocked |-> pane.blocked]

\* What a button opens, on the data of the page.
Opens(d) ==
    /\ pane.dialog = "none"
    /\ d = "approve" => ~pane.blocked
    /\ d = "resolve" => pane.blocked
    /\ pane' = [pane EXCEPT !.dialog = d, !.text = "", !.typed = ""]
    /\ UNCHANGED review

Fill ==
    /\ pane.dialog # "none"
    /\ \E t \in Text : pane' = [pane EXCEPT !.text = t, !.typed = t]
    /\ UNCHANGED review

Cancel ==
    /\ pane.dialog # "none"
    /\ pane' = NoDialog
    /\ UNCHANGED review

\* One request at a time: every submit is disabled while one is pending.
Submit ==
    /\ pane.dialog # "none" /\ review = "none"
    /\ pane.dialog = "approve" => ~pane.blocked
    /\ pane.dialog # "reRequest" => pane.text # ""
    /\ review' = "sent"
    /\ UNCHANGED pane

\* The log on the page moves with the answer, or by another's hand.
ServeReview ==
    /\ review = "sent"
    /\ review' \in {"done", "refused"}
    /\ UNCHANGED pane

\* Refused, the dialog stays with what it holds; done, whatever is open closes.
Answered ==
    /\ review \in {"done", "refused"}
    /\ review' = "none"
    /\ pane' = IF review = "done" THEN NoDialog ELSE pane

\* The popover of a TODO goes with the TODO.
LogMoves ==
    /\ pane' = IF pane.dialog = "resolve" THEN [NoDialog EXCEPT !.blocked = ~@]
               ELSE [pane EXCEPT !.blocked = ~@]
    /\ UNCHANGED review

\* A fetch that fails takes the page to its error, and the pane with it.
PaneFails ==
    /\ pane.dialog # "none"
    /\ pane' = NoDialog /\ review' = "none"

Reviewing ==
    \/ \E d \in Dialogs : Opens(d)
    \/ Fill \/ Cancel \/ Submit \/ ServeReview \/ Answered \/ LogMoves \/ PaneFails

-----------------------------------------------------------------------------
(***************************************************************************)
(* The draft dialog.                                                       *)
(***************************************************************************)

NoFormula == ""
NewDraft == [prl |-> NoFormula, admitted |-> FALSE, stale |-> FALSE, notes |-> 0]
Untouched(d) == [open |-> TRUE, text |-> d.prl, typed |-> NoFormula, reviewer |-> FALSE,
                 confirmed |-> FALSE, tickedFor |-> NoFormula, result |-> NoFormula]

\* The operator may count on what is typed while the page, the drafts and the
\* answers on their way have one candidate, and no request of the page that
\* puts another in its place is still to be served.
Replacing == {"save", "translate", "discard"}
Settled ==
    /\ draft.prl = detail.prl
    /\ \A a \in asked : /\ a.pc = "sent" => a.op \notin Replacing
                        /\ a.pc = "done" => a.answer.prl = detail.prl

Dirty == form.text # detail.prl
AdmitShown(d) == d.prl # NoFormula /\ ~d.admitted

\* A fault: the editor is seeded again by whatever arrives.
ReseededOnDetail(d) == [form EXCEPT !.text = d.prl]

\* New data under an open dialog: another candidate replaces what was typed,
\* and the admit control starts afresh when it goes away.
Reseeded(d) ==
    [form EXCEPT !.text = IF d.prl # detail.prl THEN d.prl ELSE @,
                 !.reviewer = @ /\ AdmitShown(detail) /\ AdmitShown(d),
                 !.confirmed = @ /\ AdmitShown(detail) /\ AdmitShown(d)]

Shown(d) == detail' = d /\ form' = IF form.open THEN Reseeded(d) ELSE form

OperatorTypes ==
    /\ form.open
    /\ \/ \E p \in Formula :
            form' = [form EXCEPT !.text = p, !.typed = IF Settled THEN p ELSE NoFormula]
       \/ AdmitShown(detail) /\ form' = [form EXCEPT !.reviewer = TRUE]
       \/ /\ AdmitShown(detail) /\ detail.prl \in Flagged
          /\ form' = [form EXCEPT !.confirmed = ~@, !.tickedFor = detail.prl]
    /\ UNCHANGED <<draft, detail, asked, requests>>

\* The buttons that can be pressed.
CanSend(op) ==
    CASE op = "save"      -> form.text # NoFormula /\ Dirty
      [] op = "check"     -> detail.prl # NoFormula /\ ~Dirty
      [] op = "translate" -> ~Dirty
      [] op = "ground"    -> detail.prl # NoFormula
      [] op = "discard"   -> detail.prl # NoFormula
      [] op = "admit"     -> /\ AdmitShown(detail) /\ form.reviewer
                             /\ detail.prl \in Flagged => form.confirmed
      [] op = "writeback" -> detail.admitted /\ ~detail.stale
      [] OTHER            -> TRUE
DialogOps == {"save", "check", "translate", "ground", "discard", "admit", "writeback", "verify"}

Send(op) ==
    /\ form.open /\ CanSend(op) /\ \A a \in asked : a.op # op
    /\ requests < MaxSends
    /\ requests' = requests + 1
    /\ asked' = asked \cup {[op |-> op, pc |-> "sent", answer |-> NewDraft,
                             prl |-> IF op = "save" THEN form.text ELSE NoFormula,
                             confirmed |-> op = "admit" /\ form.confirmed]}
    /\ form' = IF op \in Replacing THEN [form EXCEPT !.typed = NoFormula] ELSE form
    /\ UNCHANGED <<draft, detail>>

\* What the request does to the draft; {} when the server refuses it.
Outcomes(a) ==
    LET candidate(p) == IF p = draft.prl THEN draft
                        ELSE [NewDraft EXCEPT !.prl = p, !.notes = 1 - draft.notes]
        drafted == draft.prl # NoFormula
    IN  CASE a.op = "save"      -> {candidate(a.prl)}
          [] a.op = "translate" -> {candidate(p) : p \in Formula}
          [] a.op = "discard"   -> {NewDraft}
          [] a.op = "admit" /\ drafted /\ (draft.prl \in Flagged => a.confirmed) ->
                {[draft EXCEPT !.admitted = TRUE, !.stale = FALSE]}
          [] a.op = "writeback" /\ drafted /\ draft.admitted /\ ~draft.stale -> {draft}
          [] a.op \in {"check", "ground"} /\ drafted -> {[draft EXCEPT !.notes = 1 - @]}
          [] a.op = "verify" /\ drafted -> {draft}
          [] OTHER              -> {}

\* Done or refused; the answer is the detail as of then.
Serve(a) ==
    /\ a.pc = "sent"
    /\ \/ \E d \in Outcomes(a) :
            /\ draft' = d
            /\ asked' = (asked \ {a}) \cup {[a EXCEPT !.pc = "done", !.answer = d]}
       \/ draft' = draft /\ asked' = (asked \ {a}) \cup {[a EXCEPT !.pc = "refused"]}
    /\ UNCHANGED <<detail, form, requests>>

Deliver(a) ==
    /\ a.pc # "sent"
    /\ asked' = asked \ {a}
    /\ CASE a.pc = "refused"  -> UNCHANGED <<detail, form>>
         [] a.pc = "done" /\ a.op = "verify" ->
                                 /\ form' = IF form.open
                                            THEN [form EXCEPT !.result = a.answer.prl]
                                            ELSE form
                                 /\ UNCHANGED detail
         [] OTHER             -> Shown(a.answer)
    /\ UNCHANGED <<draft, requests>>

\* The console or another browser; the prose; the query is fetched again.
ElsewhereDraft ==
    /\ \/ \E p \in Formula :
            /\ draft' = [NewDraft EXCEPT !.prl = p]
            /\ form' = IF p # draft.prl THEN [form EXCEPT !.typed = NoFormula] ELSE form
       \/ draft.admitted /\ draft' = [draft EXCEPT !.stale = TRUE] /\ UNCHANGED form
    /\ UNCHANGED <<detail, asked, requests>>

Refetched ==
    /\ Shown(draft)
    /\ UNCHANGED <<draft, asked, requests>>

\* A refetch that fails, of the detail or of the backlog behind it, puts its
\* error where the dialog was; so does closing it.  All it held is lost.
Unmounted ==
    /\ form.open
    /\ form' = [form EXCEPT !.open = FALSE, !.typed = NoFormula]
    /\ UNCHANGED <<draft, detail, asked, requests>>

Mounted ==
    /\ ~form.open
    /\ form' = Untouched(detail)
    /\ UNCHANGED <<draft, detail, asked, requests>>

Proving ==
    \/ OperatorTypes
    \/ \E op \in DialogOps : Send(op)
    \/ \E a \in asked : Serve(a) \/ Deliver(a)
    \/ ElsewhereDraft \/ Refetched \/ Unmounted \/ Mounted

-----------------------------------------------------------------------------
SomeText == CHOOSE t \in Text : TRUE

ScreensInit ==
    /\ screen \in Screen
    /\ disk = [title |-> SomeText, body |-> SomeText, at |-> 0] /\ onPage = disk
    /\ editor = Closed /\ save = NoSave
    /\ pane = [dialog |-> "none", text |-> "", typed |-> "", blocked |-> FALSE] /\ review = "none"
    /\ draft = NewDraft /\ detail = draft
    /\ form = Untouched(draft) /\ asked = {} /\ requests = 0

ScreensNext ==
    \/ screen = "editor" /\ Editing /\ UNCHANGED <<screen, paneVars, dialogVars>>
    \/ screen = "review" /\ Reviewing /\ UNCHANGED <<screen, artifactVars, dialogVars>>
    \/ screen = "draft" /\ Proving /\ UNCHANGED <<screen, artifactVars, paneVars>>

ScreensSpec == ScreensInit /\ [][ScreensNext]_screenVars

-----------------------------------------------------------------------------
(***************************************************************************)
(* Properties.                                                             *)
(***************************************************************************)

Overwrites == save.pc # "none" /\ save.edits /\ save.over # save.by.since

\* A save of unsaved edits that overwrites a version the page had received
\* while they were made was sent by an operator who had been asked, once at
\* least, what to do with a version of somebody else (ArtifactEditor.tsx).
SavesAreInformed == Overwrites => save.by.offered # {}

\* UX-externalEditConflict: the prompt comes up for an external edit, not for
\* the first one of a session only.
EveryExternalEditAsks == Overwrites => save.over \in save.by.offered

\* What an operator has typed stays in the open dialog: an explanation until a
\* review is done, its TODO is gone or the page fails; an edit of a candidate
\* until the dialog goes, or a request of the page or somebody else replaces
\* the candidate.  Checks, groundings, admissions, refusals and refetches may
\* come in between, answered in any order (CandidateEditor, ReviewPane).
TypedTextStays ==
    /\ pane.typed # "" => pane.text = pane.typed
    /\ form.typed # NoFormula => form.open /\ form.text = form.typed

\* The confirmation of a flagged candidate was ticked for that candidate.
TickIsOfThisText ==
    \A a \in asked : a.op = "admit" /\ a.pc = "sent" /\ detail.prl \in Flagged =>
        form.tickedFor = detail.prl
=============================================================================
