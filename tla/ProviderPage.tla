---------------------------- MODULE ProviderPage ----------------------------
(***************************************************************************)
(* The LLM settings page (web/src/routes/llm/LlmProvidersPage.tsx) and the *)
(* handlers it calls (add, replace, patch and delete_llm_provider with     *)
(* build_provider_entry in src/http/handlers.rs).  The page shows a row    *)
(* per slot, and slots are named by their index in the llm array; a row    *)
(* keeps its own state under that index while the list is loaded again.    *)
(*                                                                         *)
(* A key is on file and is never sent back to the page.  A request is      *)
(* served in one step: AppWorld has the races of two that write.           *)
(***************************************************************************)
EXTENDS Naturals, LlmAdapters, Sequences, SequencesExt

CONSTANTS
    Urls,         \* endpoints an operator types
    ApiKeys,      \* keys an operator enters
    Absent,       \* a field a request or a slot is without
    FirstFile,    \* bound of the model: the llm array at first,
    MaxSlots,     \* slots there are at most,
    MaxSaves,     \* requests that write
    MaxElsewhere  \* and those of them that come from another page

ASSUME PageAssumption ==
    /\ Absent \notin Urls \cup ApiKeys
    /\ MaxSlots \in Nat /\ MaxSaves \in Nat /\ MaxElsewhere \in Nat

VARIABLES
    file,    \* the llm array of the system config
    listed,  \* the array the page was loaded from
    rows,    \* the state of each row: confirmingDelete, and the slot being edited
    adding,  \* showAddForm
    saves    \* requests that wrote: how many there were, and from elsewhere

pageVars == <<file, listed, rows, adding, saves>>

\* What the endpoint of a slot on the claude program is displayed as.
Label == "claude-code-cli (local)"

\* The ghost id tells apart slots that move.  A form saves as the endpoint what
\* was displayed as such.
ProviderSlot ==
    [id : Nat, family : Families, endpoint : Urls \cup {Absent, Label} \cup Families,
     key : ApiKeys \cup {Absent}, cli : BOOLEAN, enabled : BOOLEAN]

\* The provider's own endpoint, of the adapter in use.
EndpointOf(slot) ==
    CASE slot.cli -> Label
      [] ~slot.cli /\ slot.endpoint = Absent -> slot.family
      [] OTHER -> slot.endpoint

Rows == 1 .. MaxSlots
Row == [confirming |-> FALSE, editing |-> Absent]

KeysOn(slots) == {slots[i].key : i \in DOMAIN slots} \ {Absent}

PageInit ==
    /\ file = FirstFile /\ listed = FirstFile
    /\ rows = [i \in Rows |-> Row]
    /\ adding = FALSE
    /\ saves = [all |-> 0, elsewhere |-> 0]

-----------------------------------------------------------------------------
(***************************************************************************)
(* The handlers.                                                           *)
(***************************************************************************)

\* parse_llm on one entry.
ParsesAs(slot) ==
    /\ slot.family = "openai-compatible" => slot.endpoint # Absent
    /\ slot.cli => slot.family = "anthropic"

\* Faulty: a key that is not sent is cleared.
SlotOfRequest(req, old) ==
    [id |-> old.id, family |-> req.family,
     endpoint |-> IF req.endpoint = Absent THEN old.endpoint ELSE req.endpoint,
     key |-> req.key,
     cli |-> req.cli,
     enabled |-> old.enabled]

\* build_provider_entry: what the request leaves out is kept, but for the
\* transport.
SlotOf(req, old) ==
    [id |-> old.id, family |-> req.family,
     endpoint |-> IF req.endpoint = Absent THEN old.endpoint ELSE req.endpoint,
     key |-> IF req.key = Absent THEN old.key ELSE req.key,
     cli |-> req.cli,
     enabled |-> old.enabled]

NewSlot == [id |-> MaxSlots + saves.all, family |-> "anthropic", endpoint |-> Absent, key |-> Absent,
            cli |-> FALSE, enabled |-> TRUE]

\* Faulty: the array is written as it comes.
Unchecked(slots) == TRUE

\* The new array is parsed before anything is written.
Checked(slots) == \A i \in DOMAIN slots : ParsesAs(slots[i])

\* The server started with the array there is at first.
ASSUME FirstFileParses ==
    FirstFile \in Seq(ProviderSlot) /\ Len(FirstFile) <= MaxSlots /\ Checked(FirstFile)

\* mutate_llm_array, with the array it is about to write.
Stores(slots, who) ==
    /\ saves.all < MaxSaves
    /\ who = "elsewhere" => saves.elsewhere < MaxElsewhere
    /\ Checked(slots)
    /\ file' = slots
    /\ saves' = [all |-> saves.all + 1,
                 elsewhere |-> saves.elsewhere + (IF who = "elsewhere" THEN 1 ELSE 0)]

\* What the form asks for: with the key on file, or with one that was entered.
\* The endpoint it was opened with is what was displayed, a default or the
\* program's label as well; blank is left out of the request.  The transport
\* goes along for the anthropic family.
ApiRequests == [family : Families, endpoint : Urls \cup {Absent},
              key : (ApiKeys \ KeysOn(file)) \cup {Absent}, cli : BOOLEAN]

FormRequests(shown) ==
    {req \in ApiRequests \cup [family : Families, endpoint : {shown}, key : {Absent}, cli : BOOLEAN] :
        /\ req.family = "openai-compatible" => req.endpoint # Absent
        /\ req.cli => req.family = "anthropic"}

Replaces(i, req, who) ==
    /\ i \in DOMAIN file
    /\ Stores([file EXCEPT ![i] = SlotOf(req, @)], who)

-----------------------------------------------------------------------------
(***************************************************************************)
(* The page.                                                               *)
(***************************************************************************)

\* The query is invalidated after each request of the page, and answered later.
\* A row that is gone takes its state along, one that another slot moved into
\* does not.
Reload ==
    /\ listed # file
    /\ listed' = file
    /\ rows' = [i \in Rows |-> IF i \in DOMAIN file THEN rows[i] ELSE Row]
    /\ UNCHANGED <<file, adding, saves>>

OpenEdit(i) ==
    /\ i \in DOMAIN listed /\ rows[i].editing = Absent
    /\ rows' = [rows EXCEPT ![i].editing = listed[i]]
    /\ UNCHANGED <<file, listed, adding, saves>>

CancelEdit(i) ==
    /\ rows[i].editing # Absent
    /\ rows' = [rows EXCEPT ![i].editing = Absent]
    /\ UNCHANGED <<file, listed, adding, saves>>

\* PUT: to the index of the row.
SubmitEdit(i) ==
    /\ rows[i].editing # Absent
    /\ \E req \in FormRequests(EndpointOf(rows[i].editing)) : Replaces(i, req, "page")
    /\ rows' = [rows EXCEPT ![i].editing = Absent]
    /\ UNCHANGED <<listed, adding>>

ShowAddForm ==
    /\ adding' = ~adding
    /\ UNCHANGED <<file, listed, rows, saves>>

\* POST: at the end of the array.
SubmitAdd ==
    /\ adding /\ Len(file) < MaxSlots
    /\ \E req \in FormRequests(Absent) : Stores(Append(file, SlotOf(req, NewSlot)), "page")
    /\ adding' = FALSE
    /\ UNCHANGED <<listed, rows>>

\* PATCH enabled: the opposite of what the row displays.
Toggle(i) ==
    /\ i \in DOMAIN listed /\ i \in DOMAIN file
    /\ rows[i].editing = Absent
    /\ Stores([file EXCEPT ![i].enabled = ~listed[i].enabled], "page")
    /\ UNCHANGED <<listed, rows, adding>>

AskDelete(i) ==
    /\ i \in DOMAIN listed /\ rows[i].editing = Absent
    /\ rows' = [rows EXCEPT ![i].confirming = ~@]
    /\ UNCHANGED <<file, listed, adding, saves>>

\* DELETE: the row goes on asking.
ConfirmDelete(i) ==
    /\ rows[i].confirming /\ rows[i].editing = Absent /\ i \in DOMAIN file
    /\ Stores(RemoveAt(file, i), "page")
    /\ UNCHANGED <<listed, rows, adding>>

\* patch_llm_provider, with a position.
Moved(i, j) == InsertAt(RemoveAt(file, i), j, file[i])

\* Another page, or a script: any request, with any index.

Elsewhere ==
    /\ \E i \in DOMAIN file :
        \/ \E req \in ApiRequests : Replaces(i, req, "elsewhere")
        \/ Stores(RemoveAt(file, i), "elsewhere")
        \/ \E j \in DOMAIN file \ {i} : Stores(Moved(i, j), "elsewhere")
        \/ /\ Len(file) < MaxSlots
           /\ \E req \in ApiRequests :
                Stores(InsertAt(file, i, SlotOf(req, NewSlot)), "elsewhere")
    /\ UNCHANGED <<listed, rows, adding>>

PageNext ==
    \/ Reload \/ ShowAddForm \/ SubmitAdd \/ Elsewhere
    \/ \E i \in Rows :
        \/ OpenEdit(i) \/ CancelEdit(i) \/ SubmitEdit(i)
        \/ Toggle(i) \/ AskDelete(i) \/ ConfirmDelete(i)

PageSpec == PageInit /\ [][PageNext]_pageVars

-----------------------------------------------------------------------------
(***************************************************************************)
(* Properties.                                                             *)
(***************************************************************************)

\* Whatever is sent to whatever index, the array still parses: the runtime
\* can be built from it again (mutate_inner in src/http/handlers.rs).
FileParses ==
    /\ file \in Seq(ProviderSlot) /\ Len(file) <= MaxSlots
    /\ \A i \in DOMAIN file : ParsesAs(file[i])

\* An edit loses no key: with no slot deleted, as many have a key as before,
\* and a key that is gone made room for one that was entered
\* (build_provider_entry in src/http/handlers.rs).
Keyed(slots) == {i \in DOMAIN slots : slots[i].key # Absent}
KeysAreKept ==
    [][Len(file') >= Len(file)
        => \A k \in KeysOn(file) \ KeysOn(file') :
            \E i \in DOMAIN file : file[i].key = k /\ file'[i].key \in ApiKeys \ KeysOn(file)]_pageVars

\* Saving an edit overwrites the slot the form was opened for: a key that is
\* kept stays with the service it was entered for
\* (ProviderForm in LlmProvidersPage.tsx, replace_llm_provider).
EditSavesItsSlot ==
    [][\A i \in Rows :
        /\ rows[i].editing # Absent /\ rows'[i].editing = Absent
        /\ file' # file
        => file[i].id = rows[i].editing.id]_pageVars
=============================================================================
