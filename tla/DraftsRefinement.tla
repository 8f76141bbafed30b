-------------------------- MODULE DraftsRefinement --------------------------
(***************************************************************************)
(* As long as requests come one at a time, whatever crashes, edits and     *)
(* upgrades surround them, drafts.yml is the ledger of DraftLedger.        *)
(***************************************************************************)
EXTENDS Drafts

\* The old contents count until the write that replaces them is complete: a
\* truncated file is damaged only once nobody is left to write it.
Intact == readable \/ \E w \in Workers : job[w].pc = "writing"

Ledger == INSTANCE DraftLedger WITH ledger <- drafts, intact <- Intact

\* One request at a time is one atomic operation on its own item: nothing is
\* lost, nothing discarded comes back, an admission ends only by an edit or a
\* discard, and an unreadable drafts.yml is never taken for an empty one
\* (load and save in src/draft.rs, every handler that calls them).
IsLedger == Ledger!Spec
=============================================================================
