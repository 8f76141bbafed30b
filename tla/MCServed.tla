------------------------------ MODULE MCServed ------------------------------
(***************************************************************************)
(* What a server keeps between requests: the published world with the LLM  *)
(* runtime (AppWorld), and the trackers inside that runtime (LlmChain).    *)
(* One is studied at a time, and a command's own runtime apart from the    *)
(* served one; the others rest, so that nothing their fairness asks for is *)
(* left undone.                                                            *)
(*                                                                         *)
(* The chain: a provider on the host behind one that is switched off, then *)
(* two providers outside; then, for a command only, nothing that is        *)
(* switched on, so that it falls back on the manifest.                     *)
(***************************************************************************)
EXTENDS AppWorld, LlmChain
LOCAL INSTANCE TLC

CONSTANTS here, there, elsewhere

VARIABLE studied

On(p) == [provider |-> p, enabled |-> TRUE]
Off(p) == [provider |-> p, enabled |-> FALSE]

MCServices == {here, there, elsewhere}
MCAdapters == (here :> "openai-compatible") @@ (there :> "claude") @@ (elsewhere :> "gemini")
MCManifest == <<On(there)>>
MCConfigs == <<<<Off(there), On(here)>>, <<On(elsewhere), On(there)>>, <<Off(there)>>>>

AppRests ==
    /\ disk = Nothing /\ world = disk /\ runtime = disk.system
    /\ task = [t \in Tasks |-> At("idle")]
    /\ noticed = [last |-> 0, now |-> 0]

ServedInit ==
    \/ studied = "world" /\ AppInit /\ ChainInit
    \/ studied \in {"chain", "command"} /\ AppRests /\ ChainInit

ServedNext ==
    \/ studied = "world" /\ AppNext /\ UNCHANGED <<studied, chainVars>>
    \/ /\ studied \in {"chain", "command"} /\ ChainNext /\ UNCHANGED <<studied, appVars>>
       /\ studied = "chain" => gen' <= 2 /\ UNCHANGED own
       /\ studied = "command" => UNCHANGED <<req, page, acked>>

ServedSpec ==
    /\ ServedInit /\ [][ServedNext]_<<studied, appVars, chainVars>>
    /\ AppFairness /\ ChainFairness

\* The runtime comes back, and every prompt comes to an end.
ServiceResumes == RuntimeComesBack /\ PromptsEnd
=============================================================================
