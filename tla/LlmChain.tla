------------------------------ MODULE LlmChain ------------------------------
(***************************************************************************)
(* The LLM runtime at work (crates/provreq-model/src/llm): prompts walk    *)
(* the configured providers in order until one answers, a tracker keeps    *)
(* the health of every slot, and a slot outside the host is used only once *)
(* the operator acknowledged it.  Any number of prompts and retests are    *)
(* under way at a time, and an edit of the providers puts a new runtime in *)
(* place while the old one is still being used (AppWorld says when).       *)
(*                                                                         *)
(* provreq's own prompts, of a seed or a translation, served or from the   *)
(* command line, do not use that runtime: resolve_llm builds one for the   *)
(* command and acknowledges every slot of it in code (src/llm.rs).         *)
(*                                                                         *)
(* Time is what is left of each backoff; it passes for all slots at once.  *)
(* BASE_BACKOFF is the unit, 30 s in the code, and MAX_BACKOFF 60 of them. *)
(***************************************************************************)
EXTENDS Naturals, Sequences, LlmAdapters

CONSTANTS
    Services,   \* what the llm array of the system config can list
    AdapterOf,   \* the adapter each is spoken to with
    Local,       \* those whose endpoint is on this host
    Configs,     \* bound of the model: the llm arrays, in the order they are saved
    Manifest,    \* the one provider of provreq.yml, if it has an llm block
    Prompts,     \* bound of the model: prompts in flight at a time,
    Retests,     \* and retests
    Commands,    \* bound of the model: commands with a runtime of their own,
    MaxAsked,    \* and the prompts of each
    MaxBackoff   \* MAX_BACKOFF in units of BASE_BACKOFF

Slot == [provider : Services, enabled : BOOLEAN]

ASSUME LlmAssumption ==
    /\ AdapterOf \in [Services -> Adapters] /\ Local \subseteq Services
    /\ Configs \in Seq(Seq(Slot)) /\ Configs # <<>> /\ Manifest \in Seq(Slot)
    /\ MaxBackoff \in Nat \ {0}
    /\ Prompts \cap Retests = {} /\ MaxAsked \in Nat \ {0}

Runtimes == DOMAIN Configs
Requests == Prompts \cup Retests

\* Internal: the tracker of a slot.
Healthy == [is |-> "healthy", left |-> 0, current |-> 0]
Hard == [is |-> "hard", left |-> 0, current |-> 0]
Degraded(current) == [is |-> "degraded", left |-> current, current |-> current]

VARIABLES
    gen,       \* the runtime in place
    health,    \* HealthTracker of each runtime
    acked,     \* PrivacyTracker of each runtime: slot indices
    req,       \* the local variables of each request
    own,       \* each command: its runtime, the slot it is at, the prompts to come
    page,      \* the runtime the operator's provider page was loaded from
    shown,     \* ghost: what was on display when a slot was acknowledged
    usable     \* ghost: slots a prompt could have used ever since it began

chainVars == <<gen, health, acked, req, own, page, shown, usable>>

Indices(g) == DOMAIN Configs[g]
ProviderOf(g, i) == Configs[g][i].provider

NoRequest == [pc |-> "idle", gen |-> 1, at |-> 1]

Request == [pc : {"idle", "walking", "sent"}, gen : Runtimes, at : Nat \ {0}]

NoCommand == [pc |-> "idle", list |-> <<>>, at |-> 1, left |-> 0, health |-> <<>>, acked |-> {}]

Built(config) == [i \in DOMAIN config |-> Healthy]

ChainInit ==
    /\ gen = 1 /\ page = 1
    /\ health = [g \in Runtimes |-> IF g = 1 THEN Built(Configs[1]) ELSE <<>>]
    /\ acked = [g \in Runtimes |-> {}]
    /\ req = [r \in Requests |-> NoRequest]
    /\ own = [c \in Commands |-> NoCommand]
    /\ shown = {}
    /\ usable = [r \in Prompts |-> {}]

-----------------------------------------------------------------------------
(***************************************************************************)
(* HealthTracker.                                                          *)
(***************************************************************************)

ShouldSkip(h) == h.is = "hard" \/ (h.is = "degraded" /\ h.left > 0)

\* Faulty: an answer is an answer.
AfterAnySuccess(h) == Healthy

AfterSuccess(h) == IF h = Hard THEN Hard ELSE Healthy

\* Faulty: the backoff doubles without an end.
DoubledForGood(current) == 2 * current

Doubled(current) ==
    IF 2 * current > MaxBackoff THEN MaxBackoff ELSE 2 * current

AfterFailure(h, kind) ==
    IF h = Hard \/ kind = "permanent" THEN Hard
    ELSE IF h.is = "degraded" THEN Degraded(Doubled(h.current)) ELSE Degraded(1)

\* Faulty: an acknowledgement is for the list as a whole.
RequiresAckOnce(g, i) == ProviderOf(g, i) \notin Local /\ acked[g] = {}

RequiresAck(g, i) == ProviderOf(g, i) \notin Local /\ i \notin acked[g]

\* A slot run_prompt tries.
Usable(g, i) ==
    /\ Configs[g][i].enabled
    /\ ~ShouldSkip(health[g][i])
    /\ ~RequiresAck(g, i)

Eligible(g) == {i \in Indices(g) : Usable(g, i)}

\* What every prompt under way could still have used.
UsableNow(r, i) == Usable(req[r].gen, i)
Watch ==
    usable' = [r \in Prompts |->
        IF req'[r].pc = "idle" THEN {} ELSE {i \in usable[r] : UsableNow(r, i)'}]

\* The runtimes somebody still holds; the trackers of the others are gone.
InUse(g) == g = gen \/ \E r \in Requests : req[r].pc # "idle" /\ req[r].gen = g

Keep(h, k, s) ==
    /\ health' = [g \in Runtimes |-> IF InUse(g)' THEN h[g] ELSE <<>>]
    /\ acked' = [g \in Runtimes |-> IF InUse(g)' THEN k[g] ELSE {}]
    /\ shown' = {a \in s : InUse(a.gen)'}

Moves(r, pc, at) == req' = [req EXCEPT ![r].pc = pc, ![r].at = at]
Ends(r) == req' = [req EXCEPT ![r] = NoRequest]

-----------------------------------------------------------------------------
(***************************************************************************)
(* Prompts and retests.                                                    *)
(***************************************************************************)

\* A handler takes the runtime that is in place and keeps it.
Begin(r) ==
    /\ req[r].pc = "idle" /\ Configs[gen] # <<>>
    /\ req' = [req EXCEPT ![r] = [pc |-> "walking", gen |-> gen, at |-> 1]]
    /\ usable' = [usable EXCEPT ![r] = Eligible(gen)]
    /\ UNCHANGED <<gen, health, acked, own, page, shown>>

AtSlot(r) == req[r].pc = "walking" /\ req[r].at \in Indices(req[r].gen)

Pass(r) ==
    /\ AtSlot(r) /\ ~Usable(req[r].gen, req[r].at)
    /\ Moves(r, "walking", req[r].at + 1)
    /\ UNCHANGED <<gen, health, acked, own, page, shown, usable>>

Send(r) ==
    /\ AtSlot(r) /\ Usable(req[r].gen, req[r].at)
    /\ Moves(r, "sent", req[r].at)
    /\ UNCHANGED <<gen, health, acked, own, page, shown, usable>>

\* ChainError::AllFailed.
GiveUp(r) ==
    /\ req[r].pc = "walking" /\ req[r].at \notin Indices(req[r].gen)
    /\ Ends(r)
    /\ usable' = [usable EXCEPT ![r] = {}]
    /\ UNCHANGED <<gen, own, page>>
    /\ Keep(health, acked, shown)

Succeed(r) ==
    /\ req[r].pc = "sent"
    /\ Ends(r)
    /\ UNCHANGED <<gen, own, page>>
    /\ Keep([health EXCEPT ![req[r].gen][req[r].at] = AfterSuccess(@)], acked, shown)
    /\ Watch

\* Faulty: a permanent failure is taken for the end of the chain.
FallsBackOnTransient(r, kind) ==
    IF r \in Retests THEN Ends(r)
    ELSE Moves(r, "walking", IF kind = "permanent"
                            THEN Len(Configs[req[r].gen]) + 1 ELSE req[r].at + 1)

\* Faulty: a transient failure is tried again at once.
FallsBackOrRetries(r, kind) ==
    IF r \in Retests THEN Ends(r)
    ELSE Moves(r, IF kind = "permanent" THEN "walking" ELSE "sent",
              IF kind = "permanent" THEN req[r].at + 1 ELSE req[r].at)

\* A retest reports, a prompt goes on to the next slot.
FallsBack(r, kind) ==
    IF r \in Retests THEN Ends(r) ELSE Moves(r, "walking", req[r].at + 1)

\* How the adapter's failures are classified.
KindsOf(r) ==
    {KindOf(e) : e \in Failures(AdapterOf[ProviderOf(req[r].gen, req[r].at)])}

Fail(r) ==
    /\ req[r].pc = "sent"
    /\ \E kind \in KindsOf(r) :
        /\ FallsBack(r, kind)
        /\ UNCHANGED <<gen, own, page>>
        /\ Keep([health EXCEPT ![req[r].gen][req[r].at] = AfterFailure(@, kind)],
                acked, shown)
    /\ Watch

\* The operator's retest: whatever the slot's state, and whether or not it was
\* acknowledged, it is sent a ping.
Retest(r) ==
    /\ req[r].pc = "idle"
    /\ \E i \in Indices(gen) :
        /\ health' = [health EXCEPT ![gen][i] = Healthy]
        /\ req' = [req EXCEPT ![r] = [pc |-> "sent", gen |-> gen, at |-> i]]
    /\ UNCHANGED <<gen, acked, own, page, shown, usable>>

\* The client hangs up and the request's future is dropped.
HangUp(r) ==
    /\ req[r].pc # "idle"
    /\ Ends(r)
    /\ usable' = [usable EXCEPT ![r] = {}]
    /\ UNCHANGED <<gen, own, page>>
    /\ Keep(health, acked, shown)

-----------------------------------------------------------------------------
(***************************************************************************)
(* The commands.                                                           *)
(***************************************************************************)

\* resolve_llm_at: those of the system config that are enabled, else the
\* manifest's.
ListOf(g) ==
    LET enabled == SelectSeq(Configs[g], LAMBDA slot : slot.enabled)
    IN  IF enabled # <<>> THEN enabled ELSE Manifest

\* RuntimeBackend::from_providers and from_config: the operator configured the
\* endpoints, so each slot is acknowledged, with no page shown.
Resolve(c) ==
    /\ own[c].pc = "idle" /\ ListOf(gen) # <<>>
    /\ \E n \in 1 .. MaxAsked :
        own' = [own EXCEPT ![c] = [pc |-> "walking", list |-> ListOf(gen), at |-> 1, left |-> n,
                                   health |-> Built(ListOf(gen)),
                                   acked |-> DOMAIN ListOf(gen)]]
    /\ UNCHANGED <<gen, health, acked, req, page, shown, usable>>

OwnAt(c) == own[c].list[own[c].at].provider
OwnUsable(c) ==
    /\ ~ShouldSkip(own[c].health[own[c].at])
    /\ OwnAt(c) \in Local \/ own[c].at \in own[c].acked

\* Internal: on to a slot, with prompts to come and h of the slot it leaves.
GoesOn(c, at, left, h) ==
    LET health1 == [own[c].health EXCEPT ![own[c].at] = h]
    IN  own' = [own EXCEPT ![c] = [own[c] EXCEPT !.pc = "walking", !.at = at, !.left = left,
                                                 !.health = health1]]

\* Its prompts come one after another; one that fails ends it.
Command(c) ==
    LET at == own[c].at
        h == own[c].health[at]
    IN  /\ \/ /\ own[c].pc = "walking" /\ at \in DOMAIN own[c].list
              /\ own' = [own EXCEPT ![c] = IF OwnUsable(c) THEN [@ EXCEPT !.pc = "sent"]
                                            ELSE [@ EXCEPT !.at = at + 1]]
           \/ /\ \/ own[c].pc = "walking" /\ at \notin DOMAIN own[c].list
                 \/ own[c].pc = "sent" /\ own[c].left = 1
              /\ own' = [own EXCEPT ![c] = NoCommand]
           \/ /\ own[c].pc = "sent" /\ own[c].left > 1
              /\ GoesOn(c, 1, own[c].left - 1, AfterSuccess(h))
           \/ /\ own[c].pc = "sent"
              /\ \E e \in Failures(AdapterOf[OwnAt(c)]) :
                    GoesOn(c, at + 1, own[c].left, AfterFailure(h, KindOf(e)))
        /\ UNCHANGED <<gen, health, acked, req, page, shown, usable>>

\* The client hangs up, or the command is stopped.
Stops(c) ==
    /\ own[c].pc # "idle"
    /\ own' = [own EXCEPT ![c] = NoCommand]
    /\ UNCHANGED <<gen, health, acked, req, page, shown, usable>>

-----------------------------------------------------------------------------
(***************************************************************************)
(* The operator, the configuration and time.                               *)
(***************************************************************************)

\* list_llm_providers.
List ==
    /\ page # gen /\ page' = gen
    /\ UNCHANGED <<gen, health, acked, req, own, shown, usable>>

\* The page names a slot by its index, the handler takes the index to the
\* runtime in place.
Acknowledge ==
    /\ \E i \in Indices(page) \cap Indices(gen) :
        /\ ProviderOf(page, i) \notin Local
        /\ acked' = [acked EXCEPT ![gen] = @ \cup {i}]
        /\ shown' = shown \cup {[gen |-> gen, at |-> i, page |-> page,
                                provider |-> ProviderOf(page, i)]}
    /\ UNCHANGED <<gen, health, req, own, page, usable>>

\* The providers were edited: a runtime with trackers of its own.
Rebuild ==
    /\ gen < Len(Configs)
    /\ gen' = gen + 1
    /\ UNCHANGED <<req, own, page, usable>>
    /\ Keep([health EXCEPT ![gen + 1] = Built(Configs[gen + 1])], acked, shown)

Waning(h) == IF h.left > 0 THEN [h EXCEPT !.left = @ - 1] ELSE h

WaningAll(h) == [i \in DOMAIN h |-> Waning(h[i])]

TimePasses ==
    /\ \/ \E g \in Runtimes : \E i \in DOMAIN health[g] : health[g][i].left > 0
       \/ \E c \in Commands : \E i \in DOMAIN own[c].health : own[c].health[i].left > 0
    /\ health' = [g \in Runtimes |-> WaningAll(health[g])]
    /\ own' = [c \in Commands |-> [own[c] EXCEPT !.health = WaningAll(@)]]
    /\ UNCHANGED <<gen, acked, req, page, shown, usable>>

Walk(r) == Pass(r) \/ Send(r) \/ GiveUp(r) \/ Succeed(r) \/ Fail(r)

ChainNext ==
    \/ \E r \in Prompts : Begin(r)
    \/ \E r \in Retests : Retest(r)
    \/ \E r \in Requests : Walk(r) \/ HangUp(r)
    \/ \E c \in Commands : Resolve(c) \/ Command(c) \/ Stops(c)
    \/ List \/ Acknowledge \/ Rebuild \/ TimePasses

\* Time passes, and an adapter answers, fails or times out.
ChainFairness == WF_chainVars(TimePasses) /\ \A r \in Requests : WF_chainVars(Walk(r))

ChainSpec == ChainInit /\ [][ChainNext]_chainVars /\ ChainFairness

-----------------------------------------------------------------------------
(***************************************************************************)
(* Properties.                                                             *)
(***************************************************************************)

\* A tracker is typed, and takes its slot out for MAX_BACKOFF at most.
Bounded(h) ==
    \/ h \in {Healthy, Hard}
    \/ h.is = "degraded" /\ h.current \in 1 .. MaxBackoff /\ h.left \in 0 .. h.current

ServedOK ==
    /\ gen \in Runtimes /\ page \in 1 .. gen
    /\ \A g \in Runtimes :
        /\ acked[g] \subseteq Indices(g)
        /\ DOMAIN health[g] = IF InUse(g) THEN Indices(g) ELSE {}
        /\ \A i \in DOMAIN health[g] : Bounded(health[g][i])
    /\ req \in [Requests -> Request]
    /\ \A r \in Requests : req[r].gen <= gen
    /\ shown \subseteq [gen : Runtimes, at : Nat, page : Runtimes,
                        provider : Services]

CommandsOK ==
    \A c \in Commands :
        /\ own[c].pc = "sent" => own[c].at \in DOMAIN own[c].list
        /\ DOMAIN own[c].health = DOMAIN own[c].list
        /\ \A i \in DOMAIN own[c].health : Bounded(own[c].health[i])

\* Types; and no slot of any runtime is out for longer than MAX_BACKOFF,
\* whatever failures overlap (record_failure in llm/health.rs).
LlmOK == ServedOK /\ CommandsOK

\* A prompt of the served runtime - of a command's the code itself has said yes
\* - leaves the host only for a slot that was acknowledged in the very runtime
\* it uses, and as the provider the operator was shown, unless the page
\* they acknowledged it on was loaded before the providers were edited
\* (run_prompt in llm/runtime.rs, acknowledge_llm_privacy).
SentIsAcknowledged ==
    \A r \in Prompts :
        LET g == req[r].gen
            p == ProviderOf(g, req[r].at)
        IN  req[r].pc = "sent" /\ p \notin Local
            => \E a \in shown :
                /\ a.gen = g /\ a.at = req[r].at
                /\ a.provider = p \/ a.page < g

\* A slot that failed for good stays out until the operator retests it:
\* no answer that was still under way brings it back
\* (record_success in llm/health.rs).
HardIsForGood ==
    [][\A g \in Runtimes : \A i \in DOMAIN health[g] :
        /\ health[g][i] = Hard
        /\ InUse(g)' /\ health'[g][i] # Hard
        => \E r \in Retests :
            req[r].pc = "idle" /\ req'[r] = [pc |-> "sent", gen |-> g, at |-> i]]_chainVars

\* A prompt fails only if no slot was there for it all along: one that was
\* enabled, healthy and acknowledged from its beginning to its end is tried
\* (run_prompt in llm/runtime.rs).
FallbackIsTried ==
    [][\A r \in Prompts :
        GiveUp(r) => usable[r] = {}]_chainVars

\* A slot that failed for good stays out, one that did not is tried.
SlotsAreUsed == HardIsForGood /\ FallbackIsTried

\* Every prompt is answered or refused (run_prompt in llm/runtime.rs).
PromptsEnd == \A r \in Requests : req[r].pc # "idle" ~> req[r].pc = "idle"
=============================================================================
