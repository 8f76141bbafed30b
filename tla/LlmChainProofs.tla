--------------------------- MODULE LlmChainProofs ---------------------------
(***************************************************************************)
(* Proofs about LlmChain, for any sequence of configurations and any       *)
(* number of prompts and retests under way.                                *)
(***************************************************************************)
EXTENDS LlmChain, TLAPS

Trackers ==
    {h \in [is : {"healthy", "hard", "degraded"}, left : Nat, current : Nat] :
        \/ h \in {Healthy, Hard}
        \/ /\ h.is = "degraded"
           /\ h.current \in 1 .. MaxBackoff /\ h.left \in 0 .. h.current}

\* The slots that are tracked: a runtime nobody holds has none.
Tracked(g) == IF InUse(g) THEN Indices(g) ELSE {}

\* The tables of trackers and of acknowledgements.
TablesOK ==
    /\ health = [g \in Runtimes |-> health[g]]
    /\ \A g \in Runtimes : health[g] \in [Tracked(g) -> Trackers]
    /\ acked \in [Runtimes -> SUBSET Nat]
    /\ usable \in [Prompts -> SUBSET Nat]

\* Who waits for an answer waits for that of a slot.
AtItsSlot(r) == req[r].pc = "sent" => req[r].at \in Indices(req[r].gen)

\* An acknowledgement that counts was given on a page of that slot, or on one
\* of an earlier list.
AckedWasShown(g) ==
    \A i \in acked[g] :
        \E a \in shown :
            /\ a.gen = g /\ a.at = i
            /\ a.provider = ProviderOf(g, i) \/ a.page < g

\* A prompt leaves the host with an acknowledgement that counts to its end.
SentUnderAck(r) ==
    req[r].pc = "sent" /\ ProviderOf(req[r].gen, req[r].at) \notin Local
    => req[r].at \in acked[req[r].gen]

\* What was there for a prompt all along is there, and still ahead of it.
StillAhead(r) ==
    req[r].pc # "idle"
    => \A i \in usable[r] :
        i \in Indices(req[r].gen) /\ i >= req[r].at /\ Usable(req[r].gen, i)

Inv ==
    /\ ServedOK /\ TablesOK
    /\ \A r \in Requests : AtItsSlot(r)
    /\ \A g \in Runtimes : AckedWasShown(g)
    /\ \A r \in Prompts : SentUnderAck(r) /\ StillAhead(r)

-----------------------------------------------------------------------------
\* The trackers.

\* A success ends a backoff and never brings back a slot that failed for good;
\* it takes no slot out (record_success in llm/health.rs).
LEMMA SuccessTracked ==
    ASSUME NEW h \in Trackers
    PROVE  /\ AfterSuccess(h) \in Trackers
           /\ h = Hard => AfterSuccess(h) = Hard
           /\ ~ShouldSkip(h) => ~ShouldSkip(AfterSuccess(h))
  BY DEF Trackers, AfterSuccess, Healthy, Hard, ShouldSkip

\* A failure takes the slot out, for no longer than MAX_BACKOFF or for good
\* (record_failure in llm/health.rs).
LEMMA FailureTracked ==
    ASSUME NEW h \in Trackers, NEW kind
    PROVE  /\ AfterFailure(h, kind) \in Trackers
           /\ h = Hard => AfterFailure(h, kind) = Hard
           /\ ShouldSkip(AfterFailure(h, kind))
<1>1. MaxBackoff \in Nat \ {0} BY LlmAssumption
<1>2. CASE h = Hard \/ kind = "permanent"
  BY <1>2 DEF Trackers, AfterFailure, Hard, ShouldSkip
<1>3. CASE ~(h = Hard \/ kind = "permanent")
  BY <1>1, <1>3 DEF Trackers, AfterFailure, Healthy, Hard, Degraded, Doubled, ShouldSkip
<1>. QED BY <1>2, <1>3

\* Time shortens a backoff and does nothing else.
LEMMA WaningTracked ==
    ASSUME NEW h \in Trackers
    PROVE  /\ Waning(h) \in Trackers
           /\ h = Hard => Waning(h) = Hard
           /\ ~ShouldSkip(h) => ~ShouldSkip(Waning(h))
  BY DEF Trackers, Waning, Healthy, Hard, ShouldSkip

\* A slot starts healthy and can be used.
LEMMA HealthyTracked == Healthy \in Trackers /\ ~ShouldSkip(Healthy)
  BY DEF Trackers, Healthy, ShouldSkip

\* What the configurations hold.
LEMMA ConfigsTyped ==
    /\ Runtimes = 1 .. Len(Configs) /\ Len(Configs) \in Nat \ {0}
    /\ \A g \in Runtimes : Indices(g) = 1 .. Len(Configs[g]) /\ Len(Configs[g]) \in Nat
    /\ \A g \in Runtimes : \A i \in Indices(g) : ProviderOf(g, i) \in Services
<1>1. Configs \in Seq(Seq(Slot)) /\ Configs # <<>> BY LlmAssumption
<1>2. Runtimes = 1 .. Len(Configs) /\ Len(Configs) \in Nat \ {0}
  BY <1>1 DEF Runtimes
<1>3. \A g \in Runtimes : Configs[g] \in Seq(Slot)
  BY <1>1 DEF Runtimes
<1>4. ASSUME NEW g \in Runtimes
      PROVE  /\ Indices(g) = 1 .. Len(Configs[g]) /\ Len(Configs[g]) \in Nat
             /\ \A i \in Indices(g) : ProviderOf(g, i) \in Services
  <2>1. Configs[g] \in Seq(Slot) BY <1>3
  <2>2. Indices(g) = 1 .. Len(Configs[g]) /\ Len(Configs[g]) \in Nat
    BY <2>1 DEF Indices
  <2>3. \A i \in Indices(g) : Configs[g][i] \in Slot
    BY <2>1 DEF Indices
  <2>. QED BY <2>2, <2>3 DEF ProviderOf, Slot
<1>. QED BY <1>2, <1>4

-----------------------------------------------------------------------------
\* The inductive invariant.

\* A runtime is built with a healthy tracker for every slot (LlmRuntime::new).
LEMMA Initially == ChainInit => Inv
<1> SUFFICES ASSUME ChainInit PROVE Inv
  OBVIOUS
<1>1. 1 \in Runtimes /\ gen = 1 /\ page = 1 /\ shown = {}
  BY ConfigsTyped DEF ChainInit
<1>2. /\ req = [r \in Requests |-> NoRequest]
      /\ acked = [g \in Runtimes |-> {}]
      /\ usable = [r \in Prompts |-> {}]
  BY DEF ChainInit
<1>3. \A g \in Runtimes : InUse(g) <=> g = 1
  BY <1>1, <1>2 DEF InUse, NoRequest
<1>4. \A g \in Runtimes : health[g] \in [Tracked(g) -> Trackers]
  <2> TAKE g \in Runtimes
  <2>1. CASE g = 1
    BY <2>1, <1>1, <1>3, HealthyTracked DEF ChainInit, Tracked, Built, Indices
  <2>2. CASE g # 1
    <3>1. health[g] = <<>> /\ Tracked(g) = {}
      BY <2>2, <1>3 DEF ChainInit, Tracked
    <3>. QED BY <3>1
  <2>. QED BY <2>1, <2>2
<1>5. TablesOK
  BY <1>2, <1>4 DEF TablesOK, ChainInit
<1>6. ServedOK
  <2>1. req \in [Requests -> Request]
    BY <1>1, <1>2 DEF NoRequest, Request
  <2>. QED BY <1>1, <1>2, <1>4, <2>1 DEF ServedOK, Tracked, Trackers, Bounded, NoRequest
<1>. QED
  BY <1>1, <1>2, <1>5, <1>6
  DEF Inv, AtItsSlot, AckedWasShown, SentUnderAck, StillAhead, NoRequest, Requests

\* What ServedOK says of the tables is what TablesOK says.
LEMMA TablesSuffice ==
    ASSUME TablesOK',
           gen' \in Runtimes, page' \in 1 .. gen',
           \A g \in Runtimes : acked'[g] \subseteq Indices(g),
           req' \in [Requests -> Request], \A r \in Requests : req'[r].gen <= gen',
           shown' \subseteq [gen : Runtimes, at : Nat, page : Runtimes, provider : Services]
    PROVE  ServedOK'
<1>1. ASSUME NEW g \in Runtimes
      PROVE  /\ DOMAIN health'[g] = Tracked(g)'
             /\ \A i \in DOMAIN health'[g] : health'[g][i] \in Trackers
  BY DEF TablesOK
<1>. QED BY <1>1 DEF ServedOK, Tracked, Trackers, Bounded, Runtimes, Indices

\* A step that moves one request along its own chain, and nothing else.
LEMMA MovesKeep ==
    ASSUME Inv, NEW r \in Requests, NEW pc \in {"walking", "sent"}, NEW at \in Nat \ {0},
           req[r].pc # "idle", Moves(r, pc, at),
           UNCHANGED <<gen, health, acked, page, shown, usable>>,
           pc = "sent" => at \in Indices(req[r].gen),
           r \in Prompts => \A i \in usable[r] : i >= at,
           r \in Prompts /\ pc = "sent" => Usable(req[r].gen, at)
    PROVE  Inv'
<1>1. req' = [req EXCEPT ![r].pc = pc, ![r].at = at]
  BY DEF Moves
<1>2. req \in [Requests -> Request] BY DEF Inv, ServedOK
<1>3. /\ req' \in [Requests -> Request]
      /\ \A q \in Requests : req'[q].gen = req[q].gen
      /\ \A q \in Requests : req'[q].pc = "idle" <=> req[q].pc = "idle"
      /\ \A q \in Requests \ {r} : req'[q] = req[q]
      /\ req'[r].pc = pc /\ req'[r].at = at
  BY <1>1, <1>2 DEF Request
<1>4. \A g \in Runtimes : InUse(g)' = InUse(g)
  BY <1>3 DEF InUse
<1>5. TablesOK'
  BY <1>4 DEF Inv, TablesOK, Tracked
<1>6. ServedOK'
  BY <1>3, <1>4 DEF Inv, ServedOK
<1>7. \A q \in Requests : AtItsSlot(q)'
  BY <1>3 DEF Inv, AtItsSlot
<1>8. \A g \in Runtimes : AckedWasShown(g)'
  BY DEF Inv, AckedWasShown
<1>9. \A q \in Prompts : SentUnderAck(q)'
  BY <1>3 DEF Inv, SentUnderAck, Usable, RequiresAck, Requests
<1>10. \A q \in Prompts : StillAhead(q)'
  BY <1>3 DEF Inv, StillAhead, Usable, RequiresAck, Requests
<1>. QED BY <1>5, <1>6, <1>7, <1>8, <1>9, <1>10 DEF Inv

\* Passing over a slot loses nothing that was there for the prompt.
LEMMA PassKeeps ==
    ASSUME Inv, NEW r \in Requests, Pass(r)
    PROVE  Inv'
<1>1. req[r].at \in Nat \ {0} BY DEF Inv, ServedOK, Request
<1>2. ASSUME r \in Prompts, NEW i \in usable[r] PROVE i >= req[r].at + 1
  <2>1. i >= req[r].at /\ i # req[r].at /\ i \in Nat
    BY <1>2 DEF Inv, StillAhead, TablesOK, Pass, AtSlot
  <2>. QED BY <1>1, <2>1
<1>. QED BY <1>1, <1>2, MovesKeep DEF Pass, AtSlot

\* A prompt is sent to a slot it may use.
LEMMA SendKeeps ==
    ASSUME Inv, NEW r \in Requests, Send(r)
    PROVE  Inv'
<1>1. req[r].at \in Nat \ {0} BY DEF Inv, ServedOK, Request
<1>2. ASSUME r \in Prompts, NEW i \in usable[r] PROVE i >= req[r].at
  BY <1>2 DEF Inv, StillAhead, Send, AtSlot
<1>. QED BY <1>1, <1>2, MovesKeep DEF Send, AtSlot

\* What Keep keeps: the tables of every runtime somebody still holds.
LEMMA KeepTables ==
    ASSUME Inv, NEW STATE h, NEW STATE k, NEW STATE s, Keep(h, k, s),
           k \in [Runtimes -> SUBSET Nat],
           usable' \in [Prompts -> SUBSET Nat],
           \A g \in Runtimes : InUse(g)' => h[g] \in [Indices(g) -> Trackers]
    PROVE  /\ TablesOK'
           /\ \A g \in Runtimes : InUse(g)' => health'[g] = h[g] /\ acked'[g] = k[g]
           /\ \A g \in Runtimes : acked'[g] \subseteq k[g] /\ (acked'[g] # {} => InUse(g)')
           /\ shown' = {a \in s : InUse(a.gen)'}
<1>1. /\ health' = [g \in Runtimes |-> IF InUse(g)' THEN h[g] ELSE <<>>]
      /\ acked' = [g \in Runtimes |-> IF InUse(g)' THEN k[g] ELSE {}]
      /\ shown' = {a \in s : InUse(a.gen)'}
  BY DEF Keep
<1>2. ASSUME NEW g \in Runtimes PROVE health'[g] \in [Tracked(g)' -> Trackers]
  <2>1. CASE InUse(g)' BY <1>1, <2>1 DEF Tracked, Indices
  <2>2. CASE ~InUse(g)'
    <3>1. health'[g] = <<>> /\ Tracked(g)' = {} BY <1>1, <2>2 DEF Tracked
    <3>. QED BY <3>1
  <2>. QED BY <2>1, <2>2
<1>. QED BY <1>1, <1>2 DEF TablesOK

\* A request that ends, or goes on to its next slot, leaves the others as they
\* are: its trackers may be gone, and the health h that is kept does not take
\* away what a prompt is still said to have.
LEMMA LeavesOthers ==
    ASSUME Inv, NEW r \in Requests, req[r].pc # "idle",
           \/ Ends(r)
           \/ Moves(r, "walking", req[r].at + 1),
           NEW STATE h, Keep(h, acked, shown), UNCHANGED <<gen, page>>,
           usable' \in [Prompts -> SUBSET Nat],
           \A g \in Runtimes : InUse(g) => h[g] \in [Indices(g) -> Trackers],
           \A q \in Prompts : req'[q].pc # "idle" =>
               \A i \in usable'[q] :
                   /\ i \in usable[q] /\ ~ShouldSkip(h[req[q].gen][i])
                   /\ i >= req'[q].at
    PROVE  Inv'
<1>2. req \in [Requests -> Request] /\ 1 \in Runtimes /\ gen \in Runtimes
  BY ConfigsTyped DEF Inv, ServedOK
<1>3. /\ req' \in [Requests -> Request]
      /\ req'[r] = NoRequest \/ (req'[r].pc = "walking" /\ req'[r].gen = req[r].gen)
      /\ \A q \in Requests \ {r} : req'[q] = req[q]
      /\ \A q \in Requests : req'[q].pc # "idle" => req'[q].gen = req[q].gen /\ req[q].pc # "idle"
      /\ \A q \in Requests : req'[q].pc = "sent" => req'[q] = req[q]
  <2>1. CASE req' = [req EXCEPT ![r] = NoRequest]
    BY <1>2, <2>1 DEF Request, NoRequest
  <2>2. CASE req' = [req EXCEPT ![r].pc = "walking", ![r].at = req[r].at + 1]
    BY <1>2, <2>2 DEF Request
  <2>. QED BY <2>1, <2>2 DEF Ends, Moves
<1>4. \A g : InUse(g)' => InUse(g)
  BY <1>3 DEF InUse
<1>5. acked \in [Runtimes -> SUBSET Nat] BY DEF Inv, TablesOK
<1>6. /\ TablesOK'
      /\ \A g \in Runtimes : InUse(g)' => health'[g] = h[g] /\ acked'[g] = acked[g]
      /\ \A g \in Runtimes : acked'[g] \subseteq acked[g] /\ (acked'[g] # {} => InUse(g)')
      /\ shown' = {a \in shown : InUse(a.gen)'}
  BY <1>4, <1>5, KeepTables
<1>7. ServedOK'
  <2>1. gen' = gen /\ page' = page OBVIOUS
  <2>2. \A q \in Requests : req'[q].gen <= gen'
    BY <1>2, <1>3, <2>1, ConfigsTyped DEF Inv, ServedOK, NoRequest
  <2>3. shown' \subseteq [gen : Runtimes, at : Nat, page : Runtimes, provider : Services]
    BY <1>6 DEF Inv, ServedOK
  <2>4. \A g \in Runtimes : acked'[g] \subseteq Indices(g)
    BY <1>6 DEF Inv, ServedOK
  <2>5. gen' \in Runtimes /\ page' \in 1 .. gen'
    BY <2>1 DEF Inv, ServedOK
  <2>. QED BY <1>3, <1>6, <2>2, <2>3, <2>4, <2>5, TablesSuffice
<1>8. \A q \in Requests : AtItsSlot(q)'
  BY <1>3 DEF Inv, AtItsSlot, NoRequest, Indices
<1>9. \A q \in Requests : req'[q].pc # "idle" =>
        \A g : g = req'[q].gen => InUse(g)' /\ g \in Runtimes
  BY <1>3 DEF InUse, Request
<1>10. ASSUME NEW g \in Runtimes PROVE AckedWasShown(g)'
  <2>1. ASSUME NEW i \in acked'[g]
        PROVE  \E a \in shown' : /\ a.gen = g /\ a.at = i
                                 /\ a.provider = ProviderOf(g, i) \/ a.page < g
    <3>1. i \in acked[g] /\ InUse(g)' BY <1>6, <2>1
    <3>2. PICK a \in shown : /\ a.gen = g /\ a.at = i
                             /\ a.provider = ProviderOf(g, i) \/ a.page < g
      BY <3>1 DEF Inv, AckedWasShown
    <3>3. a \in shown' BY <1>6, <3>1, <3>2
    <3>. QED BY <3>2, <3>3
  <2>. QED BY <2>1 DEF AckedWasShown, ProviderOf
<1>11. ASSUME NEW q \in Prompts, req'[q].pc # "idle"
       PROVE  /\ q \in Requests /\ req[q].pc # "idle" /\ req'[q].gen = req[q].gen
              /\ acked'[req[q].gen] = acked[req[q].gen]
              /\ health'[req[q].gen] = h[req[q].gen]
  BY <1>3, <1>6, <1>9, <1>11 DEF Requests
<1>12. ASSUME NEW q \in Prompts PROVE SentUnderAck(q)'
  BY <1>3, <1>11 DEF Inv, SentUnderAck, ProviderOf
<1>13. ASSUME NEW q \in Prompts PROVE StillAhead(q)'
  BY <1>11 DEF Inv, StillAhead, Usable, RequiresAck, ProviderOf, Indices
<1>. QED BY <1>6, <1>7, <1>8, <1>10, <1>12, <1>13 DEF Inv

\* What Watch leaves a prompt is what it had and has.
LEMMA WatchLeaves ==
    ASSUME Inv, Watch, NEW q \in Prompts
    PROVE  /\ usable' \in [Prompts -> SUBSET Nat]
           /\ req'[q].pc = "idle" => usable'[q] = {}
           /\ \A i \in usable'[q] :
                i \in usable[q] /\ ~ShouldSkip(health'[req'[q].gen][i])
  BY DEF Inv, TablesOK, Watch, UsableNow, Usable

\* A request that gives up or is dropped takes nothing from the others.
LEMMA GiveUpKeeps ==
    ASSUME Inv, NEW r \in Requests, GiveUp(r) \/ HangUp(r)
    PROVE  Inv'
<1>1. /\ req[r].pc # "idle" /\ Ends(r)
      /\ UNCHANGED <<gen, page>> /\ Keep(health, acked, shown)
      /\ usable' = [usable EXCEPT ![r] = {}]
  BY DEF GiveUp, HangUp
<1>2. usable' \in [Prompts -> SUBSET Nat]
  BY <1>1 DEF Inv, TablesOK
<1>3. \A g \in Runtimes : InUse(g) => health[g] \in [Indices(g) -> Trackers]
  BY DEF Inv, TablesOK, Tracked
<1>4. ASSUME NEW q \in Prompts, req'[q].pc # "idle", NEW i \in usable'[q]
      PROVE  /\ i \in usable[q] /\ ~ShouldSkip(health[req[q].gen][i])
             /\ i >= req'[q].at
  <2>1. req' = [req EXCEPT ![r] = NoRequest] /\ req \in [Requests -> Request]
    BY <1>1 DEF Ends, Inv, ServedOK
  <2>2. q # r /\ req'[q] = req[q] BY <1>4, <2>1 DEF NoRequest, Requests
  <2>3. i \in usable[q] BY <1>1, <1>4, <2>2 DEF Inv, TablesOK
  <2>. QED BY <1>4, <2>2, <2>3 DEF Inv, StillAhead, Usable
<1>. QED BY <1>1, <1>2, <1>3, <1>4, LeavesOthers

\* An answer of either kind writes one tracker of the runtime it was sent in.
LEMMA AnswerTracked ==
    ASSUME Inv, NEW r \in Requests, req[r].pc = "sent",
           NEW t \in Trackers, NEW STATE h,
           h = [health EXCEPT ![req[r].gen][req[r].at] = t]
    PROVE  /\ \A g \in Runtimes : InUse(g) => h[g] \in [Indices(g) -> Trackers]
           /\ h[req[r].gen][req[r].at] = t
           /\ \A g \in Runtimes : \A i : 
                <<g, i>> # <<req[r].gen, req[r].at>> => h[g][i] = health[g][i]
<1>1. req[r].gen \in Runtimes /\ req[r].at \in Indices(req[r].gen) /\ InUse(req[r].gen)
  BY DEF Inv, ServedOK, AtItsSlot, Request, InUse
<1>2. health = [g \in Runtimes |-> health[g]]
  BY DEF Inv, TablesOK
<1>3. \A g \in Runtimes : InUse(g) => health[g] \in [Indices(g) -> Trackers]
  BY DEF Inv, TablesOK, Tracked
<1>4. health[req[r].gen] \in [Indices(req[r].gen) -> Trackers]
  BY <1>1, <1>3
<1>5. h[req[r].gen] = [health[req[r].gen] EXCEPT ![req[r].at] = t]
  BY <1>1, <1>2
<1>6. \A g \in Runtimes \ {req[r].gen} : h[g] = health[g]
  BY <1>2
<1>7. h[req[r].gen] \in [Indices(req[r].gen) -> Trackers] /\ h[req[r].gen][req[r].at] = t
  BY <1>1, <1>4, <1>5
<1>8. \A i : i # req[r].at => h[req[r].gen][i] = health[req[r].gen][i]
  BY <1>4, <1>5
<1>. QED BY <1>3, <1>6, <1>7, <1>8

\* The slot a request waits for is tracked as long as it waits.
LEMMA SentHasTracker ==
    ASSUME Inv, NEW r \in Requests, req[r].pc = "sent"
    PROVE  health[req[r].gen][req[r].at] \in Trackers
<1>1. req[r].gen \in Runtimes /\ req[r].at \in Indices(req[r].gen) /\ InUse(req[r].gen)
  BY DEF Inv, ServedOK, AtItsSlot, Request, InUse
<1>. QED BY <1>1 DEF Inv, TablesOK, Tracked

\* The EXCEPT of the answers, with its @ spelled out.
LEMMA ExceptAt ==
    ASSUME Inv, NEW r \in Requests, req[r].pc = "sent"
    PROVE  /\ [health EXCEPT ![req[r].gen][req[r].at] = AfterSuccess(@)]
                = [health EXCEPT ![req[r].gen][req[r].at]
                    = AfterSuccess(health[req[r].gen][req[r].at])]
           /\ \A kind : [health EXCEPT ![req[r].gen][req[r].at] = AfterFailure(@, kind)]
                = [health EXCEPT ![req[r].gen][req[r].at]
                    = AfterFailure(health[req[r].gen][req[r].at], kind)]
  OBVIOUS

\* The success of one request leaves the others what they had.
LEMMA SucceedKeeps ==
    ASSUME Inv, NEW r \in Requests, Succeed(r)
    PROVE  Inv'
<1> DEFINE h == [health EXCEPT ![req[r].gen][req[r].at]
                    = AfterSuccess(health[req[r].gen][req[r].at])]
<1>1. /\ req[r].pc = "sent" /\ Ends(r) /\ UNCHANGED <<gen, page>>
      /\ Keep(h, acked, shown) /\ Watch
  BY ExceptAt DEF Succeed
<1>2. \A g \in Runtimes : InUse(g) => h[g] \in [Indices(g) -> Trackers]
  BY ZenonT(30), <1>1, SentHasTracker, SuccessTracked, AnswerTracked
<1>3. req' = [req EXCEPT ![r] = NoRequest] /\ req \in [Requests -> Request]
  BY <1>1 DEF Ends, Inv, ServedOK
<1>4. ASSUME NEW q \in Prompts, req'[q].pc # "idle", NEW i \in usable'[q]
      PROVE  /\ i \in usable[q] /\ ~ShouldSkip(h[req[q].gen][i])
             /\ i >= req'[q].at
  <2>1. q \in Requests /\ q # r /\ req'[q] = req[q]
    BY <1>3, <1>4 DEF NoRequest, Requests
  <2>2. /\ req[q].gen \in Runtimes
        /\ \A g : g = req[q].gen => InUse(g)'
    BY <1>3, <1>4, <2>1 DEF InUse, Request
  <2>3. health'[req[q].gen] = h[req[q].gen]
    BY <1>1, <2>2 DEF Keep
  <2>4. i \in usable[q] /\ ~ShouldSkip(health'[req[q].gen][i])
    BY <1>1, <1>4, <2>1, WatchLeaves
  <2>. QED BY <1>4, <2>1, <2>3, <2>4 DEF Inv, StillAhead
<1>5. usable' \in [Prompts -> SUBSET Nat]
  BY <1>1, WatchLeaves, Zenon DEF Watch, Inv, TablesOK
<1> HIDE DEF h
<1>. QED BY <1>1, <1>2, <1>4, <1>5, LeavesOthers

\* A failure takes its slot from every prompt that could have used it.
LEMMA FailKeeps ==
    ASSUME Inv, NEW r \in Requests, Fail(r)
    PROVE  Inv'
<1>1. PICK kind : /\ req[r].pc = "sent" /\ FallsBack(r, kind) /\ UNCHANGED <<gen, page>>
                  /\ Keep([health EXCEPT ![req[r].gen][req[r].at] = AfterFailure(@, kind)],
                          acked, shown)
                  /\ Watch
  BY Zenon DEF Fail
<1> DEFINE h == [health EXCEPT ![req[r].gen][req[r].at]
                    = AfterFailure(health[req[r].gen][req[r].at], kind)]
<1>2. Keep(h, acked, shown)
  BY <1>1, ExceptAt
<1>3. /\ \A g \in Runtimes : InUse(g) => h[g] \in [Indices(g) -> Trackers]
      /\ ShouldSkip(h[req[r].gen][req[r].at])
  <2> DEFINE t == AfterFailure(health[req[r].gen][req[r].at], kind)
  <2>1. t \in Trackers /\ ShouldSkip(t)
    BY <1>1, SentHasTracker, FailureTracked
  <2>2. h = [health EXCEPT ![req[r].gen][req[r].at] = t]
    OBVIOUS
  <2> HIDE DEF t, h
  <2>. QED BY <1>1, <2>1, <2>2, AnswerTracked
<1>4. /\ Ends(r) \/ Moves(r, "walking", req[r].at + 1)
      /\ req \in [Requests -> Request]
  BY <1>1 DEF FallsBack, Inv, ServedOK
<1>5. /\ \A q \in Requests \ {r} : req'[q] = req[q]
      /\ req'[r].pc # "idle" => req'[r].gen = req[r].gen /\ req'[r].at = req[r].at + 1
  BY <1>4 DEF Ends, Moves, Request, NoRequest
<1>6. ASSUME NEW q \in Prompts, req'[q].pc # "idle", NEW i \in usable'[q]
      PROVE  /\ i \in usable[q] /\ ~ShouldSkip(h[req[q].gen][i])
             /\ i >= req'[q].at
  <2>1. /\ q \in Requests /\ req'[q].gen = req[q].gen /\ req[q].gen \in Runtimes
        /\ \A g : g = req'[q].gen => InUse(g)'
    BY <1>4, <1>5, <1>6 DEF Requests, InUse, Request
  <2>2. health'[req[q].gen] = h[req[q].gen]
    BY <1>2, <2>1 DEF Keep
  <2>3. i \in usable[q] /\ ~ShouldSkip(h[req[q].gen][i]) /\ i \in Nat
    BY <1>1, <1>6, <2>1, <2>2, WatchLeaves DEF Inv, TablesOK
  <2>4. req[q].pc # "idle"
    BY <1>1, <1>5, <1>6, <2>1
  <2>5. i >= req[q].at
    BY <2>3, <2>4 DEF Inv, StillAhead
  <2>6. CASE q = r
    <3>1. i # req[r].at BY <1>3, <2>3, <2>6
    <3>2. req[r].at \in Nat BY <1>4 DEF Request
    <3>. QED BY <1>5, <1>6, <2>3, <2>5, <2>6, <3>1, <3>2
  <2>7. CASE q # r
    BY <1>5, <2>1, <2>3, <2>5, <2>7
  <2>. QED BY <2>3, <2>6, <2>7
<1>7. usable' \in [Prompts -> SUBSET Nat]
  BY <1>1, WatchLeaves, Zenon DEF Watch, Inv, TablesOK
<1> HIDE DEF h
<1>. QED BY <1>1, <1>2, <1>3, <1>4, <1>6, <1>7, LeavesOthers

\* A request that is begun holds the runtime in place, which is in use anyway.
LEMMA BeginKeeps ==
    ASSUME Inv, NEW r \in Prompts, Begin(r)
    PROVE  Inv'
<1>1. /\ r \in Requests /\ req \in [Requests -> Request] /\ gen \in Runtimes
      /\ req[r].pc = "idle"
      /\ req' = [req EXCEPT ![r] = [pc |-> "walking", gen |-> gen, at |-> 1]]
  BY DEF Begin, Inv, ServedOK, Requests
<1>2. /\ req' \in [Requests -> Request]
      /\ req'[r] = [pc |-> "walking", gen |-> gen, at |-> 1]
      /\ \A q \in Requests \ {r} : req'[q] = req[q]
  BY <1>1 DEF Request
<1>3. \A g \in Runtimes : InUse(g)' = InUse(g)
  BY <1>1, <1>2 DEF InUse, Begin
<1>4. Eligible(gen) \subseteq Indices(gen) /\ Indices(gen) \subseteq Nat
  BY <1>1, ConfigsTyped DEF Eligible
<1>5. TablesOK'
  BY <1>3, <1>4 DEF Inv, TablesOK, Tracked, Begin
<1>6. ServedOK'
  <2>1. \A q \in Requests : req'[q].gen <= gen'
    BY <1>1, <1>2, ConfigsTyped DEF Inv, ServedOK, Begin
  <2>. QED BY <1>2, <1>3, <2>1 DEF Inv, ServedOK, Begin
<1>7. \A q \in Requests : AtItsSlot(q)'
  BY <1>2 DEF Inv, AtItsSlot
<1>8. \A g \in Runtimes : AckedWasShown(g)'
  BY DEF Inv, AckedWasShown, Begin
<1>9. \A q \in Prompts : SentUnderAck(q)'
  BY <1>2 DEF Inv, SentUnderAck, Begin, Requests
<1>10. ASSUME NEW q \in Prompts PROVE StillAhead(q)'
  <2>1. CASE q = r
    <3>1. usable'[r] = Eligible(gen)
      BY DEF Begin, Inv, TablesOK
    <3>2. \A i \in Eligible(gen) : i \in Indices(gen) /\ i >= 1 /\ Usable(gen, i)
      BY <1>1, ConfigsTyped DEF Eligible
    <3>. QED BY <1>2, <2>1, <3>1, <3>2 DEF StillAhead, Begin, Usable, RequiresAck
  <2>2. CASE q # r
    BY <1>2, <2>2 DEF Inv, StillAhead, Begin, Usable, RequiresAck, Requests, TablesOK
  <2>. QED BY <2>1, <2>2
<1>. QED BY <1>5, <1>6, <1>7, <1>8, <1>9, <1>10 DEF Inv

\* A retest takes the place of no prompt, and makes a slot healthy.
LEMMA RetestKeeps ==
    ASSUME Inv, NEW r \in Retests, Retest(r)
    PROVE  Inv'
<1>1. PICK i \in Indices(gen) :
        /\ req[r].pc = "idle"
        /\ health' = [health EXCEPT ![gen][i] = Healthy]
        /\ req' = [req EXCEPT ![r] = [pc |-> "sent", gen |-> gen, at |-> i]]
        /\ UNCHANGED <<gen, acked, page, shown, usable>>
  BY DEF Retest
<1>2. /\ r \in Requests /\ r \notin Prompts
      /\ req \in [Requests -> Request] /\ gen \in Runtimes
      /\ i \in Nat \ {0} /\ InUse(gen)
  BY LlmAssumption, ConfigsTyped DEF Inv, ServedOK, Requests, InUse
<1>3. /\ req' \in [Requests -> Request]
      /\ req'[r] = [pc |-> "sent", gen |-> gen, at |-> i]
      /\ \A q \in Requests \ {r} : req'[q] = req[q]
  BY <1>1, <1>2 DEF Request
<1>4. \A g \in Runtimes : InUse(g)' = InUse(g)
  BY <1>1, <1>2, <1>3 DEF InUse
<1>5. health = [g \in Runtimes |-> health[g]] /\ health[gen] \in [Indices(gen) -> Trackers]
  BY <1>2 DEF Inv, TablesOK, Tracked
<1>6. /\ health'[gen] = [health[gen] EXCEPT ![i] = Healthy]
      /\ \A g \in Runtimes \ {gen} : health'[g] = health[g]
      /\ health' = [g \in Runtimes |-> health'[g]]
  BY <1>1, <1>2, <1>5
<1>7. /\ health'[gen] \in [Indices(gen) -> Trackers]
      /\ \A j \in Indices(gen) : health'[gen][j] \in {health[gen][j], Healthy}
  BY <1>1, <1>5, <1>6, HealthyTracked
<1>8. TablesOK'
  <2>1. ASSUME NEW g \in Runtimes PROVE health'[g] \in [Tracked(g)' -> Trackers]
    <3>1. Tracked(g)' = Tracked(g) BY <1>4 DEF Tracked, Indices
    <3>2. CASE g = gen BY <1>2, <1>7, <3>1, <3>2 DEF Tracked
    <3>3. CASE g # gen BY <1>6, <3>1, <3>3 DEF Inv, TablesOK
    <3>. QED BY <3>2, <3>3
  <2>. QED BY <1>1, <1>6, <2>1 DEF Inv, TablesOK
<1>9. ServedOK'
  <2>1. \A q \in Requests : req'[q].gen <= gen'
    BY <1>1, <1>2, <1>3, ConfigsTyped DEF Inv, ServedOK
  <2>. QED BY <1>1, <1>3, <1>8, <2>1, TablesSuffice DEF Inv, ServedOK
<1>10. \A q \in Requests : AtItsSlot(q)'
  BY <1>1, <1>3 DEF Inv, AtItsSlot, Indices
<1>11. \A g \in Runtimes : AckedWasShown(g)'
  BY <1>1 DEF Inv, AckedWasShown
<1>12. \A q \in Prompts : q \in Requests /\ req'[q] = req[q]
  BY <1>2, <1>3 DEF Requests
<1>13. \A q \in Prompts : SentUnderAck(q)'
  BY <1>1, <1>12 DEF Inv, SentUnderAck
<1>14. ASSUME NEW q \in Prompts PROVE StillAhead(q)'
  <2>1. ASSUME NEW j \in Indices(req[q].gen), ~ShouldSkip(health[req[q].gen][j])
        PROVE  ~ShouldSkip(health'[req[q].gen][j])
    <3>1. req[q].gen \in Runtimes BY <1>2, <1>12 DEF Request
    <3>. QED BY <1>6, <1>7, <2>1, <3>1, HealthyTracked
  <2>. QED BY <1>1, <1>12, <2>1 DEF Inv, StillAhead, Usable, RequiresAck
<1>. QED BY <1>8, <1>9, <1>10, <1>11, <1>13, <1>14 DEF Inv

\* The operator's page: what it shows is never ahead of the runtime in place.
LEMMA ListKeeps ==
    ASSUME Inv, List
    PROVE  Inv'
<1>1. UNCHANGED <<gen, health, acked, req, shown, usable>> /\ page' = gen
  BY DEF List
<1>2. \A g \in Runtimes : InUse(g)' = InUse(g) BY <1>1 DEF InUse
<1>3. TablesOK' BY <1>1, <1>2 DEF Inv, TablesOK, Tracked
<1>4. ServedOK'
  <2>1. page' \in 1 .. gen' BY <1>1, ConfigsTyped DEF Inv, ServedOK
  <2>. QED BY <1>1, <1>2, <2>1 DEF Inv, ServedOK
<1>. QED
  BY <1>1, <1>3, <1>4
  DEF Inv, AtItsSlot, AckedWasShown, SentUnderAck, StillAhead, Usable, RequiresAck

LEMMA AcknowledgeKeeps ==
    ASSUME Inv, Acknowledge
    PROVE  Inv'
<1>1. PICK i \in Indices(page) \cap Indices(gen) :
        /\ acked' = [acked EXCEPT ![gen] = acked[gen] \cup {i}]
        /\ shown' = shown \cup {[gen |-> gen, at |-> i, page |-> page,
                                 provider |-> ProviderOf(page, i)]}
        /\ UNCHANGED <<gen, health, req, page, usable>>
  BY DEF Acknowledge
<1>2. /\ gen \in Runtimes /\ page \in Runtimes /\ page <= gen /\ i \in Nat
      /\ ProviderOf(page, i) \in Services
      /\ page \in Nat /\ gen \in Nat
  BY ConfigsTyped DEF Inv, ServedOK
<1>3. \A g \in Runtimes : InUse(g)' = InUse(g) BY <1>1 DEF InUse
<1>4. /\ \A g \in Runtimes \ {gen} : acked'[g] = acked[g]
      /\ acked'[gen] = acked[gen] \cup {i}
      /\ acked' \in [Runtimes -> SUBSET Nat]
  BY <1>1, <1>2 DEF Inv, TablesOK
<1>5. TablesOK' BY <1>1, <1>3, <1>4 DEF Inv, TablesOK, Tracked
<1>6. ServedOK'
  <2>1. shown' \subseteq [gen : Runtimes, at : Nat, page : Runtimes, provider : Services]
    BY <1>1, <1>2 DEF Inv, ServedOK
  <2>2. \A g \in Runtimes : acked'[g] \subseteq Indices(g)
    BY <1>1, <1>2, <1>4 DEF Inv, ServedOK
  <2>. QED BY <1>1, <1>5, <2>1, <2>2, TablesSuffice DEF Inv, ServedOK
<1>7. ASSUME NEW g \in Runtimes, NEW j \in acked'[g]
      PROVE  \E a \in shown' : /\ a.gen = g /\ a.at = j
                               /\ a.provider = ProviderOf(g, j) \/ a.page < g
  <2>1. CASE j \in acked[g]
    BY <1>1, <2>1 DEF Inv, AckedWasShown
  <2>2. CASE j \notin acked[g]
    <3> DEFINE a == [gen |-> gen, at |-> i, page |-> page, provider |-> ProviderOf(page, i)]
    <3>1. g = gen /\ j = i BY <1>4, <1>7, <2>2
    <3>2. a \in shown' BY <1>1
    <3>3. a.provider = ProviderOf(gen, i) \/ a.page < gen
      BY <1>2
    <3>4. a.gen = gen /\ a.at = i OBVIOUS
    <3>. QED BY <3>1, <3>2, <3>3, <3>4
  <2>. QED BY <2>1, <2>2
<1>8. \A g \in Runtimes : AckedWasShown(g)'
  BY <1>7 DEF AckedWasShown, ProviderOf
<1>9. \A g \in Runtimes : acked[g] \subseteq acked'[g]
  BY <1>4
<1>10. \A q \in Prompts : req[q].gen \in Runtimes
  BY DEF Inv, ServedOK, Request, Requests
<1>. QED
  BY <1>1, <1>5, <1>6, <1>8, <1>9, <1>10
  DEF Inv, AtItsSlot, SentUnderAck, StillAhead, Usable, RequiresAck

\* A new runtime starts with trackers of its own; those in use keep theirs.
LEMMA RebuildKeeps ==
    ASSUME Inv, Rebuild
    PROVE  Inv'
<1> DEFINE h == [health EXCEPT ![gen + 1] = Built(Configs[gen + 1])]
<1>1. /\ gen' = gen + 1 /\ gen < Len(Configs) /\ UNCHANGED <<req, page, usable>>
      /\ Keep(h, acked, shown)
  BY DEF Rebuild
<1>2. gen \in Runtimes /\ gen + 1 \in Runtimes /\ gen \in Nat
  BY <1>1, ConfigsTyped DEF Inv, ServedOK
<1>3. \A q \in Requests : req[q].gen \in Runtimes /\ req[q].gen <= gen /\ req[q].gen # gen + 1
  BY <1>2, ConfigsTyped DEF Inv, ServedOK, Request
<1>4. \A g \in Runtimes : InUse(g)' => InUse(g) \/ g = gen + 1
  BY <1>1 DEF InUse
<1>5. /\ h[gen + 1] \in [Indices(gen + 1) -> Trackers]
      /\ \A g \in Runtimes \ {gen + 1} : h[g] = health[g]
  <2>1. health = [g \in Runtimes |-> health[g]] BY DEF Inv, TablesOK
  <2>. QED BY <1>2, <2>1, HealthyTracked DEF Built, Indices
<1>6. \A g \in Runtimes : InUse(g)' => h[g] \in [Indices(g) -> Trackers]
  BY <1>4, <1>5 DEF Inv, TablesOK, Tracked
<1>7. acked \in [Runtimes -> SUBSET Nat] /\ usable' \in [Prompts -> SUBSET Nat]
  BY <1>1 DEF Inv, TablesOK
<1> HIDE DEF h
<1>8. /\ TablesOK'
      /\ \A g \in Runtimes : InUse(g)' => health'[g] = h[g] /\ acked'[g] = acked[g]
      /\ \A g \in Runtimes : acked'[g] \subseteq acked[g] /\ (acked'[g] # {} => InUse(g)')
      /\ shown' = {a \in shown : InUse(a.gen)'}
  BY <1>1, <1>6, <1>7, KeepTables
<1>9. ServedOK'
  <2>1. shown' \subseteq [gen : Runtimes, at : Nat, page : Runtimes, provider : Services]
    BY <1>8 DEF Inv, ServedOK
  <2>2. \A g \in Runtimes : acked'[g] \subseteq Indices(g)
    BY <1>8 DEF Inv, ServedOK
  <2>3. /\ gen' \in Runtimes /\ page' \in 1 .. gen'
        /\ \A q \in Requests : req'[q].gen <= gen'
    BY <1>1, <1>2, <1>3, ConfigsTyped DEF Inv, ServedOK
  <2>4. req' \in [Requests -> Request] BY <1>1 DEF Inv, ServedOK
  <2>. QED BY <1>8, <2>1, <2>2, <2>3, <2>4, TablesSuffice
<1>10. \A q \in Requests : AtItsSlot(q)'
  BY <1>1 DEF Inv, AtItsSlot, Indices
<1>11. ASSUME NEW g \in Runtimes, NEW i \in acked'[g]
       PROVE  \E a \in shown' : /\ a.gen = g /\ a.at = i
                                /\ a.provider = ProviderOf(g, i) \/ a.page < g
  <2>1. i \in acked[g] /\ InUse(g)' BY <1>8, <1>11
  <2>2. PICK a \in shown : /\ a.gen = g /\ a.at = i
                           /\ a.provider = ProviderOf(g, i) \/ a.page < g
    BY <2>1 DEF Inv, AckedWasShown
  <2>3. a \in shown' BY <1>8, <2>1, <2>2
  <2>. QED BY <2>2, <2>3
<1>12. \A g \in Runtimes : AckedWasShown(g)'
  BY <1>11 DEF AckedWasShown, ProviderOf
<1>13. ASSUME NEW q \in Prompts, req[q].pc # "idle"
       PROVE  /\ acked'[req[q].gen] = acked[req[q].gen]
              /\ health'[req[q].gen] = health[req[q].gen]
  <2>1. q \in Requests BY DEF Requests
  <2>2. \A g : g = req[q].gen => InUse(g)'
    BY <1>1, <1>13, <2>1 DEF InUse
  <2>. QED BY <1>3, <1>5, <1>8, <2>1, <2>2
<1>14. \A q \in Prompts : SentUnderAck(q)'
  BY <1>1, <1>13 DEF Inv, SentUnderAck, ProviderOf
<1>15. \A q \in Prompts : StillAhead(q)'
  BY <1>1, <1>13 DEF Inv, StillAhead, Usable, RequiresAck, ProviderOf, Indices
<1>. QED BY <1>8, <1>9, <1>10, <1>12, <1>14, <1>15 DEF Inv

\* Time takes no slot away.
LEMMA TimePassesKeeps ==
    ASSUME Inv, TimePasses
    PROVE  Inv'
<1>1. /\ health' = [g \in Runtimes |-> [i \in DOMAIN health[g] |-> Waning(health[g][i])]]
      /\ UNCHANGED <<gen, acked, req, page, shown, usable>>
  BY DEF TimePasses, WaningAll
<1>2. \A g \in Runtimes : InUse(g)' = InUse(g) BY <1>1 DEF InUse
<1>3. ASSUME NEW g \in Runtimes
      PROVE  /\ DOMAIN health[g] = Tracked(g) /\ health[g] \in [Tracked(g) -> Trackers]
             /\ Tracked(g)' = Tracked(g)
             /\ health'[g] \in [Tracked(g) -> Trackers]
             /\ \A i \in Tracked(g) : health'[g][i] = Waning(health[g][i])
  BY <1>1, <1>2, WaningTracked DEF Inv, TablesOK, Tracked, Indices
<1>4. TablesOK' BY <1>1, <1>3 DEF Inv, TablesOK
<1>5. ServedOK' BY <1>1, <1>4, TablesSuffice DEF Inv, ServedOK
<1>6. ASSUME NEW q \in Prompts PROVE StillAhead(q)'
  <2>1. ASSUME req[q].pc # "idle", NEW i \in usable[q]
        PROVE  ~ShouldSkip(health'[req[q].gen][i])
    <3>1. q \in Requests /\ req[q].gen \in Runtimes /\ InUse(req[q].gen)
      BY <2>1 DEF Inv, ServedOK, Requests, Request, InUse
    <3>2. i \in Indices(req[q].gen) /\ ~ShouldSkip(health[req[q].gen][i])
      BY <2>1 DEF Inv, StillAhead, Usable
    <3>3. /\ i \in Tracked(req[q].gen) /\ health[req[q].gen][i] \in Trackers
          /\ health'[req[q].gen][i] = Waning(health[req[q].gen][i])
      BY <1>3, <3>1, <3>2 DEF Tracked
    <3>. QED BY <3>2, <3>3, WaningTracked
  <2>. QED BY <1>1, <2>1 DEF Inv, StillAhead, Usable, RequiresAck
<1>. QED
  BY <1>1, <1>4, <1>5, <1>6 DEF Inv, AtItsSlot, AckedWasShown, SentUnderAck

\* Every step keeps the inductive invariant.
LEMMA StepKeeps == Inv /\ [ChainNext]_chainVars => Inv'
<1> SUFFICES ASSUME Inv, [ChainNext]_chainVars PROVE Inv'
  OBVIOUS
<1>1. CASE \E r \in Prompts : Begin(r) BY <1>1, BeginKeeps
<1>2. CASE \E r \in Retests : Retest(r) BY <1>2, RetestKeeps
<1>3. ASSUME NEW r \in Requests, Walk(r) \/ HangUp(r) PROVE Inv'
  BY <1>3, PassKeeps, SendKeeps, GiveUpKeeps, SucceedKeeps, FailKeeps DEF Walk
<1>4. CASE List \/ Acknowledge \/ Rebuild \/ TimePasses
  BY <1>4, ListKeeps, AcknowledgeKeeps, RebuildKeeps, TimePassesKeeps
<1>5. CASE \/ UNCHANGED chainVars
          \/ \E c \in Commands : Resolve(c) \/ Command(c) \/ Stops(c)
  <2>1. UNCHANGED <<gen, health, acked, req, page, shown, usable>>
    BY <1>5 DEF chainVars, Resolve, Command, Stops
  <2>2. \A g : InUse(g)' = InUse(g) BY <2>1 DEF InUse
  <2>. QED
    BY <2>1, <2>2
    DEF Inv, ServedOK, TablesOK, Tracked, AtItsSlot, AckedWasShown, SentUnderAck,
        StillAhead, Usable, RequiresAck
<1>. QED BY <1>1, <1>2, <1>3, <1>4, <1>5 DEF ChainNext

\* The inductive invariant holds in every state.
THEOREM Invariance == ChainSpec => []Inv
<1>. QED BY Initially, StepKeeps, PTL DEF ChainSpec

-----------------------------------------------------------------------------
(***************************************************************************)
(* The commands, which no other step touches but time.                     *)
(***************************************************************************)

\* What a command holds: typed, and a tracker for every slot of its list.
OwnOK(o) ==
    /\ o \in [pc : {"idle", "walking", "sent"}, list : {o.list}, at : Nat \ {0},
             left : Nat, health : [DOMAIN o.list -> Trackers], acked : {o.acked}]
    /\ o.pc = "sent" => o.at \in DOMAIN o.list

CommandsInv ==
    /\ own = [c \in Commands |-> own[c]]
    /\ \A c \in Commands : OwnOK(own[c])

LEMMA CommandsTracked == CommandsInv => CommandsOK
<1> SUFFICES ASSUME CommandsInv, NEW c \in Commands
             PROVE  /\ own[c].pc = "sent" => own[c].at \in DOMAIN own[c].list
                    /\ DOMAIN own[c].health = DOMAIN own[c].list
                    /\ \A i \in DOMAIN own[c].health : Bounded(own[c].health[i])
  BY DEF CommandsOK
<1>1. /\ own[c].pc = "sent" => own[c].at \in DOMAIN own[c].list
      /\ own[c].health \in [DOMAIN own[c].list -> Trackers]
  BY DEF CommandsInv, OwnOK
<1>. QED BY <1>1 DEF Bounded, Trackers

LEMMA NoCommandOK == OwnOK(NoCommand)
<1>1. NoCommand.health \in [DOMAIN NoCommand.list -> Trackers]
  BY DEF NoCommand
<1>2. /\ NoCommand.pc = "idle" /\ NoCommand.at \in Nat \ {0} /\ NoCommand.left \in Nat
      /\ NoCommand = [pc |-> NoCommand.pc, list |-> NoCommand.list, at |-> NoCommand.at,
                      left |-> NoCommand.left, health |-> NoCommand.health,
                      acked |-> NoCommand.acked]
  BY DEF NoCommand
<1> HIDE DEF NoCommand
<1>. QED BY <1>1, <1>2 DEF OwnOK

LEMMA CommandsStart == ChainInit => CommandsInv
  BY NoCommandOK DEF ChainInit, CommandsInv

\* The runtime of a command starts with a healthy tracker for every slot.
LEMMA ResolveKeeps ==
    ASSUME CommandsInv, NEW c \in Commands, Resolve(c)
    PROVE  CommandsInv'
<1>1. PICK n \in 1 .. MaxAsked :
        own' = [own EXCEPT ![c] = [pc |-> "walking", list |-> ListOf(gen), at |-> 1, left |-> n,
                                   health |-> Built(ListOf(gen)),
                                   acked |-> DOMAIN ListOf(gen)]]
  BY DEF Resolve
<1> DEFINE L == ListOf(gen)
           o == [pc |-> "walking", list |-> L, at |-> 1, left |-> n,
                 health |-> Built(L), acked |-> DOMAIN L]
<1>2. own' = [own EXCEPT ![c] = o] BY <1>1
<1>3. n \in Nat BY LlmAssumption
<1> HIDE DEF L
<1>4. Built(L) \in [DOMAIN L -> Trackers] BY HealthyTracked DEF Built
<1>5. OwnOK(o) BY <1>3, <1>4 DEF OwnOK
<1> HIDE DEF o
<1>. QED BY <1>2, <1>5 DEF CommandsInv

LEMMA CommandKeeps ==
    ASSUME CommandsInv, NEW c \in Commands, Command(c) \/ Stops(c)
    PROVE  CommandsInv'
<1> DEFINE o == own[c]
           h == o.health[o.at]
<1>1. OwnOK(o) /\ own = [d \in Commands |-> own[d]] BY DEF CommandsInv
<1>2. ASSUME NEW p, own' = [own EXCEPT ![c] = p], OwnOK(p) PROVE CommandsInv'
  BY <1>1, <1>2 DEF CommandsInv
<1>3. CASE own' = [own EXCEPT ![c] = NoCommand]
  BY <1>2, <1>3, NoCommandOK
<1>4. CASE o.pc = "walking" /\ o.at \in DOMAIN o.list
           /\ own' = [own EXCEPT ![c] = IF OwnUsable(c) THEN [o EXCEPT !.pc = "sent"]
                                         ELSE [o EXCEPT !.at = o.at + 1]]
  <2> DEFINE p == IF OwnUsable(c) THEN [o EXCEPT !.pc = "sent"]
                  ELSE [o EXCEPT !.at = o.at + 1]
  <2>1. OwnOK(p)
    <3>1. CASE OwnUsable(c) BY <1>1, <1>4, <3>1 DEF OwnOK
    <3>2. CASE ~OwnUsable(c) BY <1>1, <1>4, <3>2 DEF OwnOK
    <3>. QED BY <3>1, <3>2
  <2>2. own' = [own EXCEPT ![c] = p] BY <1>4
  <2> HIDE DEF p
  <2>. QED BY <1>2, <2>1, <2>2
<1>5. ASSUME o.pc = "sent", NEW t \in Trackers, NEW at \in Nat \ {0}, NEW left \in Nat,
             GoesOn(c, at, left, t)
      PROVE  CommandsInv'
  <2> DEFINE k == [o.health EXCEPT ![o.at] = t]
             p == [o EXCEPT !.pc = "walking", !.at = at, !.left = left, !.health = k]
  <2>1. own' = [own EXCEPT ![c] = p] BY <1>1, <1>5 DEF GoesOn
  <2>2. k \in [DOMAIN o.list -> Trackers]
    BY <1>1, <1>5 DEF OwnOK
  <2> HIDE DEF k
  <2>3. OwnOK(p) BY <1>1, <1>5, <2>2 DEF OwnOK
  <2> HIDE DEF p
  <2>. QED BY <1>2, <2>1, <2>3
<1>6. ASSUME o.pc = "sent"
      PROVE  o.at \in Nat \ {0} /\ o.left \in Nat /\ h \in Trackers
  BY <1>1, <1>6 DEF OwnOK
<1>7. CASE o.pc = "sent" /\ o.left > 1 /\ GoesOn(c, 1, o.left - 1, AfterSuccess(h))
  <2>1. o.left - 1 \in Nat /\ AfterSuccess(h) \in Trackers
    BY <1>6, <1>7, SuccessTracked
  <2>. QED BY <1>5, <1>7, <2>1
<1>8. ASSUME o.pc = "sent", NEW e, GoesOn(c, o.at + 1, o.left, AfterFailure(h, KindOf(e)))
      PROVE  CommandsInv'
  <2>1. o.at + 1 \in Nat \ {0} /\ AfterFailure(h, KindOf(e)) \in Trackers
    BY <1>6, <1>8, FailureTracked
  <2>. QED BY <1>5, <1>6, <1>8, <2>1
<1>. QED BY <1>1, <1>3, <1>4, <1>7, <1>8 DEF Command, Stops

\* Time shortens the backoffs of a command too.
LEMMA CommandsWane ==
    ASSUME CommandsInv, TimePasses
    PROVE  CommandsInv'
<1>1. ASSUME NEW c \in Commands PROVE OwnOK([own[c] EXCEPT !.health = WaningAll(@)])
  <2>1. OwnOK(own[c]) BY DEF CommandsInv
  <2>2. WaningAll(own[c].health) \in [DOMAIN own[c].list -> Trackers]
    BY <2>1, WaningTracked DEF OwnOK, WaningAll
  <2>. QED BY <2>1, <2>2 DEF OwnOK
<1>2. own' = [c \in Commands |-> [own[c] EXCEPT !.health = WaningAll(@)]]
  BY DEF TimePasses
<1>. QED BY <1>1, <1>2 DEF CommandsInv

LEMMA CommandsKeep == CommandsInv /\ [ChainNext]_chainVars => CommandsInv'
<1> SUFFICES ASSUME CommandsInv, [ChainNext]_chainVars PROVE CommandsInv'
  OBVIOUS
<1>1. CASE \E c \in Commands : Resolve(c) \/ Command(c) \/ Stops(c)
  BY <1>1, ResolveKeeps, CommandKeeps
<1>2. CASE TimePasses BY <1>2, CommandsWane
<1>3. ASSUME UNCHANGED own PROVE CommandsInv'
  BY <1>3 DEF CommandsInv
<1>4. CASE \/ \E r \in Prompts : Begin(r)
           \/ \E r \in Retests : Retest(r)
           \/ \E r \in Requests : Walk(r) \/ HangUp(r)
           \/ List \/ Acknowledge \/ Rebuild
           \/ UNCHANGED chainVars
  BY <1>3, <1>4
  DEF Begin, Retest, Walk, Pass, Send, GiveUp, Succeed, Fail, HangUp, List, Acknowledge,
      Rebuild, chainVars
<1>. QED BY <1>1, <1>2, <1>4 DEF ChainNext

-----------------------------------------------------------------------------
\* What follows from it.

\* Types; and no slot is out for longer than MAX_BACKOFF, whatever failures
\* overlap (record_failure in llm/health.rs).
THEOREM TypeCorrect == ChainSpec => []LlmOK
<1>1. Inv /\ CommandsInv => LlmOK
  BY CommandsTracked DEF Inv, LlmOK
<1>. QED BY Invariance, CommandsStart, CommandsKeep, <1>1, PTL DEF ChainSpec

\* No prompt of the served runtime leaves the host without an acknowledgement
\* that counts, whatever is retested, answered late, rebuilt or run by commands
\* meanwhile (run_prompt in llm/runtime.rs, acknowledge_llm_privacy).
THEOREM NothingLeavesUnacknowledged == ChainSpec => []SentIsAcknowledged
<1>1. Inv => SentIsAcknowledged
  <2> SUFFICES ASSUME Inv, NEW r \in Prompts, req[r].pc = "sent",
                      ProviderOf(req[r].gen, req[r].at) \notin Local
               PROVE  \E a \in shown :
                        /\ a.gen = req[r].gen /\ a.at = req[r].at
                        /\ \/ a.provider = ProviderOf(req[r].gen, req[r].at)
                           \/ a.page < req[r].gen
    BY DEF SentIsAcknowledged
  <2>1. req[r].at \in acked[req[r].gen] /\ req[r].gen \in Runtimes
    BY DEF Inv, SentUnderAck, ServedOK, Request, Requests
  <2>. QED BY <2>1 DEF Inv, AckedWasShown
<1>. QED BY Invariance, <1>1, PTL

\* Only a retest brings back a slot that failed for good.
LEMMA HardStays ==
    ASSUME Inv, [ChainNext]_chainVars, NEW g \in Runtimes, NEW i \in DOMAIN health[g],
           health[g][i] = Hard, InUse(g)', health'[g][i] # Hard
    PROVE  \E r \in Retests :
             req[r].pc = "idle" /\ req'[r] = [pc |-> "sent", gen |-> g, at |-> i]
<1>1. /\ DOMAIN health[g] = Tracked(g) /\ i \in Tracked(g) /\ InUse(g)
      /\ health = [k \in Runtimes |-> health[k]]
      /\ req \in [Requests -> Request] /\ gen \in Runtimes
  BY DEF Inv, TablesOK, Tracked, ServedOK
<1>2. CASE \E r \in Prompts : Begin(r) BY <1>2 DEF Begin
<1>3. CASE \E r \in Retests : Retest(r)
  <2>1. PICK r \in Retests, j \in Indices(gen) :
          /\ req[r].pc = "idle"
          /\ health' = [health EXCEPT ![gen][j] = Healthy]
          /\ req' = [req EXCEPT ![r] = [pc |-> "sent", gen |-> gen, at |-> j]]
    BY <1>3 DEF Retest
  <2>2. g = gen /\ i = j BY <1>1, <2>1
  <2>. QED BY <1>1, <2>1, <2>2 DEF Requests
<1>4. ASSUME NEW r \in Requests, Succeed(r) \/ Fail(r) PROVE FALSE
  <2>1. /\ req[r].pc = "sent" /\ health[req[r].gen][req[r].at] \in Trackers
        /\ UNCHANGED <<gen, page>>
    BY <1>4, SentHasTracker DEF Succeed, Fail
  <2>2. PICK t \in Trackers :
          /\ health[req[r].gen][req[r].at] = Hard => t = Hard
          /\ Keep([health EXCEPT ![req[r].gen][req[r].at] = t], acked, shown)
    <3>1. CASE Succeed(r)
      <4>1. Keep([health EXCEPT ![req[r].gen][req[r].at]
                    = AfterSuccess(health[req[r].gen][req[r].at])], acked, shown)
        BY <2>1, <3>1, ExceptAt DEF Succeed
      <4>. QED BY <2>1, <4>1, SuccessTracked
    <3>2. CASE Fail(r)
      <4>1. PICK kind :
              Keep([health EXCEPT ![req[r].gen][req[r].at] = AfterFailure(@, kind)],
                   acked, shown)
        BY <3>2 DEF Fail
      <4>2. Keep([health EXCEPT ![req[r].gen][req[r].at]
                    = AfterFailure(health[req[r].gen][req[r].at], kind)], acked, shown)
        BY <2>1, <4>1, ExceptAt
      <4>. QED BY <2>1, <4>2, FailureTracked
    <3>. QED BY <1>4, <3>1, <3>2
  <2> DEFINE h == [health EXCEPT ![req[r].gen][req[r].at] = t]
  <2>3. h[g][i] = health[g][i] \/ (h[g][i] = t /\ g = req[r].gen /\ i = req[r].at)
    <3>1. CASE g # req[r].gen BY <1>1, <3>1
    <3>2. CASE g = req[r].gen
      <4>1. h[g] = [health[g] EXCEPT ![req[r].at] = t] BY <1>1, <3>2
      <4>2. health[g] \in [Tracked(g) -> Trackers] BY DEF Inv, TablesOK
      <4> HIDE DEF h
      <4>. QED BY <1>1, <3>2, <4>1, <4>2
    <3>. QED BY <3>1, <3>2
  <2>4. health'[g] = h[g] BY <2>2 DEF Keep
  <2> HIDE DEF h
  <2>. QED BY <2>2, <2>3, <2>4
<1>5. ASSUME NEW r \in Requests, Pass(r) \/ Send(r) \/ GiveUp(r) \/ HangUp(r) PROVE FALSE
  <2>1. health'[g] = health[g]
    BY <1>5 DEF Pass, Send, GiveUp, HangUp, Keep
  <2>. QED BY <2>1
<1>6. CASE List \/ Acknowledge BY <1>6 DEF List, Acknowledge
<1>7. CASE Rebuild
  <2>1. g # gen + 1
    <3>1. \A r \in Requests : req[r].gen <= gen /\ req[r].gen \in Nat
      BY <1>1, ConfigsTyped DEF Inv, ServedOK, Request
    <3>2. gen \in Nat BY <1>1, ConfigsTyped
    <3>. QED BY <1>1, <3>1, <3>2 DEF InUse
  <2>2. health'[g] = health[g] BY <1>1, <1>7, <2>1 DEF Rebuild, Keep
  <2>. QED BY <2>2
<1>8. CASE TimePasses
  <2>1. health[g][i] \in Trackers BY <1>1 DEF Inv, TablesOK
  <2>. QED BY <1>1, <1>8, <2>1, WaningTracked DEF TimePasses, WaningAll
<1>9. CASE \/ UNCHANGED chainVars
          \/ \E c \in Commands : Resolve(c) \/ Command(c) \/ Stops(c)
  BY <1>9 DEF chainVars, Resolve, Command, Stops
<1>. QED
  BY <1>2, <1>3, <1>4, <1>5, <1>6, <1>7, <1>8, <1>9 DEF ChainNext, Walk

\* A prompt that gives up has nothing left that it could have used all along.
LEMMA NothingLeft ==
    ASSUME Inv, NEW r \in Prompts, GiveUp(r)
    PROVE  usable[r] = {}
<1>1. /\ req[r].pc = "walking" /\ req[r].at \notin Indices(req[r].gen)
      /\ r \in Requests
  BY DEF GiveUp, Requests
<1>2. req[r].gen \in Runtimes /\ req[r].at \in Nat \ {0}
  BY <1>1 DEF Inv, ServedOK, Request
<1>3. \A i \in usable[r] : i \in Indices(req[r].gen) /\ i >= req[r].at
  BY <1>1 DEF Inv, StillAhead
<1>. QED BY <1>1, <1>2, <1>3, ConfigsTyped

\* A slot that failed for good stays out until it is retested, and a prompt that
\* fails tried every slot that was there for it all along, whatever other
\* prompts, retests and edits do meanwhile (record_success in llm/health.rs,
\* run_prompt in llm/runtime.rs).
THEOREM SlotsAreUsedWell == ChainSpec => SlotsAreUsed
<1>1. Inv /\ [ChainNext]_chainVars
      => [\A g \in Runtimes : \A i \in DOMAIN health[g] :
            /\ health[g][i] = Hard
            /\ InUse(g)' /\ health'[g][i] # Hard
            => \E r \in Retests :
                req[r].pc = "idle"
                /\ req'[r] = [pc |-> "sent", gen |-> g, at |-> i]]_chainVars
  BY HardStays
<1>2. Inv => (\A r \in Prompts : GiveUp(r) => usable[r] = {})
  BY NothingLeft
<1>3. ChainSpec => HardIsForGood
  BY Invariance, <1>1, PTL DEF ChainSpec, HardIsForGood
<1>4. ChainSpec => FallbackIsTried
  BY Invariance, <1>2, PTL DEF FallbackIsTried
<1>. QED BY <1>3, <1>4, PTL DEF SlotsAreUsed
=============================================================================
