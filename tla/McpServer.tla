----------------------------- MODULE McpServer -----------------------------
(***************************************************************************)
(* crates/provreq-mcp: a coding agent writes JSON-RPC lines to the process *)
(* (transport.rs), which handles one line at a time and asks the provreq   *)
(* server for what it needs (client.rs), one HTTP call after the other,    *)
(* each with a deadline.  resources/list walks projects, collections and   *)
(* artifacts in calls of their own, while others change the tree.          *)
(*                                                                         *)
(* A verify runs on the server's worker until it is over, whoever asked    *)
(* for it; while every worker is in one, nothing else is answered.         *)
(***************************************************************************)
EXTENDS Naturals, Sequences, FiniteSets, SequencesExt

CONSTANTS
    Root,          \* the served system
    Boxes,         \* its projects and collections
    ProjectsOnly,  \* the projects among them
    Artifacts,
    HomeOf,        \* where each box is when it is there, each artifact at first
    Nowhere,
    Others,        \* clients of the server that ask for a verify as well
    Threads,       \* worker threads of the server's runtime
    MaxLines,      \* bound of the model: lines the agent writes,
    MaxChanges     \* and changes to the tree while one is handled

ASSUME McpAssumption ==
    /\ ProjectsOnly \subseteq Boxes /\ Boxes \cap Artifacts = {}
    /\ IsFiniteSet(Boxes \cup Artifacts)
    /\ Root # Nowhere /\ {Root, Nowhere} \cap (Boxes \cup Artifacts) = {}
    /\ HomeOf \in [Boxes \cup Artifacts -> Boxes \cup {Root}]
    /\ \A x \in ProjectsOnly : HomeOf[x] = Root
    /\ \A x \in Boxes \ ProjectsOnly : HomeOf[x] \in ProjectsOnly
    /\ \A x \in Artifacts : HomeOf[x] \in Boxes \ ProjectsOnly
    /\ Others \cap (1 .. MaxLines) = {}
    /\ Threads \in Nat \ {0} /\ MaxLines \in Nat /\ MaxChanges \in Nat

VARIABLES
    place,    \* the published world: where each box and artifact is
    pipe,     \* what the agent wrote and the process has not read yet
    asked,    \* ghost: lines written
    proc,     \* the local variables of handle_line
    call,     \* the HTTP call under way
    running,  \* verifies the workers are in: lines, and the others
    late,     \* posts the process gave up and the server may still carry out
    done,     \* ghost: how often the post of each line was carried out
    out,      \* ghost: the lines that were answered, and how
    began     \* ghost: what stayed where it was, and what was there, since

mcpVars == <<place, pipe, asked, proc, call, running, late, done, out, began>>

Collections == Boxes \ ProjectsOnly
Things == Boxes \cup Artifacts
Lines == 1 .. MaxLines

\* What a line can be: no JSON; without an id; a method or a tool that is
\* unknown, or parameters that are missing; what is answered from tables; and
\* what takes calls.
Asking(kind) == [kind : {kind}, about : Artifacts]
Kinds == {"garbled", "notice", "unknown", "table"}
Posts == {"verify", "triage"}
Line ==
    [kind : Kinds \cup Posts \cup {"query", "resources"}, about : {Root}]
        \cup Asking("read") \cup Asking("tool") \cup Asking("path")

Tools == Posts \cup {"query", "tool", "path"}

NoCall == [to |-> Nowhere, is |-> "none", brings |-> {}]
Quiet == [pc |-> "reading", no |-> 0, line |-> [kind |-> "notice", about |-> Root],
          todo |-> <<>>, found |-> <<>>, is |-> "none"]

Unwatched == [steady |-> {}, ever |-> {}, changes |-> 0]

McpInit ==
    /\ place = HomeOf
    /\ pipe = <<>> /\ asked = 0
    /\ proc = Quiet /\ call = NoCall
    /\ running = {} /\ late = {}
    /\ done = [n \in Lines |-> 0]
    /\ out = <<>>
    /\ began = Unwatched

-----------------------------------------------------------------------------
(***************************************************************************)
(* The tree the server publishes.                                          *)
(***************************************************************************)

There(x) ==
    \/ x = Root
    \/ x \in ProjectsOnly /\ place[x] = Root
    \/ /\ x \in Collections /\ place[x] # Nowhere
       /\ place[place[x]] = Root
    \/ /\ x \in Artifacts /\ place[x] # Nowhere
       /\ place[place[x]] # Nowhere
       /\ place[place[place[x]]] = Root

Within(x) == {y \in Things : place[y] = x}

Present == {a \in Artifacts : There(a)}

\* Other clients, and edits of the files: an artifact is written, moved or
\* removed, a collection or a project goes with all it holds, or comes back.
Change ==
    /\ proc.pc = "calling" /\ began.changes < MaxChanges
    /\ \E x \in Things, to \in Boxes \cup {Root, Nowhere} :
        /\ to # place[x]
        /\ to \in IF x \in Artifacts THEN Collections \cup {Nowhere}
                  ELSE {HomeOf[x], Nowhere}
        /\ to # Nowhere => There(to)
        /\ place' = [place EXCEPT ![x] = to]
    /\ began' = [steady |-> {a \in began.steady : There(a)' /\ place'[a] = place[a]},
                 ever |-> began.ever \cup Present',
                 changes |-> began.changes + 1]
    /\ UNCHANGED <<pipe, asked, proc, call, running, late, done, out>>

-----------------------------------------------------------------------------
(***************************************************************************)
(* The agent and the loop.                                                 *)
(***************************************************************************)

Ask ==
    /\ asked < MaxLines
    /\ \E line \in Line : pipe' = Append(pipe, line)
    /\ asked' = asked + 1
    /\ UNCHANGED <<place, proc, call, running, late, done, out, began>>

\* The calls a line starts with.
FirstCalls(line) ==
    CASE line.kind = "resources" -> <<Root>>
      [] line.kind = "path" -> <<place[line.about]>>
      [] line.kind \in {"read", "tool"} -> <<line.about>>
      [] OTHER -> <<Root>>

\* Faulty: a notification is answered like a request.
AnsweredAlways(kind) == CASE kind \in {"garbled", "unknown"} -> "error"
                          [] OTHER -> "success"

\* What needs no call: an error without an id, nothing at all, an error with
\* the id, and the tables.
AnsweredAtOnce(kind) == CASE kind \in {"garbled", "unknown"} -> "error"
                          [] kind = "notice" -> "silence"
                          [] OTHER -> "success"

\* next_line, handle_line and dispatch.
Take ==
    /\ proc.pc = "reading" /\ pipe # <<>>
    /\ pipe' = Tail(pipe)
    /\ LET line == Head(pipe)
           next == [Quiet EXCEPT !.no = proc.no + 1, !.line = line]
       IN  proc' = IF line.kind \in Kinds
                   THEN [next EXCEPT !.pc = "writing", !.is = AnsweredAtOnce(line.kind)]
                   ELSE [next EXCEPT !.pc = "calling", !.todo = FirstCalls(line)]
    /\ began' = [Unwatched EXCEPT !.steady = Present, !.ever = Present]
    /\ UNCHANGED <<place, asked, call, running, late, done, out>>

\* run_with_io: the answer is written and flushed before the next line is read.
Write ==
    /\ proc.pc = "writing"
    /\ out' = IF proc.is = "silence" THEN out
              ELSE Append(out, [no |-> proc.no, kind |-> proc.line.kind, is |-> proc.is])
    /\ proc' = [Quiet EXCEPT !.no = proc.no]
    /\ began' = Unwatched
    /\ UNCHANGED <<place, pipe, asked, call, running, late, done>>

EndsWith(is) == proc' = [proc EXCEPT !.pc = "writing", !.todo = <<>>, !.is = is]

\* A tool that fails says so in its result; a resource fails the request.
Failed(kind) == IF kind \in Tools THEN "isError" ELSE "error"

-----------------------------------------------------------------------------
(***************************************************************************)
(* A call, at the server and back.                                         *)
(***************************************************************************)

SendCall ==
    /\ proc.pc = "calling" /\ proc.todo # <<>> /\ call = NoCall
    /\ call' = [NoCall EXCEPT !.to = Head(proc.todo), !.is = "sent"]
    /\ UNCHANGED <<place, pipe, asked, proc, running, late, done, out, began>>

IsFree == Cardinality(running) < Threads

\* A read is answered from the world that is published when it is served.
Serve ==
    /\ call.is = "sent" /\ proc.line.kind \notin Posts
    /\ IsFree
    /\ call' = IF There(call.to) THEN [call EXCEPT !.is = "answered", !.brings = Within(call.to)]
               ELSE [call EXCEPT !.is = "refused"]
    /\ UNCHANGED <<place, pipe, asked, proc, running, late, done, out, began>>

CarriedOut(n) == done' = [done EXCEPT ![n] = @ + 1]

\* POST triage: written, the coverage read again.
Triages(n) ==
    /\ IsFree
    /\ CarriedOut(n)
    /\ UNCHANGED running

\* POST verify: the worker is in it from here on.
StartsVerify(n) ==
    /\ IsFree
    /\ running' = running \cup {n}
    /\ UNCHANGED done

ServeTriage ==
    /\ call.is = "sent" /\ proc.line.kind = "triage"
    /\ Triages(proc.no)
    /\ call' = [call EXCEPT !.is = "answered"]
    /\ UNCHANGED <<place, pipe, asked, proc, late, out, began>>

ServeVerify ==
    /\ call.is = "sent" /\ proc.line.kind = "verify"
    /\ StartsVerify(proc.no)
    /\ call' = [call EXCEPT !.is = "served"]
    /\ UNCHANGED <<place, pipe, asked, proc, late, out, began>>

\* The process is gone by the time the server reads the request.
ServeLate ==
    /\ \E late1 \in late :
        /\ IF late1.kind = "triage" THEN Triages(late1.no) ELSE StartsVerify(late1.no)
        /\ late' = late \ {late1}
    /\ UNCHANGED <<place, pipe, asked, proc, call, out, began>>

OtherVerifies ==
    /\ IsFree
    /\ \E o \in Others \ running : running' = running \cup {o}
    /\ UNCHANGED <<place, pipe, asked, proc, call, late, done, out, began>>

\* The verdict is stored, whether or not anybody waits for it.
VerifyEnds ==
    /\ \E v \in running :
        /\ running' = running \ {v}
        /\ IF v \in Others THEN UNCHANGED <<done, call>>
           ELSE /\ CarriedOut(v)
                /\ call' = IF call.is = "served" /\ v = proc.no
                           THEN [call EXCEPT !.is = "answered"] ELSE call
    /\ UNCHANGED <<place, pipe, asked, proc, late, out, began>>

\* Faulty: a collection that cannot be read is left out of the listing.
GivenUpOrPassed ==
    IF proc.line.kind = "resources"
    THEN proc' = [proc EXCEPT !.todo = Tail(@)]
    ELSE EndsWith(Failed(proc.line.kind))

\* The first error ends the handler.
GivenUp == EndsWith(Failed(proc.line.kind))

\* What was posted may be read by the server later.
MayComeLate ==
    \/ UNCHANGED late
    \/ /\ call.is = "sent" /\ proc.line.kind \in Posts
       /\ late' = late \cup {[no |-> proc.no, kind |-> proc.line.kind]}

\* Faulty: a post that failed is posted again.
CallFailsOrRepeats ==
    /\ call.is # "none"
    /\ call' = NoCall
    /\ MayComeLate
    /\ IF proc.line.kind \in Posts THEN UNCHANGED proc ELSE GivenUp
    /\ UNCHANGED <<place, pipe, asked, running, done, out, began>>

\* DEFAULT_TIMEOUT, a refused connection, a status that is not a success.
CallFails ==
    /\ call.is # "none"
    /\ call' = NoCall
    /\ MayComeLate
    /\ GivenUp
    /\ UNCHANGED <<place, pipe, asked, running, done, out, began>>

\* list_resources: what a project or a collection holds is next.
Walked ==
    LET x == call.to
        inside == SetToSeq(call.brings)
    IN  [proc EXCEPT !.todo = (IF x \in Collections THEN <<>> ELSE inside) \o Tail(@),
                     !.found = IF x \in Collections THEN @ \o inside ELSE @]

\* get_artifact_by_path: the artifact is looked up in the listing by its name,
\* and then read.
Resolved ==
    IF call.to \notin Artifacts
    THEN IF proc.line.about \in call.brings
         THEN [proc EXCEPT !.todo = <<proc.line.about>>]
         ELSE [proc EXCEPT !.pc = "writing", !.is = "error", !.todo = <<>>]
    ELSE [proc EXCEPT !.pc = "writing", !.is = "success", !.todo = <<>>]

Receive ==
    /\ call.is = "answered"
    /\ call' = NoCall
    /\ CASE proc.line.kind = "resources" -> proc' = Walked
         [] proc.line.kind = "path" -> proc' = Resolved
         [] OTHER -> EndsWith("success")
    /\ UNCHANGED <<place, pipe, asked, running, late, done, out, began>>

\* The walk is over.
Listed ==
    /\ proc.pc = "calling" /\ proc.todo = <<>> /\ call = NoCall
    /\ EndsWith("success")
    /\ UNCHANGED <<place, pipe, asked, call, running, late, done, out, began>>

\* What the process does by itself; a call is over at its deadline at last.
McpStep == Take \/ Write \/ SendCall \/ Receive \/ Listed \/ CallFails

McpNext ==
    \/ Ask \/ McpStep \/ Change
    \/ Serve \/ ServeTriage \/ ServeVerify \/ ServeLate
    \/ OtherVerifies \/ VerifyEnds

\* The server owes nothing: a verify may take for ever.
McpFairness == WF_mcpVars(McpStep)

McpSpec == McpInit /\ [][McpNext]_mcpVars /\ McpFairness

-----------------------------------------------------------------------------
(***************************************************************************)
(* Properties.                                                             *)
(***************************************************************************)

\* Lines are answered in their order, each request once and a notification not
\* at all (run_with_io and dispatch in transport.rs).
AnswersInOrder ==
    /\ \A i, j \in DOMAIN out : i < j => out[i].no < out[j].no
    /\ \A i \in DOMAIN out : out[i].kind # "notice" /\ out[i].no <= proc.no

\* A listing that succeeds holds every artifact that stayed where it was all
\* along, once, and none that was never there: it may miss one that moved or
\* hold it twice, but it is never cut short (list_resources in resources.rs).
ListingIsWhole ==
    proc.line.kind = "resources" /\ proc.pc = "writing" /\ proc.is = "success"
    => /\ \A a \in began.steady :
            Cardinality({i \in DOMAIN proc.found : proc.found[i] = a}) = 1
       /\ \A i \in DOMAIN proc.found : proc.found[i] \in began.ever

\* What the agent is told: a post that succeeded was carried out, and none is
\* carried out twice, though one that failed may have been or may be yet
\* (post_json in client.rs, handle_call_tool in transport.rs).
PostedOnce ==
    /\ \A n \in Lines : done[n] <= 1
    /\ \A i \in DOMAIN out :
        out[i].kind \in Posts /\ out[i].is = "success" => done[out[i].no] = 1
    /\ Cardinality(running) <= Threads

\* The agent is answered, whatever the server does
\* (DEFAULT_TIMEOUT in client.rs, run_with_io in transport.rs).
LinesAreHandled ==
    \A n \in Lines : asked >= n ~> (proc.no >= n /\ proc.pc = "reading")
=============================================================================
