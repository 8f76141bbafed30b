---------------------------- MODULE LlmAdapters ----------------------------
(***************************************************************************)
(* What one request to a language model comes to: the adapters of          *)
(* crates/provreq-model/src/llm/adapters, three that speak HTTP and one    *)
(* that runs the claude program, and the kinds of AdapterError that the    *)
(* health tracker tells apart.                                             *)
(***************************************************************************)
Families == {"openai-compatible", "anthropic", "gemini"}

\* build_adapter: the program stands in for the anthropic family only.
Adapters == Families \cup {"claude"}

\* How an HTTP request ends before there is a status; with a status, of each
\* class one or more; with a success, by its body: a text, none, what is not
\* JSON, or one that is still arriving at the deadline.
NoStatus == {"deadline", "connect", "builder", "broken off"}
Statuses == {"400", "401", "403", "404", "408", "429", "500", "529"}
Bodies == {"text", "no text", "not JSON", "late"}

\* How a run of the program ends: not started, not over at the deadline, its
\* input refused though it runs on, its exit and what it wrote.
Runs == {"not found", "deadline", "input fails", "not logged in", "fails",
         "error result", "text", "no text", "not JSON"}

Exchanges(a) == IF a = "claude" THEN Runs ELSE NoStatus \cup Statuses \cup Bodies

\* classify_reqwest_error.
OfTransport(x) ==
    CASE x = "deadline" -> "Timeout"
      [] x = "builder" -> "Auth"
      [] OTHER -> "Connection"

\* status_to_error.
OfStatus(x) ==
    CASE x \in {"401", "403"} -> "Auth"
      [] x = "404" -> "ModelNotFound"
      [] x = "429" -> "RateLimited"
      [] x \in {"500", "529"} -> "ServerError"
      [] OTHER -> "Rejected"

\* The body is read under the same deadline, and fails as a body.
OfBody(x) == IF x = "text" THEN "response" ELSE "Malformed"

\* ClaudeCodeAdapter::send_prompt; a child that exits before it read its input
\* is judged by its exit.
OfRun(x) ==
    CASE x = "deadline" -> "Timeout"
      [] x \in {"not found", "input fails"} -> "Connection"
      [] x = "not logged in" -> "Auth"
      [] x \in {"fails", "error result"} -> "Rejected"
      [] OTHER -> OfBody(x)

\* send_prompt.
Result(a, x) ==
    CASE a = "claude" -> OfRun(x)
      [] x \in NoStatus -> OfTransport(x)
      [] x \in Statuses -> OfStatus(x)
      [] OTHER -> OfBody(x)

\* AdapterError::kind.
KindOf(e) ==
    IF e \in {"Timeout", "RateLimited", "ServerError"} THEN "transient" ELSE "permanent"

Failures(a) == {Result(a, x) : x \in Exchanges(a)} \ {"response"}
=============================================================================
