---------------------------- MODULE SourceClient ----------------------------
(***************************************************************************)
(* One fetch of a source client: the loop that the three adapters share    *)
(* (fetchWithRetry).  A request is answered by a body, by a body beyond    *)
(* the ceiling, by another status, or not at all.                          *)
(***************************************************************************)
EXTENDS Naturals, Sequences

CONSTANTS
  MaxAttempts,  \* requests a fetch may issue
  NoBody        \* no response

VARIABLES
  attempt,   \* the request under way, or the last one
  waiting,   \* between two requests
  outcome,   \* how the fetch ended: "none" until it has
  body,      \* the bytes it returned
  answers    \* what came of every request of this fetch (history)

vars == <<attempt, waiting, outcome, body, answers>>

\* "failed" is a network error, a body that breaks off or a server error.
Retryable == {"failed"}

\* The class an answer that ends the fetch is given.
ClassOf(answer) ==
  CASE answer = "too large" -> "response-too-large"
    [] answer = "other status" -> "schema-drift"

Init ==
  /\ attempt = 0 /\ waiting = FALSE /\ outcome = "idle"
  /\ body = NoBody /\ answers = <<>>

\* FetchRaw is called: the first request is on its way.
Fetch ==
  /\ attempt' = 1 /\ waiting' = FALSE /\ outcome' = "none"
  /\ body' = NoBody /\ answers' = <<>>

Answered(answer) ==
  /\ outcome = "none" /\ ~waiting
  /\ answers' = Append(answers, answer)

\* The client waits, except after the last attempt, and returns that error.
Retry ==
  /\ Answered("failed")
  /\ waiting' = (attempt < MaxAttempts)
  /\ outcome' = IF attempt < MaxAttempts THEN "none" ELSE "retryable-transport"
  /\ UNCHANGED <<attempt, body>>

\* The back-off has passed; nothing but the clock ends it.
Resume ==
  /\ waiting
  /\ waiting' = FALSE /\ attempt' = attempt + 1
  /\ UNCHANGED <<outcome, body, answers>>

\* Mutant of GiveUp: what was refused is asked for once more.
GiveUpLater(answer) ==
  /\ Answered(answer) /\ answer \in {"too large", "other status"}
  /\ waiting' = (attempt < MaxAttempts)
  /\ outcome' = IF attempt < MaxAttempts THEN "none" ELSE ClassOf(answer)
  /\ UNCHANGED <<attempt, body>>

\* A body beyond the ceiling, whatever its status, or a status that is neither
\* 200 nor a server error: no further request.
GiveUp(answer) ==
  /\ Answered(answer) /\ answer \in {"too large", "other status"}
  /\ outcome' = ClassOf(answer)
  /\ UNCHANGED <<attempt, waiting, body>>

Receive(b) ==
  /\ Answered("ok")
  /\ outcome' = "ok" /\ body' = b
  /\ UNCHANGED <<attempt, waiting>>

\* The call is over and its locals are gone.
Forget ==
  /\ attempt' = 0 /\ waiting' = FALSE /\ outcome' = "idle"
  /\ body' = NoBody /\ answers' = <<>>

Step(Bodies) ==
  \/ Retry
  \/ \E answer \in {"too large", "other status"} : GiveUp(answer)
  \/ \E b \in Bodies : Receive(b)
  \/ Resume

-----------------------------------------------------------------------------

TypeOK ==
  /\ attempt \in 0..MaxAttempts
  /\ waiting \in BOOLEAN
  /\ outcome \in {"idle", "none", "ok", "retryable-transport",
                  "response-too-large", "schema-drift"}
  /\ answers \in Seq(Retryable \cup {"too large", "other status", "ok"})
=============================================================================
