----------------------------- MODULE LlmClient -----------------------------
(***************************************************************************)
(* One call of OpenAICompatibleClient (backend/llm/openai_compatible.py):  *)
(* the retries of a request, the attempts to parse a JSON answer, the      *)
(* structured-output probe, the streamed second chance, and the deadline   *)
(* some callers put around it.  What the provider answers is chosen freely *)
(* at each request.                                                        *)
(***************************************************************************)
EXTENDS Naturals

CONSTANT MaxRetries    \* settings.llm_max_retries, cut to 10 by the constructor

ASSUME LlmClientAssumption == MaxRetries \in Nat

VARIABLE call

\* value: text that holds a JSON value; prose: other text; empty: no usable content;
\* broken: a transport error, a 5xx or a malformed body; refused: 401 or 403
Reply == {"value", "prose", "empty", "broken", "refused"}
CallMode == {"text", "writer", "json", "schemaJson"}
ErrorKind == {"none", "http", "json", "empty"}
Outcome == {"none", "text", "json", "httpError", "jsonError", "emptyError", "deadline"}
CallRow == [mode : CallMode, guarded : BOOLEAN,
            phase : {"probe", "request", "stream", "stalled", "done"},
            parse : Nat, try : Nat, requests : Nat, refusals : Nat, waited : Nat,
            lastError : ErrorKind, parseError : BOOLEAN, outcome : Outcome]

WantsJson == call.mode \in {"json", "schemaJson"}
\* generate_text_fallback asks with max_retries=1
Retries == IF call.mode = "writer" THEN 1 ELSE MaxRetries
PowerOfTwo[k \in Nat] == IF k = 0 THEN 1 ELSE 2 * PowerOfTwo[k - 1]
\* the sleep before the next attempt, 2 ** attempt, in retry_backoff_seconds
Backoff(k) == PowerOfTwo[k]

NewCall(mode, guarded) ==
  [mode |-> mode, guarded |-> guarded,
   phase |-> IF mode = "schemaJson" THEN "probe" ELSE "request",
   parse |-> 0, try |-> 0, requests |-> 0, refusals |-> 0, waited |-> 0,
   lastError |-> "none", parseError |-> FALSE, outcome |-> "none"]

\* the stages of the pipeline and the builder of a chapter's prompt call under a deadline; a
\* handler that approves a chapter by hand or drafts outlines does not
CallInit == \E mode \in CallMode, guarded \in BOOLEAN :
              /\ mode \in {"text", "writer"} => guarded
              /\ call = NewCall(mode, guarded)

Asked(r) == [call EXCEPT !.requests = @ + 1,
                         !.refusals = IF r = "refused" THEN @ + 1 ELSE @]
Ends(c, outcome) == [c EXCEPT !.phase = "done", !.outcome = outcome]

\* generate_json with a schema: one request, whose failure of any kind only falls through
Probe ==
  /\ call.phase = "probe"
  /\ \E r \in Reply :
       call' = IF r = "value" THEN Ends(Asked(r), "json")
               ELSE [Asked(r) EXCEPT !.phase = "request",
                       !.lastError = IF r = "empty" THEN "empty"
                                     ELSE IF r = "prose" THEN "json" ELSE "http"]

(* Mutant: a refused request is repeated like any other. *)
RepeatRefused ==
  /\ call.phase = "request"
  /\ \E r \in {"broken", "refused"} :
       call' = IF call.try >= Retries THEN Ends(Asked(r), "httpError")
               ELSE [Asked(r) EXCEPT !.try = @ + 1, !.waited = @ + Backoff(call.try)]

\* _generate_with_request_options: an error is retried unless the key was refused
RequestFails ==
  /\ call.phase = "request"
  /\ \E r \in {"broken", "refused"} :
       call' = IF r = "refused" \/ call.try >= Retries THEN Ends(Asked(r), "httpError")
               ELSE [Asked(r) EXCEPT !.try = @ + 1, !.waited = @ + Backoff(call.try)]

(* Mutant: an answer that does not parse starts the retries over. *)
ParseWithoutLimit ==
  /\ call.phase = "request"
  /\ \E r \in {"value", "prose"} :
       call' = IF ~ WantsJson THEN Ends(Asked(r), "text")
               ELSE IF r = "value" THEN Ends(Asked(r), "json")
               ELSE IF call.parse > MaxRetries
                    THEN Ends([Asked(r) EXCEPT !.parseError = TRUE], "jsonError")
               ELSE [Asked(r) EXCEPT !.parse = @ + 1, !.try = 0, !.parseError = TRUE,
                                     !.lastError = "json", !.waited = @ + Backoff(call.parse)]

\* an answer; generate_json asks again for one that does not parse, with new retries
RequestAnswered ==
  /\ call.phase = "request"
  /\ \E r \in {"value", "prose"} :
       call' = IF ~ WantsJson THEN Ends(Asked(r), "text")
               ELSE IF r = "value" THEN Ends(Asked(r), "json")
               ELSE IF call.parse >= MaxRetries
                    THEN Ends([Asked(r) EXCEPT !.parseError = TRUE, !.lastError = "json"],
                              "jsonError")
               ELSE [Asked(r) EXCEPT !.parse = @ + 1, !.try = 0, !.parseError = TRUE,
                                     !.lastError = "json", !.waited = @ + Backoff(call.parse)]

\* LLMEmptyResponseError is no reason to repeat a request; generate_json asks for a stream
RequestEmpty ==
  /\ call.phase = "request"
  /\ call' = IF WantsJson THEN [Asked("empty") EXCEPT !.phase = "stream", !.lastError = "empty"]
             ELSE Ends(Asked("empty"), "emptyError")

(* Mutant: the stream's own error hides that an answer did not parse. *)
StreamErrorWins ==
  /\ call.phase = "stream"
  /\ \E r \in Reply :
       call' = Ends(Asked(r),
                    IF r = "value" THEN "json"
                    ELSE IF r \in {"broken", "refused"} THEN "httpError"
                    ELSE IF r = "prose" THEN "jsonError" ELSE "emptyError")

\* _collect_stream_text, once; its HTTP errors propagate
StreamAnswered ==
  /\ call.phase = "stream"
  /\ \E r \in Reply :
       call' = Ends(Asked(r),
                    IF r = "value" THEN "json"
                    ELSE IF r \in {"broken", "refused"} THEN "httpError"
                    ELSE IF r = "prose" \/ call.parseError THEN "jsonError"
                    ELSE "emptyError")

\* stream_generate sets no timeout at all
StreamStalls ==
  /\ call.phase = "stream"
  /\ call' = [Asked("empty") EXCEPT !.phase = "stalled"]

(* Mutant: the deadline is given to the requests only, not to the stream. *)
DeadlineOfRequests ==
  /\ call.guarded /\ call.phase \in {"probe", "request"}
  /\ call' = Ends(call, "deadline")

\* _run_cancelable_with_pause_support or asyncio.wait_for
Deadline ==
  /\ call.guarded /\ call.phase # "done"
  /\ call' = Ends(call, "deadline")

Answered == Probe \/ RequestFails \/ RequestAnswered \/ RequestEmpty \/ StreamAnswered
CallNext == Answered \/ StreamStalls \/ Deadline
CallFairness == WF_call(Answered) /\ WF_call(Deadline)
CallSpec == CallInit /\ [][CallNext]_call /\ CallFairness

(****************************** properties ********************************)

CallTypeOK == call \in CallRow

\* What a call may cost: retries and parse attempts multiply, but a call of whatever mode
\* stops after the probe, R+1 requests for each of R+1 parse attempts and one stream, and
\* sleeps no longer than the backoffs of those; a plain call sends R+1 requests, the
\* writer's two.
RequestBound ==
  LET R == MaxRetries
      Sleeps == Backoff(R) - 1   \* the sum of the backoffs of R retries
      probe == IF call.mode = "schemaJson" THEN 1 ELSE 0
  IN  IF WantsJson
      THEN /\ call.requests <= probe + (R + 1) * (R + 1) + 1
           /\ call.waited <= (R + 2) * Sleeps
      ELSE /\ call.requests <= Retries + 1
           /\ call.waited < Backoff(Retries)

\* A refused key ends the call: no request follows a 401 or 403, but for the plain request
\* after a refused probe, and the caller is told of an HTTP error, never of bad JSON.
RefusalEndsCall ==
  /\ call.refusals <= IF call.mode = "schemaJson" THEN 2 ELSE 1
  /\ call.refusals > 0 /\ call.phase # "done" => call.mode = "schemaJson" /\ call.refusals = 1
  /\ call.refusals = 2 => call.outcome = "httpError"

\* The error a caller sees names the failure its fallback depends on: an answer that was
\* read and did not parse, of a request or of the stream (the schema probe's is dropped), is
\* reported as bad JSON unless a later request failed outright, so the prompt builder falls
\* back instead of failing the request.
BadJsonReported ==
  call.phase = "done" /\ call.outcome = "emptyError" => ~ call.parseError

\* Every call ends that has a deadline or whose stream does not hang.
CallEnds == <>(call.phase = "done" \/ (call.phase = "stalled" /\ ~ call.guarded))
=============================================================================
