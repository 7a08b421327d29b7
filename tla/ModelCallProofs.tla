------------------------- MODULE ModelCallProofs --------------------------
(***************************************************************************)
(* What is sent to a model, what the call may cost and how its answer is   *)
(* read: the components that surround one call of a model, each for every  *)
(* value of its constants.                                                 *)
(*                                                                         *)
(* LlmClient: a refused key ends the call, bad JSON is reported as such,   *)
(* and the requests and the sleeps of a call stay below the product of its *)
(* retries and its attempts to parse, for every number of retries; every   *)
(* step of a call leaves it fewer.                                         *)
(* JsonCandidate: a JSON value wrapped in prose of any length is cut out   *)
(* exactly. ContextBudget: the running total of a message is the sum of    *)
(* its layers, and the message is let go only when it fits or no layer is  *)
(* left to cut, for every size of every layer and all limits; every cut    *)
(* leaves fewer.                                                           *)
(*                                                                         *)
(* None of the three needs the others; they are one module because they    *)
(* are one path of the program.  The last part is about MCWriting, which   *)
(* runs them side by side with the writer's stream and the live view.      *)
(***************************************************************************)
EXTENDS MCWriting, WriterStreamProofs, EventStreamProofs

(******************************* LlmClient *******************************)

(* A call: RefusalEndsCall and BadJsonReported hold of every step together, once it is     *)
(* known where a refused call stands.  CallShape leaves the type of what a call has waited  *)
(* open: it is bounded further down, with its type. *)

\* the record of a call, whatever it has waited
CallShape ==
  call \in [mode : CallMode, guarded : BOOLEAN,
            phase : {"probe", "request", "stream", "stalled", "done"},
            parse : Nat, try : Nat, requests : Nat, refusals : Nat, waited : {call.waited},
            lastError : ErrorKind, parseError : BOOLEAN, outcome : Outcome]

\* RefusalEndsCall as an inductive invariant
Refusals ==
  /\ call.phase = "probe" => call.mode = "schemaJson" /\ call.refusals = 0
  /\ call.phase \in {"request", "stream", "stalled"}
       => call.refusals = 0 \/ (call.mode = "schemaJson" /\ call.refusals = 1)
  /\ call.phase = "done" =>
       /\ call.refusals <= IF call.mode = "schemaJson" THEN 2 ELSE 1
       /\ call.refusals = 2 => call.outcome = "httpError"

\* BadJsonReported as an inductive invariant: only a JSON call parses
JsonErrors ==
  /\ call.parseError => WantsJson
  /\ BadJsonReported

CallInv == CallShape /\ Refusals /\ JsonErrors

\* what Asked leaves alone and what it counts
LEMMA AskedFields ==
  ASSUME CallShape, NEW r \in Reply
  PROVE  /\ Asked(r) \in [mode : {call.mode}, guarded : {call.guarded}, phase : {call.phase},
                          parse : {call.parse}, try : {call.try}, requests : Nat,
                          refusals : {IF r = "refused" THEN call.refusals + 1 ELSE call.refusals},
                          waited : {call.waited}, lastError : {call.lastError},
                          parseError : {call.parseError}, outcome : {call.outcome}]
<1> DEFINE n == IF r = "refused" THEN call.refusals + 1 ELSE call.refusals
<1>1. call.requests + 1 \in Nat
  BY DEF CallShape
<1>2. Asked(r) = [call EXCEPT !.requests = call.requests + 1, !.refusals = n]
  BY DEF Asked
<1> HIDE DEF n
<1>3. Asked(r) \in [mode : {call.mode}, guarded : {call.guarded}, phase : {call.phase},
                    parse : {call.parse}, try : {call.try}, requests : Nat,
                    refusals : {n}, waited : {call.waited}, lastError : {call.lastError},
                    parseError : {call.parseError}, outcome : {call.outcome}]
  BY <1>1, <1>2 DEF CallShape
<1>4. QED
  BY <1>3 DEF n

LEMMA UnrefusedFields ==
  ASSUME CallShape, NEW r \in Reply, r # "refused"
  PROVE  Asked(r) \in [mode : {call.mode}, guarded : {call.guarded}, phase : {call.phase},
                       parse : {call.parse}, try : {call.try}, requests : Nat,
                       refusals : {call.refusals}, waited : {call.waited},
                       lastError : {call.lastError}, parseError : {call.parseError},
                       outcome : {call.outcome}]
  BY AskedFields

\* a call that ends keeps its record but for the phase and the outcome
LEMMA EndsShape ==
  ASSUME CallShape, NEW r \in Reply, NEW o \in Outcome, call' = Ends(Asked(r), o)
  PROVE  /\ CallShape'
         /\ call'.phase = "done" /\ call'.outcome = o
         /\ call'.mode = call.mode /\ call'.parseError = call.parseError
         /\ call'.refusals = IF r = "refused" THEN call.refusals + 1 ELSE call.refusals
<1> DEFINE n == IF r = "refused" THEN call.refusals + 1 ELSE call.refusals
<1>1. n \in Nat
  BY DEF CallShape
<1>2. Asked(r) \in [mode : {call.mode}, guarded : {call.guarded}, phase : {call.phase},
                    parse : {call.parse}, try : {call.try}, requests : Nat,
                    refusals : {n}, waited : {call.waited}, lastError : {call.lastError},
                    parseError : {call.parseError}, outcome : {call.outcome}]
  BY AskedFields
<1> HIDE DEF n
<1>3. call' = [Asked(r) EXCEPT !.phase = "done", !.outcome = o]
  BY DEF Ends
<1>4. call' \in [mode : {call.mode}, guarded : {call.guarded}, phase : {"done"},
                    parse : {call.parse}, try : {call.try}, requests : Nat,
                    refusals : {n}, waited : {call.waited}, lastError : {call.lastError},
                    parseError : {call.parseError}, outcome : {o}]
  BY <1>2, <1>3
<1>5. QED
  BY <1>1, <1>4 DEF CallShape, n

\* the record of a call that goes on: it keeps its mode and its outcome
GoneOn(r, phases, parseErrors) ==
  [mode : {call.mode}, guarded : {call.guarded}, phase : phases, parse : Nat, try : Nat,
   requests : Nat, refusals : {IF r = "refused" THEN call.refusals + 1 ELSE call.refusals},
   waited : {call'.waited}, lastError : ErrorKind, parseError : parseErrors,
   outcome : {call.outcome}]

LEMMA GoesOnShape ==
  ASSUME CallShape, NEW r \in Reply,
         NEW phase \in {"request", "stream", "stalled"}, NEW parseError \in BOOLEAN,
         call' \in GoneOn(r, {phase}, {parseError})
  PROVE  /\ CallShape'
         /\ call'.phase = phase /\ call'.parseError = parseError
         /\ call'.mode = call.mode /\ call'.outcome = call.outcome
         /\ call'.refusals = IF r = "refused" THEN call.refusals + 1 ELSE call.refusals
<1> DEFINE n == IF r = "refused" THEN call.refusals + 1 ELSE call.refusals
<1>1. n \in Nat
  BY DEF CallShape
<1>2. call' \in [mode : {call.mode}, guarded : {call.guarded}, phase : {phase}, parse : Nat,
                 try : Nat, requests : Nat, refusals : {n}, waited : {call'.waited},
                 lastError : ErrorKind, parseError : {parseError}, outcome : {call.outcome}]
  BY DEF GoneOn
<1> HIDE DEF n
<1>3. QED
  BY <1>1, <1>2 DEF CallShape, n

LEMMA ProbeKeeps == ASSUME CallInv, Probe PROVE CallInv'
<1>1. PICK r \in Reply :
        call' = IF r = "value" THEN Ends(Asked(r), "json")
                ELSE [Asked(r) EXCEPT !.phase = "request",
                        !.lastError = IF r = "empty" THEN "empty"
                                      ELSE IF r = "prose" THEN "json" ELSE "http"]
  BY DEF Probe
<1>2. CASE r = "value"
  <2>1. call' = Ends(Asked(r), "json") /\ "json" \in Outcome
    BY <1>1, <1>2 DEF Outcome
  <2>2. QED
    BY <1>2, <2>1, EndsShape DEF CallInv, Refusals, JsonErrors, BadJsonReported, Probe, WantsJson
<1>3. CASE r # "value"
  <2> DEFINE e == IF r = "empty" THEN "empty" ELSE IF r = "prose" THEN "json" ELSE "http"
  <2>1. call' = [Asked(r) EXCEPT !.phase = "request", !.lastError = e]
    BY <1>1, <1>3
  <2>2. e \in ErrorKind
    BY DEF ErrorKind
  <2> HIDE DEF e
  <2>3. call' \in GoneOn(r, {"request"}, {call.parseError})
    BY <2>1, <2>2, AskedFields DEF CallInv, CallShape, GoneOn
  <2>4. call.parseError \in BOOLEAN
    BY DEF CallInv, CallShape
  <2>5. QED
    BY <2>3, <2>4, GoesOnShape
       DEF CallInv, CallShape, Refusals, JsonErrors, BadJsonReported, Probe, WantsJson
<1>4. QED
  BY <1>2, <1>3

LEMMA RequestFailsKeeps == ASSUME CallInv, RequestFails PROVE CallInv'
<1>1. PICK r \in {"broken", "refused"} :
        call' = IF r = "refused" \/ call.try >= Retries THEN Ends(Asked(r), "httpError")
                ELSE [Asked(r) EXCEPT !.try = @ + 1, !.waited = @ + Backoff(call.try)]
  BY DEF RequestFails
<1>2. r \in Reply /\ "httpError" \in Outcome
  BY DEF Reply, Outcome
<1>3. CASE r = "refused" \/ call.try >= Retries
  <2>1. call' = Ends(Asked(r), "httpError")
    BY <1>1, <1>3
  <2>2. QED
    BY <1>2, <2>1, EndsShape
       DEF CallInv, CallShape, Refusals, JsonErrors, BadJsonReported, RequestFails, WantsJson
<1>4. CASE ~ (r = "refused" \/ call.try >= Retries)
  <2> DEFINE w == Asked(r).waited + Backoff(call.try)
  <2>1. call' = [Asked(r) EXCEPT !.try = Asked(r).try + 1, !.waited = w]
    BY <1>1, <1>4
  <2> HIDE DEF w
  <2>2. call' \in GoneOn(r, {"request"}, {call.parseError})
    <3>1. r # "refused" /\ call.phase = "request" /\ call.try + 1 \in Nat
      BY <1>4 DEF RequestFails, CallInv, CallShape
    <3>2. QED
      BY <1>2, <2>1, <3>1, UnrefusedFields DEF CallInv, CallShape, GoneOn
  <2>3. call.parseError \in BOOLEAN
    BY DEF CallInv, CallShape
  <2>4. QED
    BY <1>2, <1>4, <2>2, <2>3, GoesOnShape
       DEF CallInv, CallShape, Refusals, JsonErrors, BadJsonReported, RequestFails, WantsJson
<1>5. QED
  BY <1>3, <1>4

LEMMA RequestAnsweredKeeps == ASSUME CallInv, RequestAnswered PROVE CallInv'
<1>1. PICK r \in {"value", "prose"} :
        call' = IF ~ WantsJson THEN Ends(Asked(r), "text")
                ELSE IF r = "value" THEN Ends(Asked(r), "json")
                ELSE IF call.parse >= MaxRetries
                     THEN Ends([Asked(r) EXCEPT !.parseError = TRUE, !.lastError = "json"],
                               "jsonError")
                ELSE [Asked(r) EXCEPT !.parse = @ + 1, !.try = 0, !.parseError = TRUE,
                                      !.lastError = "json", !.waited = @ + Backoff(call.parse)]
  BY DEF RequestAnswered
<1>2. r # "refused" /\ call.phase = "request" /\ call.parse + 1 \in Nat
  BY DEF RequestAnswered, CallInv, CallShape
<1>3. r \in Reply /\ {"text", "json", "jsonError"} \subseteq Outcome /\ "json" \in ErrorKind
  BY DEF Reply, Outcome, ErrorKind
<1>4. CASE ~ WantsJson \/ r = "value"
  <2>1. PICK o \in {"text", "json"} : call' = Ends(Asked(r), o)
    BY <1>1, <1>4
  <2>2. QED
    BY <1>2, <1>3, <2>1, EndsShape
       DEF CallInv, CallShape, Refusals, JsonErrors, BadJsonReported, WantsJson
<1>5. CASE WantsJson /\ r # "value" /\ call.parse >= MaxRetries
  <2>1. call' = [Asked(r) EXCEPT !.parseError = TRUE, !.lastError = "json", !.phase = "done",
                                 !.outcome = "jsonError"]
    BY <1>1, <1>5 DEF Ends
  <2>2. call' \in [mode : {call.mode}, guarded : {call.guarded}, phase : {"done"},
                   parse : {call.parse}, try : {call.try}, requests : Nat,
                   refusals : {call.refusals}, waited : {call.waited}, lastError : {"json"},
                   parseError : {TRUE}, outcome : {"jsonError"}]
    BY <1>2, <1>3, <2>1, UnrefusedFields DEF CallInv
  <2>3. /\ CallShape'
        /\ call'.phase = "done" /\ call'.outcome = "jsonError" /\ call'.mode = call.mode
        /\ call'.refusals = call.refusals
    BY <1>3, <2>2 DEF CallInv, CallShape
  <2>4. QED
    BY <1>2, <1>5, <2>3
       DEF CallInv, CallShape, Refusals, JsonErrors, BadJsonReported, WantsJson
<1>6. CASE WantsJson /\ r # "value" /\ ~ (call.parse >= MaxRetries)
  <2> DEFINE w == Asked(r).waited + Backoff(call.parse)
  <2>1. call' = [Asked(r) EXCEPT !.parse = Asked(r).parse + 1, !.try = 0, !.parseError = TRUE,
                                 !.lastError = "json", !.waited = w]
    BY <1>1, <1>6
  <2> HIDE DEF w
  <2>2. call' \in GoneOn(r, {"request"}, {TRUE})
    BY <1>2, <1>3, <2>1, UnrefusedFields DEF CallInv, GoneOn
  <2>3. QED
    BY <1>2, <1>3, <1>6, <2>2, GoesOnShape
       DEF CallInv, CallShape, Refusals, JsonErrors, BadJsonReported, WantsJson
<1>7. QED
  BY <1>4, <1>5, <1>6

LEMMA RequestEmptyKeeps == ASSUME CallInv, RequestEmpty PROVE CallInv'
<1>1. /\ {"empty", "refused"} \subseteq Reply
      /\ "emptyError" \in Outcome /\ "empty" \in ErrorKind
  BY DEF Reply, Outcome, ErrorKind
<1>2. CASE WantsJson
  <2>1. call' = [Asked("empty") EXCEPT !.phase = "stream", !.lastError = "empty"]
    BY <1>2 DEF RequestEmpty
  <2>2. call' \in GoneOn("empty", {"stream"}, {call.parseError})
    BY <1>1, <2>1, AskedFields DEF CallInv, CallShape, GoneOn
  <2>3. call.parseError \in BOOLEAN
    BY DEF CallInv, CallShape
  <2>4. QED
    BY <1>1, <1>2, <2>2, <2>3, GoesOnShape
       DEF CallInv, CallShape, Refusals, JsonErrors, BadJsonReported, RequestEmpty, WantsJson
<1>3. CASE ~ WantsJson
  <2>1. call' = Ends(Asked("empty"), "emptyError")
    BY <1>3 DEF RequestEmpty
  <2>2. QED
    BY <1>1, <1>3, <2>1, EndsShape
       DEF CallInv, CallShape, Refusals, JsonErrors, BadJsonReported, RequestEmpty, WantsJson
<1>4. QED
  BY <1>2, <1>3

LEMMA StreamAnsweredKeeps == ASSUME CallInv, StreamAnswered PROVE CallInv'
<1>1. PICK r \in Reply :
        call' = Ends(Asked(r), IF r = "value" THEN "json"
                               ELSE IF r \in {"broken", "refused"} THEN "httpError"
                               ELSE IF r = "prose" \/ call.parseError THEN "jsonError"
                               ELSE "emptyError")
  BY DEF StreamAnswered
<1> DEFINE o == IF r = "value" THEN "json"
                ELSE IF r \in {"broken", "refused"} THEN "httpError"
                ELSE IF r = "prose" \/ call.parseError THEN "jsonError" ELSE "emptyError"
<1>2. o \in Outcome /\ call' = Ends(Asked(r), o)
  BY <1>1 DEF Outcome
<1>3. /\ r = "refused" => o = "httpError"
      /\ o = "emptyError" => ~ call.parseError
  OBVIOUS
<1> HIDE DEF o
<1>4. QED
  BY <1>2, <1>3, EndsShape
     DEF CallInv, CallShape, Refusals, JsonErrors, BadJsonReported, StreamAnswered, WantsJson

LEMMA StreamStallsKeeps == ASSUME CallInv, StreamStalls PROVE CallInv'
<1>1. call' = [Asked("empty") EXCEPT !.phase = "stalled"] /\ call.phase = "stream"
  BY DEF StreamStalls
<1>2. "empty" \in Reply /\ call.parseError \in BOOLEAN
  BY DEF Reply, CallInv, CallShape
<1>3. call' \in GoneOn("empty", {"stalled"}, {call.parseError})
  BY <1>1, <1>2, AskedFields DEF CallInv, CallShape, GoneOn
<1>4. QED
  BY <1>1, <1>2, <1>3, GoesOnShape
     DEF CallInv, CallShape, Refusals, JsonErrors, BadJsonReported, WantsJson

LEMMA DeadlineKeeps == ASSUME CallInv, Deadline PROVE CallInv'
<1>1. call' = [call EXCEPT !.phase = "done", !.outcome = "deadline"] /\ call.phase # "done"
  BY DEF Deadline, Ends
<1>2. "deadline" \in Outcome
  BY DEF Outcome
<1>3. call' \in [mode : {call.mode}, guarded : {call.guarded}, phase : {"done"},
                 parse : {call.parse}, try : {call.try}, requests : {call.requests},
                 refusals : {call.refusals}, waited : {call.waited},
                 lastError : {call.lastError}, parseError : {call.parseError},
                 outcome : {"deadline"}]
  BY <1>1 DEF CallInv, CallShape
<1>4. /\ CallShape'
      /\ call'.phase = "done" /\ call'.outcome = "deadline" /\ call'.mode = call.mode
      /\ call'.refusals = call.refusals /\ call'.parseError = call.parseError
  BY <1>2, <1>3 DEF CallInv, CallShape
<1>5. call.refusals \in {0, 1} /\ (call.refusals = 1 => call.mode = "schemaJson")
  BY <1>1 DEF CallInv, CallShape, Refusals
<1>6. QED
  BY <1>4, <1>5 DEF CallInv, Refusals, JsonErrors, BadJsonReported, WantsJson

LEMMA CallStarts == CallInit => CallInv
<1> SUFFICES ASSUME CallInit PROVE CallInv
  OBVIOUS
<1>1. PICK mode \in CallMode, guarded \in BOOLEAN : call = NewCall(mode, guarded)
  BY DEF CallInit
<1>2. /\ CallShape
      /\ call.phase = IF mode = "schemaJson" THEN "probe" ELSE "request"
      /\ call.mode = mode /\ call.refusals = 0 /\ call.parseError = FALSE
  BY <1>1 DEF NewCall, CallShape, ErrorKind, Outcome
<1>3. QED
  BY <1>2 DEF CallInv, Refusals, JsonErrors, BadJsonReported

LEMMA CallSteps == CallInv /\ [CallNext]_call => CallInv'
<1> SUFFICES ASSUME CallInv, [CallNext]_call PROVE CallInv'
  OBVIOUS
<1>1. CASE UNCHANGED call
  BY <1>1 DEF CallInv, CallShape, Refusals, JsonErrors, BadJsonReported, WantsJson
<1>2. QED
  BY <1>1, ProbeKeeps, RequestFailsKeeps, RequestAnsweredKeeps, RequestEmptyKeeps,
     StreamAnsweredKeeps, StreamStallsKeeps, DeadlineKeeps
     DEF CallNext, Answered

LEMMA CallInvariant == CallSpec => []CallInv
BY CallStarts, CallSteps, PTL DEF CallSpec

(* A refused key ends the call: after a 401 or 403 nothing is sent but the plain request   *)
(* that follows a refused probe, and then the caller is told of an HTTP error (_should_retry *)
(* of openai_compatible.py), for every number of retries. *)
THEOREM RefusedKeyEndsCall == CallSpec => []RefusalEndsCall
<1>1. CallInv => RefusalEndsCall
  BY DEF CallInv, CallShape, Refusals, RefusalEndsCall
<1>2. QED
  BY <1>1, CallInvariant, PTL

(* A call that ends with "empty" has read no answer, but its probe's, that failed to       *)
(* parse: a fallback that  *)
(* depends on bad JSON (the prompt builder's) is never kept from it. *)
THEOREM BadJsonIsReported == CallSpec => []BadJsonReported
<1>1. CallInv => BadJsonReported
  BY DEF CallInv, JsonErrors
<1>2. QED
  BY <1>1, CallInvariant, PTL

(***************************************************************************)
(* What a call costs.  The backoffs are powers of two, a recursive         *)
(* function: that the recursion has a solution, and what is used of it, is *)
(* proved from its approximations up to n, by way of the least number that *)
(* would break the claim.                                                  *)
(***************************************************************************)

\* a set of numbers that is not empty has a least one
LEMMA LeastNumber == ASSUME NEW T \in SUBSET Nat, T # {} PROVE \E k \in T : \A j \in T : j >= k
<1> DEFINE Below == {ss \in Nat \X Nat : ss[1] < ss[2]}
<1>1. OpToRel(<, Nat) = Below
  BY DEF OpToRel
<1>2. IsWellFoundedOn(Below, Nat)
  BY <1>1, NatLessThanWellFounded
<1>3. PICK k \in T : \A j \in T : ~ (<<j, k>> \in Below)
  BY <1>2, WFMin
<1>4. ASSUME NEW j \in T PROVE j >= k
  <2>1. SUFFICES ASSUME j < k PROVE FALSE
    OBVIOUS
  <2>2. <<j, k>> \in Nat \X Nat /\ <<j, k>>[1] < <<j, k>>[2]
    BY <2>1
  <2>3. <<j, k>> \in Below
    BY <2>2, Zenon
  <2>4. QED
    BY <1>3, <2>3
<1>5. QED
  BY <1>4

\* a set of numbers that holds 0 and the successor of each of its members holds them all
LEMMA EveryNumber ==
  ASSUME NEW T \in SUBSET Nat, 0 \in T, \A n \in T : n + 1 \in T PROVE T = Nat
<1>1. SUFFICES ASSUME Nat \ T # {} PROVE FALSE
  OBVIOUS
<1>2. PICK k \in Nat \ T : \A j \in Nat \ T : j >= k
  BY <1>1, LeastNumber
<1>3. PICK n \in Nat : k = n + 1
  <2>1. k - 1 \in Nat /\ k = (k - 1) + 1
    BY <1>2
  <2>2. QED
    BY <2>1
<1>4. n \in T
  BY <1>2, <1>3
<1>5. QED
  BY <1>2, <1>3, <1>4

\* the powers up to the n-th
Powers(f, n) == /\ f \in [0..n -> Nat] /\ f[0] = 1
                /\ \A i \in Nat : i < n => f[i + 1] = 2 * f[i]

LEMMA PowersExist == ASSUME NEW n \in Nat PROVE \E f : Powers(f, n)
<1> DEFINE T == {m \in Nat : \E f : Powers(f, m)}
<1>1. Powers([i \in 0..0 |-> 1], 0)
  BY DEF Powers
<1>2. ASSUME NEW m \in Nat, NEW f, Powers(f, m) PROVE \E g : Powers(g, m + 1)
  <2> DEFINE g == [i \in 0..m + 1 |-> IF i = m + 1 THEN 2 * f[m] ELSE f[i]]
  <2>1. /\ f \in [0..m -> Nat] /\ f[0] = 1 /\ \A i \in Nat : i < m => f[i + 1] = 2 * f[i]
    BY <1>2 DEF Powers
  <2>2. g \in [0..m + 1 -> Nat] /\ g[0] = 1
    BY <2>1
  <2>3. ASSUME NEW i \in Nat, i < m + 1 PROVE g[i + 1] = 2 * g[i]
    <3>1. CASE i = m
      BY <2>1, <3>1
    <3>2. CASE i < m
      <4>1. i \in 0..m /\ i + 1 \in 0..m /\ f[i + 1] = 2 * f[i] /\ i + 1 # m + 1 /\ i # m + 1
        BY <2>1, <3>2
      <4>2. g[i + 1] = f[i + 1] /\ g[i] = f[i]
        BY <4>1
      <4>3. QED
        BY <4>1, <4>2
    <3>3. QED
      BY <2>3, <3>1, <3>2
  <2>4. QED
    BY <2>2, <2>3 DEF Powers
<1> HIDE DEF Powers
<1>3. 0 \in T /\ \A m \in T : m + 1 \in T
  BY <1>1, <1>2
<1>4. T = Nat
  BY <1>3, EveryNumber
<1>5. QED
  BY <1>4

LEMMA PowersAgree ==
  ASSUME NEW f, NEW g, NEW n \in Nat, NEW m \in Nat, Powers(f, n), Powers(g, m),
         NEW k \in Nat, k <= n, k <= m
  PROVE  f[k] = g[k]
<1> DEFINE T == {i \in Nat : i <= n /\ i <= m => f[i] = g[i]}
<1>1. 0 \in T
  BY DEF Powers
<1>2. ASSUME NEW i \in T PROVE i + 1 \in T
  BY DEF Powers
<1>3. T = Nat
  BY <1>1, <1>2, EveryNumber
<1>4. QED
  BY <1>3

\* the recursion has its solution, so it defines the powers
LEMMA PowerRecursion ==
  PowerOfTwo = [k \in Nat |-> IF k = 0 THEN 1 ELSE 2 * PowerOfTwo[k - 1]]
<1> DEFINE Upto(n) == CHOOSE f : Powers(f, n)
           p == [n \in Nat |-> Upto(n)[n]]
<1>1. ASSUME NEW n \in Nat PROVE Powers(Upto(n), n)
  BY PowersExist
<1> HIDE DEF Upto
<1>2. p[0] = 1
  BY <1>1 DEF Powers
<1>3. ASSUME NEW k \in Nat, k # 0 PROVE p[k] = 2 * p[k - 1]
  <2>1. PICK j \in Nat : k = j + 1 /\ j = k - 1
    <3>1. k - 1 \in Nat /\ k = (k - 1) + 1
      BY <1>3
    <3>2. QED
      BY <3>1
  <2>2. Upto(k)[j + 1] = 2 * Upto(k)[j]
    BY <1>1, <2>1 DEF Powers
  <2>3. Upto(k)[j] = Upto(j)[j]
    BY <1>1, <2>1, PowersAgree
  <2>4. QED
    BY <2>1, <2>2, <2>3
<1>4. p = [k \in Nat |-> IF k = 0 THEN 1 ELSE 2 * p[k - 1]]
  BY <1>2, <1>3
<1> HIDE DEF p
<1>5. \E f : f = [k \in Nat |-> IF k = 0 THEN 1 ELSE 2 * f[k - 1]]
  BY <1>4
<1>6. QED
  BY <1>5 DEF PowerOfTwo

LEMMA Doubling == PowerOfTwo[0] = 1 /\ \A k \in Nat : PowerOfTwo[k + 1] = 2 * PowerOfTwo[k]
<1>1. PowerOfTwo[0] = 1
  BY PowerRecursion
<1>2. ASSUME NEW k \in Nat PROVE PowerOfTwo[k + 1] = 2 * PowerOfTwo[k]
  <2>1. k + 1 \in Nat /\ k + 1 # 0 /\ (k + 1) - 1 = k
    OBVIOUS
  <2>2. QED
    BY <2>1, PowerRecursion
<1>3. QED
  BY <1>1, <1>2
\* the backoffs are numbers, and grow
LEMMA BackoffTypes == ASSUME NEW k \in Nat PROVE Backoff(k) \in Nat /\ Backoff(k) >= 1
<1> DEFINE T == {n \in Nat : Backoff(n) \in Nat /\ Backoff(n) >= 1}
<1>1. 0 \in T
  BY Doubling DEF Backoff
<1>2. ASSUME NEW n \in T PROVE n + 1 \in T
  <2>1. Backoff(n + 1) = 2 * Backoff(n)
    BY Doubling DEF Backoff
  <2>2. QED
    BY <2>1
<1>3. T = Nat
  BY <1>1, <1>2, EveryNumber
<1>4. QED
  BY <1>3

LEMMA BackoffGrows ==
  ASSUME NEW k \in Nat, NEW j \in 0..k PROVE Backoff(j) <= Backoff(k)
<1> DEFINE T == {n \in Nat : \A i \in 0..n : Backoff(i) <= Backoff(n)}
<1>1. 0 \in T
  BY BackoffTypes
<1>2. ASSUME NEW n \in T PROVE n + 1 \in T
  <2>1. SUFFICES ASSUME NEW i \in 0..n + 1 PROVE Backoff(i) <= Backoff(n + 1)
    OBVIOUS
  <2>2. Backoff(n + 1) = 2 * Backoff(n) /\ Backoff(n) \in Nat
    BY Doubling, BackoffTypes DEF Backoff
  <2>3. CASE i = n + 1
    BY <2>3, <2>2, BackoffTypes
  <2>4. CASE i \in 0..n
    <3>1. Backoff(i) \in Nat /\ Backoff(i) <= Backoff(n)
      BY <1>2, <2>4, BackoffTypes
    <3>2. QED
      BY <2>2, <3>1
  <2>5. QED
    BY <2>3, <2>4
<1>3. T = Nat
  BY <1>1, <1>2, EveryNumber
<1>4. QED
  BY <1>3

(* The cost of a call so far, in terms of how far it has come.  Every parse attempt may take *)
(* R+1 requests, and wait for the backoffs of R retries and one of its own.  *)
R == MaxRetries
SleepsOf(k) == Backoff(k) - 1
ProbeCost == IF call.mode = "schemaJson" THEN 1 ELSE 0

JsonCost ==
  /\ call.phase = "probe" => call.parse = 0 /\ call.try = 0 /\ call.requests = 0
                             /\ call.waited = 0 /\ call.mode = "schemaJson"
  /\ call.phase = "request" =>
       /\ call.parse <= R /\ call.try <= R
       /\ call.requests <= ProbeCost + call.parse * (R + 1) + call.try
       /\ call.waited <= SleepsOf(call.parse) + call.parse * SleepsOf(R) + SleepsOf(call.try)
  /\ call.phase = "stream" => call.requests <= ProbeCost + (R + 1) * (R + 1)
  /\ call.phase \in {"stalled", "done"} => call.requests <= ProbeCost + (R + 1) * (R + 1) + 1
  /\ call.phase \in {"stream", "stalled", "done"} => call.waited <= (R + 2) * SleepsOf(R)

PlainCost ==
  /\ call.phase \in {"request", "done"}
  /\ call.phase = "request" => /\ call.try <= Retries /\ call.requests <= call.try
                               /\ call.waited <= SleepsOf(call.try)
  /\ call.phase = "done" => /\ call.requests <= Retries + 1
                            /\ call.waited <= SleepsOf(Retries)

CostInv ==
  /\ CallInv /\ call.waited \in Nat
  /\ IF WantsJson THEN JsonCost ELSE PlainCost

LEMMA RetriesTypes == R \in Nat /\ Retries \in Nat /\ (WantsJson => Retries = R)
  BY LlmClientAssumption DEF R, Retries, WantsJson

\* the products of the bounds
LEMMA Products ==
  ASSUME NEW p \in Nat, NEW r \in Nat, NEW s \in Nat, p <= r
  PROVE  /\ p * s \in Nat /\ p * s <= r * s /\ (p + 1) * s = p * s + s
         /\ (r + 2) * s = r * s + s + s
<1>1. (p + 1) * s = p * s + s /\ (r + 2) * s = r * s + s + s /\ p * s \in Nat
  OBVIOUS
<1>2. PICK d \in Nat : r = p + d
  <2>1. r - p \in Nat /\ r = p + (r - p)
    OBVIOUS
  <2>2. QED
    BY <2>1
<1>3. r * s = p * s + d * s /\ d * s \in Nat
  BY <1>2
<1>4. QED
  BY <1>1, <1>3

\* the bounds where a call that asks for JSON leaves its requests
LEMMA BoundsOfParses ==
  ASSUME NEW p \in Nat, NEW t \in Nat, p <= R, t <= R
  PROVE  /\ SleepsOf(p) \in Nat /\ SleepsOf(t) \in Nat /\ SleepsOf(R) \in Nat
         /\ SleepsOf(p + 1) = SleepsOf(p) + Backoff(p)
         /\ SleepsOf(t + 1) = SleepsOf(t) + Backoff(t)
         /\ SleepsOf(0) = 0 /\ Backoff(p) \in Nat /\ Backoff(t) \in Nat
         /\ SleepsOf(t) <= SleepsOf(R)
         /\ p * SleepsOf(R) \in Nat /\ p * (R + 1) \in Nat
         /\ (p + 1) * SleepsOf(R) = p * SleepsOf(R) + SleepsOf(R)
         /\ (p + 1) * (R + 1) = p * (R + 1) + (R + 1)
         /\ p * (R + 1) + t + 1 <= (R + 1) * (R + 1)
         /\ SleepsOf(p) + p * SleepsOf(R) + SleepsOf(t) <= (R + 2) * SleepsOf(R)
<1>1. R \in Nat /\ p \in 0..R /\ t \in 0..R
  BY RetriesTypes
<1>2. PICK bp \in Nat, bt \in Nat, br \in Nat :
        /\ bp = Backoff(p) /\ bt = Backoff(t) /\ br = Backoff(R)
        /\ bp >= 1 /\ bt >= 1 /\ br >= 1 /\ bp <= br /\ bt <= br
  BY <1>1, BackoffTypes, BackoffGrows
<1>3. Backoff(p + 1) = 2 * bp /\ Backoff(t + 1) = 2 * bt /\ Backoff(0) = 1
  BY <1>2, Doubling DEF Backoff
<1>4. PICK s \in Nat : s = br - 1 /\ s = SleepsOf(R)
  BY <1>2 DEF SleepsOf
<1>5. /\ p * s \in Nat /\ p * s <= R * s /\ (p + 1) * s = p * s + s
      /\ (R + 2) * s = R * s + s + s
  BY <1>1, Products
<1>6. /\ p * (R + 1) \in Nat /\ p * (R + 1) <= R * (R + 1)
      /\ (p + 1) * (R + 1) = p * (R + 1) + (R + 1)
      /\ (R + 1) * (R + 1) = R * (R + 1) + (R + 1)
  <2>1. PICK n \in Nat : n = R + 1
    BY <1>1
  <2>2. p * n \in Nat /\ p * n <= R * n /\ (p + 1) * n = p * n + n /\ (R + 1) * n = R * n + n
    BY <1>1, Products
  <2>3. QED
    BY <2>1, <2>2
<1>7. /\ SleepsOf(p) = bp - 1 /\ SleepsOf(t) = bt - 1 /\ SleepsOf(p + 1) = 2 * bp - 1
      /\ SleepsOf(t + 1) = 2 * bt - 1 /\ SleepsOf(0) = 0
  BY <1>2, <1>3 DEF SleepsOf
<1>8. PICK ps \in Nat, rs \in Nat : ps = p * s /\ rs = R * s /\ ps <= rs
  BY <1>1, <1>5
<1>9. (bp - 1) + ps + (bt - 1) <= rs + s + s
  BY <1>2, <1>4, <1>8
<1>10. p * (R + 1) + t + 1 <= (R + 1) * (R + 1)
  <2>1. PICK x \in Nat, y \in Nat : x = p * (R + 1) /\ y = R * (R + 1) /\ x <= y
    BY <1>1, <1>6
  <2>2. x + t + 1 <= y + (R + 1)
    BY <1>1, <2>1
  <2>3. QED
    BY <1>6, <2>1, <2>2
<1>11. SleepsOf(p) + p * SleepsOf(R) + SleepsOf(t) <= (R + 2) * SleepsOf(R)
  BY <1>4, <1>5, <1>7, <1>8, <1>9
<1>12. QED
  BY <1>2, <1>4, <1>5, <1>6, <1>7, <1>10, <1>11

\* what a step makes of the numbers of a call
NowAt(phase, parse, try, requests, waited) ==
  /\ call'.phase = phase /\ call'.mode = call.mode
  /\ call'.parse = parse /\ call'.try = try
  /\ call'.requests = requests /\ call'.waited = waited

LEMMA NumbersOfCall ==
  ASSUME CallInv
  PROVE  /\ call.parse \in Nat /\ call.try \in Nat /\ call.requests \in Nat
         /\ call.mode \in CallMode /\ call.phase \in {"probe", "request", "stream", "stalled", "done"}
         /\ DOMAIN call = {"mode", "guarded", "phase", "parse", "try", "requests", "refusals",
                           "waited", "lastError", "parseError", "outcome"}
  BY DEF CallInv, CallShape

LEMMA AskedNumbers ==
  ASSUME CallInv, NEW r
  PROVE  /\ Asked(r).requests = call.requests + 1 /\ Asked(r).mode = call.mode
         /\ Asked(r).parse = call.parse /\ Asked(r).try = call.try
         /\ Asked(r).waited = call.waited /\ Asked(r).phase = call.phase
         /\ DOMAIN Asked(r) = DOMAIN call
  BY DEF Asked, CallInv, CallShape

LEMMA EndsNumbers ==
  ASSUME CallInv, NEW r, NEW o, call' = Ends(Asked(r), o)
  PROVE  NowAt("done", call.parse, call.try, call.requests + 1, call.waited)
  BY AskedNumbers, NumbersOfCall DEF Ends, NowAt

\* whether a call asks for JSON does not change
LEMMA SameMode ==
  ASSUME call'.mode = call.mode
  PROVE  /\ WantsJson' <=> WantsJson
         /\ Retries' = Retries /\ ProbeCost' = ProbeCost
  BY DEF WantsJson, Retries, ProbeCost

\* the numbers of a call that asks for JSON and waits for an answer (parse, try, requests,
\* waited, the probe), the products and sums that bound them, and what becomes of those when
\* it asks again
Bounds(p, t, n, w, pc, pr, sp, st, sr, ps, bp, bt, rr, rs) ==
  /\ p = call.parse /\ t = call.try /\ n = call.requests /\ w = call.waited
  /\ pc = ProbeCost /\ p <= R /\ t <= R
  /\ pr = p * (R + 1) /\ sp = SleepsOf(p) /\ st = SleepsOf(t) /\ sr = SleepsOf(R)
  /\ ps = p * SleepsOf(R) /\ bp = Backoff(p) /\ bt = Backoff(t)
  /\ n <= pc + pr + t /\ w <= sp + ps + st
  /\ sp + bp = SleepsOf(p + 1) /\ st + bt = SleepsOf(t + 1) /\ SleepsOf(0) = 0
  /\ st <= sr
  /\ ps + sr = (p + 1) * SleepsOf(R) /\ pr + (R + 1) = (p + 1) * (R + 1)
  /\ rr = (R + 1) * (R + 1) /\ pr + t + 1 <= rr
  /\ rs = (R + 2) * SleepsOf(R) /\ sp + ps + st <= rs

LEMMA RequestNumbers ==
  ASSUME CostInv, WantsJson, call.phase = "request"
  PROVE  \E p \in Nat, t \in Nat, n \in Nat, w \in Nat, pc \in Nat, pr \in Nat, sp \in Nat,
            st \in Nat, sr \in Nat, ps \in Nat, bp \in Nat, bt \in Nat, rr \in Nat, rs \in Nat :
           Bounds(p, t, n, w, pc, pr, sp, st, sr, ps, bp, bt, rr, rs)
<1>1. /\ R \in Nat /\ call.parse \in Nat /\ call.try \in Nat
      /\ call.requests \in Nat /\ call.waited \in Nat /\ ProbeCost \in Nat
  BY RetriesTypes, NumbersOfCall DEF CostInv, ProbeCost
<1>2. PICK p \in Nat, t \in Nat, n \in Nat, w \in Nat, pc \in Nat :
        p = call.parse /\ t = call.try /\ n = call.requests /\ w = call.waited /\ pc = ProbeCost
  BY <1>1
<1>3. /\ p <= R /\ t <= R /\ n <= pc + p * (R + 1) + t
      /\ w <= SleepsOf(p) + p * SleepsOf(R) + SleepsOf(t)
  BY <1>2 DEF CostInv, JsonCost
<1>4. /\ SleepsOf(p) \in Nat /\ SleepsOf(t) \in Nat /\ SleepsOf(R) \in Nat
      /\ SleepsOf(p + 1) = SleepsOf(p) + Backoff(p)
      /\ SleepsOf(t + 1) = SleepsOf(t) + Backoff(t)
      /\ SleepsOf(0) = 0 /\ Backoff(p) \in Nat /\ Backoff(t) \in Nat
      /\ SleepsOf(t) <= SleepsOf(R)
      /\ p * SleepsOf(R) \in Nat /\ p * (R + 1) \in Nat
      /\ (p + 1) * SleepsOf(R) = p * SleepsOf(R) + SleepsOf(R)
      /\ (p + 1) * (R + 1) = p * (R + 1) + (R + 1)
      /\ p * (R + 1) + t + 1 <= (R + 1) * (R + 1)
      /\ SleepsOf(p) + p * SleepsOf(R) + SleepsOf(t) <= (R + 2) * SleepsOf(R)
  BY <1>3, BoundsOfParses
<1>5. (R + 1) * (R + 1) \in Nat /\ (R + 2) * SleepsOf(R) \in Nat
  BY <1>1, <1>4
<1>6. PICK pr \in Nat, sp \in Nat, st \in Nat, sr \in Nat, ps \in Nat, bp \in Nat, bt \in Nat,
           rr \in Nat, rs \in Nat :
        /\ pr = p * (R + 1) /\ sp = SleepsOf(p) /\ st = SleepsOf(t) /\ sr = SleepsOf(R)
        /\ ps = p * SleepsOf(R) /\ bp = Backoff(p) /\ bt = Backoff(t)
        /\ rr = (R + 1) * (R + 1) /\ rs = (R + 2) * SleepsOf(R)
  BY <1>4, <1>5
<1>7. /\ n <= pc + pr + t /\ w <= sp + ps + st
      /\ sp + bp = SleepsOf(p + 1) /\ st + bt = SleepsOf(t + 1) /\ SleepsOf(0) = 0
      /\ st <= sr
      /\ ps + sr = (p + 1) * SleepsOf(R) /\ pr + (R + 1) = (p + 1) * (R + 1)
      /\ pr + t + 1 <= rr /\ sp + ps + st <= rs
  BY <1>3, <1>4, <1>6
<1>8. Bounds(p, t, n, w, pc, pr, sp, st, sr, ps, bp, bt, rr, rs)
  BY <1>2, <1>3, <1>6, <1>7 DEF Bounds
\* the witnesses, a few at a time
<1>9. \E a \in Nat, b \in Nat, c \in Nat, d \in Nat, e \in Nat :
        Bounds(p, t, n, w, pc, pr, sp, st, sr, a, b, c, d, e)
  BY <1>8
<1>10. \E f \in Nat, g \in Nat, h \in Nat, i \in Nat,
           a \in Nat, b \in Nat, c \in Nat, d \in Nat, e \in Nat :
        Bounds(p, t, n, w, pc, f, g, h, i, a, b, c, d, e)
  BY <1>9
<1>11. QED
  BY <1>10

\* a request that is the call's last
LEMMA LastRequest ==
  ASSUME CostInv, call.phase \in {"request", "stream"},
         NowAt("done", call.parse, call.try, call.requests + 1, call.waited)
  PROVE  IF WantsJson' THEN JsonCost' ELSE PlainCost'
<1>1. /\ R \in Nat /\ Retries \in Nat /\ call.parse \in Nat /\ call.try \in Nat
      /\ call.requests \in Nat /\ call.waited \in Nat /\ ProbeCost \in Nat
  BY RetriesTypes, NumbersOfCall DEF CostInv, ProbeCost
<1>2. (WantsJson' <=> WantsJson) /\ Retries' = Retries /\ ProbeCost' = ProbeCost /\ R' = R
  BY SameMode DEF NowAt, R
<1>3. CASE WantsJson /\ call.phase = "request"
  <2>1. PICK p \in Nat, t \in Nat, n \in Nat, w \in Nat, pc \in Nat, pr \in Nat, sp \in Nat,
             st \in Nat, sr \in Nat, ps \in Nat, bp \in Nat, bt \in Nat, rr \in Nat, rs \in Nat :
          Bounds(p, t, n, w, pc, pr, sp, st, sr, ps, bp, bt, rr, rs)
    BY <1>3, RequestNumbers
  <2>2. n + 1 <= pc + rr + 1 /\ w <= rs
    BY <2>1 DEF Bounds
  <2>3. QED
    BY <1>2, <1>3, <2>1, <2>2 DEF Bounds, NowAt, JsonCost, SleepsOf, R
<1>4. CASE WantsJson /\ call.phase = "stream"
  <2>1. PICK y \in Nat : y = (R + 1) * (R + 1)
    BY <1>1
  <2>2. call.requests <= ProbeCost + y /\ call.waited <= (R + 2) * SleepsOf(R)
    BY <1>4, <2>1 DEF CostInv, JsonCost
  <2>3. call.requests + 1 <= ProbeCost + y + 1
    BY <1>1, <2>2
  <2>4. QED
    BY <1>2, <1>4, <2>1, <2>2, <2>3 DEF NowAt, JsonCost, SleepsOf, R
<1>5. CASE ~ WantsJson
  <2>1. /\ call.phase = "request" /\ call.try <= Retries /\ call.requests <= call.try
        /\ call.waited <= SleepsOf(call.try)
    BY <1>5 DEF CostInv, PlainCost
  <2>2. SleepsOf(call.try) <= SleepsOf(Retries) /\ SleepsOf(call.try) \in Nat
        /\ SleepsOf(Retries) \in Nat
    <3>1. call.try \in 0..Retries
      BY <1>1, <2>1
    <3>2. /\ Backoff(call.try) \in Nat /\ Backoff(call.try) >= 1 /\ Backoff(Retries) \in Nat
          /\ Backoff(call.try) <= Backoff(Retries)
      BY <1>1, <3>1, BackoffTypes, BackoffGrows
    <3>3. QED
      BY <3>2 DEF SleepsOf
  <2>3. call.requests + 1 <= Retries + 1 /\ call.waited <= SleepsOf(Retries)
    BY <1>1, <2>1, <2>2
  <2>4. QED
    BY <1>2, <1>5, <2>3 DEF NowAt, PlainCost, SleepsOf
<1>6. QED
  BY <1>3, <1>4, <1>5

\* another request of the same attempt to parse
LEMMA NextTry ==
  ASSUME CostInv, call.phase = "request", call.try < Retries,
         NowAt("request", call.parse, call.try + 1, call.requests + 1,
               call.waited + Backoff(call.try))
  PROVE  call'.waited \in Nat /\ IF WantsJson' THEN JsonCost' ELSE PlainCost'
<1>1. (WantsJson' <=> WantsJson) /\ Retries' = Retries /\ ProbeCost' = ProbeCost /\ R' = R
  BY SameMode DEF NowAt, R
<1>2. CASE WantsJson
  <2>1. PICK p \in Nat, t \in Nat, n \in Nat, w \in Nat, pc \in Nat, pr \in Nat, sp \in Nat,
             st \in Nat, sr \in Nat, ps \in Nat, bp \in Nat, bt \in Nat, rr \in Nat, rs \in Nat :
          Bounds(p, t, n, w, pc, pr, sp, st, sr, ps, bp, bt, rr, rs)
    BY <1>2, RequestNumbers
  <2>2. t + 1 <= R
    BY <1>2, <2>1, RetriesTypes DEF Bounds
  <2>3. /\ w + bt \in Nat /\ w + bt <= sp + ps + SleepsOf(t + 1)
        /\ n + 1 <= pc + pr + (t + 1)
    BY <2>1 DEF Bounds
  <2>4. JsonCost'
    BY <1>1, <2>1, <2>2, <2>3 DEF Bounds, NowAt, JsonCost, SleepsOf, R
  <2>5. QED
    BY <1>1, <1>2, <2>1, <2>3, <2>4 DEF Bounds, NowAt
<1>3. CASE ~ WantsJson
  <2>1. PICK t \in Nat, n \in Nat, w \in Nat, r \in Nat :
          /\ t = call.try /\ n = call.requests /\ w = call.waited /\ r = Retries
          /\ n <= t /\ w <= SleepsOf(t) /\ t < r
    BY <1>3, NumbersOfCall, RetriesTypes DEF CostInv, PlainCost
  <2>2. PICK bt \in Nat : bt = Backoff(t) /\ Backoff(t + 1) = 2 * bt
    BY BackoffTypes, Doubling DEF Backoff
  <2>3. /\ t + 1 <= r /\ n + 1 <= t + 1 /\ w + bt \in Nat /\ w + bt <= SleepsOf(t + 1)
    BY <2>1, <2>2 DEF SleepsOf
  <2>4. QED
    BY <1>1, <1>3, <2>1, <2>2, <2>3 DEF NowAt, PlainCost, SleepsOf
<1>4. QED
  BY <1>2, <1>3

\* a request of the next attempt to parse
LEMMA NextParse ==
  ASSUME CostInv, WantsJson, call.phase = "request", call.parse < R,
         NowAt("request", call.parse + 1, 0, call.requests + 1,
               call.waited + Backoff(call.parse))
  PROVE  call'.waited \in Nat /\ WantsJson' /\ JsonCost'
<1>1. (WantsJson' <=> WantsJson) /\ ProbeCost' = ProbeCost /\ R' = R
  BY SameMode DEF NowAt, R
<1>2. PICK p \in Nat, t \in Nat, n \in Nat, w \in Nat, pc \in Nat, pr \in Nat, sp \in Nat,
           st \in Nat, sr \in Nat, ps \in Nat, bp \in Nat, bt \in Nat, rr \in Nat, rs \in Nat :
        Bounds(p, t, n, w, pc, pr, sp, st, sr, ps, bp, bt, rr, rs)
  BY RequestNumbers
<1>3. /\ w + bp \in Nat /\ w + bp <= (sp + bp) + (ps + sr) + 0
      /\ n + 1 <= pc + (pr + (R + 1)) + 0 /\ p + 1 <= R /\ 0 <= R
  BY <1>2, RetriesTypes DEF Bounds
<1>4. /\ w + bp <= SleepsOf(p + 1) + (p + 1) * SleepsOf(R) + SleepsOf(0)
      /\ n + 1 <= pc + (p + 1) * (R + 1) + 0
  BY <1>2, <1>3 DEF Bounds
<1>5. JsonCost'
  BY <1>1, <1>2, <1>3, <1>4 DEF Bounds, NowAt, JsonCost, SleepsOf, R
<1>6. QED
  BY <1>1, <1>2, <1>3, <1>5 DEF Bounds, NowAt

\* the stream that follows an empty answer
LEMMA NextStream ==
  ASSUME CostInv, WantsJson, call.phase = "request",
         NowAt("stream", call.parse, call.try, call.requests + 1, call.waited)
  PROVE  call'.waited \in Nat /\ WantsJson' /\ JsonCost'
<1>1. (WantsJson' <=> WantsJson) /\ ProbeCost' = ProbeCost /\ R' = R
  BY SameMode DEF NowAt, R
<1>2. PICK p \in Nat, t \in Nat, n \in Nat, w \in Nat, pc \in Nat, pr \in Nat, sp \in Nat,
           st \in Nat, sr \in Nat, ps \in Nat, bp \in Nat, bt \in Nat, rr \in Nat, rs \in Nat :
        Bounds(p, t, n, w, pc, pr, sp, st, sr, ps, bp, bt, rr, rs)
  BY RequestNumbers
<1>3. n + 1 <= pc + rr /\ w <= rs
  BY <1>2 DEF Bounds
<1>4. JsonCost'
  BY <1>1, <1>2, <1>3 DEF Bounds, NowAt, JsonCost, SleepsOf, R
<1>5. QED
  BY <1>1, <1>2, <1>4 DEF Bounds, NowAt

\* what the bounds are made of
LEMMA Limits ==
  \E r \in Nat, m \in Nat, s \in Nat, x \in Nat, y \in Nat :
    r = R /\ m = R + 1 /\ s = SleepsOf(R) /\ x = m * m /\ y = (R + 2) * s
<1>1. PICK r \in Nat : r = R
  BY RetriesTypes
<1>2. PICK b \in Nat : b = Backoff(r) /\ b >= 1
  BY BackoffTypes
<1>3. PICK s \in Nat : s = SleepsOf(R)
  <2>1. b - 1 \in Nat /\ b - 1 = SleepsOf(R)
    BY <1>1, <1>2 DEF SleepsOf
  <2>2. QED
    BY <2>1
<1>4. PICK m \in Nat : m = r + 1
  OBVIOUS
<1>5. m * m \in Nat /\ (r + 2) * s \in Nat
  OBVIOUS
<1>6. QED
  BY <1>1, <1>3, <1>4, <1>5

LEMMA ProbeCosts == ASSUME CostInv, Probe PROVE CostInv'
<1>1. CallInv' /\ CallInv
  BY ProbeKeeps DEF CostInv
<1>2. /\ call.phase = "probe" /\ call.mode = "schemaJson" /\ WantsJson /\ ProbeCost = 1
      /\ call.parse = 0 /\ call.try = 0 /\ call.requests = 0 /\ call.waited = 0
  BY DEF CostInv, CallInv, Refusals, JsonCost, Probe, WantsJson, ProbeCost
<1>3. NowAt("done", 0, 0, 1, 0) \/ NowAt("request", 0, 0, 1, 0)
  <2>1. PICK r \in Reply :
          call' = IF r = "value" THEN Ends(Asked(r), "json")
                  ELSE [Asked(r) EXCEPT !.phase = "request",
                          !.lastError = IF r = "empty" THEN "empty"
                                        ELSE IF r = "prose" THEN "json" ELSE "http"]
    BY DEF Probe
  <2>2. CASE r = "value"
    <3>1. call' = Ends(Asked(r), "json")
      BY <2>1, <2>2
    <3>2. QED
      BY <1>1, <1>2, <3>1, EndsNumbers
  <2>3. CASE r # "value"
    <3> DEFINE e == IF r = "empty" THEN "empty" ELSE IF r = "prose" THEN "json" ELSE "http"
    <3>1. call' = [Asked(r) EXCEPT !.phase = "request", !.lastError = e]
      BY <2>1, <2>3
    <3> HIDE DEF e
    <3>2. QED
      BY <1>1, <1>2, <3>1, AskedNumbers, NumbersOfCall DEF NowAt
  <2>4. QED
    BY <2>2, <2>3
<1>4. WantsJson' /\ ProbeCost' = 1 /\ R' = R
  BY <1>2, <1>3, SameMode DEF NowAt, R
<1>5. PICK r \in Nat, m \in Nat, s \in Nat, x \in Nat, y \in Nat :
        r = R /\ m = R + 1 /\ s = SleepsOf(R) /\ x = m * m /\ y = (R + 2) * s
  BY Limits
<1>6. 1 <= 1 + x + 1 /\ 0 <= y /\ 0 <= r
  BY <1>5
<1>7. SleepsOf(0) = 0 /\ 0 * (r + 1) = 0 /\ 0 * s = 0
  BY <1>5, Doubling DEF SleepsOf, Backoff
<1>8. call'.waited \in Nat /\ JsonCost'
  <2>1. CASE NowAt("done", 0, 0, 1, 0)
    BY <1>4, <1>5, <1>6, <2>1 DEF NowAt, JsonCost, SleepsOf, R
  <2>2. CASE NowAt("request", 0, 0, 1, 0)
    <3>1. /\ call'.phase = "request" /\ call'.parse = 0 /\ call'.try = 0
          /\ call'.requests = 1 /\ call'.waited = 0 /\ 0 <= R
      BY <1>5, <1>6, <2>2 DEF NowAt
    <3>2. 1 <= 1 + 0 * (R + 1) + 0 /\ 0 <= SleepsOf(0) + 0 * SleepsOf(R) + SleepsOf(0)
      BY <1>5, <1>7
    <3>3. QED
      BY <1>4, <3>1, <3>2 DEF JsonCost, SleepsOf, R
  <2>3. QED
    BY <1>3, <2>1, <2>2
<1>9. QED
  BY <1>1, <1>4, <1>8 DEF CostInv

LEMMA RequestFailsCosts == ASSUME CostInv, RequestFails PROVE CostInv'
<1>1. CallInv' /\ CallInv /\ call.phase = "request"
  BY RequestFailsKeeps DEF CostInv, RequestFails
<1>2. PICK r \in {"broken", "refused"} :
        call' = IF r = "refused" \/ call.try >= Retries THEN Ends(Asked(r), "httpError")
                ELSE [Asked(r) EXCEPT !.try = @ + 1, !.waited = @ + Backoff(call.try)]
  BY DEF RequestFails
<1>3. CASE r = "refused" \/ call.try >= Retries
  <2>1. call' = Ends(Asked(r), "httpError")
    BY <1>2, <1>3
  <2>2. NowAt("done", call.parse, call.try, call.requests + 1, call.waited)
    BY <1>1, <2>1, EndsNumbers
  <2>3. QED
    BY <1>1, <2>2, LastRequest DEF CostInv, NowAt
<1>4. CASE ~ (r = "refused" \/ call.try >= Retries)
  <2> DEFINE b == Backoff(call.try)
  <2>1. call' = [Asked(r) EXCEPT !.try = Asked(r).try + 1, !.waited = Asked(r).waited + b]
    BY <1>2, <1>4
  <2> HIDE DEF b
  <2>2. NowAt("request", call.parse, call.try + 1, call.requests + 1, call.waited + b)
    BY <1>1, <2>1, AskedNumbers, NumbersOfCall DEF NowAt
  <2>3. call.try < Retries
    BY <1>1, <1>4, RetriesTypes, NumbersOfCall
  <2>4. QED
    BY <1>1, <2>2, <2>3, NextTry DEF CostInv, b
<1>5. QED
  BY <1>3, <1>4

LEMMA RequestAnsweredCosts == ASSUME CostInv, RequestAnswered PROVE CostInv'
<1>1. CallInv' /\ CallInv /\ call.phase = "request"
  BY RequestAnsweredKeeps DEF CostInv, RequestAnswered
<1>2. PICK r \in {"value", "prose"} :
        call' = IF ~ WantsJson THEN Ends(Asked(r), "text")
                ELSE IF r = "value" THEN Ends(Asked(r), "json")
                ELSE IF call.parse >= MaxRetries
                     THEN Ends([Asked(r) EXCEPT !.parseError = TRUE, !.lastError = "json"],
                               "jsonError")
                ELSE [Asked(r) EXCEPT !.parse = @ + 1, !.try = 0, !.parseError = TRUE,
                                      !.lastError = "json", !.waited = @ + Backoff(call.parse)]
  BY DEF RequestAnswered
<1>3. CASE ~ WantsJson \/ r = "value" \/ call.parse >= MaxRetries
  <2>1. NowAt("done", call.parse, call.try, call.requests + 1, call.waited)
    <3>1. CASE ~ WantsJson \/ r = "value"
      <4>1. PICK o \in {"text", "json"} : call' = Ends(Asked(r), o)
        BY <1>2, <3>1
      <4>2. QED
        BY <1>1, <4>1, EndsNumbers
    <3>2. CASE WantsJson /\ r # "value" /\ call.parse >= MaxRetries
      <4>1. call' = [Asked(r) EXCEPT !.parseError = TRUE, !.lastError = "json",
                                     !.phase = "done", !.outcome = "jsonError"]
        BY <1>2, <3>2 DEF Ends
      <4>2. QED
        BY <1>1, <4>1, AskedNumbers, NumbersOfCall DEF NowAt
    <3>3. QED
      BY <1>3, <3>1, <3>2
  <2>2. QED
    BY <1>1, <2>1, LastRequest DEF CostInv, NowAt
<1>4. CASE WantsJson /\ r # "value" /\ ~ (call.parse >= MaxRetries)
  <2> DEFINE b == Backoff(call.parse)
  <2>1. call' = [Asked(r) EXCEPT !.parse = Asked(r).parse + 1, !.try = 0, !.parseError = TRUE,
                                 !.lastError = "json", !.waited = Asked(r).waited + b]
    BY <1>2, <1>4
  <2> HIDE DEF b
  <2>2. NowAt("request", call.parse + 1, 0, call.requests + 1, call.waited + b)
    BY <1>1, <2>1, AskedNumbers, NumbersOfCall DEF NowAt
  <2>3. call.parse < R
    BY <1>1, <1>4, RetriesTypes, NumbersOfCall DEF R
  <2>4. QED
    BY <1>1, <1>4, <2>2, <2>3, NextParse DEF CostInv, b
<1>5. QED
  BY <1>3, <1>4

LEMMA RequestEmptyCosts == ASSUME CostInv, RequestEmpty PROVE CostInv'
<1>1. CallInv' /\ CallInv /\ call.phase = "request"
  BY RequestEmptyKeeps DEF CostInv, RequestEmpty
<1>2. CASE WantsJson
  <2>1. call' = [Asked("empty") EXCEPT !.phase = "stream", !.lastError = "empty"]
    BY <1>2 DEF RequestEmpty
  <2>2. NowAt("stream", call.parse, call.try, call.requests + 1, call.waited)
    BY <1>1, <2>1, AskedNumbers, NumbersOfCall DEF NowAt
  <2>3. QED
    BY <1>1, <1>2, <2>2, NextStream DEF CostInv
<1>3. CASE ~ WantsJson
  <2>1. call' = Ends(Asked("empty"), "emptyError")
    BY <1>3 DEF RequestEmpty
  <2>2. NowAt("done", call.parse, call.try, call.requests + 1, call.waited)
    BY <1>1, <2>1, EndsNumbers
  <2>3. QED
    BY <1>1, <2>2, LastRequest DEF CostInv, NowAt
<1>4. QED
  BY <1>2, <1>3

LEMMA StreamAnsweredCosts == ASSUME CostInv, StreamAnswered PROVE CostInv'
<1>1. CallInv' /\ CallInv /\ call.phase = "stream"
  BY StreamAnsweredKeeps DEF CostInv, StreamAnswered
<1>2. PICK r \in Reply : \E o : call' = Ends(Asked(r), o)
  BY DEF StreamAnswered
<1>3. NowAt("done", call.parse, call.try, call.requests + 1, call.waited)
  BY <1>1, <1>2, EndsNumbers
<1>4. QED
  BY <1>1, <1>3, LastRequest DEF CostInv, NowAt

LEMMA StreamStallsCosts == ASSUME CostInv, StreamStalls PROVE CostInv'
<1>1. CallInv' /\ CallInv /\ call.phase = "stream"
  BY StreamStallsKeeps DEF CostInv, StreamStalls
<1>2. NowAt("stalled", call.parse, call.try, call.requests + 1, call.waited)
  BY <1>1, AskedNumbers, NumbersOfCall DEF StreamStalls, NowAt
<1>3. WantsJson /\ (WantsJson' <=> WantsJson) /\ ProbeCost' = ProbeCost /\ R' = R
  BY <1>1, <1>2, SameMode DEF NowAt, CostInv, PlainCost, R
<1>4. PICK y \in Nat, n \in Nat, pc \in Nat :
        y = (R + 1) * (R + 1) /\ n = call.requests /\ pc = ProbeCost
  <2>1. PICK m \in Nat : m = R + 1
    BY RetriesTypes
  <2>2. m * m \in Nat /\ ProbeCost \in Nat /\ call.requests \in Nat
    BY <1>1, NumbersOfCall DEF ProbeCost
  <2>3. QED
    BY <2>1, <2>2
<1>5. n <= pc + y /\ call.waited <= (R + 2) * SleepsOf(R) /\ call.waited \in Nat
  BY <1>1, <1>3, <1>4 DEF CostInv, JsonCost
<1>6. n + 1 <= pc + y + 1
  BY <1>5
<1>7. JsonCost'
  BY <1>2, <1>3, <1>4, <1>5, <1>6 DEF NowAt, JsonCost, SleepsOf, R
<1>8. QED
  BY <1>1, <1>2, <1>3, <1>5, <1>7 DEF CostInv, NowAt

\* a deadline leaves the numbers below the bounds they would have reached
LEMMA DeadlineCosts == ASSUME CostInv, Deadline PROVE CostInv'
<1>1. CallInv' /\ CallInv /\ call.phase # "done"
  BY DeadlineKeeps DEF CostInv, Deadline
<1>2. call' = [call EXCEPT !.phase = "done", !.outcome = "deadline"]
  BY DEF Deadline, Ends
<1>3. NowAt("done", call.parse, call.try, call.requests, call.waited)
  BY <1>1, <1>2, NumbersOfCall DEF NowAt
<1>4. (WantsJson' <=> WantsJson) /\ ProbeCost' = ProbeCost /\ R' = R /\ Retries' = Retries
  BY <1>3, SameMode DEF NowAt, R
<1>5. /\ R \in Nat /\ Retries \in Nat /\ call.requests \in Nat /\ call.waited \in Nat
      /\ ProbeCost \in Nat
  BY <1>1, RetriesTypes, NumbersOfCall DEF CostInv, ProbeCost
<1>6. CASE WantsJson /\ call.phase = "request"
  <2>1. PICK p \in Nat, t \in Nat, n \in Nat, w \in Nat, pc \in Nat, pr \in Nat, sp \in Nat,
             st \in Nat, sr \in Nat, ps \in Nat, bp \in Nat, bt \in Nat, rr \in Nat, rs \in Nat :
          Bounds(p, t, n, w, pc, pr, sp, st, sr, ps, bp, bt, rr, rs)
    BY <1>6, RequestNumbers
  <2>2. n <= pc + rr + 1 /\ w <= rs
    BY <2>1 DEF Bounds
  <2>3. JsonCost'
    BY <1>3, <1>4, <2>1, <2>2 DEF Bounds, NowAt, JsonCost, SleepsOf, R
  <2>4. QED
    BY <1>1, <1>3, <1>4, <1>5, <1>6, <2>3 DEF CostInv, NowAt
<1>7. CASE WantsJson /\ call.phase # "request"
  <2>1. PICK n \in Nat, w \in Nat, pc \in Nat, m \in Nat, s \in Nat, x \in Nat, y \in Nat :
          /\ n = call.requests /\ w = call.waited /\ pc = ProbeCost
          /\ m = R + 1 /\ s = SleepsOf(R) /\ x = m * m /\ y = (R + 2) * s
    BY <1>5, Limits
  <2>2. /\ call.phase = "probe" => n = 0 /\ w = 0
        /\ call.phase = "stream" => n <= pc + x
        /\ call.phase = "stalled" => n <= pc + x + 1
        /\ call.phase \in {"stream", "stalled"} => w <= y
    BY <1>7, <2>1 DEF CostInv, JsonCost
  <2>3. call.phase \in {"probe", "stream", "stalled"}
    BY <1>1, <1>7, NumbersOfCall
  <2>4. n <= pc + x + 1 /\ w <= y
    BY <2>1, <2>2, <2>3
  <2>5. JsonCost'
    BY <1>3, <1>4, <2>1, <2>4 DEF NowAt, JsonCost, SleepsOf, R
  <2>6. QED
    BY <1>1, <1>3, <1>4, <1>5, <1>7, <2>5 DEF CostInv, NowAt
<1>8. CASE ~ WantsJson
  <2>1. PICK t \in Nat, n \in Nat, w \in Nat, r \in Nat :
          /\ t = call.try /\ n = call.requests /\ w = call.waited /\ r = Retries
          /\ n <= t /\ w <= SleepsOf(t) /\ t \in 0..r
    BY <1>1, <1>5, <1>8, NumbersOfCall DEF CostInv, PlainCost
  <2>2. PICK bt \in Nat, br \in Nat : bt = Backoff(t) /\ br = Backoff(r) /\ bt <= br
    BY <2>1, BackoffTypes, BackoffGrows
  <2>3. n <= r + 1 /\ w <= SleepsOf(r)
    BY <2>1, <2>2 DEF SleepsOf
  <2>4. PlainCost'
    BY <1>3, <1>4, <2>1, <2>3 DEF NowAt, PlainCost, SleepsOf
  <2>5. QED
    BY <1>1, <1>3, <1>4, <1>5, <1>8, <2>4 DEF CostInv, NowAt
<1>9. QED
  BY <1>6, <1>7, <1>8

LEMMA CostStarts == CallInit => CostInv
<1> SUFFICES ASSUME CallInit PROVE CostInv
  OBVIOUS
<1>1. PICK mode \in CallMode, guarded \in BOOLEAN : call = NewCall(mode, guarded)
  BY DEF CallInit
<1>2. /\ CallInv
      /\ call.phase = IF mode = "schemaJson" THEN "probe" ELSE "request"
      /\ call.mode = mode /\ call.parse = 0 /\ call.try = 0 /\ call.requests = 0
      /\ call.waited = 0
  BY <1>1 DEF NewCall, CallInv, CallShape, ErrorKind, Outcome, Refusals, JsonErrors,
             BadJsonReported
<1>3. PICK r \in Nat, m \in Nat, s \in Nat : r = R /\ m = R + 1 /\ s = SleepsOf(R)
  BY Limits
<1>4. SleepsOf(0) = 0 /\ 0 * m = 0 /\ 0 * s = 0
  BY <1>3, Doubling DEF SleepsOf, Backoff
<1>5. ProbeCost \in Nat /\ Retries \in Nat /\ mode \in CallMode
  BY RetriesTypes DEF ProbeCost
<1>6. QED
  BY <1>2, <1>3, <1>4, <1>5 DEF CostInv, JsonCost, PlainCost, WantsJson, CallMode

LEMMA CostSteps == CostInv /\ [CallNext]_call => CostInv'
<1> SUFFICES ASSUME CostInv, [CallNext]_call PROVE CostInv'
  OBVIOUS
<1>1. CASE UNCHANGED call
  BY <1>1 DEF CostInv, JsonCost, PlainCost, WantsJson, Retries, ProbeCost, SleepsOf, R,
              CallInv, CallShape, Refusals, JsonErrors, BadJsonReported
<1>2. QED
  BY <1>1, ProbeCosts, RequestFailsCosts, RequestAnsweredCosts, RequestEmptyCosts,
     StreamAnsweredCosts, StreamStallsCosts, DeadlineCosts
     DEF CallNext, Answered

LEMMA CostInvariant == CallSpec => []CostInv
BY CostStarts, CostSteps, PTL DEF CallSpec

LEMMA CostsWithinBound == CostInv => RequestBound
<1> SUFFICES ASSUME CostInv PROVE RequestBound
  OBVIOUS
<1>1. /\ R \in Nat /\ Retries \in Nat /\ call.requests \in Nat /\ call.waited \in Nat
      /\ ProbeCost \in {0, 1} /\ call.phase \in {"probe", "request", "stream", "stalled", "done"}
  BY RetriesTypes, NumbersOfCall DEF CostInv, ProbeCost
<1>2. CASE WantsJson /\ call.phase = "request"
  <2>1. PICK p \in Nat, t \in Nat, n \in Nat, w \in Nat, pc \in Nat, pr \in Nat, sp \in Nat,
             st \in Nat, sr \in Nat, ps \in Nat, bp \in Nat, bt \in Nat, rr \in Nat, rs \in Nat :
          Bounds(p, t, n, w, pc, pr, sp, st, sr, ps, bp, bt, rr, rs)
    BY <1>2, RequestNumbers
  <2>2. n <= pc + rr + 1 /\ w <= rs
    BY <2>1 DEF Bounds
  <2>3. QED
    BY <1>2, <2>1, <2>2 DEF Bounds, RequestBound, ProbeCost, SleepsOf, R
<1>3. CASE WantsJson /\ call.phase # "request"
  <2>1. PICK n \in Nat, w \in Nat, pc \in Nat, m \in Nat, s \in Nat, x \in Nat, y \in Nat :
          /\ n = call.requests /\ w = call.waited /\ pc = ProbeCost
          /\ m = R + 1 /\ s = SleepsOf(R) /\ x = m * m /\ y = (R + 2) * s
    BY <1>1, Limits
  <2>2. /\ call.phase = "probe" => n = 0 /\ w = 0
        /\ call.phase = "stream" => n <= pc + x
        /\ call.phase \in {"stalled", "done"} => n <= pc + x + 1
        /\ call.phase \in {"stream", "stalled", "done"} => w <= y
    BY <1>3, <2>1 DEF CostInv, JsonCost
  <2>3. n <= pc + x + 1 /\ w <= y
    BY <1>1, <1>3, <2>1, <2>2
  <2>4. QED
    BY <1>3, <2>1, <2>3 DEF RequestBound, ProbeCost, SleepsOf, R
<1>4. CASE ~ WantsJson
  <2>1. PICK t \in Nat, n \in Nat, w \in Nat, r \in Nat, br \in Nat :
          /\ t = call.try /\ n = call.requests /\ w = call.waited /\ r = Retries
          /\ br = Backoff(r) /\ br >= 1
    BY <1>1, NumbersOfCall, BackoffTypes DEF CostInv
  <2>2. CASE call.phase = "request"
    <3>1. t \in 0..r /\ n <= t /\ w <= Backoff(t) - 1
      BY <1>4, <2>1, <2>2 DEF CostInv, PlainCost, SleepsOf
    <3>2. PICK bt \in Nat : bt = Backoff(t) /\ bt <= br
      BY <2>1, <3>1, BackoffTypes, BackoffGrows
    <3>3. n <= r + 1 /\ w < br
      BY <2>1, <3>1, <3>2
    <3>4. QED
      BY <1>4, <2>1, <3>3 DEF RequestBound
  <2>3. CASE call.phase = "done"
    <3>1. n <= r + 1 /\ w <= br - 1
      BY <1>4, <2>1, <2>3 DEF CostInv, PlainCost, SleepsOf
    <3>2. w < br
      BY <2>1, <3>1
    <3>3. QED
      BY <1>4, <2>1, <3>1, <3>2 DEF RequestBound
  <2>4. QED
    BY <1>4, <2>2, <2>3 DEF CostInv, PlainCost
<1>5. QED
  BY <1>2, <1>3, <1>4

(* A call ends, whatever the provider answers: R+1 requests for each of R+1 attempts to     *)
(* parse, the probe and the stream are all it sends, and its sleeps are those between them  *)
(* (_generate_with_request_options and generate_json of openai_compatible.py), for every    *)
(* number of retries. *)
THEOREM RequestsAreBounded == CallSpec => []RequestBound
BY CostsWithinBound, CostInvariant, PTL

(* The record of a call is what the client keeps of it, the time it has waited included. *)
THEOREM CallTypes == CallSpec => []CallTypeOK
<1>1. CostInv => CallTypeOK
  BY DEF CostInv, CallInv, CallShape, CallTypeOK, CallRow
<1>2. QED
  BY <1>1, CostInvariant, PTL

(* A call ends: what bounds its requests also bounds its steps, whatever the provider       *)
(* answers and however long the call may wait. *)

\* the requests a call may send
RequestLimit == IF WantsJson THEN ProbeCost + (R + 1) * (R + 1) + 1 ELSE Retries + 1
\* and the steps it may still take: one for every request, one more to be given up
CallStepsLeft == (RequestLimit - call.requests) + (IF call.phase = "done" THEN 0 ELSE 1)

LEMMA RequestLimitHolds ==
  ASSUME CostInv PROVE RequestLimit \in Nat /\ call.requests \in 0..RequestLimit
<1>1. R \in Nat /\ Retries \in Nat /\ ProbeCost \in Nat /\ call.requests \in Nat
  BY RetriesTypes, NumbersOfCall DEF CostInv, ProbeCost
<1>2. PICK m \in Nat, x \in Nat : m = R + 1 /\ x = m * m
  BY <1>1, Limits
<1>3. RequestLimit = IF WantsJson THEN ProbeCost + x + 1 ELSE Retries + 1
  BY <1>2 DEF RequestLimit
<1>4. call.requests <= RequestLimit
  BY <1>2, <1>3, CostsWithinBound DEF RequestBound, ProbeCost, R
<1>5. QED
  BY <1>1, <1>2, <1>3, <1>4

\* every step sends a request or gives the call up
LEMMA StepAsksOrEnds ==
  ASSUME CallInv, CallNext
  PROVE  /\ call.phase # "done" /\ call'.mode = call.mode
         /\ \/ call'.requests = call.requests + 1
            \/ call'.requests = call.requests /\ call'.phase = "done"
<1> DEFINE Sends == call'.mode = call.mode /\ call'.requests = call.requests + 1
<1>1. ASSUME NEW r, NEW o, call' = Ends(Asked(r), o) PROVE Sends
  BY <1>1, EndsNumbers DEF NowAt
<1>2. ASSUME Probe PROVE Sends
  <2>1. PICK r \in Reply : call' = IF r = "value" THEN Ends(Asked(r), "json")
               ELSE [Asked(r) EXCEPT !.phase = "request",
                       !.lastError = IF r = "empty" THEN "empty"
                                     ELSE IF r = "prose" THEN "json" ELSE "http"]
    BY <1>2 DEF Probe
  <2>2. QED
    BY <1>1, <2>1, AskedNumbers, NumbersOfCall
<1>3. ASSUME RequestFails PROVE Sends
  <2>1. PICK r \in Reply :
          call' = IF r = "refused" \/ call.try >= Retries THEN Ends(Asked(r), "httpError")
                  ELSE [Asked(r) EXCEPT !.try = @ + 1, !.waited = @ + Backoff(call.try)]
    BY <1>3 DEF RequestFails, Reply
  <2>2. QED
    BY <1>1, <2>1, AskedNumbers, NumbersOfCall
<1>4. ASSUME RequestAnswered PROVE Sends
  <2>1. PICK r \in Reply :
       call' = IF ~ WantsJson THEN Ends(Asked(r), "text")
               ELSE IF r = "value" THEN Ends(Asked(r), "json")
               ELSE IF call.parse >= MaxRetries
                    THEN Ends([Asked(r) EXCEPT !.parseError = TRUE, !.lastError = "json"],
                              "jsonError")
               ELSE [Asked(r) EXCEPT !.parse = @ + 1, !.try = 0, !.parseError = TRUE,
                                     !.lastError = "json", !.waited = @ + Backoff(call.parse)]
    BY <1>4 DEF RequestAnswered, Reply
  <2>2. QED
    BY <1>1, <2>1, AskedNumbers, NumbersOfCall DEF Ends
<1>5. ASSUME RequestEmpty PROVE Sends
  BY <1>1, <1>5, AskedNumbers, NumbersOfCall DEF RequestEmpty
<1>6. ASSUME StreamAnswered PROVE Sends
  BY <1>1, <1>6 DEF StreamAnswered
<1>7. ASSUME StreamStalls PROVE Sends
  BY <1>7, AskedNumbers, NumbersOfCall DEF StreamStalls
<1>8. ASSUME Deadline
      PROVE  call'.mode = call.mode /\ call'.requests = call.requests /\ call'.phase = "done"
  BY <1>8, NumbersOfCall DEF Deadline, Ends
<1>9. call.phase # "done"
  BY DEF CallNext, Answered, Probe, RequestFails, RequestAnswered, RequestEmpty,
         StreamAnswered, StreamStalls, Deadline
<1>10. QED
  BY <1>2, <1>3, <1>4, <1>5, <1>6, <1>7, <1>8, <1>9 DEF CallNext, Answered

LEMMA CallStepCounts ==
  ASSUME CostInv, CallNext, CostInv' PROVE CallStepsLeft' < CallStepsLeft
<1>1. /\ call.phase # "done" /\ call'.mode = call.mode
      /\ \/ call'.requests = call.requests + 1
         \/ call'.requests = call.requests /\ call'.phase = "done"
  BY StepAsksOrEnds DEF CostInv
<1>2. RequestLimit' = RequestLimit
  BY <1>1, SameMode DEF RequestLimit, R
<1>3. PICK limit \in Nat, n \in Nat : limit = RequestLimit /\ n = call.requests
  BY RequestLimitHolds
<1>4. CallStepsLeft = limit - n + 1
  BY <1>1, <1>3 DEF CallStepsLeft
<1>5. CallStepsLeft' = (limit - call'.requests) + (IF call'.phase = "done" THEN 0 ELSE 1)
  BY <1>2, <1>3 DEF CallStepsLeft
<1>6. QED
  BY <1>1, <1>3, <1>4, <1>5

(* The safety half of CallEnds: every step of a call, whatever the provider answers, leaves *)
(* it fewer steps, and their number is finite from the start.  A call cannot go round in    *)
(* its retries, attempts to parse and second chance (_generate_with_request_options and     *)
(* generate_json of openai_compatible.py); it ends unless one step does not return. *)
THEOREM CallAdvances == CallSpec => /\ [](CallStepsLeft \in Nat)
                                    /\ [][CallStepsLeft' < CallStepsLeft]_call
<1>1. CostInv => CallStepsLeft \in Nat
  <2> SUFFICES ASSUME CostInv PROVE CallStepsLeft \in Nat
    OBVIOUS
  <2>1. PICK limit \in Nat, n \in Nat :
          limit = RequestLimit /\ n = call.requests /\ n <= limit
    BY RequestLimitHolds
  <2>2. limit - n \in Nat
    BY <2>1
  <2>3. QED
    BY <2>1, <2>2 DEF CallStepsLeft
<1>2. CostInv /\ CostInv' /\ [CallNext]_call => [CallStepsLeft' < CallStepsLeft]_call
  BY CallStepCounts
<1>3. QED
  BY <1>1, <1>2, CostInvariant, PTL DEF CallSpec

(***************************** JsonCandidate *****************************)

(* Where the scan stands after j characters of a value: how deep it is in brackets of the *)
(* value's own kind, whether it is in a string, and whether a backslash came last in it.   *)
Doubled == <<"lbrace", "lbrace", "x", "rbrace", "rbrace">>
Quoted == <<"lbrace", "quote", "rbrace", "quote", "rbrace">>
Escaped == <<"lbracket", "quote", "backslash", "quote", "rbracket", "quote", "rbracket">>
Backslashed == <<"lbrace", "quote", "backslash", "backslash", "quote", "x", "rbrace">>

DepthAt(v, j) == IF v = Doubled /\ j \in {2, 3} THEN 2 ELSE 1
StringAt(v, j) == \/ v = Quoted /\ j \in {2, 3}
                  \/ v = Escaped /\ j \in {2, 3, 4, 5}
                  \/ v = Backslashed /\ j \in {2, 3, 4}
EscapeAt(v, j) == v \in {Escaped, Backslashed} /\ j = 3

\* the next character takes the scan from one place of the table to the next, and the
\* bracket that closes depth 1 is the value's last character
TableStep(v, j) ==
  LET c == v[j + 1]
  IN  /\ StringAt(v, j) =>
           /\ j + 1 < Len(v) /\ DepthAt(v, j + 1) = DepthAt(v, j)
           /\ EscapeAt(v, j) => StringAt(v, j + 1) /\ ~ EscapeAt(v, j + 1)
           /\ ~ EscapeAt(v, j) => /\ EscapeAt(v, j + 1) <=> c = "backslash"
                                  /\ StringAt(v, j + 1) <=> c # "quote"
      /\ ~ StringAt(v, j) =>
           /\ ~ EscapeAt(v, j) /\ ~ EscapeAt(v, j + 1)
           /\ c = "quote" => /\ j + 1 < Len(v) /\ StringAt(v, j + 1)
                             /\ DepthAt(v, j + 1) = DepthAt(v, j)
           /\ c # "quote" => ~ StringAt(v, j + 1)
           /\ c = v[1] => j + 1 < Len(v) /\ DepthAt(v, j + 1) = DepthAt(v, j) + 1
           /\ c = Closing(v[1]) /\ DepthAt(v, j) = 1 => j + 1 = Len(v)
           /\ c = Closing(v[1]) /\ DepthAt(v, j) # 1
                => j + 1 < Len(v) /\ DepthAt(v, j + 1) = DepthAt(v, j) - 1
           /\ c \notin {"quote", v[1], Closing(v[1])}
                => j + 1 < Len(v) /\ DepthAt(v, j + 1) = DepthAt(v, j)

LEMMA Values ==
  /\ JsonValues \subseteq Seq(Char)
  /\ \A v \in JsonValues : Len(v) >= 2 /\ v[1] \in Openers /\ DepthAt(v, 1) = 1
                           /\ ~ StringAt(v, 1) /\ ~ EscapeAt(v, 1)
  BY DEF JsonValues, Char, Openers, DepthAt, StringAt, EscapeAt

LEMMA TableFollowsScan == ASSUME NEW v \in JsonValues, NEW j \in 1..Len(v) - 1 PROVE TableStep(v, j)
<1>1. CASE v = <<"lbrace", "rbrace">>
  <2>1. /\ Len(v) = 2 /\ v[1] = "lbrace" /\ v[2] = "rbrace"
    BY <1>1
  <2>2. v \notin {Doubled, Quoted, Escaped, Backslashed}
    BY <2>1 DEF Doubled, Quoted, Escaped, Backslashed
  <2>3. j \in {1}
    BY <2>1
  <2>4. QED
    BY <1>1, <2>1, <2>2, <2>3 DEF TableStep, DepthAt, StringAt, EscapeAt, Closing
<1>2. CASE v = <<"lbrace", "lbracket", "rbracket", "rbrace">>
  <2>1. /\ Len(v) = 4 /\ v[1] = "lbrace" /\ v[2] = "lbracket" /\ v[3] = "rbracket" /\ v[4] = "rbrace"
    BY <1>2
  <2>2. v \notin {Doubled, Quoted, Escaped, Backslashed}
    BY <2>1 DEF Doubled, Quoted, Escaped, Backslashed
  <2>3. j \in {1, 2, 3}
    BY <2>1
  <2>4. QED
    BY <1>2, <2>1, <2>2, <2>3 DEF TableStep, DepthAt, StringAt, EscapeAt, Closing
<1>3. CASE v = <<"lbracket", "lbrace", "x", "rbrace", "rbracket">>
  <2>1. /\ Len(v) = 5 /\ v[1] = "lbracket" /\ v[2] = "lbrace" /\ v[3] = "x" /\ v[4] = "rbrace"
        /\ v[5] = "rbracket"
    BY <1>3
  <2>2. v \notin {Doubled, Quoted, Escaped, Backslashed}
    BY <2>1 DEF Doubled, Quoted, Escaped, Backslashed
  <2>3. j \in {1, 2, 3, 4}
    BY <2>1
  <2>4. QED
    BY <1>3, <2>1, <2>2, <2>3 DEF TableStep, DepthAt, StringAt, EscapeAt, Closing
<1>4. CASE v = Doubled
  <2>1. /\ Len(v) = 5 /\ v[1] = "lbrace" /\ v[2] = "lbrace" /\ v[3] = "x" /\ v[4] = "rbrace"
        /\ v[5] = "rbrace"
    BY <1>4 DEF Doubled
  <2>2. v \notin {Quoted, Escaped, Backslashed}
    BY <2>1 DEF Quoted, Escaped, Backslashed
  <2>3. j \in {1, 2, 3, 4}
    BY <2>1
  <2>4. QED
    BY <1>4, <2>1, <2>2, <2>3 DEF TableStep, DepthAt, StringAt, EscapeAt, Closing
<1>5. CASE v = Quoted
  <2>1. /\ Len(v) = 5 /\ v[1] = "lbrace" /\ v[2] = "quote" /\ v[3] = "rbrace" /\ v[4] = "quote"
        /\ v[5] = "rbrace"
    BY <1>5 DEF Quoted
  <2>2. v \notin {Doubled, Escaped, Backslashed}
    BY <2>1 DEF Doubled, Escaped, Backslashed
  <2>3. j \in {1, 2, 3, 4}
    BY <2>1
  <2>4. QED
    BY <1>5, <2>1, <2>2, <2>3 DEF TableStep, DepthAt, StringAt, EscapeAt, Closing
<1>6. CASE v = Escaped
  <2>1. /\ Len(v) = 7 /\ v[1] = "lbracket" /\ v[2] = "quote" /\ v[3] = "backslash"
        /\ v[4] = "quote" /\ v[5] = "rbracket" /\ v[6] = "quote" /\ v[7] = "rbracket"
    BY <1>6 DEF Escaped
  <2>2. v \notin {Doubled, Quoted, Backslashed}
    BY <2>1 DEF Doubled, Quoted, Backslashed
  <2>3. j \in {1, 2, 3, 4, 5, 6}
    BY <2>1
  <2>4. QED
    BY <1>6, <2>1, <2>2, <2>3 DEF TableStep, DepthAt, StringAt, EscapeAt, Closing
<1>7. CASE v = Backslashed
  <2>1. /\ Len(v) = 7 /\ v[1] = "lbrace" /\ v[2] = "quote" /\ v[3] = "backslash"
        /\ v[4] = "backslash" /\ v[5] = "quote" /\ v[6] = "x" /\ v[7] = "rbrace"
    BY <1>7 DEF Backslashed
  <2>2. v \notin {Doubled, Quoted, Escaped}
    BY <2>1 DEF Doubled, Quoted, Escaped
  <2>3. j \in {1, 2, 3, 4, 5, 6}
    BY <2>1
  <2>4. QED
    BY <1>7, <2>1, <2>2, <2>3 DEF TableStep, DepthAt, StringAt, EscapeAt, Closing
<1>8. QED
  BY <1>1, <1>2, <1>3, <1>4, <1>5, <1>6, <1>7
     DEF JsonValues, Doubled, Quoted, Escaped, Backslashed

\* prose is a sequence of characters
LEMMA ProseIsText == Prose \subseteq Seq(Char)
<1>1. ASSUME NEW p \in Prose PROVE p \in Seq(Char)
  <2>1. PICK n \in 0..MaxProse : p \in [1..n -> Char]
    BY DEF Prose
  <2>2. n \in Nat
    BY JsonCandidateAssumption
  <2>3. QED
    BY <2>1, <2>2
<1>2. QED
  BY <1>1

\* the characters of an answer
IsAnswer(text, before, value, after) ==
  /\ Len(text) = Len(before) + Len(value) + Len(after)
  /\ \A i \in 1..Len(before) : text[i] = before[i]
  /\ \A j \in 1..Len(value) : text[Len(before) + j] = value[j]
  /\ SubSeq(text, Len(before) + 1, Len(before) + Len(value)) = value

LEMMA AnswerText ==
  ASSUME NEW before \in Seq(Char), NEW value \in Seq(Char), NEW after \in Seq(Char),
         NEW text, text = before \o value \o after
  PROVE  IsAnswer(text, before, value, after)
<1>1. /\ text \in Seq(Char)
      /\ Len(text) = Len(before) + Len(value) + Len(after)
      /\ \A i \in 1..Len(before) : text[i] = before[i]
      /\ \A j \in 1..Len(value) : text[Len(before) + j] = value[j]
  OBVIOUS
<1>2. SubSeq(text, Len(before) + 1, Len(before) + Len(value)) = value
  BY <1>1
<1>3. QED
  BY <1>1, <1>2 DEF IsAnswer

(***************************** the invariant ******************************)

\* the answer and where the scan is in it
ScanShape ==
  /\ scan \in [text : Seq(Char), before : Seq(Char), value : JsonValues, after : Seq(Char),
               at : Nat, start : Nat, depth : Nat, inString : BOOLEAN, escape : BOOLEAN,
               done : BOOLEAN, cut : Seq(Char)]
  /\ scan.text = scan.before \o scan.value \o scan.after
  /\ scan.at \in 1..Len(scan.text) + 1 /\ scan.start \in 0..Len(scan.text)
  /\ scan.start > 0 /\ ~ scan.done => scan.depth >= 1

\* the answers ValueFound is about
Wrapped == /\ \A k \in DOMAIN scan.before : scan.before[k] \notin Openers
           /\ scan.before # <<>> \/ scan.after = <<>>

Before == Len(scan.before)
Searching == scan.start = 0 /\ scan.at \in 1..Before + 1 /\ ~ scan.inString /\ ~ scan.escape
Counting(j) ==
  /\ scan.start = Before + 1 /\ scan.at = Before + 1 + j
  /\ scan.depth = DepthAt(scan.value, j)
  /\ scan.inString <=> StringAt(scan.value, j)
  /\ scan.escape <=> EscapeAt(scan.value, j)

\* a wrapped value is searched for in the prose, then counted through as the table says
InPlace ==
  /\ scan.done => scan.cut = scan.value
  /\ ~ scan.done => Searching \/ \E j \in 1..Len(scan.value) - 1 : Counting(j)

ScanInv == ScanShape /\ (Wrapped => InPlace)

\* the characters in front of the scan
LEMMA ScanText ==
  ASSUME ScanShape
  PROVE  /\ Before \in Nat /\ Len(scan.value) \in Nat /\ Len(scan.value) >= 2
         /\ Len(scan.text) >= Before + Len(scan.value)
         /\ \A i \in 1..Before : scan.text[i] = scan.before[i]
         /\ \A j \in 1..Len(scan.value) : scan.text[Before + j] = scan.value[j]
         /\ SubSeq(scan.text, Before + 1, Before + Len(scan.value)) = scan.value
         /\ scan.text[Before + 1] = scan.value[1] /\ scan.value[1] \in Openers
         /\ scan.value \in JsonValues
<1>1. PICK before \in Seq(Char), value \in Seq(Char), after \in Seq(Char), text \in Seq(Char) :
        /\ before = scan.before /\ value = scan.value /\ after = scan.after /\ text = scan.text
        /\ value \in JsonValues /\ text = before \o value \o after
  BY Values DEF ScanShape
<1>2. /\ Len(text) = Len(before) + Len(value) + Len(after)
      /\ \A i \in 1..Len(before) : text[i] = before[i]
      /\ \A j \in 1..Len(value) : text[Len(before) + j] = value[j]
      /\ SubSeq(text, Len(before) + 1, Len(before) + Len(value)) = value
  <2>1. IsAnswer(text, before, value, after)
    BY <1>1, AnswerText, Zenon
  <2>2. QED
    BY <2>1 DEF IsAnswer
<1>3. Len(value) >= 2 /\ value[1] \in Openers
  BY <1>1, Values
<1>4. PICK n \in Nat, m \in Nat, k \in Nat : n = Len(before) /\ m = Len(value) /\ k = Len(after)
  BY <1>1
<1>5. Len(text) >= n + m /\ 1 \in 1..m
  BY <1>2, <1>3, <1>4
<1>6. text[n + 1] = value[1]
  BY <1>2, <1>4, <1>5
<1>7. n = Before
  BY <1>1, <1>4 DEF Before
<1>8. QED
  BY <1>1, <1>2, <1>3, <1>4, <1>5, <1>6, <1>7

\* a step that moves the scan by one character and keeps the answer
MovesTo(start, depth, inString, escape, done, cut) ==
  scan' = [Moved EXCEPT !.start = start, !.depth = depth, !.inString = inString,
                        !.escape = escape, !.done = done, !.cut = cut]

MovedFrom(start, depth, inString, escape, done, cut) ==
  /\ ScanShape'
  /\ scan'.value = scan.value /\ scan'.at = scan.at + 1
  /\ scan'.start = start /\ scan'.depth = depth /\ scan'.inString = inString
  /\ scan'.escape = escape /\ scan'.done = done /\ scan'.cut = cut
  /\ (Wrapped' <=> Wrapped) /\ Before' = Before

LEMMA MovedShape ==
  ASSUME ScanShape, More, NEW start \in 0..Len(scan.text), NEW depth \in Nat,
         NEW inString \in BOOLEAN, NEW escape \in BOOLEAN, NEW done \in BOOLEAN,
         NEW cut \in Seq(Char), start > 0 /\ ~ done => depth >= 1,
         MovesTo(start, depth, inString, escape, done, cut)
  PROVE  MovedFrom(start, depth, inString, escape, done, cut)
<1>1. scan' = [scan EXCEPT !.at = scan.at + 1, !.start = start, !.depth = depth,
                           !.inString = inString, !.escape = escape, !.done = done, !.cut = cut]
  BY DEF MovesTo, Moved, ScanShape
<1>2. Len(scan.text) \in Nat /\ scan.at + 1 \in Nat /\ scan.at + 1 \in 1..Len(scan.text) + 1
  BY DEF ScanShape, More
<1>3. start \in Nat
  BY <1>2
<1>4. scan' \in [text : {scan.text}, before : {scan.before}, value : {scan.value},
                 after : {scan.after}, at : {scan.at + 1}, start : {start}, depth : {depth},
                 inString : {inString}, escape : {escape}, done : {done}, cut : {cut}]
  BY <1>1 DEF ScanShape
<1>5. /\ scan'.text = scan.text /\ scan'.before = scan.before /\ scan'.value = scan.value
      /\ scan'.after = scan.after /\ scan'.at = scan.at + 1
      /\ scan'.start = start /\ scan'.depth = depth /\ scan'.inString = inString
      /\ scan'.escape = escape /\ scan'.done = done /\ scan'.cut = cut
  BY <1>4
<1>6. ScanShape'
  BY <1>2, <1>3, <1>4, <1>5 DEF ScanShape
<1>7. QED
  BY <1>5, <1>6 DEF MovedFrom, Wrapped, Before

(********************************* steps **********************************)

LEMMA FindStartKeeps == ASSUME ScanInv, FindStart PROVE ScanInv'
<1>1. ScanShape /\ More /\ scan.start = 0 /\ ~ scan.done
  BY DEF ScanInv, FindStart, More
<1>2. /\ scan.depth \in Nat /\ scan.inString \in BOOLEAN /\ scan.escape \in BOOLEAN
      /\ scan.cut \in Seq(Char) /\ FALSE \in BOOLEAN /\ Len(scan.text) \in Nat
      /\ scan.at \in 1..Len(scan.text)
  BY <1>1 DEF ScanShape, More
<1>3. PICK n \in Nat : n = Before
  BY <1>1, ScanText
<1>4. Wrapped => Searching
  BY <1>1, <1>3, ScanText DEF ScanInv, InPlace, Counting
<1>5. CASE scan.text[scan.at] \in Openers
  <2>1. MovesTo(scan.at, 1, scan.inString, scan.escape, FALSE, scan.cut)
    BY <1>1, <1>5 DEF MovesTo, FindStart, Moved, ScanShape
  <2>2. scan.at \in 0..Len(scan.text) /\ 1 \in Nat /\ (scan.at > 0 /\ ~ FALSE => 1 >= 1)
    BY <1>2
  <2>3. MovedFrom(scan.at, 1, scan.inString, scan.escape, FALSE, scan.cut)
    BY <1>1, <1>2, <2>1, <2>2, MovedShape, Zenon
  <2>4. ASSUME Wrapped PROVE Counting(1)' /\ 1 \in 1..Len(scan'.value) - 1
    <3>1. scan.at \in 1..n + 1 /\ ~ scan.inString /\ ~ scan.escape
      BY <1>3, <1>4, <2>4 DEF Searching
    <3>2. scan.at \notin 1..n
      <4>1. SUFFICES ASSUME scan.at \in 1..n PROVE FALSE
        OBVIOUS
      <4>2. scan.before[scan.at] \in Openers
        BY <1>1, <1>3, <1>5, <4>1, ScanText
      <4>3. scan.at \in DOMAIN scan.before
        BY <1>1, <1>3, <4>1 DEF ScanShape, Before
      <4>4. QED
        BY <2>4, <4>2, <4>3 DEF Wrapped
    <3>3. scan.at = n + 1
      BY <3>1, <3>2
    <3>4. 1 \in 1..Len(scan.value) - 1
      BY <1>1, ScanText
    <3>5. DepthAt(scan.value, 1) = 1 /\ ~ StringAt(scan.value, 1) /\ ~ EscapeAt(scan.value, 1)
      BY <1>1, ScanText, Values
    <3>6. QED
      BY <1>3, <2>3, <3>1, <3>3, <3>4, <3>5 DEF Counting, MovedFrom
  <2>5. QED
    BY <2>3, <2>4 DEF ScanInv, InPlace, MovedFrom
<1>6. CASE scan.text[scan.at] \notin Openers
  <2>1. MovesTo(0, scan.depth, scan.inString, scan.escape, FALSE, scan.cut)
    BY <1>1, <1>6 DEF MovesTo, FindStart, Moved, ScanShape
  <2>2. 0 \in 0..Len(scan.text) /\ (0 > 0 /\ ~ FALSE => scan.depth >= 1)
    BY <1>2
  <2>3. MovedFrom(0, scan.depth, scan.inString, scan.escape, FALSE, scan.cut)
    BY <1>1, <1>2, <2>1, <2>2, MovedShape, Zenon
  <2>4. ASSUME Wrapped PROVE Searching'
    <3>1. scan.at \in 1..n + 1 /\ ~ scan.inString /\ ~ scan.escape
      BY <1>3, <1>4, <2>4 DEF Searching
    <3>2. scan.at # n + 1
      BY <1>1, <1>3, <1>6, ScanText
    <3>3. scan.at + 1 \in 1..n + 1
      BY <3>1, <3>2
    <3>4. QED
      BY <1>3, <2>3, <3>1, <3>3 DEF Searching, MovedFrom
  <2>5. QED
    BY <2>3, <2>4 DEF ScanInv, InPlace, MovedFrom
<1>7. QED
  BY <1>5, <1>6

\* where the scan is in a wrapped value, and the character it reads there
LEMMA CountingPlace ==
  ASSUME ScanInv, More, scan.start > 0, Wrapped
  PROVE  \E j \in 1..Len(scan.value) - 1 :
           /\ Counting(j) /\ TableStep(scan.value, j)
           /\ scan.text[scan.at] = scan.value[j + 1]
           /\ scan.text[scan.start] = scan.value[1]
<1>1. ScanShape /\ ~ scan.done
  BY DEF ScanInv, More
<1>2. PICK j \in 1..Len(scan.value) - 1 : Counting(j)
  BY <1>1 DEF ScanInv, InPlace, Searching
<1>3. Before \in Nat /\ Len(scan.value) \in Nat
  BY <1>1, ScanText
<1>4. scan.text[Before + (j + 1)] = scan.value[j + 1] /\ scan.text[Before + 1] = scan.value[1]
  <2>1. PICK m \in Nat : m = Len(scan.value)
    BY <1>3
  <2>2. j \in 1..m - 1
    BY <2>1
  <2>3. j + 1 \in 1..m /\ 1 \in 1..m
    BY <2>1, <2>2
  <2>4. QED
    BY <1>1, <2>1, <2>3, ScanText
<1>5. scan.at = Before + (j + 1) /\ scan.start = Before + 1
  BY <1>2, <1>3 DEF Counting
<1>6. TableStep(scan.value, j)
  BY <1>1, ScanText, TableFollowsScan
<1>7. QED
  BY <1>2, <1>4, <1>5, <1>6

LEMMA InStringKeeps == ASSUME ScanInv, InString PROVE ScanInv'
<1>1. ScanShape /\ More /\ scan.start > 0 /\ scan.inString /\ ~ scan.done
  BY DEF ScanInv, InString, More
<1>2. /\ scan.depth \in Nat /\ scan.cut \in Seq(Char) /\ scan.start \in 0..Len(scan.text)
      /\ scan.depth >= 1 /\ scan.escape \in BOOLEAN /\ FALSE \in BOOLEAN
  BY <1>1 DEF ScanShape
<1>3. PICK inString \in BOOLEAN, escape \in BOOLEAN :
        /\ MovesTo(scan.start, scan.depth, inString, escape, FALSE, scan.cut)
        /\ scan.escape => inString /\ ~ escape
        /\ ~ scan.escape => /\ escape <=> scan.text[scan.at] = "backslash"
                            /\ inString <=> scan.text[scan.at] # "quote"
  <2>1. CASE scan.escape
    <3>1. MovesTo(scan.start, scan.depth, TRUE, FALSE, FALSE, scan.cut)
      BY <1>1, <2>1 DEF MovesTo, InString, Moved, ScanShape
    <3>2. QED
      BY <2>1, <3>1
  <2>2. CASE ~ scan.escape
    <3>1. MovesTo(scan.start, scan.depth, ~ AtChar("quote"), AtChar("backslash"), FALSE, scan.cut)
      BY <1>1, <2>2 DEF MovesTo, InString, Moved, ScanShape
    <3>2. \A c : AtChar(c) <=> scan.text[scan.at] = c
      BY <1>1 DEF AtChar, More
    <3>3. QED
      BY <2>2, <3>1, <3>2
  <2>3. QED
    BY <1>2, <2>1, <2>2
<1>4. MovedFrom(scan.start, scan.depth, inString, escape, FALSE, scan.cut)
  BY <1>1, <1>2, <1>3, MovedShape
<1>5. ASSUME Wrapped PROVE \E k \in 1..Len(scan'.value) - 1 : Counting(k)'
  <2>1. PICK j \in 1..Len(scan.value) - 1 :
          /\ Counting(j) /\ TableStep(scan.value, j)
          /\ scan.text[scan.at] = scan.value[j + 1]
    BY <1>1, <1>5, CountingPlace
  <2>2. Before \in Nat /\ Len(scan.value) \in Nat
    BY <1>1, ScanText
  <2>3. /\ j + 1 < Len(scan.value) /\ DepthAt(scan.value, j + 1) = DepthAt(scan.value, j)
        /\ inString <=> StringAt(scan.value, j + 1)
        /\ escape <=> EscapeAt(scan.value, j + 1)
    BY <1>1, <1>3, <2>1 DEF Counting, TableStep
  <2>4. j + 1 \in 1..Len(scan'.value) - 1
    BY <1>4, <2>2, <2>3 DEF MovedFrom
  <2>5. Counting(j + 1)'
    BY <1>4, <2>1, <2>2, <2>3 DEF Counting, MovedFrom
  <2>6. QED
    BY <2>4, <2>5
<1>6. QED
  BY <1>4, <1>5 DEF ScanInv, InPlace, MovedFrom

LEMMA OutsideKeeps == ASSUME ScanInv, Outside PROVE ScanInv'
<1>1. /\ ScanShape /\ More /\ scan.start > 0 /\ ~ scan.inString /\ ~ scan.done
      /\ scan.at \in 1..Len(scan.text)
  BY DEF ScanInv, ScanShape, Outside, More
<1>2. /\ scan.depth \in Nat /\ scan.cut \in Seq(Char) /\ scan.start \in 0..Len(scan.text)
      /\ scan.depth >= 1 /\ FALSE \in BOOLEAN /\ TRUE \in BOOLEAN
      /\ scan.inString = FALSE /\ scan.escape \in BOOLEAN
      /\ scan.text \in Seq(Char) /\ Len(scan.text) \in Nat
  <2>1. /\ scan.depth \in Nat /\ scan.cut \in Seq(Char) /\ scan.start \in 0..Len(scan.text)
        /\ scan.depth >= 1 /\ scan.inString = FALSE /\ scan.escape \in BOOLEAN
    BY <1>1 DEF ScanShape
  <2>2. scan.text \in Seq(Char)
    BY <1>1 DEF ScanShape
  <2>3. Len(scan.text) \in Nat
    BY <2>2
  <2>4. QED
    BY <2>1, <2>2, <2>3
<1> DEFINE c == scan.text[scan.at]
           opening == scan.text[scan.start]
<1>3. \A x : AtChar(x) <=> c = x
  BY <1>1 DEF AtChar, More
<1>4. PICK found \in Seq(Char) : found = SubSeq(scan.text, scan.start, scan.at)
  <2>1. PICK text \in Seq(Char) : text = scan.text
    BY <1>2
  <2>2. PICK a \in 1..Len(text), b \in 1..Len(text) : a = scan.start /\ b = scan.at
    BY <1>1, <1>2, <2>1
  <2>3. SubSeq(text, a, b) \in Seq(Char)
    OBVIOUS
  <2>4. QED
    BY <2>1, <2>2, <2>3
<1>5. PICK depth \in Nat, inString \in BOOLEAN, done \in BOOLEAN, cut \in Seq(Char) :
        /\ MovesTo(scan.start, depth, inString, scan.escape, done, cut)
        /\ done => cut = found
        /\ ~ done => depth >= 1
        /\ inString <=> c = "quote"
        /\ c = "quote" => ~ done /\ depth = scan.depth
        /\ c # "quote" /\ c = opening => ~ done /\ depth = scan.depth + 1
        /\ c # "quote" /\ c # opening /\ c = Closing(opening) =>
             /\ scan.depth = 1 => done
             /\ scan.depth # 1 => ~ done /\ depth = scan.depth - 1
        /\ c \notin {"quote", opening, Closing(opening)} => ~ done /\ depth = scan.depth
  <2>1. CASE c = "quote"
    <3>1. MovesTo(scan.start, scan.depth, TRUE, scan.escape, FALSE, scan.cut)
      BY <1>1, <1>3, <2>1 DEF MovesTo, Outside, Moved, ScanShape
    <3>2. QED
      BY <1>2, <2>1, <3>1
  <2>2. CASE c # "quote" /\ c = opening
    <3>1. MovesTo(scan.start, scan.depth + 1, FALSE, scan.escape, FALSE, scan.cut)
      BY <1>1, <1>3, <2>2 DEF MovesTo, Outside, Moved, ScanShape
    <3>2. scan.depth + 1 \in Nat /\ scan.depth + 1 >= 1
      BY <1>2
    <3>3. QED
      BY <1>2, <2>2, <3>1, <3>2
  <2>3. CASE c # "quote" /\ c # opening /\ c = Closing(opening) /\ scan.depth = 1
    <3>1. MovesTo(scan.start, 0, FALSE, scan.escape, TRUE, found)
      BY <1>1, <1>3, <1>4, <2>3 DEF MovesTo, Outside, Moved, ScanShape
    <3>2. QED
      BY <1>2, <2>3, <3>1
  <2>4. CASE c # "quote" /\ c # opening /\ c = Closing(opening) /\ scan.depth # 1
    <3>1. MovesTo(scan.start, scan.depth - 1, FALSE, scan.escape, FALSE, scan.cut)
      BY <1>1, <1>3, <2>4 DEF MovesTo, Outside, Moved, ScanShape
    <3>2. scan.depth - 1 \in Nat /\ scan.depth - 1 >= 1
      BY <1>2, <2>4
    <3>3. QED
      BY <1>2, <2>4, <3>1, <3>2
  <2>5. CASE c \notin {"quote", opening, Closing(opening)}
    <3>1. MovesTo(scan.start, scan.depth, FALSE, scan.escape, FALSE, scan.cut)
      BY <1>1, <1>3, <2>5 DEF MovesTo, Outside, Moved, ScanShape
    <3>2. QED
      BY <1>2, <2>5, <3>1
  <2>6. QED
    BY <2>1, <2>2, <2>3, <2>4, <2>5
<1>6. MovedFrom(scan.start, depth, inString, scan.escape, done, cut)
  <2>1. PICK start \in 0..Len(scan.text), escape \in BOOLEAN :
          start = scan.start /\ escape = scan.escape
    BY <1>2
  <2>2. MovesTo(start, depth, inString, escape, done, cut)
    BY <1>5, <2>1
  <2>3. start > 0 /\ ~ done => depth >= 1
    BY <1>5
  <2>4. MovedFrom(start, depth, inString, escape, done, cut)
    BY <1>1, <1>2, <2>2, <2>3, MovedShape
  <2>5. QED
    BY <2>1, <2>4
<1>7. ASSUME Wrapped
      PROVE  /\ done => cut = scan.value
             /\ ~ done => \E k \in 1..Len(scan'.value) - 1 : Counting(k)'
  <2>1. PICK j \in 1..Len(scan.value) - 1 :
          /\ Counting(j) /\ TableStep(scan.value, j)
          /\ c = scan.value[j + 1] /\ opening = scan.value[1]
    BY <1>1, <1>7, CountingPlace
  <2>2. PICK n \in Nat, m \in Nat : n = Before /\ m = Len(scan.value)
    BY <1>1, ScanText
  <2>3. /\ ~ StringAt(scan.value, j) /\ ~ EscapeAt(scan.value, j)
        /\ ~ EscapeAt(scan.value, j + 1) /\ ~ scan.escape
        /\ scan.depth = DepthAt(scan.value, j) /\ scan.at = n + 1 + j /\ scan.start = n + 1
    BY <1>1, <2>1, <2>2 DEF Counting, TableStep
  <2>4. /\ done => j + 1 = m
        /\ ~ done => /\ j + 1 < m /\ depth = DepthAt(scan.value, j + 1)
                     /\ inString <=> StringAt(scan.value, j + 1)
    <3> HIDE DEF c, opening
    <3>1. /\ c = "quote" => /\ j + 1 < m /\ StringAt(scan.value, j + 1)
                            /\ DepthAt(scan.value, j + 1) = scan.depth
          /\ c # "quote" => ~ StringAt(scan.value, j + 1)
          /\ c = opening => j + 1 < m /\ DepthAt(scan.value, j + 1) = scan.depth + 1
          /\ c = Closing(opening) /\ scan.depth = 1 => j + 1 = m
          /\ c = Closing(opening) /\ scan.depth # 1
               => j + 1 < m /\ DepthAt(scan.value, j + 1) = scan.depth - 1
          /\ c \notin {"quote", opening, Closing(opening)}
               => j + 1 < m /\ DepthAt(scan.value, j + 1) = scan.depth
      BY <2>1, <2>2, <2>3 DEF TableStep
    <3>2. QED
      BY <1>5, <3>1
  <2>5. ASSUME done PROVE cut = scan.value
    <3>1. scan.at = n + m
      BY <2>2, <2>3, <2>4, <2>5
    <3>2. found = SubSeq(scan.text, n + 1, n + m)
      BY <1>4, <2>3, <3>1
    <3>3. QED
      BY <1>1, <1>5, <2>2, <2>5, <3>2, ScanText
  <2>6. ASSUME ~ done PROVE j + 1 \in 1..Len(scan'.value) - 1 /\ Counting(j + 1)'
    <3>1. j + 1 \in 1..m - 1
      BY <2>2, <2>4, <2>6
    <3>2. scan.at + 1 = n + 1 + (j + 1)
      BY <2>2, <2>3
    <3>3. QED
      BY <1>6, <2>2, <2>3, <2>4, <2>6, <3>1, <3>2 DEF Counting, MovedFrom
  <2>7. QED
    BY <2>5, <2>6
<1>8. QED
  BY <1>6, <1>7 DEF ScanInv, InPlace, MovedFrom

LEMMA ScanFailsKeeps == ASSUME ScanInv, ScanFails PROVE ScanInv'
<1>1. ScanShape /\ ~ scan.done /\ scan.at > Len(scan.text)
  BY DEF ScanInv, ScanFails
<1>2. scan' = [scan EXCEPT !.done = TRUE, !.cut = scan.text] /\ scan.text \in Seq(Char)
  BY <1>1 DEF ScanFails, ScanShape
<1>3. scan' \in [text : {scan.text}, before : {scan.before}, value : {scan.value},
                 after : {scan.after}, at : {scan.at}, start : {scan.start},
                 depth : {scan.depth}, inString : {scan.inString}, escape : {scan.escape},
                 done : {TRUE}, cut : {scan.text}]
  BY <1>1, <1>2 DEF ScanShape
<1>4. ScanShape' /\ scan'.before = scan.before /\ scan'.after = scan.after
  BY <1>1, <1>2, <1>3 DEF ScanShape
<1>5. ASSUME Wrapped PROVE FALSE
  <2>1. PICK n \in Nat, m \in Nat, t \in Nat :
          n = Before /\ m = Len(scan.value) /\ t = Len(scan.text) /\ m >= 2 /\ t >= n + m
    <3>1. Len(scan.text) \in Nat
      BY <1>2
    <3>2. QED
      BY <1>1, <3>1, ScanText
  <2>2. scan.at <= n + m
    <3>1. Searching \/ \E j \in 1..m - 1 : Counting(j)
      BY <1>1, <1>5, <2>1 DEF ScanInv, InPlace
    <3>2. QED
      BY <2>1, <3>1 DEF Searching, Counting
  <2>3. scan.at \in Nat
    BY <1>1 DEF ScanShape
  <2>4. QED
    BY <1>1, <2>1, <2>2, <2>3
<1>6. QED
  BY <1>4, <1>5 DEF ScanInv, Wrapped

(******************************** theorems ********************************)

LEMMA ScanInitially == ScanInit => ScanInv
<1> SUFFICES ASSUME ScanInit PROVE ScanInv
  OBVIOUS
<1>1. PICK before \in Prose, value \in JsonValues, after \in Prose :
        scan = Wholesale(ScanOf(before, value, after))
  BY DEF ScanInit
<1>2. before \in Seq(Char) /\ after \in Seq(Char) /\ value \in Seq(Char)
  BY <1>1, ProseIsText, Values
<1>3. PICK text \in Seq(Char) :
        text = before \o value \o after /\ IsAnswer(text, before, value, after)
  <2>1. before \o value \o after \in Seq(Char)
    BY <1>2
  <2>2. QED
    BY <1>2, <2>1, AnswerText
<1>4. /\ Len(text) \in Nat /\ Len(value) \in Nat /\ Len(before) \in Nat /\ Len(after) \in Nat
      /\ Len(value) >= 2 /\ value[1] \in Openers
      /\ Len(text) = Len(before) + Len(value) + Len(after)
  BY <1>2, <1>3, Values DEF IsAnswer
<1>5. text # <<>> /\ <<>> \in Seq(Char) /\ 1 \in 1..Len(text) + 1 /\ 0 \in 0..Len(text)
  BY <1>3, <1>4
<1>6. ScanOf(before, value, after) =
        [text |-> text, before |-> before, value |-> value, after |-> after,
         at |-> 1, start |-> 0, depth |-> 0, inString |-> FALSE, escape |-> FALSE,
         done |-> FALSE, cut |-> <<>>]
  BY <1>3 DEF ScanOf
<1>7. CASE text[1] \in Openers
  <2>1. scan \in [text : {text}, before : {before}, value : {value}, after : {after},
                  at : {1}, start : {0}, depth : {0}, inString : {FALSE}, escape : {FALSE},
                  done : {TRUE}, cut : {text}]
    <3>1. PICK s : s = ScanOf(before, value, after)
      OBVIOUS
    <3>2. scan = [s EXCEPT !.done = TRUE, !.cut = text]
      BY <1>1, <1>5, <1>6, <1>7, <3>1 DEF Wholesale
    <3>3. s \in [text : {text}, before : {before}, value : {value}, after : {after},
                 at : {1}, start : {0}, depth : {0}, inString : {FALSE}, escape : {FALSE},
                 done : {FALSE}, cut : {<<>>}]
      BY <1>6, <3>1
    <3>4. QED
      BY <3>2, <3>3
  <2>2. ScanShape
    <3>1. scan \in [text : Seq(Char), before : Seq(Char), value : JsonValues, after : Seq(Char),
                   at : Nat, start : Nat, depth : Nat, inString : BOOLEAN, escape : BOOLEAN,
                   done : BOOLEAN, cut : Seq(Char)]
      <4>1. /\ text \in Seq(Char) /\ before \in Seq(Char) /\ after \in Seq(Char)
            /\ value \in JsonValues /\ 0 \in Nat /\ 1 \in Nat
            /\ FALSE \in BOOLEAN /\ TRUE \in BOOLEAN
        BY <1>2
      <4>2. QED
        BY <2>1, <4>1
    <3>2. /\ scan.text = text /\ scan.before = before /\ scan.value = value
          /\ scan.after = after /\ scan.at = 1 /\ scan.start = 0 /\ scan.done
      BY <2>1
    <3>3. QED
      BY <1>3, <1>5, <3>1, <3>2 DEF ScanShape
  <2>3. ASSUME Wrapped PROVE text = value
    <3>1. before = <<>>
      <4>1. SUFFICES ASSUME Len(before) >= 1 PROVE FALSE
        BY <1>2, <1>4
      <4>2. text[1] = before[1] /\ 1 \in DOMAIN before
        BY <1>2, <1>3, <1>4, <4>1 DEF IsAnswer
      <4>3. QED
        BY <1>7, <2>1, <2>3, <4>2 DEF Wrapped
    <3>2. after = <<>>
      BY <2>1, <2>3, <3>1 DEF Wrapped
    <3>3. QED
      BY <1>2, <1>3, <3>1, <3>2
  <2>4. QED
    BY <2>1, <2>2, <2>3 DEF ScanInv, InPlace
<1>8. CASE text[1] \notin Openers
  <2>1. scan = [text |-> text, before |-> before, value |-> value, after |-> after,
                at |-> 1, start |-> 0, depth |-> 0, inString |-> FALSE, escape |-> FALSE,
                done |-> FALSE, cut |-> <<>>]
    BY <1>1, <1>5, <1>6, <1>8 DEF Wholesale
  <2>2. ScanShape
    BY <1>2, <1>3, <1>5, <2>1 DEF ScanShape
  <2>3. 1 \in 1..Len(before) + 1
    BY <1>4
  <2>4. QED
    BY <2>1, <2>2, <2>3 DEF ScanInv, InPlace, Searching, Before
<1>9. QED
  BY <1>7, <1>8

LEMMA ScanSteps == ScanInv /\ [ScanNext]_scan => ScanInv'
<1> SUFFICES ASSUME ScanInv, [ScanNext]_scan PROVE ScanInv'
  OBVIOUS
<1>1. CASE UNCHANGED scan
  BY <1>1 DEF ScanInv, ScanShape, Wrapped, InPlace, Searching, Counting, Before
<1>2. QED
  BY <1>1, FindStartKeeps, InStringKeeps, OutsideKeeps, ScanFailsKeeps DEF ScanNext

LEMMA ScanInvariant == ScanSpec => []ScanInv
BY ScanInitially, ScanSteps, PTL DEF ScanSpec

(* A value of JsonValues wrapped in prose of any length is cut out exactly by              *)
(* _extract_balanced_json_substring, whatever the prose behind it holds. *)
THEOREM WrappedValueIsFound == ScanSpec => []ValueFound
<1>1. ScanInv => ValueFound
  BY DEF ScanInv, Wrapped, InPlace, ValueFound
<1>2. QED
  BY <1>1, ScanInvariant, PTL

(* The scan stays inside the answer, and its depth never falls below zero. *)
THEOREM ScanTypes == ScanSpec => []ScanTypeOK
<1>1. ScanInv => ScanTypeOK
  BY DEF ScanInv, ScanShape, ScanTypeOK
<1>2. QED
  BY <1>1, ScanInvariant, PTL

(***************************** ContextBudget *****************************)

(* TotalIsSum is inductive with the shape of a message: a layer is replaced by a smaller    *)
(* one, and the total loses the difference.  FitsOrExhausted needs to know what a pass that *)
(* made no progress has gone by: layers of at most 300 tokens. *)

LayerName == {"critic_distant_memory", "relevant_world_settings", "global_prompt_digest",
  "cross_chapter_review_insights", "review_history", "distant_memory", "relevant_characters",
  "recent_summaries", "recent_chapter_cards", "relationship_state_memory",
  "previous_chapter_tail", "rush_previous_chapter_contents"}

\* a message of layers D
FitShape(D) ==
  fit \in [sizes : [D -> Nat], given : [D -> Nat], required : Nat, total : Int, target : Nat,
           hard : Nat, at : 1..13, progress : BOOLEAN, overflow : Int,
           phase : {"reduce", "pass", "cut", "done"}]

\* no layer is larger than it was given, nor cut below 300 tokens
KeptWithin ==
  \A l \in Optional : /\ fit.sizes[l] <= fit.given[l]
                      /\ fit.sizes[l] >= Least(fit.given[l], 300)

\* the layers of ReductionOrder a pass that made no progress went by are down to 300
PassedBy == \A k \in 1..fit.at - 1 : ReductionOrder[k] \in Optional
              => fit.sizes[ReductionOrder[k]] <= 300

\* when the message is let go
Settled ==
  /\ fit.phase = "cut" /\ ~ fit.progress => PassedBy
  /\ fit.phase = "done" => fit.total <= Hard \/ \A l \in Optional : fit.sizes[l] <= 300
  /\ fit.required + LayerTotal(fit.given) <= Soft => fit.sizes = fit.given /\ fit.phase = "done"

FitInv ==
  /\ \E D \in SUBSET LayerName : FitShape(D)
  /\ Soft <= Hard
  /\ TotalIsSum
  /\ KeptWithin
  /\ Settled

(******************************* the helpers ******************************)

LEMMA OrderFacts ==
  /\ Len(ReductionOrder) = 12
  /\ \A k \in 1..12 : ReductionOrder[k] \in LayerName
  /\ \A l \in LayerName : \E k \in 1..12 : ReductionOrder[k] = l
<1>1. Len(ReductionOrder) = 12
  BY DEF ReductionOrder
<1>2. \A k \in 1..12 : ReductionOrder[k] \in LayerName
  BY DEF ReductionOrder, LayerName
<1>3. ASSUME NEW l \in LayerName PROVE \E k \in 1..12 : ReductionOrder[k] = l
  <2>1. /\ ReductionOrder[1] = "critic_distant_memory"
        /\ ReductionOrder[2] = "relevant_world_settings"
        /\ ReductionOrder[3] = "global_prompt_digest"
        /\ ReductionOrder[4] = "cross_chapter_review_insights"
        /\ ReductionOrder[5] = "review_history" /\ ReductionOrder[6] = "distant_memory"
        /\ ReductionOrder[7] = "relevant_characters" /\ ReductionOrder[8] = "recent_summaries"
        /\ ReductionOrder[9] = "recent_chapter_cards"
        /\ ReductionOrder[10] = "relationship_state_memory"
        /\ ReductionOrder[11] = "previous_chapter_tail"
        /\ ReductionOrder[12] = "rush_previous_chapter_contents"
    BY DEF ReductionOrder
  <2>2. {1, 2, 3, 4, 5, 6, 7, 8, 9, 10, 11, 12} \subseteq 1..12
    OBVIOUS
  <2> HIDE DEF ReductionOrder
  <2>3. QED
    BY <2>1, <2>2 DEF LayerName
<1>4. QED
  BY <1>1, <1>2, <1>3

LEMMA LimitFacts ==
  \A l \in LayerName : LayerLimit[l] \in Nat /\ ShrunkLimit[l] \in Nat /\ ShrunkLimit[l] >= 300
  BY DEF LayerName, LayerLimit, ShrunkLimit

\* a cut takes nothing below the smaller of the text and its limit
LEMMA TrimBounds ==
  ASSUME NEW size \in Nat, NEW limit \in Nat
  PROVE  /\ Trim(size, limit) \in Nat /\ Trim(size, limit) <= size
         /\ limit >= 300 => Trim(size, limit) >= Least(size, 300)
  BY DEF Trim, Least, Most

LEMMA SizeTypes ==
  ASSUME NEW D, NEW sizes \in [D -> Nat], NEW l PROVE SizeIn(sizes, l) \in Nat
  BY DEF SizeIn

LEMMA TotalTypes ==
  ASSUME NEW D, NEW sizes \in [D -> Nat] PROVE LayerTotal(sizes) \in Nat
<1>1. \A l : SizeIn(sizes, l) \in Nat
  BY SizeTypes
<1>2. QED
  BY <1>1 DEF LayerTotal

\* replacing one layer changes the total by as much
LEMMA TotalOfCut ==
  ASSUME NEW D \in SUBSET LayerName, NEW sizes \in [D -> Nat], NEW layer \in D, NEW t \in Nat
  PROVE  LayerTotal([sizes EXCEPT ![layer] = t]) = LayerTotal(sizes) - (sizes[layer] - t)
<1> DEFINE cut == [sizes EXCEPT ![layer] = t]
<1>1. \A l : SizeIn(cut, l) = IF l = layer THEN t ELSE SizeIn(sizes, l)
  BY DEF SizeIn
<1>2. SizeIn(sizes, layer) = sizes[layer] /\ sizes[layer] \in Nat
  BY DEF SizeIn
<1>3. \A l : SizeIn(sizes, l) \in Nat
  BY SizeTypes
<1> HIDE DEF cut
<1>4. layer \in LayerName
  OBVIOUS
<1>5. LayerTotal(cut) = LayerTotal(sizes) - (SizeIn(sizes, layer) - t)
  BY <1>1, <1>3, <1>4 DEF LayerTotal, LayerName
<1>6. QED
  BY <1>2, <1>5 DEF cut


(******************************** the steps *******************************)

\* what the invariant says of a message in one place
LEMMA FitFacts ==
  ASSUME FitInv
  PROVE  \E D \in SUBSET LayerName :
           /\ FitShape(D) /\ Optional = D
           /\ fit.sizes \in [D -> Nat] /\ fit.given \in [D -> Nat]
           /\ fit.at \in 1..13 /\ fit.total \in Int /\ fit.required \in Nat
           /\ Soft \in Nat /\ Hard \in Nat /\ fit.overflow \in Int
<1>1. PICK D \in SUBSET LayerName : FitShape(D)
  BY DEF FitInv
<1>2. QED
  BY <1>1 DEF FitShape, Optional, Soft, Hard

\* the message whose layers are cut to sizes, each no further than allowed
LEMMA CutKeeps ==
  ASSUME FitInv, NEW D \in SUBSET LayerName, FitShape(D), NEW sizes \in [D -> Nat],
         \A l \in D : sizes[l] <= fit.sizes[l] /\ sizes[l] >= Least(fit.sizes[l], 300),
         fit'.sizes = sizes, fit'.given = fit.given
  PROVE  KeptWithin'
<1>1. fit.sizes \in [D -> Nat] /\ fit.given \in [D -> Nat] /\ Optional = D /\ Optional' = D
  BY DEF FitShape, Optional
<1>2. ASSUME NEW l \in D
      PROVE  sizes[l] <= fit.given[l] /\ sizes[l] >= Least(fit.given[l], 300)
  <2>1. fit.sizes[l] <= fit.given[l] /\ fit.sizes[l] >= Least(fit.given[l], 300)
    BY <1>1 DEF FitInv, KeptWithin
  <2>2. fit.sizes[l] \in Nat /\ fit.given[l] \in Nat /\ sizes[l] \in Nat
    BY <1>1
  <2>3. QED
    BY <2>1, <2>2 DEF Least
<1>3. QED
  BY <1>1, <1>2 DEF KeptWithin

\* one layer cut to t
CutTo(D, t, sizes, total) ==
  /\ Cut(t) = [fit EXCEPT !.sizes = sizes, !.total = total]
  /\ total = fit.required + LayerTotal(sizes)
  /\ \A l \in D : sizes[l] <= fit.sizes[l] /\ sizes[l] >= Least(fit.sizes[l], 300)

LEMMA CutLayerTo ==
  ASSUME FitInv, NEW D \in SUBSET LayerName, FitShape(D), Present, NEW t \in Nat,
         t <= fit.sizes[Layer], t >= Least(fit.sizes[Layer], 300)
  PROVE  \E sizes \in [D -> Nat], total \in Int : CutTo(D, t, sizes, total)
<1>1. /\ fit.sizes \in [D -> Nat] /\ Optional = D /\ fit.required \in Nat
      /\ fit.total \in Int
  BY DEF FitShape, Optional
<1>2. PICK layer \in D : layer = Layer
  BY <1>1 DEF Present
<1>3. PICK sizes \in [D -> Nat] : sizes = [fit.sizes EXCEPT ![layer] = t]
  BY <1>1
<1>4. LayerTotal(sizes) = LayerTotal(fit.sizes) - (fit.sizes[layer] - t)
  BY <1>1, <1>3, TotalOfCut
<1>5. LayerTotal(fit.sizes) \in Nat /\ fit.sizes[layer] \in Nat
  BY <1>1, TotalTypes
<1>6. PICK total \in Int : total = fit.total - (fit.sizes[layer] - t)
  BY <1>1, <1>5
<1>7. Cut(t) = [fit EXCEPT !.sizes = sizes, !.total = total]
  BY <1>1, <1>2, <1>3, <1>6 DEF Cut, FitShape
<1>8. total = fit.required + LayerTotal(sizes)
  BY <1>1, <1>4, <1>5, <1>6 DEF FitInv, TotalIsSum
<1>9. \A l \in D : sizes[l] <= fit.sizes[l] /\ sizes[l] >= Least(fit.sizes[l], 300)
  BY <1>1, <1>2, <1>3 DEF Least
<1>10. QED
  BY <1>2, <1>3, <1>7, <1>8, <1>9 DEF CutTo

\* a message that fits from the start is not touched
LEMMA NotFromTheStart ==
  ASSUME FitInv, fit.phase # "done", fit'.required = fit.required, fit'.given = fit.given,
         fit'.target = fit.target
  PROVE  ~ (fit.required + LayerTotal(fit.given) <= Soft)'
  BY DEF FitInv, Settled, Soft

LEMMA ReduceLayerKeeps == ASSUME FitInv, ReduceLayer PROVE FitInv'
<1>1. PICK D \in SUBSET LayerName :
        /\ FitShape(D) /\ Optional = D /\ fit.sizes \in [D -> Nat] /\ fit.at \in 1..13
        /\ Soft \in Nat /\ Hard \in Nat
  BY FitFacts
<1>2. fit.phase = "reduce" /\ fit.at + 1 \in 1..13
  BY <1>1, OrderFacts DEF ReduceLayer
<1>3. CASE Present
  <2>1. Layer \in LayerName /\ fit.sizes[Layer] \in Nat
    BY <1>1, <1>3 DEF Present
  <2>2. PICK t \in Nat : /\ t = Trim(fit.sizes[Layer], ShrunkLimit[Layer])
                        /\ t <= fit.sizes[Layer] /\ t >= Least(fit.sizes[Layer], 300)
    BY <2>1, LimitFacts, TrimBounds
  <2>3. fit' = [Cut(t) EXCEPT !.at = Cut(t).at + 1]
    BY <1>3, <2>2 DEF ReduceLayer
  <2>4. PICK sizes \in [D -> Nat], total \in Int : CutTo(D, t, sizes, total)
    BY <1>1, <1>3, <2>2, CutLayerTo
  <2>5. fit' = [fit EXCEPT !.sizes = sizes, !.total = total, !.at = fit.at + 1]
    BY <1>1, <2>3, <2>4 DEF FitShape, CutTo
  <2>6. /\ FitShape(D)'
        /\ fit'.sizes = sizes /\ fit'.total = total /\ fit'.phase = "reduce"
        /\ fit'.given = fit.given /\ fit'.required = fit.required
        /\ fit'.target = fit.target /\ fit'.hard = fit.hard
    BY <1>1, <1>2, <2>5 DEF FitShape
  <2>7. KeptWithin'
    BY <1>1, <2>4, <2>6, CutKeeps DEF CutTo
  <2>8. TotalIsSum'
    BY <2>4, <2>6 DEF TotalIsSum, CutTo
  <2>9. Settled'
    BY <1>2, <2>6, NotFromTheStart DEF Settled
  <2>10. QED
    BY <2>6, <2>7, <2>8, <2>9 DEF FitInv, Soft, Hard
<1>4. CASE ~ Present
  <2>1. fit' = [fit EXCEPT !.at = fit.at + 1]
    BY <1>4 DEF ReduceLayer
  <2>2. /\ FitShape(D)'
        /\ fit'.sizes = fit.sizes /\ fit'.total = fit.total /\ fit'.phase = "reduce"
        /\ fit'.given = fit.given /\ fit'.required = fit.required
        /\ fit'.target = fit.target /\ fit'.hard = fit.hard
    BY <1>1, <1>2, <2>1 DEF FitShape
  <2>3. QED
    BY <1>2, <2>2, NotFromTheStart
       DEF FitInv, Soft, Hard, Optional, TotalIsSum, KeptWithin, Settled
<1>5. QED
  BY <1>3, <1>4

\* a step that moves on without cutting
LEMMA PhaseFields ==
  ASSUME FitInv, NEW phase \in {"reduce", "pass", "cut", "done"},
         fit' = [fit EXCEPT !.phase = phase]
  PROVE  /\ \E D \in SUBSET LayerName : FitShape(D)'
         /\ fit'.phase = phase
         /\ fit'.sizes = fit.sizes /\ fit'.total = fit.total /\ fit'.at = fit.at
         /\ fit'.given = fit.given /\ fit'.required = fit.required
         /\ fit'.target = fit.target /\ fit'.hard = fit.hard /\ fit'.progress = fit.progress
  BY DEF FitInv, FitShape

LEMMA HalveAllKeeps == ASSUME FitInv, HalveAll PROVE FitInv'
<1>1. PICK D \in SUBSET LayerName :
        /\ FitShape(D) /\ Optional = D /\ fit.sizes \in [D -> Nat]
        /\ fit.required \in Nat /\ Soft \in Nat /\ Hard \in Nat
  BY FitFacts
<1>2. fit.phase = "reduce"
  BY DEF HalveAll
<1>3. CASE fit.total <= Hard
  <2>1. fit' = [fit EXCEPT !.phase = "done"]
    BY <1>3 DEF HalveAll
  <2>2. QED
    BY <1>2, <1>3, <2>1, PhaseFields, NotFromTheStart
       DEF FitInv, Soft, Hard, Optional, TotalIsSum, KeptWithin, Settled
<1>4. CASE ~ (fit.total <= Hard)
  <2> DEFINE f == [l \in D |-> Trim(fit.sizes[l], Most(300, fit.sizes[l] \div 2))]
  <2>1. fit' = [fit EXCEPT !.sizes = f, !.phase = "pass",
                           !.total = fit.required + LayerTotal(f)]
    BY <1>1, <1>4 DEF HalveAll
  <2>2. ASSUME NEW l \in D
        PROVE  /\ f[l] \in Nat /\ f[l] <= fit.sizes[l]
               /\ f[l] >= Least(fit.sizes[l], 300)
    <3>1. PICK size \in Nat : size = fit.sizes[l]
      BY <1>1
    <3>2. PICK limit \in Nat : limit = Most(300, size \div 2) /\ limit >= 300
      BY DEF Most
    <3>3. limit >= 300
      BY <3>2
    <3>4. /\ Trim(size, limit) \in Nat /\ Trim(size, limit) <= size
          /\ Trim(size, limit) >= Least(size, 300)
      BY <3>3, TrimBounds
    <3>5. f[l] = Trim(size, limit)
      BY <3>1, <3>2
    <3>6. QED
      BY <3>1, <3>4, <3>5
  <2>3. f \in [D -> Nat]
    BY <2>2
  <2> HIDE DEF f
  <2>4. PICK total \in Int : total = fit.required + LayerTotal(f)
    BY <1>1, <2>3, TotalTypes
  <2>5. /\ FitShape(D)'
        /\ fit'.sizes = f /\ fit'.total = total /\ fit'.phase = "pass"
        /\ fit'.given = fit.given /\ fit'.required = fit.required
        /\ fit'.target = fit.target /\ fit'.hard = fit.hard
    BY <1>1, <2>1, <2>3, <2>4 DEF FitShape
  <2>6. KeptWithin'
    BY <1>1, <2>2, <2>3, <2>5, CutKeeps
  <2>7. QED
    BY <1>2, <2>4, <2>5, <2>6, NotFromTheStart DEF FitInv, Soft, Hard, TotalIsSum, Settled
<1>5. QED
  BY <1>3, <1>4

LEMMA BeginPassKeeps == ASSUME FitInv, BeginPass PROVE FitInv'
<1>1. PICK D \in SUBSET LayerName :
        /\ FitShape(D) /\ Optional = D /\ fit.total \in Int /\ Soft \in Nat /\ Hard \in Nat
  BY FitFacts
<1>2. fit.phase = "pass"
  BY DEF BeginPass
<1>3. CASE fit.total <= Hard
  <2>1. fit' = [fit EXCEPT !.phase = "done"]
    BY <1>3 DEF BeginPass
  <2>2. QED
    BY <1>2, <1>3, <2>1, PhaseFields, NotFromTheStart
       DEF FitInv, Soft, Hard, Optional, TotalIsSum, KeptWithin, Settled
<1>4. CASE ~ (fit.total <= Hard)
  <2>1. PICK over \in Int : over = fit.total - Hard
    BY <1>1
  <2>2. fit' = [fit EXCEPT !.phase = "cut", !.at = 1, !.progress = FALSE, !.overflow = over]
    BY <1>4, <2>1 DEF BeginPass
  <2>3. /\ FitShape(D)'
        /\ fit'.sizes = fit.sizes /\ fit'.total = fit.total /\ fit'.phase = "cut"
        /\ fit'.given = fit.given /\ fit'.required = fit.required
        /\ fit'.target = fit.target /\ fit'.hard = fit.hard /\ fit'.at = 1
    <3>1. fit' \in [sizes : {fit.sizes}, given : {fit.given}, required : {fit.required},
                    total : {fit.total}, target : {fit.target}, hard : {fit.hard}, at : {1},
                    progress : {FALSE}, overflow : {over}, phase : {"cut"}]
      BY <1>1, <2>2 DEF FitShape
    <3>2. 1 \in 1..13
      OBVIOUS
    <3>3. QED
      BY <1>1, <2>1, <3>1, <3>2 DEF FitShape
  <2>4. PassedBy'
    BY <2>3 DEF PassedBy
  <2>5. QED
    BY <1>2, <2>3, <2>4, NotFromTheStart
       DEF FitInv, Soft, Hard, Optional, TotalIsSum, KeptWithin, Settled
<1>5. QED
  BY <1>3, <1>4

LEMMA CutLayerKeeps == ASSUME FitInv, CutLayer PROVE FitInv'
<1>1. PICK D \in SUBSET LayerName :
        /\ FitShape(D) /\ Optional = D /\ fit.sizes \in [D -> Nat] /\ fit.at \in 1..13
        /\ fit.overflow \in Int /\ Soft \in Nat /\ Hard \in Nat
  BY FitFacts
<1>2. fit.phase = "cut" /\ fit.at + 1 \in 1..13
  BY <1>1, OrderFacts DEF CutLayer
<1>3. CASE Present /\ fit.sizes[Layer] > 300
  <2>1. fit.sizes[Layer] \in Nat
    BY <1>1, <1>3 DEF Present
  <2>2. PICK limit \in Nat :
          limit = Most(300, fit.sizes[Layer] - Most(fit.overflow, 200)) /\ limit >= 300
    BY <1>1, <2>1 DEF Most
  <2>3. PICK t \in Nat : /\ t = Trim(fit.sizes[Layer], limit)
                        /\ t <= fit.sizes[Layer] /\ t >= Least(fit.sizes[Layer], 300)
    BY <2>1, <2>2, TrimBounds
  <2>4. fit' = [Cut(t) EXCEPT !.at = Cut(t).at + 1, !.progress = TRUE]
    BY <1>3, <2>2, <2>3 DEF CutLayer
  <2>5. PICK sizes \in [D -> Nat], total \in Int : CutTo(D, t, sizes, total)
    BY <1>1, <1>3, <2>3, CutLayerTo
  <2>6. fit' = [fit EXCEPT !.sizes = sizes, !.total = total, !.at = fit.at + 1,
                           !.progress = TRUE]
    BY <1>1, <2>4, <2>5 DEF FitShape, CutTo
  <2>7. /\ FitShape(D)'
        /\ fit'.sizes = sizes /\ fit'.total = total /\ fit'.phase = "cut"
        /\ fit'.given = fit.given /\ fit'.required = fit.required
        /\ fit'.target = fit.target /\ fit'.hard = fit.hard /\ fit'.progress
    BY <1>1, <1>2, <2>6 DEF FitShape
  <2>8. KeptWithin'
    BY <1>1, <2>5, <2>7, CutKeeps DEF CutTo
  <2>9. QED
    BY <1>2, <2>5, <2>7, <2>8, NotFromTheStart DEF FitInv, Soft, Hard, TotalIsSum, Settled, CutTo
<1>4. CASE ~ (Present /\ fit.sizes[Layer] > 300)
  <2>1. fit' = [fit EXCEPT !.at = fit.at + 1]
    BY <1>4 DEF CutLayer
  <2>2. /\ FitShape(D)'
        /\ fit'.sizes = fit.sizes /\ fit'.total = fit.total /\ fit'.phase = "cut"
        /\ fit'.given = fit.given /\ fit'.required = fit.required
        /\ fit'.target = fit.target /\ fit'.hard = fit.hard
        /\ fit'.progress = fit.progress /\ fit'.at = fit.at + 1
    BY <1>1, <1>2, <2>1 DEF FitShape
  <2>3. ASSUME PassedBy PROVE PassedBy'
    <3>1. SUFFICES ASSUME NEW k \in 1..fit.at, ReductionOrder[k] \in D
                   PROVE  fit.sizes[ReductionOrder[k]] <= 300
      BY <1>1, <2>2 DEF PassedBy, Optional
    <3>2. CASE k \in 1..fit.at - 1
      BY <1>1, <2>3, <3>1, <3>2 DEF PassedBy
    <3>3. CASE k = fit.at
      BY <1>1, <1>2, <1>4, <3>1, <3>3, OrderFacts DEF Present, Layer
    <3>4. QED
      BY <1>1, <3>2, <3>3
  <2>4. QED
    BY <1>2, <2>2, <2>3, NotFromTheStart
       DEF FitInv, Soft, Hard, Optional, TotalIsSum, KeptWithin, Settled
<1>5. QED
  BY <1>3, <1>4

LEMMA EndPassKeeps == ASSUME FitInv, EndPass PROVE FitInv'
<1>1. PICK D \in SUBSET LayerName :
        /\ FitShape(D) /\ Optional = D /\ fit.sizes \in [D -> Nat] /\ fit.at \in 1..13
        /\ fit.total \in Int /\ Hard \in Nat
  BY FitFacts
<1>2. fit.phase = "cut" /\ (fit.at > 12 \/ fit.total <= Hard)
  BY OrderFacts DEF EndPass
<1>3. CASE fit.progress
  <2>1. fit' = [fit EXCEPT !.phase = "pass"]
    BY <1>3 DEF EndPass
  <2>2. QED
    BY <1>2, <2>1, PhaseFields, NotFromTheStart
       DEF FitInv, Soft, Hard, Optional, TotalIsSum, KeptWithin, Settled
<1>4. CASE ~ fit.progress
  <2>1. fit' = [fit EXCEPT !.phase = "done"]
    BY <1>4 DEF EndPass
  <2>2. fit.total <= Hard \/ \A l \in D : fit.sizes[l] <= 300
    <3>1. SUFFICES ASSUME fit.at = 13, NEW l \in D PROVE fit.sizes[l] <= 300
      BY <1>1, <1>2
    <3>2. PICK k \in 1..12 : ReductionOrder[k] = l
      BY OrderFacts
    <3>3. QED
      BY <1>1, <1>2, <1>4, <3>1, <3>2 DEF FitInv, Settled, PassedBy
  <2>3. QED
    BY <1>1, <1>2, <2>1, <2>2, PhaseFields, NotFromTheStart
       DEF FitInv, Soft, Hard, Optional, TotalIsSum, KeptWithin, Settled
<1>5. QED
  BY <1>3, <1>4

(******************************** theorems ********************************)

LEMMA MessageLayers ==
  ASSUME NEW message \in DOMAIN LayersOf PROVE LayersOf[message] \in SUBSET LayerName
  BY DEF LayersOf, LayerName

\* the layers as they are kept before any cut
Given(message, texts) == [l \in LayersOf[message] |-> Trim(texts[l], LayerLimit[l])]

LEMMA FitInitially == FitInit => FitInv
<1> SUFFICES ASSUME FitInit PROVE FitInv
  OBVIOUS
<1>1. PICK message \in DOMAIN LayersOf, budget \in Budgets, required \in RequiredSizes :
        \E texts \in [LayersOf[message] -> OptionalSizes] :
          fit = [sizes |-> Given(message, texts), given |-> Given(message, texts),
                 required |-> required,
                 total |-> required + LayerTotal(Given(message, texts)),
                 target |-> budget[1], hard |-> budget[2], at |-> 1, progress |-> FALSE,
                 overflow |-> 0,
                 phase |-> IF required + LayerTotal(Given(message, texts)) <= budget[1]
                           THEN "done" ELSE "reduce"]
  BY DEF FitInit, Given
<1>2. PICK D \in SUBSET LayerName : D = LayersOf[message]
  BY MessageLayers
<1>3. PICK texts \in [D -> OptionalSizes] :
        fit = [sizes |-> Given(message, texts), given |-> Given(message, texts),
               required |-> required,
               total |-> required + LayerTotal(Given(message, texts)),
               target |-> budget[1], hard |-> budget[2], at |-> 1, progress |-> FALSE,
               overflow |-> 0,
               phase |-> IF required + LayerTotal(Given(message, texts)) <= budget[1]
                         THEN "done" ELSE "reduce"]
  BY <1>1, <1>2
<1>4. PICK sizes \in [D -> Nat] : sizes = Given(message, texts)
  <2>1. ASSUME NEW l \in D PROVE Trim(texts[l], LayerLimit[l]) \in Nat
    <3>1. texts[l] \in Nat /\ LayerLimit[l] \in Nat
      BY ContextAssumption, LimitFacts
    <3>2. QED
      BY <3>1, TrimBounds
  <2>2. QED
    BY <1>2, <2>1 DEF Given
<1>5. required \in Nat /\ budget[1] \in Nat /\ budget[2] \in Nat /\ budget[1] <= budget[2]
  BY ContextAssumption
<1>6. PICK sum \in Int : sum = required + LayerTotal(sizes)
  BY <1>4, <1>5, TotalTypes
<1>7. fit = [sizes |-> sizes, given |-> sizes, required |-> required, total |-> sum,
             target |-> budget[1], hard |-> budget[2], at |-> 1, progress |-> FALSE,
             overflow |-> 0, phase |-> IF sum <= budget[1] THEN "done" ELSE "reduce"]
  BY <1>3, <1>4, <1>6
<1>8. /\ FitShape(D)
      /\ fit.sizes = sizes /\ fit.given = sizes /\ fit.total = sum /\ fit.required = required
      /\ fit.phase = IF sum <= budget[1] THEN "done" ELSE "reduce"
      /\ Soft = budget[1] /\ Hard = budget[2] /\ Optional = D
  BY <1>4, <1>5, <1>6, <1>7 DEF FitShape, Soft, Hard, Optional
<1>9. KeptWithin
  BY <1>4, <1>8 DEF KeptWithin, Least
<1>10. Settled
  BY <1>5, <1>6, <1>8 DEF Settled
<1>11. QED
  BY <1>5, <1>6, <1>8, <1>9, <1>10 DEF FitInv, TotalIsSum

LEMMA FitSteps == FitInv /\ [FitNext]_fit => FitInv'
<1> SUFFICES ASSUME FitInv, [FitNext]_fit PROVE FitInv'
  OBVIOUS
<1>1. CASE UNCHANGED fit
  BY <1>1 DEF FitInv, FitShape, TotalIsSum, KeptWithin, Settled, PassedBy, Optional, Soft, Hard
<1>2. QED
  BY <1>1, ReduceLayerKeeps, HalveAllKeeps, BeginPassKeeps, CutLayerKeeps, EndPassKeeps
     DEF FitNext

LEMMA FitInvariant == FitSpec => []FitInv
BY FitInitially, FitSteps, PTL DEF FitSpec

(* The running total of _fit_to_budget is the size of the layers after every cut, whatever *)
(* the sizes of the texts and the budget are. *)
THEOREM RunningTotal == FitSpec => []TotalIsSum
<1>1. FitInv => TotalIsSum
  BY DEF FitInv
<1>2. QED
  BY <1>1, FitInvariant, PTL

(* The layers are let go when they fit the hard limit or every optional layer is down to 300  *)
(* tokens; no layer is cut below that, and none is cut when the target was met.  The loop of *)
(* passes stops only after a pass that went by every layer and found nothing to cut. *)
THEOREM MessageFits == FitSpec => []FitsOrExhausted
<1>1. FitInv => FitsOrExhausted
  BY DEF FitInv, TotalIsSum, KeptWithin, Settled, FitsOrExhausted
<1>2. QED
  BY <1>1, FitInvariant, PTL

LEMMA FitRowTypes == FitInv => FitTypeOK
<1> SUFFICES ASSUME FitInv PROVE FitTypeOK
  OBVIOUS
<1>1. PICK D \in SUBSET LayerName : FitShape(D)
  BY DEF FitInv
<1>2. ASSUME NEW l \in Optional PROVE fit.sizes[l] \in 0..fit.given[l]
  BY <1>1, <1>2 DEF FitInv, FitShape, KeptWithin, Optional
<1>3. Len(ReductionOrder) + 1 = 13
  BY OrderFacts
<1>4. QED
  BY <1>1, <1>2, <1>3 DEF FitTypeOK, FitShape

(* A message keeps its type, and no layer grows. *)
THEOREM FitTypes == FitSpec => []FitTypeOK
BY FitRowTypes, FitInvariant, PTL

(* The cutting ends.  A layer that is cut in the last resort loses at least a token; every  *)
(* other step goes on to the next layer or the next phase, and a turn of the loop is        *)
(* followed by another one only if it cut a layer. *)

\* how far a phase has to go: from 40 tokens down, it is less than one token's worth
Rank(phase, at, progress) ==
  CASE phase = "reduce" -> 30 - at
    [] phase = "pass" -> 15
    [] phase = "cut" -> (IF progress THEN 30 ELSE 14) - at
    [] phase = "done" -> 0
FitStepsLeft == 40 * fit.total + Rank(fit.phase, fit.at, fit.progress)

LEMMA RankTypes ==
  ASSUME NEW phase \in {"reduce", "pass", "cut", "done"}, NEW at \in 1..13,
         NEW progress \in BOOLEAN
  PROVE  Rank(phase, at, progress) \in 0..29
  BY DEF Rank

\* a step that lets the total be and goes on, or cuts at least a token
LEMMA StepsFall ==
  ASSUME NEW t \in Nat, NEW u \in Nat, NEW i \in 0..29, NEW j \in 0..29,
         \/ u <= t /\ j < i
         \/ u < t
  PROVE  40 * u + j < 40 * t + i
  OBVIOUS

LEMMA TotalNumber == ASSUME FitInv PROVE fit.total \in Nat
<1>1. PICK D \in SUBSET LayerName : fit.sizes \in [D -> Nat] /\ fit.required \in Nat
  BY FitFacts
<1>2. QED
  BY <1>1, TotalTypes DEF FitInv, TotalIsSum

\* smaller layers make a smaller total
LEMMA SmallerLayers ==
  ASSUME NEW D, NEW sizes \in [D -> Nat], NEW cut \in [D -> Nat],
         \A l \in D : cut[l] <= sizes[l]
  PROVE  LayerTotal(cut) <= LayerTotal(sizes)
<1>1. \A l : SizeIn(cut, l) \in Nat /\ SizeIn(sizes, l) \in Nat
  BY SizeTypes
<1>2. \A l : SizeIn(cut, l) <= SizeIn(sizes, l)
  BY DEF SizeIn
<1>3. QED
  BY <1>1, <1>2 DEF LayerTotal

\* a layer cut to t takes the total with it
LEMMA CutTotal ==
  ASSUME FitInv, Present, NEW t \in Nat, t <= fit.sizes[Layer]
  PROVE  /\ Cut(t).total = fit.total - (fit.sizes[Layer] - t)
         /\ Cut(t).at = fit.at /\ Cut(t).phase = fit.phase /\ Cut(t).progress = fit.progress
         /\ DOMAIN Cut(t) = DOMAIN fit
         /\ fit.sizes[Layer] \in Nat
<1>1. PICK D \in SUBSET LayerName :
        FitShape(D) /\ Optional = D /\ fit.sizes \in [D -> Nat]
  BY FitFacts
<1>2. fit.sizes[Layer] \in Nat
  BY <1>1 DEF Present
<1>3. QED
  BY <1>1, <1>2 DEF Cut, FitShape

\* the last resort cuts every layer above 300 tokens
LEMMA TrimCuts ==
  ASSUME NEW size \in Nat, size > 300, NEW over \in Int
  PROVE  \E t \in Nat : t = Trim(size, Most(300, size - Most(over, 200))) /\ t < size
<1>1. PICK cut \in Nat : cut = Most(over, 200) /\ cut >= 200
  <2>1. CASE over > 200
    BY <2>1 DEF Most
  <2>2. CASE ~ (over > 200)
    BY <2>2 DEF Most
  <2>3. QED
    BY <2>1, <2>2
<1>2. size - cut \in Int /\ size - cut < size
  BY <1>1
<1>3. PICK limit \in Int : limit = Most(300, size - cut)
  BY <1>2 DEF Most
<1>4. limit \in Nat /\ limit < size /\ limit >= 300
  BY <1>2, <1>3 DEF Most
<1>5. Trim(size, limit) \in Nat /\ Trim(size, limit) < size
  BY <1>4 DEF Trim, Least, Most
<1>6. QED
  BY <1>1, <1>3, <1>5

LEMMA FitStepCounts ==
  ASSUME FitInv, FitInv', FitNext PROVE FitStepsLeft' < FitStepsLeft
<1> DEFINE i == Rank(fit.phase, fit.at, fit.progress)
           j == Rank(fit'.phase, fit'.at, fit'.progress)
<1>1. PICK D \in SUBSET LayerName :
        /\ FitShape(D) /\ Optional = D /\ fit.sizes \in [D -> Nat] /\ fit.at \in 1..13
        /\ fit.required \in Nat /\ fit.overflow \in Int
  BY FitFacts
<1>2. fit.total \in Nat /\ fit'.total \in Nat
  <2>1. PICK E \in SUBSET LayerName : FitShape(E)'
    BY DEF FitInv
  <2>2. fit'.sizes \in [E -> Nat] /\ fit'.required \in Nat
    BY <2>1 DEF FitShape
  <2>3. fit'.total = fit'.required + LayerTotal(fit'.sizes)
    BY DEF FitInv, TotalIsSum, LayerTotal, SizeIn
  <2>4. QED
    BY <2>2, <2>3, TotalNumber, TotalTypes
<1>3. /\ fit.phase \in {"reduce", "pass", "cut", "done"} /\ fit.progress \in BOOLEAN
      /\ fit'.phase \in {"reduce", "pass", "cut", "done"} /\ fit'.progress \in BOOLEAN
      /\ fit'.at \in 1..13
  BY <1>1 DEF FitInv, FitShape
<1>4. i \in 0..29 /\ j \in 0..29
  BY <1>1, <1>3, RankTypes
<1>5. (fit'.total <= fit.total /\ j < i) \/ fit'.total < fit.total
  <2>1. CASE ReduceLayer
    <3>1. fit.phase = "reduce"
      BY <2>1 DEF ReduceLayer
    <3>2. CASE Present
      <4>1. fit.sizes[Layer] \in Nat /\ Layer \in LayerName
        BY <1>1, <3>2 DEF Present
      <4>2. PICK t \in Nat : /\ t = Trim(fit.sizes[Layer], ShrunkLimit[Layer])
                            /\ t <= fit.sizes[Layer]
        BY <4>1, LimitFacts, TrimBounds
      <4>3. fit' = [Cut(t) EXCEPT !.at = Cut(t).at + 1]
        BY <2>1, <3>2, <4>2 DEF ReduceLayer
      <4>4. /\ fit'.total = fit.total - (fit.sizes[Layer] - t) /\ fit'.at = fit.at + 1
            /\ fit'.phase = fit.phase
        BY <1>1, <3>2, <4>2, <4>3, CutTotal DEF FitShape
      <4>5. QED
        BY <1>1, <1>2, <3>1, <4>1, <4>2, <4>4 DEF Rank
    <3>3. CASE ~ Present
      <4>1. fit' = [fit EXCEPT !.at = fit.at + 1]
        BY <2>1, <3>3 DEF ReduceLayer
      <4>2. fit'.total = fit.total /\ fit'.at = fit.at + 1 /\ fit'.phase = fit.phase
        BY <1>1, <4>1 DEF FitShape
      <4>3. QED
        BY <1>1, <1>2, <3>1, <4>2 DEF Rank
    <3>4. QED
      BY <3>2, <3>3
  <2>2. CASE HalveAll
    <3>1. fit.phase = "reduce"
      BY <2>2 DEF HalveAll
    <3>2. CASE fit.total <= Hard
      <4>1. fit' = [fit EXCEPT !.phase = "done"]
        BY <2>2, <3>2 DEF HalveAll
      <4>2. QED
        BY <1>1, <1>2, <3>1, <4>1, PhaseFields DEF Rank
    <3>3. CASE ~ (fit.total <= Hard)
      <4> DEFINE f == [l \in D |-> Trim(fit.sizes[l], Most(300, fit.sizes[l] \div 2))]
      <4>1. fit' = [fit EXCEPT !.sizes = f, !.phase = "pass",
                               !.total = fit.required + LayerTotal(f)]
        BY <1>1, <2>2, <3>3 DEF HalveAll
      <4>2. ASSUME NEW l \in D PROVE f[l] \in Nat /\ f[l] <= fit.sizes[l]
        <5>1. PICK size \in Nat : size = fit.sizes[l]
          BY <1>1
        <5>2. PICK limit \in Nat : limit = Most(300, size \div 2)
          BY DEF Most
        <5>3. QED
          BY <5>1, <5>2, TrimBounds
      <4>3. f \in [D -> Nat]
        BY <4>2
      <4> HIDE DEF f
      <4>4. LayerTotal(f) <= LayerTotal(fit.sizes)
        BY <1>1, <4>2, <4>3, SmallerLayers
      <4>5. LayerTotal(f) \in Nat /\ LayerTotal(fit.sizes) \in Nat
        BY <1>1, <4>3, TotalTypes
      <4>6. fit.total = fit.required + LayerTotal(fit.sizes)
        BY DEF FitInv, TotalIsSum
      <4>7. fit'.total = fit.required + LayerTotal(f) /\ fit'.phase = "pass"
        BY <1>1, <4>1 DEF FitShape
      <4>8. QED
        BY <1>1, <3>1, <4>4, <4>5, <4>6, <4>7 DEF Rank
    <3>4. QED
      BY <3>2, <3>3
  <2>3. CASE BeginPass
    <3>1. fit.phase = "pass"
      BY <2>3 DEF BeginPass
    <3>2. /\ fit'.total = fit.total
          /\ fit'.phase = "done" \/ (fit'.phase = "cut" /\ fit'.at = 1 /\ ~ fit'.progress)
      BY <1>1, <2>3 DEF BeginPass, FitShape
    <3>3. QED
      BY <1>2, <3>1, <3>2 DEF Rank
  <2>4. CASE CutLayer
    <3>1. fit.phase = "cut"
      BY <2>4 DEF CutLayer
    <3>2. CASE Present /\ fit.sizes[Layer] > 300
      <4>1. fit.sizes[Layer] \in Nat
        BY <1>1, <3>2 DEF Present
      <4>2. PICK t \in Nat :
              /\ t = Trim(fit.sizes[Layer],
                          Most(300, fit.sizes[Layer] - Most(fit.overflow, 200)))
              /\ t < fit.sizes[Layer]
        BY <1>1, <3>2, <4>1, TrimCuts
      <4>3. fit' = [Cut(t) EXCEPT !.at = Cut(t).at + 1, !.progress = TRUE]
        BY <2>4, <3>2, <4>2 DEF CutLayer
      <4>4. fit'.total = fit.total - (fit.sizes[Layer] - t)
        BY <1>1, <3>2, <4>1, <4>2, <4>3, CutTotal DEF FitShape
      <4>5. QED
        BY <1>2, <4>1, <4>2, <4>4
    <3>3. CASE ~ (Present /\ fit.sizes[Layer] > 300)
      <4>1. fit' = [fit EXCEPT !.at = fit.at + 1]
        BY <2>4, <3>3 DEF CutLayer
      <4>2. /\ fit'.total = fit.total /\ fit'.at = fit.at + 1 /\ fit'.phase = fit.phase
            /\ fit'.progress = fit.progress
        BY <1>1, <4>1 DEF FitShape
      <4>3. QED
        BY <1>1, <1>2, <3>1, <4>2 DEF Rank
    <3>4. QED
      BY <3>2, <3>3
  <2>5. CASE EndPass
    <3>1. fit.phase = "cut"
      BY <2>5 DEF EndPass
    <3>2. /\ fit'.total = fit.total
          /\ fit'.phase = IF fit.progress THEN "pass" ELSE "done"
      BY <1>1, <2>5 DEF EndPass, FitShape
    <3>3. QED
      BY <1>1, <1>2, <1>3, <3>1, <3>2 DEF Rank
  <2>6. QED
    BY <2>1, <2>2, <2>3, <2>4, <2>5 DEF FitNext
<1> HIDE DEF i, j
<1>6. 40 * fit'.total + j < 40 * fit.total + i
  BY <1>2, <1>4, <1>5, StepsFall
<1>7. QED
  BY <1>6 DEF FitStepsLeft, i, j

(* The safety half of FitEnds: every step of _fit_to_budget leaves fewer to take, for all   *)
(* sizes and budgets.  The while loop that cuts as long as it makes progress ends since a   *)
(* turn that makes progress takes a token at least. *)
THEOREM FitAdvances == FitSpec => /\ [](FitStepsLeft \in Nat)
                                  /\ [][FitStepsLeft' < FitStepsLeft]_fit
<1>1. FitInv => FitStepsLeft \in Nat
  <2> SUFFICES ASSUME FitInv PROVE FitStepsLeft \in Nat
    OBVIOUS
  <2>1. PICK i \in 0..29 : i = Rank(fit.phase, fit.at, fit.progress)
    BY RankTypes DEF FitInv, FitShape
  <2>2. fit.total \in Nat
    BY TotalNumber
  <2>3. QED
    BY <2>1, <2>2 DEF FitStepsLeft
<1>2. FitInv /\ FitInv' /\ [FitNext]_fit => [FitStepsLeft' < FitStepsLeft]_fit
  BY FitStepCounts
<1>3. QED
  BY <1>1, <1>2, FitInvariant, PTL DEF FitSpec

(******************************* MCWriting *******************************)

(***************************************************************************)
(* The composed specification lets each component do what its own          *)
(* specification lets it do.  A component that is not the subject rests    *)
(* in a state that satisfies its invariant as well, so the conjunction of  *)
(* the five invariants is inductive for the composition.                   *)
(***************************************************************************)

WritingInv == StreamInv /\ ViewInv /\ CostInv /\ ScanInv /\ FitInv

LEMMA RestingCall == call = CallAtRest => CostInv
<1> SUFFICES ASSUME call = CallAtRest PROVE CostInv
  OBVIOUS
<1>1. /\ CallShape
      /\ call.phase = "done" /\ call.mode = "text" /\ call.refusals = 0 /\ ~ call.parseError
      /\ call.requests = 0 /\ call.waited = 0 /\ call.outcome = "text"
  BY DEF CallAtRest, Ends, NewCall, CallShape, CallMode, ErrorKind, Outcome
<1>2. CallInv /\ ~ WantsJson
  BY <1>1 DEF CallInv, Refusals, JsonErrors, BadJsonReported, WantsJson
<1>3. Retries \in Nat
  BY RetriesTypes
<1>4. PICK b \in Nat : b = Backoff(Retries) /\ b >= 1
  BY <1>3, BackoffTypes
<1>5. PlainCost
  BY <1>1, <1>3, <1>4 DEF PlainCost, SleepsOf
<1> QED  BY <1>1, <1>2, <1>5 DEF CostInv

LEMMA RestingScan == scan = ScanAtRest => ScanInv
<1> SUFFICES ASSUME scan = ScanAtRest PROVE ScanInv
  OBVIOUS
<1> DEFINE value == <<"lbrace", "rbrace">>
<1>1. value \in JsonValues
  BY DEF JsonValues
<1>2. value \in Seq(Char) /\ <<>> \in Seq(Char)
  BY <1>1, Values
<1>3. <<>> \o value \o <<>> = value /\ Len(value) = 2 /\ Len(<<>>) = 0
  BY <1>2
<1> HIDE DEF value
<1>4. scan = [text |-> value, before |-> <<>>, value |-> value, after |-> <<>>,
              at |-> 1, start |-> 0, depth |-> 0, inString |-> FALSE, escape |-> FALSE,
              done |-> FALSE, cut |-> <<>>]
  BY <1>3 DEF ScanAtRest, ScanOf, value
<1>5. ScanShape
  <2>1. scan \in [text : Seq(Char), before : Seq(Char), value : JsonValues, after : Seq(Char),
                  at : Nat, start : Nat, depth : Nat, inString : BOOLEAN, escape : BOOLEAN,
                  done : BOOLEAN, cut : Seq(Char)]
    BY <1>1, <1>2, <1>4
  <2>2. /\ scan.text = value /\ scan.before = <<>> /\ scan.value = value /\ scan.after = <<>>
        /\ scan.at = 1 /\ scan.start = 0
    BY <1>4
  <2> QED  BY <1>3, <2>1, <2>2 DEF ScanShape
<1>6. Searching /\ ~ scan.done
  BY <1>3, <1>4 DEF Searching, Before
<1> QED  BY <1>5, <1>6 DEF ScanInv, InPlace

LEMMA RestingFit == fit = FitAtRest => FitInv
<1> SUFFICES ASSUME fit = FitAtRest PROVE FitInv
  OBVIOUS
<1> DEFINE none == [l \in {} |-> 0]
<1>1. /\ fit = [sizes |-> none, given |-> none, required |-> 0, total |-> 0, target |-> 0,
                hard |-> 0, at |-> 1, progress |-> FALSE, overflow |-> 0, phase |-> "done"]
      /\ none \in [{} -> Nat] /\ DOMAIN none = {}
  BY DEF FitAtRest
<1> HIDE DEF none
<1>2. FitShape({}) /\ Optional = {}
  BY <1>1 DEF FitShape, Optional
<1>3. LayerTotal(none) = 0
  BY <1>1 DEF LayerTotal, SizeIn
<1>4. TotalIsSum /\ Soft <= Hard /\ KeptWithin /\ Settled
  BY <1>1, <1>2, <1>3 DEF TotalIsSum, Soft, Hard, KeptWithin, Settled
<1> QED  BY <1>2, <1>4 DEF FitInv

LEMMA WritingStarts == WritingInit => WritingInv
BY StreamInit, ViewStarts, CostStarts, ScanInitially, FitInitially,
   RestingCall, RestingScan, RestingFit
   DEF WritingInit, WritingInv

LEMMA WritingStep ==
  [WritingNext]_writingVars =>
    /\ [WriterNext]_writerVars
    /\ [ViewNext]_viewVars
    /\ [CallNext]_call
    /\ [ScanNext]_scan
    /\ [FitNext]_fit
<1> SUFFICES ASSUME [WritingNext]_writingVars
             PROVE  /\ WriterNext \/ UNCHANGED writerVars
                    /\ ViewNext \/ UNCHANGED viewVars
                    /\ CallNext \/ UNCHANGED call
                    /\ ScanNext \/ UNCHANGED scan
                    /\ FitNext \/ UNCHANGED fit
  OBVIOUS
<1>1. CASE UNCHANGED writingVars
  BY <1>1 DEF writingVars
<1>2. CASE WritingNext
  BY <1>2 DEF WritingNext, OfWriter, OfView, OfCall, OfScan, OfFit
<1> QED  BY <1>1, <1>2

LEMMA WritingSteps == WritingInv /\ [WritingNext]_writingVars => WritingInv'
BY WritingStep, StreamStep, ViewSteps, CostSteps, ScanSteps, FitSteps DEF WritingInv

LEMMA WritingInvariant == WritingSpec => []WritingInv
BY WritingStarts, WritingSteps, PTL DEF WritingSpec

\* The rows, sessions, connections, calls, scans and messages keep their types, whatever
\* the lengths, limits and bounds are.
THEOREM WritingTypes == WritingSpec => []WritingTypeOK
<1>1. WritingInv => WritingTypeOK
  BY FitRowTypes
     DEF WritingInv, WritingTypeOK, StreamInv, ViewInv, CostInv, CallInv, CallShape, CallTypeOK,
         CallRow, ScanInv, ScanShape, ScanTypeOK
<1> QED  BY <1>1, WritingInvariant, PTL

\* What writing.cfg checks of a short chapter and a few requests, pieces and sizes holds for
\* all of them, but for what must eventually happen: the text that is shown is saved, the
\* text that passes usable, a pause takes nothing back, a new connection overlooks nothing,
\* a call is bounded and reports its error, a value is found and a message fits.
THEOREM WritingHolds ==
  WritingSpec =>
    /\ [](ShownIsSaved /\ PassedTextUsable /\ ToldIsSaved)
    /\ [](RequestBound /\ RefusalEndsCall /\ BadJsonReported)
    /\ [](ValueFound /\ TotalIsSum /\ FitsOrExhausted)
    /\ PauseKeepsText
    /\ ReconnectOverlooksNothing
<1>1. StreamInv => ShownIsSaved /\ PassedTextUsable
  BY ShownBySession DEF StreamInv, Passed, Reviewed, PassedTextUsable
<1>2. ViewInv => ToldIsSaved
  BY DEF ViewInv
<1>3. CostInv => RequestBound /\ RefusalEndsCall /\ BadJsonReported
  BY CostsWithinBound DEF CostInv, CallInv, CallShape, Refusals, JsonErrors, RefusalEndsCall
<1>4. ScanInv => ValueFound
  BY DEF ScanInv, Wrapped, InPlace, ValueFound
<1>5. FitInv => TotalIsSum /\ FitsOrExhausted
  BY DEF FitInv, TotalIsSum, KeptWithin, Settled, FitsOrExhausted
<1>6. WritingInv /\ [WritingNext]_writingVars => [TextKept]_writerVars /\ [NothingLost]_viewVars
  BY WritingStep, PauseSteps, ReconnectSteps DEF WritingInv
<1>7. WritingInv => StreamInv /\ ViewInv /\ CostInv /\ ScanInv /\ FitInv
  BY DEF WritingInv
<1>8. PauseKeepsText <=> [][TextKept]_writerVars
  BY PTL DEF PauseKeepsText, TextKept
<1>9. ReconnectOverlooksNothing <=> [][NothingLost]_viewVars
  BY PTL DEF ReconnectOverlooksNothing, NothingLost
<1> QED
  BY <1>1, <1>2, <1>3, <1>4, <1>5, <1>6, <1>7, <1>8, <1>9, WritingInvariant, PTL
     DEF WritingSpec
=============================================================================
