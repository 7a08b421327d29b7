--------------------------- MODULE ContextBudget ---------------------------
(***************************************************************************)
(* How the context of a model call is cut to its budget:                   *)
(* ContextService._fit_to_budget (backend/services/context_service.py) on  *)
(* the layers of the writer's, the critic's and the rush writer's message. *)
(* A text is the number of its tokens; a cut keeps its beginning.          *)
(***************************************************************************)
EXTENDS Integers, Sequences

CONSTANTS
  OptionalSizes,   \* bound: sizes of an optional layer's text, 0 for none
  RequiredSizes,   \* bound: sizes of a required layer's text
  Budgets          \* bound: pairs of a target and a hard limit, in tokens

ASSUME ContextAssumption ==
  /\ OptionalSizes \subseteq Nat /\ RequiredSizes \subseteq Nat
  /\ Budgets \subseteq Nat \X Nat
  /\ \A b \in Budgets : b[1] <= b[2]    \* ContextBudgetRequest.validate_limits

VARIABLE fit

\* LAYER_LIMITS of the optional layers, and the limits of _shrink_optional_layer
LayerLimit == [cross_chapter_review_insights |-> 1200, relevant_characters |-> 7000,
  relevant_world_settings |-> 2500, previous_chapter_tail |-> 10000,
  recent_chapter_cards |-> 14000, relationship_state_memory |-> 12000,
  review_history |-> 1400, recent_summaries |-> 3000, distant_memory |-> 12000,
  critic_distant_memory |-> 1800, global_prompt_digest |-> 900,
  rush_previous_chapter_contents |-> 70000]
ShrunkLimit == [cross_chapter_review_insights |-> 660, relevant_characters |-> 3850,
  relevant_world_settings |-> 1375, previous_chapter_tail |-> 7500,
  recent_chapter_cards |-> 9520, relationship_state_memory |-> 8640,
  review_history |-> 770, recent_summaries |-> 1650, distant_memory |-> 6600,
  critic_distant_memory |-> 990, global_prompt_digest |-> 495,
  rush_previous_chapter_contents |-> 35000]

\* REDUCTION_ORDER, and the layers that are not named there
ReductionOrder == <<"critic_distant_memory", "relevant_world_settings", "global_prompt_digest",
  "cross_chapter_review_insights", "review_history", "distant_memory", "relevant_characters",
  "recent_summaries", "recent_chapter_cards", "relationship_state_memory",
  "previous_chapter_tail", "rush_previous_chapter_contents">>

\* the optional layers of build_writer_context, build_critic_context and
\* build_rush_writer_context
LayersOf == [
  writer |-> {"cross_chapter_review_insights", "relevant_characters", "relevant_world_settings",
              "previous_chapter_tail", "recent_chapter_cards", "relationship_state_memory",
              "distant_memory", "global_prompt_digest"},
  critic |-> {"relevant_characters", "relevant_world_settings", "recent_summaries",
              "previous_chapter_tail", "review_history", "critic_distant_memory"},
  rush |-> {"rush_previous_chapter_contents"}]

Least(a, b) == IF a < b THEN a ELSE b
Most(a, b) == IF a > b THEN a ELSE b
\* _trim_to_token_limit; no cut goes below 300 characters, 167 tokens
Trim(size, limit) == IF size <= limit THEN size ELSE Least(size, Most(limit, 167))

\* a message without the layer counts nothing for it
SizeIn(sizes, l) == IF l \in DOMAIN sizes THEN sizes[l] ELSE 0
LayerTotal(sizes) ==
  SizeIn(sizes, "critic_distant_memory") + SizeIn(sizes, "relevant_world_settings")
  + SizeIn(sizes, "global_prompt_digest") + SizeIn(sizes, "cross_chapter_review_insights")
  + SizeIn(sizes, "review_history") + SizeIn(sizes, "distant_memory")
  + SizeIn(sizes, "relevant_characters") + SizeIn(sizes, "recent_summaries")
  + SizeIn(sizes, "recent_chapter_cards") + SizeIn(sizes, "relationship_state_memory")
  + SizeIn(sizes, "previous_chapter_tail") + SizeIn(sizes, "rush_previous_chapter_contents")
Optional == DOMAIN fit.sizes
Soft == fit.target
Hard == fit.hard
Layer == ReductionOrder[fit.at]

FitInit ==
  \E message \in DOMAIN LayersOf, budget \in Budgets, required \in RequiredSizes :
    \E texts \in [LayersOf[message] -> OptionalSizes] :
      LET sizes == [l \in LayersOf[message] |-> Trim(texts[l], LayerLimit[l])]
          sum == required + LayerTotal(sizes)
      IN  fit = [sizes |-> sizes, given |-> sizes, required |-> required, total |-> sum,
                 target |-> budget[1], hard |-> budget[2], at |-> 1, progress |-> FALSE,
                 overflow |-> 0, phase |-> IF sum <= budget[1] THEN "done" ELSE "reduce"]

\* a layer is cut to size t and the running total follows
Cut(t) == [fit EXCEPT !.sizes[Layer] = t, !.total = @ - (fit.sizes[Layer] - t)]
Present == fit.at <= Len(ReductionOrder) /\ Layer \in Optional

\* the first pass: one layer after the other to its reduced limit, until the target is met
ReduceLayer ==
  /\ fit.phase = "reduce" /\ fit.at <= Len(ReductionOrder) /\ fit.total > Soft
  /\ fit' = [(IF Present THEN Cut(Trim(fit.sizes[Layer], ShrunkLimit[Layer])) ELSE fit)
               EXCEPT !.at = @ + 1]

\* over the hard limit, every optional layer loses half of what is left of it
HalveAll ==
  /\ fit.phase = "reduce" /\ (fit.at > Len(ReductionOrder) \/ fit.total <= Soft)
  /\ IF fit.total <= Hard THEN fit' = [fit EXCEPT !.phase = "done"]
     ELSE LET halved == [l \in Optional |-> Trim(fit.sizes[l], Most(300, fit.sizes[l] \div 2))]
          IN  fit' = [fit EXCEPT !.sizes = halved, !.phase = "pass",
                                 !.total = fit.required + LayerTotal(halved)]

\* a turn of the while loop; the overflow is measured once for all its layers
BeginPass ==
  /\ fit.phase = "pass"
  /\ fit' = IF fit.total <= Hard THEN [fit EXCEPT !.phase = "done"]
            ELSE [fit EXCEPT !.phase = "cut", !.at = 1, !.progress = FALSE,
                             !.overflow = fit.total - Hard]

(* Mutant: a layer that is already small is cut again. *)
CutWithoutFloor ==
  /\ fit.phase = "cut" /\ fit.at <= Len(ReductionOrder) /\ fit.total > Hard
  /\ LET size == fit.sizes[Layer]
         t == Trim(size, Most(0, size - Most(fit.overflow, 200)))
     IN  fit' = IF Present
                THEN [Cut(t) EXCEPT !.at = @ + 1, !.progress = @ \/ size > 300]
                ELSE [fit EXCEPT !.at = @ + 1]

CutLayer ==
  /\ fit.phase = "cut" /\ fit.at <= Len(ReductionOrder) /\ fit.total > Hard
  /\ LET size == fit.sizes[Layer]
         t == Trim(size, Most(300, size - Most(fit.overflow, 200)))
     IN  fit' = IF Present /\ size > 300
                THEN [Cut(t) EXCEPT !.at = @ + 1, !.progress = TRUE]
                ELSE [fit EXCEPT !.at = @ + 1]

(* Mutant: the loop goes on although nothing was cut. *)
EndPassUnmoved ==
  /\ fit.phase = "cut" /\ (fit.at > Len(ReductionOrder) \/ fit.total <= Hard)
  /\ fit' = [fit EXCEPT !.phase = "pass"]

\* the turn ends; one that cut nothing is the last
EndPass ==
  /\ fit.phase = "cut" /\ (fit.at > Len(ReductionOrder) \/ fit.total <= Hard)
  /\ fit' = [fit EXCEPT !.phase = IF fit.progress THEN "pass" ELSE "done"]

FitNext == ReduceLayer \/ HalveAll \/ BeginPass \/ CutLayer \/ EndPass
FitSpec == FitInit /\ [][FitNext]_fit /\ WF_fit(FitNext)

(****************************** properties ********************************)

FitTypeOK ==
  /\ fit.phase \in {"reduce", "pass", "cut", "done"} /\ fit.at \in 1..Len(ReductionOrder) + 1
  /\ \A l \in Optional : fit.sizes[l] \in 0..fit.given[l]
  /\ fit.progress \in BOOLEAN

\* The running total that steers the cutting is the size of the layers: why FitsOrExhausted,
\* which adds the layers up, holds.
TotalIsSum == fit.total = fit.required + LayerTotal(fit.sizes)

\* The layers fit the hard limit, or there is nothing left to give: every optional layer
\* is down to 300 tokens.  And they are cut no further than that: no layer is cut below 300
\* tokens, and none at all when the target is met from the start.  The headings and the
\* continuation prefix come on top, after the cut (context_service.py:119-123, 1034).
FitsOrExhausted ==
  /\ fit.phase = "done" => \/ fit.required + LayerTotal(fit.sizes) <= Hard
                           \/ \A l \in Optional : fit.sizes[l] <= 300
  /\ \A l \in Optional : fit.sizes[l] >= Least(fit.given[l], 300)
  /\ fit.required + LayerTotal(fit.given) <= Soft => fit.sizes = fit.given

\* The cutting ends.
FitEnds == <>(fit.phase = "done")
=============================================================================
