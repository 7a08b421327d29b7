-------------------------- MODULE MemoryResources --------------------------
(***************************************************************************)
(* What the system remembers of the chapters it has accepted:              *)
(* MemoryService (backend/services/memory_service.py), called when a       *)
(* chapter is accepted and when the story is rewritten from a chapter, and *)
(* read by ContextService when the next one is written.                    *)
(*                                                                         *)
(* A text is the number of its acceptance; a summary, a revision or a      *)
(* piece of the distant memory is known by the text it was made of.  A     *)
(* chapter's texts are accepted in one transaction with its memory.        *)
(***************************************************************************)
EXTENDS Naturals, Sequences, FiniteSets, FiniteSetsExt, SequencesExt

CONSTANTS
  NChapters,     \* bound: chapters of the story
  MaxTexts       \* bound: texts accepted for one chapter

ASSUME MemoryAssumption == NChapters \in Nat \ {0} /\ MaxTexts \in Nat

VARIABLES
  texts,      \* [chapter -> accepted text of chapters.final_content, 0 for none]
  summaries,  \* [chapter -> [of, changes]]: chapter_summaries, of = 0 for no row
  profiles,   \* the chapters characters and world_settings were made of
  distant,    \* [cache, upTo, lost]: projects.distant_memory_*
  rewriting   \* history: the chapter the story is being rewritten from, or 0

memoryVars == <<texts, summaries, profiles, distant, rewriting>>

Story == 1..NChapters
NoSummary == [of |-> 0, changes |-> FALSE]
Summarised == {c \in Story : summaries[c].of > 0}

MemoryInit ==
  /\ texts = [c \in Story |-> 0]
  /\ summaries = [c \in Story |-> NoSummary]
  /\ profiles = {}
  /\ distant = [cache |-> {}, upTo |-> 0, lost |-> FALSE]
  /\ rewriting = 0

\* the chapters up to which the distant memory goes when a chapter was accepted
CoverageEnd(upTo) == IF upTo > 2 THEN upTo - 2 ELSE 0
SummariesUpTo(s, k) == {<<c, s[c].of>> : c \in {d \in Story : d <= k /\ s[d].of > 0}}

(* Mutant: a chapter that is written again keeps the memory of the later ones. *)
NeverRebuilt(c, s) ==
  LET end == CoverageEnd(c)
      seen == CoverageEnd(distant.upTo)
  IN  IF end = 0 THEN [cache |-> {}, upTo |-> c, lost |-> FALSE]
      ELSE [distant EXCEPT !.cache = @ \cup (SummariesUpTo(s, end) \ SummariesUpTo(s, seen)),
                           !.upTo = c]

\* _update_distant_memory_cache: compressed anew when nothing can be built on, else the
\* summaries since the last coverage are added to the existing memory
Refreshed(c, s) ==
  LET end == CoverageEnd(c)
      seen == CoverageEnd(distant.upTo)
  IN  IF end = 0 \/ distant.cache = {} \/ seen = 0 \/ seen > end
      THEN [cache |-> SummariesUpTo(s, end), upTo |-> c, lost |-> FALSE]
      ELSE [distant EXCEPT !.cache = @ \cup (SummariesUpTo(s, end) \ SummariesUpTo(s, seen)),
                           !.upTo = c]

\* a chapter that follows an accepted one, or one that is retried or continued
Begun(c) == c > 1 => texts[c - 1] > 0

AcceptText(c) == /\ Begun(c) /\ texts[c] < MaxTexts
                 /\ texts' = [texts EXCEPT ![c] = @ + 1]
                 /\ rewriting' = 0

\* the summary of the model or a fallback without changes, and the updates of characters and
\* world, which are all applied
Remember(c) ==
  /\ \E fallback \in BOOLEAN :
       summaries' = [summaries EXCEPT ![c] = [of |-> texts'[c], changes |-> ~ fallback]]
  /\ profiles' = profiles \cup {c}

\* save_summary_and_revisions with all its stages
AcceptRemembered(c) ==
  /\ AcceptText(c)
  /\ Remember(c)
  /\ distant' = Refreshed(c, summaries')

\* a stage before the first write fails, or the chapter is written in rush mode
AcceptForgotten(c) == AcceptText(c) /\ UNCHANGED <<summaries, profiles, distant>>

\* the refresh of the distant memory times out: what was flushed before it is committed
AcceptHalfRemembered(c) ==
  /\ AcceptText(c)
  /\ Remember(c)
  /\ distant' = [distant EXCEPT !.lost = TRUE]

(* Mutant: the summaries of the chapter itself stay. *)
RewriteKeepsOwn(n) ==
  /\ Begun(n)
  /\ texts' = [c \in Story |-> IF c >= n THEN 0 ELSE texts[c]]
  /\ summaries' = [c \in Story |-> IF c > n THEN NoSummary ELSE summaries[c]]
  /\ profiles' = {c \in Story : summaries'[c].changes}
  /\ distant' = [cache |-> {}, upTo |-> n - 1, lost |-> FALSE]
  /\ rewriting' = n

\* rewrite_from_chapter with reset_resources_from_chapter: the profiles are made anew from
\* the summaries that are left
RewriteFrom(n) ==
  /\ Begun(n)
  /\ texts' = [c \in Story |-> IF c >= n THEN 0 ELSE texts[c]]
  /\ summaries' = [c \in Story |-> IF c >= n THEN NoSummary ELSE summaries[c]]
  /\ profiles' = {c \in Story : summaries'[c].changes}
  /\ distant' = [cache |-> {}, upTo |-> n - 1, lost |-> FALSE]
  /\ rewriting' = n

\* apply_character_revision and apply_world_setting_revision: the patch of a revision that is
\* still there is merged once more; a rejection changes no memory.  What a decision does to
\* projects.status is DecideRevision of GenerationService
ApplyRevision(c) ==
  /\ c \in Summarised
  /\ profiles' = profiles \cup {c}
  /\ UNCHANGED <<texts, summaries, distant, rewriting>>

MemoryNext ==
  \E c \in Story : \/ AcceptRemembered(c) \/ AcceptForgotten(c) \/ AcceptHalfRemembered(c)
                   \/ RewriteFrom(c) \/ ApplyRevision(c)
MemorySpec == MemoryInit /\ [][MemoryNext]_memoryVars

(************************* what the writer is given ************************)

\* _get_recent_summaries_for_context, the five latest, and _get_distant_memory of
\* ContextService, and the profiles
ToldOf(c) ==
  LET past == {d \in Summarised : d < c}
      recent == {d \in past : Cardinality({e \in past : e > d}) < 5}
      cached == IF c > 3 THEN {p[1] : p \in distant.cache} ELSE {}
      focused == IF c > 3 THEN {d \in Summarised : d + 2 < c} ELSE {}
  IN  recent \cup cached \cup focused \cup profiles

(****************************** properties ********************************)

MemoryTypeOK ==
  /\ texts \in [Story -> 0..MaxTexts]
  /\ summaries \in [Story -> [of : 0..MaxTexts, changes : BOOLEAN]]
  /\ profiles \subseteq Story
  /\ distant \in [cache : SUBSET (Story \X (1..MaxTexts)), upTo : 0..NChapters, lost : BOOLEAN]
  /\ rewriting \in 0..NChapters

\* The incremental cache says what a full compression would: unless a refresh timed out
\* since it was last built, the distant memory is made of exactly the summaries up to two
\* chapters before the one accepted last, each of the text that chapter's summary is of --
\* also after chapters were written again out of order.
DistantIsCurrent ==
  distant.cache # {} /\ ~ distant.lost
    => distant.cache = SummariesUpTo(summaries, CoverageEnd(distant.upTo))

\* A story that is rewritten from a chapter is written from its past alone: nothing the
\* writer is told for that chapter was made of a text that the rewrite has dropped.
RewriteForgets ==
  rewriting > 0 => \A c \in ToldOf(rewriting) : c < rewriting /\ texts[c] > 0
=============================================================================
