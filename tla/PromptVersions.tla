--------------------------- MODULE PromptVersions ---------------------------
(***************************************************************************)
(* The versions of one chapter's prompt: PromptService                     *)
(* (backend/services/prompt_service.py), its handlers in                   *)
(* backend/api/prompts.py and the pipeline's prompt stage.                 *)
(*                                                                         *)
(* A version number is read before the model is called and used after it,  *)
(* with nothing locked in between; uq_prompt_project_chapter_version       *)
(* decides at the flush.  An approval loads its row and the rows it        *)
(* supersedes, and writes them when its transaction commits.               *)
(***************************************************************************)
EXTENDS Naturals, Sequences, FiniteSets, FiniteSetsExt, SequencesExt

CONSTANTS
  PromptUsers,   \* handlers that run at the same time
  MaxPrompts,    \* bound: rows ever created
  MaxEdits       \* bound: edits, approvals and rewrites

ASSUME PromptAssumption == MaxPrompts \in Nat /\ MaxEdits \in Nat

VARIABLES
  prompts,     \* the rows of chapter_prompts, in the order they were created
  builder,     \* what each user's handler and the pipeline are doing
  promptInfo   \* [edits, era, overlapped]: bounds and history

promptVars == <<prompts, builder, promptInfo>>

Pipeline == "pipeline"
Builders == PromptUsers \cup {Pipeline}
PromptStatus == {"generated", "edited", "approved", "superseded", "deleted"}
PromptRow == [version : Nat, status : PromptStatus, manual : BOOLEAN, era : Nat]
BuilderRow == [pc : {"idle", "building", "flushed", "approving"},
               version : Nat, era : Nat, row : Nat, losers : SUBSET Nat, again : BOOLEAN]
\* losers: the rows an approval supersedes; again: its row was approved when it was loaded
IdleBuilder == [pc |-> "idle", version |-> 0, era |-> 0, row |-> 0, losers |-> {},
                again |-> FALSE]

Present == {i \in DOMAIN prompts : prompts[i].status # "deleted"}
Newest(S) == CHOOSE i \in S : \A j \in S : prompts[j].version <= prompts[i].version
Approved == {i \in Present : prompts[i].status = "approved"}
\* get_latest_prompt and _prepare_prompt_generation
NextVersion == IF Present = {} THEN 1 ELSE prompts[Newest(Present)].version + 1

PromptInit ==
  /\ prompts = <<>>
  /\ builder = [b \in Builders |-> IdleBuilder]
  /\ promptInfo = [edits |-> MaxEdits, era |-> 0, overlapped |-> FALSE]

UserAsks == promptInfo.edits > 0
Spend == promptInfo' = [promptInfo EXCEPT !.edits = @ - 1]

(****************************** generation *******************************)

\* get_or_create_effective_prompt_result: an approved prompt is kept unless the caller
\* forces a new one, and always if a user wrote it
StartBuilding(b) ==
  /\ builder[b].pc = "idle"
  /\ \E force \in BOOLEAN :
       /\ b # Pipeline => force
       /\ Approved # {} => force /\ ~ prompts[Newest(Approved)].manual
  /\ builder' = [builder EXCEPT ![b] = [IdleBuilder EXCEPT !.pc = "building",
                                          !.version = NextVersion, !.era = promptInfo.era]]
  /\ UNCHANGED <<prompts, promptInfo>>

\* rows another transaction has flushed and not committed hold their version
Taken == {prompts[i].version : i \in Present}
FlushedVersions(b) == {builder[c].version : c \in {d \in Builders \ {b} : builder[d].pc = "flushed"}}

(* Mutant: the index is on the project and the version only. *)
FlushWithoutIndex(b) ==
  /\ builder[b].pc = "building"
  /\ builder' = [builder EXCEPT ![b].pc = "flushed"]
  /\ UNCHANGED <<prompts, promptInfo>>

\* the model has answered, or a fallback replaces its answer: _create_prompt_record
FlushPrompt(b) ==
  /\ builder[b].pc = "building"
  /\ builder[b].version \notin Taken \cup FlushedVersions(b)
  /\ builder' = [builder EXCEPT ![b].pc = "flushed"]
  /\ UNCHANGED <<prompts, promptInfo>>

CommitPrompt(b) ==
  /\ builder[b].pc = "flushed" /\ Len(prompts) < MaxPrompts
  /\ prompts' = Append(prompts, [version |-> builder[b].version, status |-> "generated",
                                 manual |-> FALSE, era |-> builder[b].era])
  /\ builder' = [builder EXCEPT ![b] = IdleBuilder]
  /\ UNCHANGED promptInfo

\* a version that is taken (IntegrityError), a request that failed for good, a rollback
FailPrompt(b) ==
  /\ builder[b].pc \in {"building", "flushed"}
  /\ builder' = [builder EXCEPT ![b] = IdleBuilder]
  /\ UNCHANGED <<prompts, promptInfo>>

\* create_timeout_fallback_prompt_result, after the pipeline's stage timed out: the version
\* is read again
TimeoutFallback ==
  /\ builder[Pipeline].pc = "building"
  /\ builder' = [builder EXCEPT ![Pipeline].version = NextVersion,
                                ![Pipeline].era = promptInfo.era]
  /\ UNCHANGED <<prompts, promptInfo>>

(********************************* users *********************************)

\* update_prompt: whatever its status, an edited version has to be approved again
EditPrompt(u) ==
  /\ builder[u].pc = "idle" /\ UserAsks
  /\ \E i \in Present :
       prompts' = [prompts EXCEPT ![i].status = "edited", ![i].manual = TRUE]
  /\ Spend
  /\ UNCHANGED builder

\* approve_prompt up to its flush; the rows it supersedes are those committed as approved
ApprovePrompt(u) ==
  /\ builder[u].pc = "idle" /\ UserAsks
  /\ \E i \in Present :
       builder' = [builder EXCEPT ![u] = [IdleBuilder EXCEPT !.pc = "approving", !.row = i,
                                            !.losers = Approved \ {i},
                                            !.again = i \in Approved]]
  /\ promptInfo' = [promptInfo EXCEPT !.edits = @ - 1,
                      !.overlapped = @ \/ \E c \in Builders : builder[c].pc = "approving"]
  /\ UNCHANGED prompts

(* Mutant: the versions approved before stay approved. *)
ApproveOnly(u) ==
  /\ builder[u].pc = "approving"
  /\ prompts' = [prompts EXCEPT ![builder[u].row].status =
                   IF @ = "deleted" THEN @ ELSE "approved"]
  /\ builder' = [builder EXCEPT ![u] = IdleBuilder]
  /\ UNCHANGED promptInfo

\* its commit; the unit of work writes a status only if it differs from the one loaded
ApproveCommit(u) ==
  /\ builder[u].pc = "approving"
  /\ prompts' = [i \in DOMAIN prompts |->
       IF prompts[i].status = "deleted" THEN prompts[i]
       ELSE IF i = builder[u].row /\ ~ builder[u].again
       THEN [prompts[i] EXCEPT !.status = "approved"]
       ELSE IF i \in builder[u].losers /\ prompts[i].status = "approved"
       THEN [prompts[i] EXCEPT !.status = "superseded"] ELSE prompts[i]]
  /\ builder' = [builder EXCEPT ![u] = IdleBuilder]
  /\ UNCHANGED promptInfo

\* rewrite_from_chapter and import_outlines delete the chapter's prompts; the pipeline is
\* not running then
DeletePrompts ==
  /\ UserAsks /\ builder[Pipeline].pc = "idle" /\ Present # {}
  /\ prompts' = [i \in DOMAIN prompts |-> [prompts[i] EXCEPT !.status = "deleted"]]
  /\ promptInfo' = [promptInfo EXCEPT !.edits = @ - 1, !.era = @ + 1]
  /\ UNCHANGED builder

PromptNext ==
  \/ \E b \in Builders : StartBuilding(b) \/ FlushPrompt(b) \/ CommitPrompt(b) \/ FailPrompt(b)
  \/ TimeoutFallback
  \/ \E u \in PromptUsers : EditPrompt(u) \/ ApprovePrompt(u) \/ ApproveCommit(u)
  \/ DeletePrompts

PromptSpec == PromptInit /\ [][PromptNext]_promptVars

(****************************** properties ********************************)

PromptTypeOK ==
  /\ prompts \in Seq(PromptRow)
  /\ builder \in [Builders -> BuilderRow]
  /\ promptInfo \in [edits : Nat, era : Nat, overlapped : BOOLEAN]

\* The list of versions is the history of the chapter: however many builders chose their
\* number at the same time, of two rows the one created later has the higher version, so
\* "latest" is the last one made -- unless a builder that began before a rewrite has
\* committed its row among those begun since.
OfThisEra == \A i \in Present : prompts[i].era = promptInfo.era
VersionsFollowCreation ==
  OfThisEra => \A i, j \in Present : i < j => prompts[i].version < prompts[j].version

\* A chapter is written with one approved prompt: as long as no two approvals ran at the
\* same time, at most one version is approved, whatever is generated, edited and deleted
\* around them.
OneApproved == ~ promptInfo.overlapped => Cardinality(Approved) <= 1
=============================================================================
