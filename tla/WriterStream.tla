---------------------------- MODULE WriterStream ----------------------------
(***************************************************************************)
(* The text of one chapter while the writer model produces it:             *)
(* Pipeline._generate_writer_content and what surrounds it in              *)
(* backend/worker/pipeline.py, from the draft a job starts with to the     *)
(* text that is reviewed, with pauses, continuation rounds, disconnected   *)
(* streams, fallbacks and crashes.                                         *)
(*                                                                         *)
(* The worker's session holds attempt.content ahead of the row: pieces are *)
(* appended to the object as they arrive and reach the table when a batch  *)
(* is committed.  A text is the sequence of the pieces of the story it     *)
(* holds; a model that is given a text goes on with the next piece.        *)
(***************************************************************************)
EXTENDS Naturals, Sequences, SequencesExt

CONSTANTS
  StoryLength,    \* bound: pieces a model ever writes
  MinUsable,      \* pieces that make a text usable (80 visible characters)
  MaxRounds,      \* MAX_CONTINUATION_ROUNDS
  MaxAttempts,    \* bound: rows of chapter_attempts
  MaxPauses,      \* bound: pauses a user asks for
  MaxKills,       \* bound: workers killed
  StreamModes,    \* values of projects.writer_streaming_enabled
  StreamFallback  \* writer_client.supports_stream_text_fallback()

ASSUME WriterStreamAssumption ==
  /\ {StoryLength, MinUsable, MaxRounds, MaxAttempts, MaxPauses, MaxKills} \subseteq Nat
  /\ MinUsable > 0
  /\ StreamModes \subseteq BOOLEAN
  /\ StreamFallback \in BOOLEAN

VARIABLES
  drafts,        \* the rows of chapter_attempts, by attempt_no
  chapterPhase,  \* chapters.status
  finalText,     \* chapters.final_content
  chunks,        \* content_chunk events since the last chapter_writing event
  writeJob,      \* the payload of the chapter's active job
  writer,        \* the pipeline and its session
  running,       \* projects.status = running, as committed
  streamBudget   \* what is left of the bounds

writerVars == <<drafts, chapterPhase, finalText, chunks, writeJob, writer, running,
                streamBudget>>

Pieces == 1..StoryLength
Text == Seq(Pieces)
DraftStatus == {"running", "errored", "reviewed", "accepted", "rejected"}
\* "retry" is the payload of a first or a repeated run: neither resume nor chapter_continue
WriteJob == [kind : {"none", "retry", "resume", "continue"}, from : 0..MaxAttempts]
NoWriteJob == [kind |-> "none", from |-> 0]

\* open: between rounds; streaming, calling: in the model call; fallback: in the second,
\* non-streamed one; generated: a round's text is there
WriterPhase == {"idle", "open", "streaming", "calling", "fallback", "generated", "reviewing"}
IdleWriter == [pc |-> "idle", attempt |-> 0, text |-> <<>>, parts |-> <<>>, prefix |-> <<>>,
               buffer |-> <<>>, round |-> 0]

StoryFrom(t, k) == [i \in 1..k |-> Len(t) + i]
Usable(t) == Len(t) >= MinUsable

\* _merge_continuation_content
Merge(prefix, new) ==
  IF IsPrefix(prefix, new) THEN new
  ELSE IF IsSuffix(new, prefix) THEN prefix ELSE prefix \o new

Row == drafts[writer.attempt]
\* session.commit with attempt.content = t
SaveDraft(t, status) ==
  drafts' = [drafts EXCEPT ![writer.attempt] = [text |-> t, status |-> status]]

Resumable(i) == /\ i \in DOMAIN drafts
                /\ drafts[i].status \in {"running", "errored"}
                /\ drafts[i].text # <<>>
LatestDraft == Len(drafts)
\* _get_latest_approvable_attempt: the latest attempt that holds text, or 0
LatestWithText == SelectLastInSeq(drafts, LAMBDA d : d.text # <<>>)

WriterInit ==
  /\ drafts = <<>>
  /\ chapterPhase = "queued"
  /\ finalText = <<>>
  /\ chunks = <<>>
  /\ writeJob = [kind |-> "retry", from |-> 0]
  /\ writer = IdleWriter
  /\ running = TRUE
  /\ streamBudget = [pauses |-> MaxPauses, kills |-> MaxKills]

(*************************** the start of a job ***************************)

OpenAttempt(i, prefix) ==
  /\ writer' = [IdleWriter EXCEPT !.pc = "open", !.attempt = i, !.prefix = prefix,
                                  !.text = IF i \in DOMAIN drafts THEN drafts[i].text ELSE <<>>,
                                  !.parts = prefix]
  /\ drafts' = IF i \in DOMAIN drafts
               THEN [drafts EXCEPT ![i].status = "running"]
               ELSE Append(drafts, [text |-> <<>>, status |-> "running"])

\* process_generate_chapter to its first commit: a chapter_continue job opens a new
\* attempt that goes on from an older one; a resume job reopens the attempt itself, or the
\* latest one when its payload names none
StartWriting ==
  /\ writer.pc = "idle" /\ running /\ writeJob.kind # "none"
  /\ LET from   == IF writeJob.from = 0 THEN LatestDraft ELSE writeJob.from
         reopen == writeJob.kind = "resume" /\ Resumable(from)
     IN  IF reopen THEN OpenAttempt(from, drafts[from].text)
         ELSE /\ Len(drafts) < MaxAttempts
              /\ OpenAttempt(Len(drafts) + 1,
                             IF writeJob.kind = "continue" THEN drafts[from].text ELSE <<>>)
  /\ chapterPhase' = "writing"
  /\ chunks' = <<>>
  /\ UNCHANGED <<finalText, writeJob, running, streamBudget>>

\* the context is built and committed, the model is called
BeginRound ==
  /\ writer.pc = "open"
  /\ \E streaming \in StreamModes :
       writer' = [writer EXCEPT !.pc = IF streaming THEN "streaming" ELSE "calling",
                                !.parts = <<>>, !.buffer = <<>>]
  /\ UNCHANGED <<drafts, chapterPhase, finalText, chunks, writeJob, running, streamBudget>>

(******************************* streaming ********************************)

(* Mutant: the events of a batch are committed without the text. *)
CommitEvents(w) ==
  /\ chunks' = chunks \o w.buffer
  /\ SaveDraft(Row.text, Row.status)
  /\ writer' = [w EXCEPT !.buffer = <<>>]

\* flush_chunk_events and session.commit: the batch and the text in one transaction
CommitBatch(w) ==
  /\ chunks' = chunks \o w.buffer
  /\ SaveDraft(w.text, Row.status)
  /\ writer' = [w EXCEPT !.buffer = <<>>]

\* a chunk arrives; after 20 of them or 2 seconds the batch is committed
Chunk ==
  /\ writer.pc = "streaming"
  /\ Len(writer.prefix \o writer.parts) < StoryLength
  /\ LET piece == Len(writer.prefix \o writer.parts) + 1
         w == [writer EXCEPT !.parts = Append(@, piece), !.text = Append(@, piece),
                             !.buffer = Append(@, piece)]
     IN  \/ CommitBatch(w)
         \/ writer' = w /\ UNCHANGED <<drafts, chunks>>
  /\ UNCHANGED <<chapterPhase, finalText, writeJob, running, streamBudget>>

\* the round ends with text t
Generated(w, t) == [w EXCEPT !.pc = "generated", !.prefix = t]

\* the stream ends, or no text came in time: the last batch is committed, then
\* _finalize_writer_content
StreamEnds ==
  /\ writer.pc = "streaming"
  /\ LET merged == Merge(writer.prefix, writer.parts)
         done == [writer EXCEPT !.buffer = <<>>]
     IN  /\ chunks' = chunks \o writer.buffer
         /\ SaveDraft(writer.text, Row.status)
         /\ IF Usable(merged)
            THEN writer' = Generated([done EXCEPT !.text = merged], merged)
            ELSE StreamFallback /\ writer' = [done EXCEPT !.pc = "fallback"]
  /\ UNCHANGED <<chapterPhase, finalText, writeJob, running, streamBudget>>

(* Mutant: whatever has arrived is taken for the chapter. *)
RecoverAnything ==
  /\ writer.pc = "streaming" /\ writer.parts # <<>>
  /\ writer' = Generated([writer EXCEPT !.buffer = <<>>], writer.parts)
  /\ SaveDraft(writer.text, Row.status)
  /\ UNCHANGED <<chapterPhase, finalText, chunks, writeJob, running, streamBudget>>

\* httpx.RemoteProtocolError: _recover_usable_stream_content takes the first usable one
\* of the pieces of this round and the text of the attempt
Disconnect ==
  /\ writer.pc = "streaming"
  /\ \E t \in {writer.parts, writer.text} :
       /\ Usable(t)
       /\ t = writer.text => ~ Usable(writer.parts) \/ t = writer.parts
       /\ writer' = Generated([writer EXCEPT !.buffer = <<>>], t)
  /\ SaveDraft(writer.text, Row.status)
  /\ UNCHANGED <<chapterPhase, finalText, chunks, writeJob, running, streamBudget>>

\* generate_text_fallback, for a project without streaming or after a stream that gave
\* nothing usable
TextReturned ==
  /\ writer.pc \in {"calling", "fallback"}
  /\ \E k \in 0..(StoryLength - Len(writer.prefix)) :
       LET merged == Merge(writer.prefix, StoryFrom(writer.prefix, k))
       IN  /\ Usable(merged)
           /\ SaveDraft(merged, Row.status)
           /\ writer' = Generated([writer EXCEPT !.text = merged], merged)
  /\ UNCHANGED <<chapterPhase, finalText, chunks, writeJob, running, streamBudget>>

(* Mutant: one round too many is allowed. *)
OneRoundMore ==
  /\ writer.pc = "generated" /\ writer.round <= MaxRounds
  /\ writer' = [writer EXCEPT !.pc = "open", !.round = @ + 1, !.parts = writer.prefix]
  /\ SaveDraft(writer.text, Row.status)
  /\ chunks' = <<>>
  /\ UNCHANGED <<chapterPhase, finalText, writeJob, running, streamBudget>>

\* a truncated text opens another round; its chapter_writing event starts a new sequence
\* of chunks
NextRound ==
  /\ writer.pc = "generated" /\ writer.round < MaxRounds
  /\ writer' = [writer EXCEPT !.pc = "open", !.round = @ + 1, !.parts = writer.prefix]
  /\ SaveDraft(writer.text, Row.status)
  /\ chunks' = <<>>
  /\ UNCHANGED <<chapterPhase, finalText, writeJob, running, streamBudget>>

(****************************** the outcomes *******************************)

EndRun == writer' = IdleWriter

SubmitDraft ==
  /\ writer.pc = "generated" /\ running
  /\ SaveDraft(writer.prefix, "reviewed")
  /\ writer' = [writer EXCEPT !.pc = "reviewing", !.text = writer.prefix]
  /\ chapterPhase' = "reviewing"
  /\ UNCHANGED <<finalText, chunks, writeJob, running, streamBudget>>

\* apply_review_failure: another run of the chapter, or none and the project stops
FailDraft(t, status) ==
  /\ SaveDraft(t, status)
  /\ \E retries \in BOOLEAN :
       /\ chapterPhase' = IF retries THEN "queued" ELSE "failed"
       /\ writeJob' = IF retries THEN [kind |-> "retry", from |-> 0] ELSE NoWriteJob
       /\ running' = (running /\ retries)
  /\ EndRun
  /\ UNCHANGED <<finalText, streamBudget>>

AcceptDraft ==
  /\ writer.pc = "reviewing"
  /\ SaveDraft(writer.text, "accepted")
  /\ finalText' = writer.text
  /\ chapterPhase' = "passed"
  /\ chunks' = <<>>
  /\ writeJob' = NoWriteJob
  /\ EndRun
  /\ UNCHANGED <<running, streamBudget>>

\* a review that does not pass; the chunk events go with another run of the chapter
RejectDraft ==
  /\ writer.pc = "reviewing"
  /\ FailDraft(writer.text, "rejected")
  /\ chunks' = IF chapterPhase' = "queued" THEN <<>> ELSE chunks

\* no review came: _handle_critic_review_failure, or, without another run,
\* _handle_critic_provider_unavailable; the attempt counts as errored, so that it can be resumed
CriticFails ==
  /\ writer.pc = "reviewing"
  /\ FailDraft(writer.text, "errored")
  /\ UNCHANGED chunks

\* the stream stalls or breaks, the answer is not usable, the provider refuses (which gives
\* no other run): what has arrived is kept in the errored attempt, the chunk events stay
WriterFails ==
  /\ \/ writer.pc = "streaming" /\ FailDraft(writer.text, "errored")
     \/ /\ writer.pc \in {"calling", "fallback"}
        /\ \E k \in 0..(StoryLength - Len(writer.prefix)) :
             LET merged == Merge(writer.prefix, StoryFrom(writer.prefix, k))
             IN  ~ Usable(merged) /\ FailDraft(merged, "errored")
     \/ writer.pc \in {"calling", "fallback"} /\ FailDraft(writer.text, "errored")
  /\ UNCHANGED chunks

(* Mutant: the pieces of the round replace the text of the attempt. *)
InterruptWithParts ==
  /\ ~ running /\ writer.pc # "idle"
  /\ SaveDraft(writer.parts, "errored")
  /\ chapterPhase' = "paused"
  /\ chunks' = <<>>
  /\ writeJob' = NoWriteJob
  /\ EndRun
  /\ UNCHANGED <<finalText, running, streamBudget>>

\* GenerationInterrupted, in any guarded stage up to the review, then
\* _pause_current_generation: attempt.content, or the pieces at hand when it is empty
InterruptWriting ==
  /\ ~ running /\ writer.pc # "idle"
  /\ LET held == IF writer.pc = "generated" THEN writer.prefix ELSE writer.text
     IN  SaveDraft(IF held # <<>> THEN held ELSE writer.parts, "errored")
  /\ chapterPhase' = "paused"
  /\ chunks' = <<>>
  /\ writeJob' = NoWriteJob
  /\ EndRun
  /\ UNCHANGED <<finalText, running, streamBudget>>

\* the process dies: the session is lost, the job is claimed again with its payload
KillWriter ==
  /\ writer.pc # "idle" /\ streamBudget.kills > 0
  /\ streamBudget' = [streamBudget EXCEPT !.kills = @ - 1]
  /\ EndRun
  /\ UNCHANGED <<drafts, chapterPhase, finalText, chunks, writeJob, running>>

\* the pipeline raises: what was not committed is rolled back, then mark_failed
WriterRaises ==
  /\ writer.pc # "idle"
  /\ drafts' = [drafts EXCEPT ![LatestDraft].status = IF @ = "running" THEN "errored" ELSE @]
  /\ chapterPhase' = "failed"
  /\ chunks' = <<>>
  /\ writeJob' = NoWriteJob
  /\ running' = FALSE
  /\ EndRun
  /\ UNCHANGED <<finalText, streamBudget>>

(******************************* the user *********************************)

\* pause_project: a job that has not started is cancelled
PauseWriting ==
  /\ running /\ chapterPhase \in {"queued", "writing", "reviewing"}
  /\ streamBudget.pauses > 0
  /\ streamBudget' = [streamBudget EXCEPT !.pauses = @ - 1]
  /\ running' = FALSE
  /\ IF chapterPhase = "queued"
     THEN chapterPhase' = "paused" /\ writeJob' = NoWriteJob
     ELSE UNCHANGED <<chapterPhase, writeJob>>
  /\ UNCHANGED <<drafts, finalText, chunks, writer>>

Requeue(j) ==
  /\ chapterPhase' = "queued"
  /\ writeJob' = j
  /\ running' = TRUE
  /\ UNCHANGED <<drafts, chunks, writer, streamBudget>>

\* resume_project with _build_resume_payload: go on with the latest attempt if it can be
ResumeWriting ==
  /\ ~ running /\ writer.pc = "idle"
  /\ chapterPhase \in {"paused", "failed", "writing", "reviewing"}
  /\ Requeue([kind |-> "resume", from |-> IF Resumable(LatestDraft) THEN LatestDraft ELSE 0])
  /\ UNCHANGED finalText

\* continue_chapter: go on from the latest attempt that has text, in a new attempt
ContinueWriting ==
  /\ writer.pc = "idle"
  /\ chapterPhase \in {"paused", "failed", "passed"}
  /\ LatestWithText > 0
  /\ Requeue([kind |-> "continue", from |-> LatestWithText])
  /\ finalText' = <<>>

WriterNext ==
  \/ StartWriting \/ BeginRound \/ Chunk \/ StreamEnds \/ Disconnect \/ TextReturned
  \/ NextRound \/ SubmitDraft \/ AcceptDraft \/ RejectDraft \/ CriticFails
  \/ WriterFails \/ WriterRaises \/ InterruptWriting \/ KillWriter
  \/ PauseWriting \/ ResumeWriting \/ ContinueWriting

WriterSpec == WriterInit /\ [][WriterNext]_writerVars

(****************************** properties ********************************)

WriterTypeOK ==
  /\ drafts \in Seq([text : Text, status : DraftStatus])
  /\ chapterPhase \in {"queued", "writing", "reviewing", "passed", "failed", "paused"}
  /\ finalText \in Text /\ chunks \in Text
  /\ writeJob \in WriteJob
  /\ writer \in [pc : WriterPhase, attempt : 0..MaxAttempts, text : Text, parts : Text,
                 prefix : Text, buffer : Text, round : 0..MaxRounds]
  /\ writer.pc # "idle" => writer.attempt \in DOMAIN drafts
  /\ running \in BOOLEAN
  /\ streamBudget \in [pauses : 0..MaxPauses, kills : 0..MaxKills]

\* What the live view was sent is saved: the chunk events committed in a round are the
\* end of the committed text of the attempt, and what is not committed yet is both still
\* in the batch and at the end of the session's text, so a crash cannot take back a piece
\* that was shown.
ShownIsSaved ==
  writer.pc = "streaming" =>
    /\ IsSuffix(chunks, Row.text)
    /\ writer.text = Row.text \o writer.buffer
    /\ writer.parts = chunks \o writer.buffer

\* A pause takes nothing back: when the pipeline stops a chapter, the row of the attempt
\* keeps its text, and every piece received in the interrupted round is at its end, also
\* those of the batch that was never committed.
PauseKeepsText ==
  [][chapterPhase = "writing" /\ chapterPhase' = "paused" =>
       LET saved == drafts'[writer.attempt].text
       IN  /\ writer.pc = "streaming" => IsPrefix(Row.text, saved) /\ IsSuffix(writer.parts, saved)
           /\ Row.text # <<>> => saved # <<>>]_writerVars

\* A chapter passes only with a text that is usable and that is the one in the row of the
\* attempt that was reviewed: fallbacks, recovered streams and continuation rounds never
\* put an empty or half-received text in front of the critic.
PassedTextUsable ==
  /\ chapterPhase = "passed" =>
       /\ Usable(finalText)
       /\ \E i \in DOMAIN drafts : drafts[i] = [text |-> finalText, status |-> "accepted"]
  /\ writer.pc = "reviewing" => Usable(Row.text) /\ Row.text = writer.text

\* Continuing a chapter goes on from the text saved so far (useLiveWritingState.ts): the
\* text that is reviewed is the story from its first piece.
ContinuationKeepsDraft ==
  writer.pc = "reviewing" => writer.text = StoryFrom(<<>>, Len(writer.text))
=============================================================================
