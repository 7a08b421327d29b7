------------------------- MODULE WriterStreamProofs -------------------------
(***************************************************************************)
(* The text of a chapter while it is written, for stories, attempts,       *)
(* rounds, pauses and kills without bound: what the live view was sent is  *)
(* saved, a pause takes nothing back, and only a usable text passes.       *)
(*                                                                         *)
(* The strengthening says, for each place the pipeline can be in, how the  *)
(* session, the row of the attempt and the chunk events go together.       *)
(***************************************************************************)
EXTENDS WriterStream, FiniteSetsExt, SequenceTheorems, WellFoundedInduction, TLAPS

(************************** sequences and maxima **************************)

LEMMA MaxExists ==
  ASSUME NEW n \in Nat, NEW S \in SUBSET (1..n), S # {}
  PROVE  Max(S) \in S
<1> DEFINE T == {n - k : k \in S}
<1>1. T \subseteq Nat /\ T # {}
  <2>1. \A k \in S : k \in 1..n
    OBVIOUS
  <2>2. \A k \in S : n - k \in Nat
    BY <2>1
  <2>3. QED
    BY <2>2
<1>2. PICK x \in T : \A y \in T : ~ (<<y, x>> \in OpToRel(<, Nat))
  BY <1>1, NatLessThanWellFounded, WFMin
<1>3. \A y \in T : ~ (y < x)
  BY <1>1, <1>2 DEF OpToRel
<1>4. PICK m \in S : x = n - m
  OBVIOUS
<1>5. \A k \in S : m >= k
  BY <1>3, <1>4
<1>6. QED
  BY <1>5 DEF Max

LEMMA SelectLastType ==
  ASSUME WriterTypeOK
  PROVE  LatestWithText \in 0..Len(drafts)
<1> DEFINE I == {i \in 1..Len(drafts) : drafts[i].text # <<>>}
<1>1. Len(drafts) \in Nat
  BY LenProperties DEF WriterTypeOK
<1>2. LatestWithText = IF I # {} THEN Max(I) ELSE 0
  BY DEF LatestWithText, SelectLastInSeq
<1>3. I # {} => Max(I) \in I
  BY <1>1, MaxExists
<1>4. QED
  BY <1>1, <1>2, <1>3

\* a suffix is what is left after a prefix
LEMMA SuffixOfConcat ==
  ASSUME NEW S, NEW u \in Seq(S), NEW s \in Seq(S)
  PROVE  IsSuffix(s, u \o s)
<1> DEFINE t == u \o s
<1>1. /\ t \in Seq(S) /\ Len(t) = Len(u) + Len(s)
      /\ \A i \in 1..Len(u) + Len(s) : t[i] = IF i <= Len(u) THEN u[i] ELSE s[i - Len(u)]
  BY ConcatProperties
<1>2. Len(u) \in Nat /\ Len(s) \in Nat
  BY LenProperties
<1> HIDE DEF t
<1>3. \A i \in 1..Len(s) : t[(Len(t) - i) + 1] = s[(Len(s) - i) + 1]
  BY <1>1, <1>2
<1> DEFINE rs == Reverse(s)
           rt == Reverse(t)
<1>4. /\ rs \in Seq(S) /\ Len(rs) = Len(s) /\ \A i \in 1..Len(s) : rs[i] = s[(Len(s) - i) + 1]
  <2>1. \A i \in 1..Len(s) : s[(Len(s) - i) + 1] \in S
    BY <1>2, ElementOfSeq
  <2>2. rs \in [1..Len(s) -> S]
    BY <2>1 DEF Reverse
  <2>3. QED
    BY <1>2, <2>2, SeqDef DEF Reverse
<1>5. /\ rt \in Seq(S) /\ Len(rt) = Len(t) /\ \A i \in 1..Len(t) : rt[i] = t[(Len(t) - i) + 1]
  <2>1. \A i \in 1..Len(t) : t[(Len(t) - i) + 1] \in S
    BY <1>1, <1>2, ElementOfSeq
  <2>2. rt \in [1..Len(t) -> S]
    BY <2>1 DEF Reverse
  <2>3. QED
    BY <1>1, <1>2, <2>2, SeqDef DEF Reverse
<1> HIDE DEF rs, rt
<1>6. /\ \A i \in 1..Len(s) : rs[i] \in S /\ rt[i] \in S
      /\ \A i \in 1..Len(s) : rs[i] = rt[i]
  BY <1>1, <1>2, <1>3, <1>4, <1>5, ElementOfSeq
<1>7. SubSeq(rs, 1, Len(s)) = SubSeq(rt, 1, Len(s))
  <2>1. /\ SubSeq(rs, 1, Len(s)) \in Seq(S) /\ SubSeq(rt, 1, Len(s)) \in Seq(S)
        /\ Len(SubSeq(rs, 1, Len(s))) = Len(s) /\ Len(SubSeq(rt, 1, Len(s))) = Len(s)
        /\ \A i \in 1..Len(s) : /\ SubSeq(rs, 1, Len(s))[i] = rs[i]
                                /\ SubSeq(rt, 1, Len(s))[i] = rt[i]
    BY <1>2, <1>6, SubSeqProperties
  <2>2. QED
    BY <1>6, <2>1, SeqEqual
<1>8. QED
  BY <1>1, <1>2, <1>4, <1>5, <1>7 DEF IsSuffix, IsPrefix, rs, rt, t

LEMMA PrefixOfConcat ==
  ASSUME NEW S, NEW s \in Seq(S), NEW u \in Seq(S)
  PROVE  IsPrefix(s, s \o u)
<1>1. /\ Len(s) \in Nat /\ Len(u) \in Nat /\ s \o u \in Seq(S)
      /\ Len(s \o u) = Len(s) + Len(u) /\ \A i \in 1..Len(s) : (s \o u)[i] = s[i]
  BY ConcatProperties, LenProperties
<1>2. \A i \in 1..Len(s) : s[i] \in S
  BY ElementOfSeq
<1>3. /\ SubSeq(s, 1, Len(s)) \in Seq(S) /\ SubSeq(s \o u, 1, Len(s)) \in Seq(S)
      /\ Len(SubSeq(s, 1, Len(s))) = Len(s) /\ Len(SubSeq(s \o u, 1, Len(s))) = Len(s)
      /\ \A i \in 1..Len(s) : SubSeq(s, 1, Len(s))[i] = s[i] /\ SubSeq(s \o u, 1, Len(s))[i] = s[i]
  BY <1>1, <1>2, SubSeqProperties
<1>4. SubSeq(s, 1, Len(s)) = SubSeq(s \o u, 1, Len(s))
  BY <1>3, SeqEqual
<1>5. QED
  BY <1>1, <1>4 DEF IsPrefix

(****************************** the invariant *****************************)

\* between the model's calls the session's text is the row's
InStep ==
  /\ writer.pc \in {"open", "calling", "fallback"} => writer.text = Row.text
  /\ writer.pc = "open" => chunks = <<>>

\* ShownIsSaved, with the suffix spelt out
Streamed ==
  writer.pc = "streaming" =>
    /\ writer.text = Row.text \o writer.buffer
    /\ writer.parts = chunks \o writer.buffer
    /\ \E u \in Text : Row.text = u \o chunks

Reviewed ==
  /\ writer.pc = "generated" => Usable(writer.prefix)
  /\ writer.pc = "reviewing" => Usable(Row.text) /\ Row.text = writer.text

\* a chapter that has passed is left alone until it is queued again
Passed ==
  chapterPhase = "passed" =>
    /\ writer.pc = "idle" /\ writeJob.kind = "none"
    /\ Usable(finalText)
    /\ \E i \in DOMAIN drafts : drafts[i] = [text |-> finalText, status |-> "accepted"]

\* a continuation names an attempt that is there
Continued == writeJob.kind = "continue" => writeJob.from \in DOMAIN drafts

StreamInv ==
  /\ WriterTypeOK /\ Len(drafts) <= MaxAttempts /\ Continued
  /\ InStep /\ Streamed /\ Reviewed /\ Passed

WriterRow == [pc : WriterPhase, attempt : 0..MaxAttempts, text : Text, parts : Text,
              prefix : Text, buffer : Text, round : 0..MaxRounds]
DraftRow == [text : Text, status : DraftStatus]

LEMMA TextFacts ==
  /\ <<>> \in Text /\ Len(<<>>) = 0 /\ ~ Usable(<<>>)
  /\ \A t \in Text : Len(t) \in Nat
  /\ \A t \in Text : t \o <<>> = t /\ <<>> \o t = t
  /\ \A s, t \in Text : s \o t \in Text /\ Len(s \o t) = Len(s) + Len(t)
  /\ \A s, t, u \in Text : (s \o t) \o u = s \o (t \o u)
<1>1. <<>> \in Text /\ Len(<<>>) = 0
  BY EmptySeq DEF Text
<1>2. ~ Usable(<<>>)
  BY <1>1, WriterStreamAssumption DEF Usable
<1>3. \A t \in Text : Len(t) \in Nat
  BY LenProperties DEF Text
<1>4. \A t \in Text : t \o <<>> = t /\ <<>> \o t = t
  BY ConcatEmptySeq DEF Text
<1>5. \A s, t \in Text : s \o t \in Text /\ Len(s \o t) = Len(s) + Len(t)
  BY ConcatProperties DEF Text
<1>6. \A s, t, u \in Text : (s \o t) \o u = s \o (t \o u)
  BY ConcatAssociative DEF Text
<1>7. QED
  BY <1>1, <1>2, <1>3, <1>4, <1>5, <1>6

LEMMA Regroup ==
  ASSUME NEW s \in Text, NEW t \in Text, NEW u \in Text
  PROVE  (s \o t) \o u = s \o (t \o u)
  BY TextFacts

\* a piece of the story
LEMMA PieceFacts ==
  ASSUME NEW t \in Text, NEW p \in Pieces
  PROVE  Append(t, p) \in Text /\ Append(t, p) = t \o <<p>> /\ <<p>> \in Text
<1>1. <<p>> \in Text
  BY SeqDef DEF Text
<1>2. Append(t, p) \in Text /\ Append(t, p) = t \o <<p>>
  BY DEF Text
<1>3. QED
  BY <1>1, <1>2

LEMMA DraftFacts ==
  ASSUME WriterTypeOK
  PROVE  /\ Len(drafts) \in Nat /\ DOMAIN drafts = 1..Len(drafts)
         /\ drafts \in Seq(DraftRow)
         /\ \A i \in DOMAIN drafts : drafts[i] \in DraftRow /\ drafts[i].text \in Text
<1>1. drafts \in Seq(DraftRow)
  BY DEF WriterTypeOK, DraftRow
<1>2. Len(drafts) \in Nat /\ DOMAIN drafts = 1..Len(drafts)
  BY <1>1, LenProperties
<1>3. \A i \in DOMAIN drafts : drafts[i] \in DraftRow
  BY <1>1, <1>2, ElementOfSeq
<1>4. QED
  BY <1>1, <1>2, <1>3 DEF DraftRow

\* session.commit with the row of the attempt
LEMMA Saved ==
  ASSUME WriterTypeOK, writer.attempt \in DOMAIN drafts, NEW t \in Text,
         NEW status \in DraftStatus, SaveDraft(t, status)
  PROVE  /\ drafts' \in Seq(DraftRow) /\ Len(drafts') = Len(drafts)
         /\ DOMAIN drafts' = DOMAIN drafts
         /\ drafts'[writer.attempt] = [text |-> t, status |-> status]
         /\ drafts'[writer.attempt].text = t
<1>1. drafts' = [drafts EXCEPT ![writer.attempt] = [text |-> t, status |-> status]]
  BY DEF SaveDraft
<1>2. [text |-> t, status |-> status] \in DraftRow
  BY DEF DraftRow
<1>3. drafts \in Seq(DraftRow) /\ writer.attempt \in 1..Len(drafts)
  BY DraftFacts
<1>4. /\ drafts' \in Seq(DraftRow) /\ Len(drafts') = Len(drafts)
      /\ drafts'[writer.attempt] = [text |-> t, status |-> status]
  BY <1>1, <1>2, <1>3, ExceptSeq
<1>5. QED
  BY <1>1, <1>4

LEMMA MergeType == ASSUME NEW p \in Text, NEW t \in Text PROVE Merge(p, t) \in Text
  BY TextFacts DEF Merge

LEMMA StoryType ==
  ASSUME NEW t \in Text, NEW k \in 0..(StoryLength - Len(t))
  PROVE  StoryFrom(t, k) \in Text
<1>1. Len(t) \in Nat /\ StoryLength \in Nat /\ k \in Nat
  BY TextFacts, WriterStreamAssumption
<1>2. \A i \in 1..k : Len(t) + i \in 1..StoryLength
  BY <1>1
<1>3. StoryFrom(t, k) \in [1..k -> 1..StoryLength]
  BY <1>2 DEF StoryFrom
<1>4. QED
  BY <1>1, <1>3, SeqDef DEF Text, Pieces

(**************************** the start of a job **************************)

LEMMA IdleFacts ==
  /\ IdleWriter \in WriterRow /\ IdleWriter.pc = "idle"
  /\ NoWriteJob \in WriteJob /\ NoWriteJob.kind = "none"
  /\ [kind |-> "retry", from |-> 0] \in WriteJob
<1>1. /\ <<>> \in Text /\ 0 \in 0..MaxAttempts /\ 0 \in 0..MaxRounds
  BY TextFacts, WriterStreamAssumption
<1>2. QED
  BY <1>1 DEF IdleWriter, WriterRow, WriterPhase, NoWriteJob, WriteJob

LEMMA StartWritingKeeps == ASSUME StreamInv, StartWriting PROVE StreamInv'
<1> DEFINE from == IF writeJob.from = 0 THEN LatestDraft ELSE writeJob.from
           opened(i, prefix, text) ==
             [IdleWriter EXCEPT !.pc = "open", !.attempt = i, !.prefix = prefix,
                                !.text = text, !.parts = prefix]
<1>1. /\ chapterPhase' = "writing" /\ chunks' = <<>>
      /\ UNCHANGED <<finalText, writeJob, running, streamBudget>>
  BY DEF StartWriting
<1>2. PICK i \in 1..MaxAttempts, prefix \in Text, text \in Text :
        /\ writer' = opened(i, prefix, text)
        /\ drafts' \in Seq(DraftRow) /\ i \in DOMAIN drafts' /\ Len(drafts') <= MaxAttempts
        /\ DOMAIN drafts \subseteq DOMAIN drafts'
        /\ drafts'[i].text = text
  <2>1. CASE writeJob.kind = "resume" /\ Resumable(from)
    <3>1. from \in DOMAIN drafts /\ OpenAttempt(from, drafts[from].text)
      BY <2>1 DEF StartWriting, Resumable
    <3>2. /\ writer' = opened(from, drafts[from].text, drafts[from].text)
          /\ drafts' = [drafts EXCEPT ![from].status = "running"]
      BY <3>1 DEF OpenAttempt
    <3>3. /\ from \in 1..Len(drafts) /\ from \in 1..MaxAttempts /\ drafts[from] \in DraftRow
          /\ drafts[from].text \in Text
      BY <3>1, DraftFacts, WriterStreamAssumption DEF StreamInv
    <3> HIDE DEF from, opened
    <3>4. /\ [drafts[from] EXCEPT !.status = "running"] \in DraftRow
          /\ [drafts[from] EXCEPT !.status = "running"].text = drafts[from].text
      BY <3>3 DEF DraftRow, DraftStatus
    <3>5. drafts' = [drafts EXCEPT ![from] = [drafts[from] EXCEPT !.status = "running"]]
      BY <3>2
    <3>6. /\ drafts' \in Seq(DraftRow) /\ Len(drafts') = Len(drafts)
          /\ drafts'[from] = [drafts[from] EXCEPT !.status = "running"]
          /\ DOMAIN drafts' = DOMAIN drafts
      BY <3>3, <3>4, <3>5, DraftFacts, ExceptSeq DEF StreamInv
    <3>7. QED
      BY <3>1, <3>2, <3>3, <3>4, <3>6 DEF StreamInv
  <2>2. CASE ~ (writeJob.kind = "resume" /\ Resumable(from))
    <3> DEFINE n == Len(drafts) + 1
               prefix == IF writeJob.kind = "continue" THEN drafts[from].text ELSE <<>>
               row == [text |-> <<>>, status |-> "running"]
    <3>1. Len(drafts) < MaxAttempts /\ OpenAttempt(n, prefix)
      BY <2>2 DEF StartWriting
    <3>2. n \in 1..MaxAttempts /\ n \notin DOMAIN drafts
      BY <3>1, DraftFacts, WriterStreamAssumption DEF StreamInv
    <3>3. writer' = opened(n, prefix, <<>>) /\ drafts' = Append(drafts, row)
      BY <3>1, <3>2 DEF OpenAttempt
    <3>4. prefix \in Text
      <4>1. CASE writeJob.kind = "continue"
        <5>1. writeJob.from \in DOMAIN drafts /\ from = writeJob.from
          BY <4>1, DraftFacts DEF StreamInv, Continued
        <5>2. QED
          BY <4>1, <5>1, DraftFacts DEF StreamInv
      <4>2. CASE writeJob.kind # "continue"
        BY <4>2, TextFacts
      <4>3. QED
        BY <4>1, <4>2
    <3>5. row \in DraftRow /\ row.text = <<>> /\ <<>> \in Text
      BY TextFacts DEF DraftRow, DraftStatus
    <3> HIDE DEF from, opened, prefix, row
    <3>6. /\ drafts' \in Seq(DraftRow) /\ Len(drafts') = n /\ drafts'[n] = row
          /\ DOMAIN drafts' = 1..n
      BY <3>3, <3>5, DraftFacts, AppendProperties, LenProperties DEF StreamInv
    <3>7. DOMAIN drafts \subseteq DOMAIN drafts' /\ n \in DOMAIN drafts' /\ Len(drafts') <= MaxAttempts
      BY <3>2, <3>6, DraftFacts DEF StreamInv
    <3>8. QED
      BY <3>2, <3>3, <3>4, <3>5, <3>6, <3>7
  <2>3. QED
    BY <2>1, <2>2
<1>3. /\ writer' \in WriterRow /\ writer'.pc = "open" /\ writer'.attempt = i
      /\ writer'.text = text
  <2>1. i \in 0..MaxAttempts
    BY <1>2
  <2>2. QED
    BY <1>2, <2>1, IdleFacts DEF WriterRow, WriterPhase
<1> HIDE DEF from, opened
<1>4. WriterTypeOK'
  BY <1>1, <1>2, <1>3, TextFacts DEF StreamInv, WriterTypeOK, WriterRow, DraftRow
<1>5. InStep' /\ Streamed' /\ Reviewed' /\ Passed' /\ Continued'
  BY <1>1, <1>2, <1>3 DEF StreamInv, InStep, Streamed, Reviewed, Passed, Continued, Row
<1>6. QED
  BY <1>2, <1>4, <1>5 DEF StreamInv

(******************************** streaming *******************************)

LEMMA WriterFacts ==
  ASSUME StreamInv
  PROVE  /\ writer \in WriterRow
         /\ writer.text \in Text /\ writer.parts \in Text /\ writer.prefix \in Text
         /\ writer.buffer \in Text /\ chunks \in Text /\ finalText \in Text
         /\ writer.pc # "idle" => /\ writer.attempt \in DOMAIN drafts /\ chapterPhase # "passed"
                                  /\ Row.text \in Text /\ Row.status \in DraftStatus
<1>1. writer \in WriterRow /\ chunks \in Text /\ finalText \in Text
  BY DEF StreamInv, WriterTypeOK, WriterRow
<1>2. writer.pc # "idle" => writer.attempt \in DOMAIN drafts /\ chapterPhase # "passed"
  BY DEF StreamInv, WriterTypeOK, Passed
<1>3. writer.pc # "idle" => Row.text \in Text /\ Row.status \in DraftStatus
  BY <1>2, DraftFacts DEF StreamInv, Row, DraftRow
<1>4. QED
  BY <1>1, <1>2, <1>3 DEF WriterRow

\* what a step within a run needs to show nothing of
LEMMA Going ==
  ASSUME StreamInv, writer.pc # "idle", writer' \in WriterRow, writer'.attempt = writer.attempt,
         drafts' \in Seq(DraftRow), Len(drafts') = Len(drafts), DOMAIN drafts' = DOMAIN drafts,
         chunks' \in Text, chapterPhase' \in {chapterPhase, "reviewing"},
         UNCHANGED <<finalText, writeJob, running, streamBudget>>
  PROVE  WriterTypeOK' /\ Len(drafts') <= MaxAttempts /\ Continued' /\ Passed'
<1>1. writer.attempt \in DOMAIN drafts /\ chapterPhase # "passed"
  BY WriterFacts
<1>2. WriterTypeOK'
  BY <1>1 DEF StreamInv, WriterTypeOK, WriterRow, DraftRow
<1>3. Continued' /\ Passed'
  BY <1>1 DEF StreamInv, Continued, Passed
<1>4. QED
  BY <1>2, <1>3 DEF StreamInv

LEMMA BeginRoundKeeps == ASSUME StreamInv, BeginRound PROVE StreamInv'
<1>1. PICK streaming \in StreamModes :
        writer' = [writer EXCEPT !.pc = IF streaming THEN "streaming" ELSE "calling",
                                 !.parts = <<>>, !.buffer = <<>>]
  BY DEF BeginRound
<1>2. /\ writer.pc = "open"
      /\ UNCHANGED <<drafts, chapterPhase, finalText, chunks, writeJob, running, streamBudget>>
  BY DEF BeginRound
<1> DEFINE pc == IF streaming THEN "streaming" ELSE "calling"
<1>3. pc \in {"streaming", "calling"} /\ pc \in WriterPhase
  BY DEF WriterPhase
<1>4. writer' = [writer EXCEPT !.pc = pc, !.parts = <<>>, !.buffer = <<>>]
  BY <1>1
<1> HIDE DEF pc
<1>5. /\ writer' \in WriterRow /\ writer'.pc = pc /\ writer'.attempt = writer.attempt
      /\ writer'.text = writer.text /\ writer'.parts = <<>> /\ writer'.buffer = <<>>
  BY <1>3, <1>4, WriterFacts, TextFacts DEF WriterRow
<1>6. WriterTypeOK' /\ Len(drafts') <= MaxAttempts /\ Continued' /\ Passed'
  BY <1>2, <1>5, WriterFacts, DraftFacts, Going DEF StreamInv
<1>7. writer.text = Row.text /\ chunks = <<>> /\ Row.text \in Text /\ Row' = Row
  BY <1>2, <1>5, WriterFacts DEF StreamInv, InStep, Row
<1>8. InStep' /\ Reviewed'
  BY <1>3, <1>5, <1>7 DEF InStep, Reviewed
<1>9. Streamed'
  <2>1. Row.text = Row.text \o <<>> /\ <<>> = <<>> \o <<>>
    BY <1>7, TextFacts
  <2>2. QED
    BY <1>2, <1>5, <1>7, <2>1 DEF Streamed
<1>10. QED
  BY <1>6, <1>8, <1>9 DEF StreamInv

LEMMA ChunkKeeps == ASSUME StreamInv, Chunk PROVE StreamInv'
<1> DEFINE n == Len(writer.prefix \o writer.parts)
           piece == n + 1
           w == [writer EXCEPT !.parts = Append(writer.parts, piece),
                               !.text = Append(writer.text, piece),
                               !.buffer = Append(writer.buffer, piece)]
<1>1. /\ writer.pc = "streaming" /\ n < StoryLength
      /\ CommitBatch(w) \/ (writer' = w /\ UNCHANGED <<drafts, chunks>>)
      /\ UNCHANGED <<chapterPhase, finalText, writeJob, running, streamBudget>>
  BY DEF Chunk
<1>2. piece \in Pieces
  <2>1. n \in Nat
    BY WriterFacts, TextFacts
  <2>2. StoryLength \in Nat
    BY WriterStreamAssumption
  <2> HIDE DEF w, n
  <2>3. QED
    BY <1>1, <2>1, <2>2 DEF Pieces
<1> HIDE DEF piece
<1> DEFINE text == Append(writer.text, piece)
           buffer == Append(writer.buffer, piece)
           parts == Append(writer.parts, piece)
<1>3. /\ text \in Text /\ buffer \in Text /\ parts \in Text /\ <<piece>> \in Text
      /\ text = writer.text \o <<piece>> /\ buffer = writer.buffer \o <<piece>>
      /\ parts = writer.parts \o <<piece>>
  BY <1>2, WriterFacts, PieceFacts
<1> HIDE DEF text, buffer, parts
<1>4. /\ w \in WriterRow /\ w.pc = "streaming" /\ w.attempt = writer.attempt
      /\ w.text = text /\ w.buffer = buffer /\ w.parts = parts
  BY <1>1, <1>3, WriterFacts DEF WriterRow, text, buffer, parts
<1> HIDE DEF w
<1>5. PICK u \in Text : Row.text = u \o chunks
  BY <1>1 DEF StreamInv, Streamed
<1>6. text = Row.text \o buffer /\ parts = chunks \o buffer
  <2>1. writer.text = Row.text \o writer.buffer /\ writer.parts = chunks \o writer.buffer
    BY <1>1 DEF StreamInv, Streamed
  <2>2. Row.text \in Text /\ writer.buffer \in Text /\ chunks \in Text
    BY <1>1, WriterFacts
  <2>3. <<piece>> \in Text
    BY <1>3
  <2>4. (Row.text \o writer.buffer) \o <<piece>> = Row.text \o (writer.buffer \o <<piece>>)
    BY <2>2, <2>3, Regroup, Zenon
  <2>5. (chunks \o writer.buffer) \o <<piece>> = chunks \o (writer.buffer \o <<piece>>)
    BY <2>2, <2>3, Regroup, Zenon
  <2>6. QED
    BY <1>3, <2>1, <2>4, <2>5
<1>7. CASE writer' = w /\ UNCHANGED <<drafts, chunks>>
  <2>1. Row' = Row
    BY <1>4, <1>7 DEF Row
  <2>2. WriterTypeOK' /\ Len(drafts') <= MaxAttempts /\ Continued' /\ Passed'
    BY <1>1, <1>4, <1>7, WriterFacts, DraftFacts, Going DEF StreamInv
  <2>3. Streamed' /\ InStep' /\ Reviewed'
    BY <1>4, <1>5, <1>6, <1>7, <2>1 DEF Streamed, InStep, Reviewed
  <2>4. QED
    BY <2>2, <2>3 DEF StreamInv
<1>8. CASE CommitBatch(w)
  <2>1. /\ chunks' = chunks \o buffer /\ SaveDraft(text, Row.status)
        /\ writer' = [w EXCEPT !.buffer = <<>>]
    BY <1>4, <1>8 DEF CommitBatch
  <2>2. /\ drafts' \in Seq(DraftRow) /\ Len(drafts') = Len(drafts)
        /\ DOMAIN drafts' = DOMAIN drafts /\ drafts'[writer.attempt].text = text
    BY <1>1, <1>3, <2>1, WriterFacts, Saved DEF StreamInv
  <2>3. /\ writer' \in WriterRow /\ writer'.pc = "streaming" /\ writer'.attempt = writer.attempt
        /\ writer'.text = text /\ writer'.buffer = <<>> /\ writer'.parts = parts
    BY <1>4, <2>1, TextFacts DEF WriterRow
  <2>4. Row'.text = text
    BY <2>2, <2>3 DEF Row
  <2>5. chunks \in Text /\ chunks' \in Text
    BY <1>3, <2>1, WriterFacts, TextFacts
  <2>6. WriterTypeOK' /\ Len(drafts') <= MaxAttempts /\ Continued' /\ Passed'
    BY <1>1, <2>2, <2>3, <2>5, Going
  <2>7. text = u \o chunks'
    <3>1. u \in Text /\ chunks \in Text /\ buffer \in Text
      BY <1>3, <1>5, <2>5
    <3>2. (u \o chunks) \o buffer = u \o (chunks \o buffer)
      BY <3>1, Regroup, Zenon
    <3>3. QED
      BY <1>5, <1>6, <2>1, <3>2
  <2>8. text = text \o <<>> /\ chunks' = chunks' \o <<>>
    BY <1>3, <2>5, TextFacts
  <2>9. Streamed'
    BY <1>6, <2>1, <2>3, <2>4, <2>7, <2>8 DEF Streamed
  <2>10. InStep' /\ Reviewed'
    BY <2>3 DEF InStep, Reviewed
  <2>11. QED
    BY <2>6, <2>9, <2>10 DEF StreamInv
<1>9. QED
  BY <1>1, <1>7, <1>8

\* a step that saves t and leaves the run in another place than its stream
LEMMA Moves ==
  ASSUME StreamInv, writer.pc # "idle", NEW t \in Text, NEW status \in DraftStatus,
         SaveDraft(t, status), writer' \in WriterRow, writer'.attempt = writer.attempt,
         writer'.pc # "streaming", chunks' \in Text, chapterPhase' \in {chapterPhase, "reviewing"},
         UNCHANGED <<finalText, writeJob, running, streamBudget>>,
         writer'.pc \in {"open", "calling", "fallback"} => writer'.text = t,
         writer'.pc = "open" => chunks' = <<>>,
         writer'.pc = "generated" => Usable(writer'.prefix),
         writer'.pc = "reviewing" => Usable(t) /\ t = writer'.text
  PROVE  StreamInv'
<1>1. /\ drafts' \in Seq(DraftRow) /\ Len(drafts') = Len(drafts)
      /\ DOMAIN drafts' = DOMAIN drafts /\ drafts'[writer.attempt].text = t
  BY WriterFacts, Saved DEF StreamInv
<1>2. WriterTypeOK' /\ Len(drafts') <= MaxAttempts /\ Continued' /\ Passed'
  BY <1>1, Going
<1>3. Row'.text = t
  BY <1>1 DEF Row
<1>4. InStep' /\ Streamed' /\ Reviewed'
  BY <1>3 DEF InStep, Streamed, Reviewed
<1>5. QED
  BY <1>2, <1>4 DEF StreamInv

LEMMA StreamEndsKeeps == ASSUME StreamInv, StreamEnds PROVE StreamInv'
<1> DEFINE merged == Merge(writer.prefix, writer.parts)
           done == [writer EXCEPT !.buffer = <<>>]
<1>1. /\ writer.pc = "streaming" /\ chunks' = chunks \o writer.buffer
      /\ SaveDraft(writer.text, Row.status)
      /\ UNCHANGED <<chapterPhase, finalText, writeJob, running, streamBudget>>
  BY DEF StreamEnds
<1>2. \/ Usable(merged) /\ writer' = Generated([done EXCEPT !.text = merged], merged)
      \/ writer' = [done EXCEPT !.pc = "fallback"]
  BY DEF StreamEnds
<1>3. merged \in Text /\ chunks' \in Text
  BY <1>1, WriterFacts, MergeType, TextFacts
<1> HIDE DEF merged
<1>4. done \in WriterRow /\ done.text = writer.text /\ done.attempt = writer.attempt
  BY WriterFacts, TextFacts DEF WriterRow
<1> HIDE DEF done
<1>5. CASE Usable(merged) /\ writer' = Generated([done EXCEPT !.text = merged], merged)
  <2>1. /\ writer' \in WriterRow /\ writer'.pc = "generated" /\ writer'.attempt = writer.attempt
        /\ writer'.prefix = merged
    BY <1>3, <1>4, <1>5 DEF Generated, WriterRow, WriterPhase
  <2>2. QED
    BY <1>1, <1>3, <1>5, <2>1, WriterFacts, Moves
<1>6. CASE writer' = [done EXCEPT !.pc = "fallback"]
  <2>1. /\ writer' \in WriterRow /\ writer'.pc = "fallback" /\ writer'.attempt = writer.attempt
        /\ writer'.text = writer.text
    BY <1>4, <1>6 DEF WriterRow, WriterPhase
  <2>2. QED
    BY <1>1, <1>3, <2>1, WriterFacts, Moves
<1>7. QED
  BY <1>2, <1>5, <1>6

LEMMA DisconnectKeeps == ASSUME StreamInv, Disconnect PROVE StreamInv'
<1>1. PICK t \in {writer.parts, writer.text} :
        Usable(t) /\ writer' = Generated([writer EXCEPT !.buffer = <<>>], t)
  BY DEF Disconnect
<1>2. /\ writer.pc = "streaming" /\ SaveDraft(writer.text, Row.status)
      /\ UNCHANGED <<chapterPhase, finalText, chunks, writeJob, running, streamBudget>>
  BY DEF Disconnect
<1>3. t \in Text
  BY WriterFacts
<1>4. /\ writer' \in WriterRow /\ writer'.pc = "generated" /\ writer'.attempt = writer.attempt
      /\ writer'.prefix = t
  BY <1>1, <1>3, WriterFacts, TextFacts DEF Generated, WriterRow, WriterPhase
<1>5. QED
  BY <1>1, <1>2, <1>3, <1>4, WriterFacts, Moves

LEMMA TextReturnedKeeps == ASSUME StreamInv, TextReturned PROVE StreamInv'
<1>1. PICK k \in 0..(StoryLength - Len(writer.prefix)) :
        LET merged == Merge(writer.prefix, StoryFrom(writer.prefix, k))
        IN  /\ Usable(merged)
            /\ SaveDraft(merged, Row.status)
            /\ writer' = Generated([writer EXCEPT !.text = merged], merged)
  BY DEF TextReturned
<1> DEFINE merged == Merge(writer.prefix, StoryFrom(writer.prefix, k))
<1>2. /\ writer.pc # "idle"
      /\ UNCHANGED <<chapterPhase, finalText, chunks, writeJob, running, streamBudget>>
  BY DEF TextReturned
<1>3. merged \in Text
  BY WriterFacts, StoryType, MergeType
<1>4. /\ Usable(merged) /\ SaveDraft(merged, Row.status)
      /\ writer' = Generated([writer EXCEPT !.text = merged], merged)
  BY <1>1
<1> HIDE DEF merged
<1>5. /\ writer' \in WriterRow /\ writer'.pc = "generated" /\ writer'.attempt = writer.attempt
      /\ writer'.prefix = merged
  BY <1>3, <1>4, WriterFacts DEF Generated, WriterRow, WriterPhase
<1>6. QED
  BY <1>2, <1>3, <1>4, <1>5, WriterFacts, Moves

LEMMA NextRoundKeeps == ASSUME StreamInv, NextRound PROVE StreamInv'
<1>1. /\ writer.pc = "generated" /\ writer.round < MaxRounds
      /\ SaveDraft(writer.text, Row.status) /\ chunks' = <<>>
      /\ writer' = [writer EXCEPT !.pc = "open", !.round = writer.round + 1,
                                  !.parts = writer.prefix]
      /\ UNCHANGED <<chapterPhase, finalText, writeJob, running, streamBudget>>
  BY DEF NextRound
<1>2. writer.round \in 0..MaxRounds /\ MaxRounds \in Nat
  BY WriterFacts, WriterStreamAssumption DEF WriterRow
<1>3. writer.round + 1 \in 0..MaxRounds
  BY <1>1, <1>2
<1>4. /\ writer' \in WriterRow /\ writer'.pc = "open" /\ writer'.attempt = writer.attempt
      /\ writer'.text = writer.text
  BY <1>1, <1>3, WriterFacts DEF WriterRow, WriterPhase
<1>5. QED
  BY <1>1, <1>4, WriterFacts, TextFacts, Moves

(****************************** the outcomes ******************************)

LEMMA SubmitDraftKeeps == ASSUME StreamInv, SubmitDraft PROVE StreamInv'
<1>1. /\ writer.pc = "generated" /\ SaveDraft(writer.prefix, "reviewed")
      /\ writer' = [writer EXCEPT !.pc = "reviewing", !.text = writer.prefix]
      /\ chapterPhase' = "reviewing"
      /\ UNCHANGED <<finalText, chunks, writeJob, running, streamBudget>>
  BY DEF SubmitDraft
<1>2. /\ writer' \in WriterRow /\ writer'.pc = "reviewing" /\ writer'.attempt = writer.attempt
      /\ writer'.text = writer.prefix
  BY <1>1, WriterFacts DEF WriterRow, WriterPhase
<1>3. Usable(writer.prefix) /\ "reviewed" \in DraftStatus
  BY <1>1 DEF StreamInv, Reviewed, DraftStatus
<1>4. QED
  BY <1>1, <1>2, <1>3, WriterFacts, Moves

\* a run that ends without the chapter passing
LEMMA EndedKeeps ==
  ASSUME StreamInv, writer.pc # "idle", NEW t \in Text, NEW status \in DraftStatus,
         SaveDraft(t, status), writer' = IdleWriter, chunks' \in Text, running' \in BOOLEAN,
         chapterPhase' \in {"queued", "failed", "paused"}, writeJob' \in WriteJob,
         writeJob'.kind # "continue", UNCHANGED <<finalText, streamBudget>>
  PROVE  StreamInv'
<1>1. /\ drafts' \in Seq(DraftRow) /\ Len(drafts') = Len(drafts)
  BY WriterFacts, Saved DEF StreamInv
<1>2. writer' \in WriterRow /\ writer'.pc = "idle"
  BY IdleFacts
<1>3. WriterTypeOK'
  BY <1>1, <1>2 DEF StreamInv, WriterTypeOK, WriterRow, DraftRow
<1>4. InStep' /\ Streamed' /\ Reviewed' /\ Passed' /\ Continued'
  BY <1>2 DEF InStep, Streamed, Reviewed, Passed, Continued
<1>5. QED
  BY <1>1, <1>3, <1>4 DEF StreamInv

LEMMA FailDraftKeeps ==
  ASSUME StreamInv, writer.pc # "idle", NEW t \in Text, NEW status \in DraftStatus,
         FailDraft(t, status), chunks' \in Text
  PROVE  StreamInv'
<1>1. /\ SaveDraft(t, status) /\ writer' = IdleWriter /\ UNCHANGED <<finalText, streamBudget>>
      /\ chapterPhase' \in {"queued", "failed", "paused"}
      /\ writeJob' \in {[kind |-> "retry", from |-> 0], NoWriteJob}
      /\ running' \in BOOLEAN
  BY DEF FailDraft, EndRun, StreamInv, WriterTypeOK
<1>2. writeJob' \in WriteJob /\ writeJob'.kind # "continue"
  BY <1>1, IdleFacts
<1>3. QED
  BY <1>1, <1>2, EndedKeeps

LEMMA AcceptDraftKeeps == ASSUME StreamInv, AcceptDraft PROVE StreamInv'
<1>1. /\ writer.pc = "reviewing" /\ SaveDraft(writer.text, "accepted")
      /\ finalText' = writer.text /\ chapterPhase' = "passed" /\ chunks' = <<>>
      /\ writeJob' = NoWriteJob /\ writer' = IdleWriter /\ UNCHANGED <<running, streamBudget>>
  BY DEF AcceptDraft, EndRun
<1>2. "accepted" \in DraftStatus /\ writer.text \in Text /\ writer.attempt \in DOMAIN drafts
  BY <1>1, WriterFacts DEF DraftStatus
<1>3. /\ drafts' \in Seq(DraftRow) /\ Len(drafts') = Len(drafts) /\ DOMAIN drafts' = DOMAIN drafts
      /\ drafts'[writer.attempt] = [text |-> writer.text, status |-> "accepted"]
  BY <1>1, <1>2, Saved DEF StreamInv
<1>4. /\ writer' \in WriterRow /\ writer'.pc = "idle"
      /\ writeJob' \in WriteJob /\ writeJob'.kind = "none"
  BY <1>1, IdleFacts
<1>5. WriterTypeOK'
  BY <1>1, <1>2, <1>3, <1>4, TextFacts DEF StreamInv, WriterTypeOK, WriterRow, DraftRow
<1>6. Usable(finalText')
  BY <1>1 DEF StreamInv, Reviewed
<1>7. InStep' /\ Streamed' /\ Reviewed' /\ Continued'
  BY <1>4 DEF InStep, Streamed, Reviewed, Continued
<1>8. Passed'
  BY <1>1, <1>2, <1>3, <1>4, <1>6 DEF Passed, Usable
<1>9. QED
  BY <1>3, <1>5, <1>7, <1>8 DEF StreamInv

LEMMA RejectDraftKeeps == ASSUME StreamInv, RejectDraft PROVE StreamInv'
<1>1. /\ writer.pc = "reviewing" /\ FailDraft(writer.text, "rejected")
      /\ chunks' \in {<<>>, chunks}
  BY DEF RejectDraft
<1>2. "rejected" \in DraftStatus /\ chunks' \in Text
  BY <1>1, TextFacts DEF DraftStatus, StreamInv, WriterTypeOK
<1>3. QED
  BY <1>1, <1>2, WriterFacts, TextFacts, FailDraftKeeps

LEMMA CriticFailsKeeps == ASSUME StreamInv, CriticFails PROVE StreamInv'
<1>1. writer.pc = "reviewing" /\ FailDraft(writer.text, "errored") /\ chunks' = chunks
  BY DEF CriticFails
<1>2. "errored" \in DraftStatus /\ chunks' \in Text
  BY <1>1 DEF DraftStatus, StreamInv, WriterTypeOK
<1>3. QED
  BY <1>1, <1>2, WriterFacts, TextFacts, FailDraftKeeps

LEMMA WriterRaisesKeeps == ASSUME StreamInv, WriterRaises PROVE StreamInv'
<1> DEFINE row == drafts[LatestDraft]
           status == IF row.status = "running" THEN "errored" ELSE row.status
<1>1. /\ writer.pc # "idle" /\ writer' = IdleWriter /\ chapterPhase' = "failed"
      /\ drafts' = [drafts EXCEPT ![LatestDraft].status = status]
      /\ chunks' = <<>> /\ writeJob' = NoWriteJob /\ running' = FALSE
      /\ UNCHANGED <<finalText, streamBudget>>
  BY DEF WriterRaises, EndRun
<1>2. drafts \in Seq(DraftRow) /\ LatestDraft \in DOMAIN drafts
  <2>1. writer.attempt \in DOMAIN drafts
    BY <1>1, WriterFacts
  <2>2. /\ drafts \in Seq(DraftRow)
        /\ Len(drafts) \in Nat /\ DOMAIN drafts = 1..Len(drafts)
    BY DraftFacts DEF StreamInv
  <2> QED  BY <2>1, <2>2 DEF LatestDraft
<1>3. row \in DraftRow /\ [row EXCEPT !.status = status] \in DraftRow
  <2>1. row \in DraftRow
    BY <1>2
  <2>2. status \in DraftStatus
    BY <2>1 DEF DraftRow, DraftStatus
  <2> QED  BY <2>1, <2>2 DEF DraftRow
<1>4. drafts' = [drafts EXCEPT ![LatestDraft] = [row EXCEPT !.status = status]]
  BY <1>1
<1>5. drafts' \in Seq(DraftRow) /\ Len(drafts') = Len(drafts)
  BY <1>2, <1>3, <1>4
<1>6. /\ writer' \in WriterRow /\ writer'.pc = "idle"
      /\ writeJob' \in WriteJob /\ writeJob'.kind = "none" /\ chunks' \in Text
  BY <1>1, IdleFacts, TextFacts
<1>7. WriterTypeOK'
  BY <1>1, <1>5, <1>6 DEF StreamInv, WriterTypeOK, WriterRow, DraftRow
<1>8. InStep' /\ Streamed' /\ Reviewed' /\ Passed' /\ Continued'
  BY <1>1, <1>6 DEF InStep, Streamed, Reviewed, Passed, Continued
<1>9. QED
  BY <1>5, <1>7, <1>8 DEF StreamInv

LEMMA WriterFailsKeeps == ASSUME StreamInv, WriterFails PROVE StreamInv'
<1>1. writer.pc # "idle" /\ chunks' = chunks
  BY DEF WriterFails
<1>2. PICK t \in Text : FailDraft(t, "errored")
  <2>1. CASE FailDraft(writer.text, "errored")
    BY <2>1, WriterFacts
  <2>2. CASE \E k \in 0..(StoryLength - Len(writer.prefix)) :
               FailDraft(Merge(writer.prefix, StoryFrom(writer.prefix, k)), "errored")
    BY <2>2, WriterFacts, StoryType, MergeType
  <2>3. QED
    BY <2>1, <2>2 DEF WriterFails
<1>3. "errored" \in DraftStatus
  BY DEF DraftStatus
<1>4. QED
  BY <1>1, <1>2, <1>3, WriterFacts, FailDraftKeeps

LEMMA InterruptWritingKeeps == ASSUME StreamInv, InterruptWriting PROVE StreamInv'
<1> DEFINE held == IF writer.pc = "generated" THEN writer.prefix ELSE writer.text
           saved == IF held # <<>> THEN held ELSE writer.parts
<1>1. /\ writer.pc # "idle" /\ SaveDraft(saved, "errored") /\ chapterPhase' = "paused"
      /\ chunks' = <<>> /\ writeJob' = NoWriteJob /\ writer' = IdleWriter
      /\ UNCHANGED <<finalText, running, streamBudget>>
  BY DEF InterruptWriting, EndRun
<1>2. saved \in Text /\ "errored" \in DraftStatus
  BY WriterFacts DEF DraftStatus
<1> HIDE DEF saved
<1>3. chunks' \in Text /\ running' \in BOOLEAN
  BY <1>1, TextFacts DEF StreamInv, WriterTypeOK
<1>4. writeJob' \in WriteJob /\ writeJob'.kind # "continue"
  BY <1>1, IdleFacts
<1>5. QED
  BY <1>1, <1>2, <1>3, <1>4, EndedKeeps

LEMMA KillWriterKeeps == ASSUME StreamInv, KillWriter PROVE StreamInv'
<1>1. /\ writer.pc # "idle" /\ writer' = IdleWriter /\ streamBudget.kills > 0
      /\ streamBudget' = [streamBudget EXCEPT !.kills = streamBudget.kills - 1]
      /\ UNCHANGED <<drafts, chapterPhase, finalText, chunks, writeJob, running>>
  BY DEF KillWriter, EndRun
<1>2. writer' \in WriterRow /\ writer'.pc = "idle"
  BY <1>1, IdleFacts
<1>3. streamBudget' \in [pauses : 0..MaxPauses, kills : 0..MaxKills]
  <2>1. streamBudget \in [pauses : 0..MaxPauses, kills : 0..MaxKills] /\ MaxKills \in Nat
    BY WriterStreamAssumption DEF StreamInv, WriterTypeOK
  <2>2. streamBudget.kills - 1 \in 0..MaxKills
    BY <1>1, <2>1
  <2>3. QED
    BY <1>1, <2>1, <2>2
<1>4. WriterTypeOK'
  BY <1>1, <1>2, <1>3 DEF StreamInv, WriterTypeOK, WriterRow
<1>5. chapterPhase # "passed"
  BY <1>1, WriterFacts
<1>6. InStep' /\ Streamed' /\ Reviewed' /\ Passed' /\ Continued' /\ Len(drafts') <= MaxAttempts
  BY <1>1, <1>2, <1>5 DEF StreamInv, InStep, Streamed, Reviewed, Passed, Continued
<1>7. QED
  BY <1>4, <1>6 DEF StreamInv

(******************************** the user ********************************)

LEMMA PauseWritingKeeps == ASSUME StreamInv, PauseWriting PROVE StreamInv'
<1>1. /\ chapterPhase # "passed" /\ streamBudget.pauses > 0 /\ running' = FALSE
      /\ streamBudget' = [streamBudget EXCEPT !.pauses = streamBudget.pauses - 1]
      /\ UNCHANGED <<drafts, finalText, chunks, writer>>
      /\ \/ chapterPhase' = "paused" /\ writeJob' = NoWriteJob
         \/ UNCHANGED <<chapterPhase, writeJob>>
  BY DEF PauseWriting
<1>2. streamBudget' \in [pauses : 0..MaxPauses, kills : 0..MaxKills]
  <2>1. streamBudget \in [pauses : 0..MaxPauses, kills : 0..MaxKills] /\ MaxPauses \in Nat
    BY WriterStreamAssumption DEF StreamInv, WriterTypeOK
  <2>2. streamBudget.pauses - 1 \in 0..MaxPauses
    BY <1>1, <2>1
  <2>3. QED
    BY <1>1, <2>1, <2>2
<1>3. chapterPhase' # "passed" /\ writeJob' \in WriteJob /\ (writeJob'.kind = "continue" => writeJob' = writeJob)
  BY <1>1, IdleFacts DEF StreamInv, WriterTypeOK
<1>4. WriterTypeOK'
  BY <1>1, <1>2, <1>3 DEF StreamInv, WriterTypeOK
<1>5. InStep' /\ Streamed' /\ Reviewed' /\ Passed' /\ Continued'
  BY <1>1, <1>3 DEF StreamInv, InStep, Streamed, Reviewed, Passed, Continued, Row
<1>6. QED
  BY <1>1, <1>4, <1>5 DEF StreamInv

\* a job is queued again while no pipeline runs
LEMMA RequeueKeeps ==
  ASSUME StreamInv, writer.pc = "idle", NEW j \in WriteJob, Requeue(j), finalText' \in Text,
         j.kind = "continue" => j.from \in DOMAIN drafts
  PROVE  StreamInv'
<1>1. /\ chapterPhase' = "queued" /\ writeJob' = j /\ running' = TRUE
      /\ UNCHANGED <<drafts, chunks, writer, streamBudget>>
  BY DEF Requeue
<1>2. WriterTypeOK'
  BY <1>1 DEF StreamInv, WriterTypeOK
<1>3. InStep' /\ Streamed' /\ Reviewed' /\ Passed' /\ Continued'
  BY <1>1 DEF InStep, Streamed, Reviewed, Passed, Continued
<1>4. QED
  BY <1>1, <1>2, <1>3 DEF StreamInv

LEMMA ResumeWritingKeeps == ASSUME StreamInv, ResumeWriting PROVE StreamInv'
<1> DEFINE from == IF Resumable(LatestDraft) THEN LatestDraft ELSE 0
           j == [kind |-> "resume", from |-> from]
<1>1. writer.pc = "idle" /\ Requeue(j) /\ finalText' = finalText
  BY DEF ResumeWriting
<1>2. from \in 0..MaxAttempts
  BY DraftFacts, WriterStreamAssumption DEF StreamInv, LatestDraft
<1> HIDE DEF from
<1>3. j \in WriteJob /\ j.kind = "resume"
  BY <1>2 DEF WriteJob
<1> HIDE DEF j
<1>4. QED
  BY <1>1, <1>3, WriterFacts, RequeueKeeps

LEMMA ContinueWritingKeeps == ASSUME StreamInv, ContinueWriting PROVE StreamInv'
<1> DEFINE from == LatestWithText
           j == [kind |-> "continue", from |-> from]
<1>1. writer.pc = "idle" /\ Requeue(j) /\ finalText' = <<>> /\ from > 0
  BY DEF ContinueWriting
<1>2. from \in 0..Len(drafts)
  BY SelectLastType DEF StreamInv
<1> HIDE DEF from
<1>3. from \in DOMAIN drafts /\ from \in 0..MaxAttempts
  BY <1>1, <1>2, DraftFacts, WriterStreamAssumption DEF StreamInv
<1>4. j \in WriteJob /\ j.from = from
  BY <1>3 DEF WriteJob
<1> HIDE DEF j
<1>5. QED
  BY <1>1, <1>3, <1>4, TextFacts, RequeueKeeps

(******************************* the theorems *****************************)

LEMMA StreamInit == WriterInit => StreamInv
<1> SUFFICES ASSUME WriterInit PROVE StreamInv
  OBVIOUS
<1>1. /\ drafts = <<>> /\ chapterPhase = "queued" /\ finalText = <<>> /\ chunks = <<>>
      /\ writeJob = [kind |-> "retry", from |-> 0] /\ writer = IdleWriter /\ running = TRUE
      /\ streamBudget = [pauses |-> MaxPauses, kills |-> MaxKills]
  BY DEF WriterInit
<1>2. drafts \in Seq(DraftRow) /\ Len(drafts) = 0 /\ 0 <= MaxAttempts
  BY <1>1, WriterStreamAssumption, EmptySeq
<1>3. streamBudget \in [pauses : 0..MaxPauses, kills : 0..MaxKills]
  BY <1>1, WriterStreamAssumption
<1>4. WriterTypeOK
  BY <1>1, <1>2, <1>3, IdleFacts, TextFacts DEF WriterTypeOK, WriterRow, DraftRow
<1>5. InStep /\ Streamed /\ Reviewed /\ Passed /\ Continued
  BY <1>1, IdleFacts DEF InStep, Streamed, Reviewed, Passed, Continued
<1>6. QED
  BY <1>2, <1>4, <1>5 DEF StreamInv

LEMMA StreamStep == StreamInv /\ [WriterNext]_writerVars => StreamInv'
<1> SUFFICES ASSUME StreamInv, [WriterNext]_writerVars PROVE StreamInv'
  OBVIOUS
<1>1. CASE StartWriting
  BY <1>1, StartWritingKeeps
<1>2. CASE BeginRound
  BY <1>2, BeginRoundKeeps
<1>3. CASE Chunk
  BY <1>3, ChunkKeeps
<1>4. CASE StreamEnds
  BY <1>4, StreamEndsKeeps
<1>5. CASE Disconnect
  BY <1>5, DisconnectKeeps
<1>6. CASE TextReturned
  BY <1>6, TextReturnedKeeps
<1>7. CASE NextRound
  BY <1>7, NextRoundKeeps
<1>8. CASE SubmitDraft
  BY <1>8, SubmitDraftKeeps
<1>9. CASE AcceptDraft
  BY <1>9, AcceptDraftKeeps
<1>10. CASE RejectDraft
  BY <1>10, RejectDraftKeeps
<1>11. CASE WriterFails
  BY <1>11, WriterFailsKeeps
<1>12. CASE InterruptWriting
  BY <1>12, InterruptWritingKeeps
<1>13. CASE KillWriter
  BY <1>13, KillWriterKeeps
<1>14. CASE PauseWriting
  BY <1>14, PauseWritingKeeps
<1>15. CASE ResumeWriting
  BY <1>15, ResumeWritingKeeps
<1>16. CASE ContinueWriting
  BY <1>16, ContinueWritingKeeps
<1>17. CASE CriticFails
  BY <1>17, CriticFailsKeeps
<1>18. CASE WriterRaises
  BY <1>18, WriterRaisesKeeps
<1>19. CASE UNCHANGED writerVars
  BY <1>19 DEF writerVars, StreamInv, WriterTypeOK, Continued, InStep, Streamed, Reviewed,
               Passed, Row
<1>20. QED
  BY <1>1, <1>2, <1>3, <1>4, <1>5, <1>6, <1>7, <1>8, <1>9, <1>10, <1>11, <1>12, <1>13, <1>14,
     <1>15, <1>16, <1>17, <1>18, <1>19 DEF WriterNext

LEMMA StreamInvariant == WriterSpec => []StreamInv
<1>1. QED
  BY StreamInit, StreamStep, PTL DEF WriterSpec

\* The attempts, the session, the events and the job stay of their types whatever is
\* streamed, broken off, continued, paused or killed.
THEOREM WriterTypes == WriterSpec => []WriterTypeOK
<1>1. StreamInv => WriterTypeOK
  BY DEF StreamInv
<1>2. QED
  BY <1>1, StreamInvariant, PTL

LEMMA ShownBySession == StreamInv => ShownIsSaved
<1> SUFFICES ASSUME StreamInv, writer.pc = "streaming"
             PROVE  /\ IsSuffix(chunks, Row.text)
                    /\ writer.text = Row.text \o writer.buffer
                    /\ writer.parts = chunks \o writer.buffer
  BY DEF ShownIsSaved
<1>1. PICK u \in Text : Row.text = u \o chunks
  BY DEF StreamInv, Streamed
<1>2. u \in Seq(Pieces) /\ chunks \in Seq(Pieces)
  BY WriterFacts DEF Text
<1>3. IsSuffix(chunks, u \o chunks)
  BY <1>2, SuffixOfConcat
<1>4. QED
  BY <1>1, <1>3 DEF StreamInv, Streamed

\* The chunk events committed in a round are the end of the committed text, and what is
\* not committed is still in the batch (flush_chunk_events with session.commit).
THEOREM ShownTextIsSaved == WriterSpec => []ShownIsSaved
BY ShownBySession, StreamInvariant, PTL

\* Only a text that is usable and stored in an accepted attempt makes a chapter pass:
\* no fallback, recovered stream or continuation puts another one before the critic.
THEOREM OnlyUsableTextPasses == WriterSpec => []PassedTextUsable
<1>1. StreamInv => PassedTextUsable
  BY DEF StreamInv, Passed, Reviewed, PassedTextUsable
<1>2. QED
  BY <1>1, StreamInvariant, PTL

LEMMA NotEmpty ==
  ASSUME NEW s \in Text, NEW t \in Text, s \o t = <<>>
  PROVE  s = <<>> /\ t = <<>>
<1>1. Len(s) \in Nat /\ Len(t) \in Nat /\ Len(s) + Len(t) = 0
  BY TextFacts
<1>2. Len(s) = 0 /\ Len(t) = 0
  BY <1>1
<1>3. QED
  BY <1>2, EmptySeq DEF Text

LEMMA InterruptKeepsText ==
  ASSUME StreamInv, InterruptWriting
  PROVE  LET saved == drafts'[writer.attempt].text
         IN  /\ writer.pc = "streaming" => IsPrefix(Row.text, saved) /\ IsSuffix(writer.parts, saved)
             /\ Row.text # <<>> => saved # <<>>
<1> DEFINE held == IF writer.pc = "generated" THEN writer.prefix ELSE writer.text
           kept == IF held # <<>> THEN held ELSE writer.parts
<1>1. writer.pc # "idle" /\ SaveDraft(kept, "errored")
  BY DEF InterruptWriting
<1>2. kept \in Text /\ "errored" \in DraftStatus
  BY WriterFacts DEF DraftStatus
<1>3. drafts'[writer.attempt].text = kept
  <2> HIDE DEF kept
  <2>1. QED
    BY <1>1, <1>2, WriterFacts, Saved DEF StreamInv
<1>4. Row.text \in Text /\ writer.buffer \in Text /\ writer.parts \in Text /\ chunks \in Text
  BY <1>1, WriterFacts
<1>5. CASE writer.pc = "streaming"
  <2>1. /\ writer.text = Row.text \o writer.buffer /\ writer.parts = chunks \o writer.buffer
    BY <1>5 DEF StreamInv, Streamed
  <2>2. PICK u \in Text : Row.text = u \o chunks
    BY <1>5 DEF StreamInv, Streamed
  <2>3. writer.text = u \o writer.parts
    <3>1. u \in Text
      OBVIOUS
    <3>2. (u \o chunks) \o writer.buffer = u \o (chunks \o writer.buffer)
      BY <1>4, <3>1, Regroup, Zenon
    <3>3. QED
      BY <2>1, <2>2, <3>2
  <2>4. Row.text # <<>> => writer.text # <<>>
    BY <1>4, <2>1, NotEmpty
  <2>5. CASE writer.text # <<>>
    <3>1. kept = writer.text
      BY <1>5, <2>5
    <3>2. IsPrefix(Row.text, Row.text \o writer.buffer)
      BY <1>4, PrefixOfConcat DEF Text
    <3>3. IsSuffix(writer.parts, u \o writer.parts)
      BY <1>4, SuffixOfConcat DEF Text
    <3> HIDE DEF kept
    <3>4. QED
      BY <1>3, <2>1, <2>3, <2>5, <3>1, <3>2, <3>3
  <2>6. CASE writer.text = <<>>
    <3>1. kept = writer.parts /\ Row.text = <<>>
      BY <1>5, <2>4, <2>6
    <3>2. <<>> \o writer.parts = writer.parts /\ <<>> \in Text
      BY <1>4, TextFacts
    <3>3. IsPrefix(<<>>, <<>> \o writer.parts) /\ IsSuffix(writer.parts, <<>> \o writer.parts)
      BY <1>4, <3>2, PrefixOfConcat, SuffixOfConcat DEF Text
    <3> HIDE DEF kept
    <3>4. QED
      BY <1>3, <3>1, <3>2, <3>3
  <2>7. QED
    BY <2>5, <2>6
<1>6. CASE writer.pc # "streaming"
  <2>1. Row.text # <<>> => held # <<>>
    <3>1. CASE writer.pc = "generated"
      <4>1. Usable(writer.prefix)
        BY <3>1 DEF StreamInv, Reviewed
      <4>2. QED
        BY <3>1, <4>1, TextFacts
    <3>2. CASE writer.pc # "generated"
      <4>1. writer.pc \in {"open", "calling", "fallback", "reviewing"}
        BY <1>1, <1>6, <3>2, WriterFacts DEF WriterRow, WriterPhase
      <4>2. writer.text = Row.text
        BY <4>1 DEF StreamInv, InStep, Reviewed
      <4>3. QED
        BY <3>2, <4>2
    <3>3. QED
      BY <3>1, <3>2
  <2>2. Row.text # <<>> => kept # <<>>
    BY <2>1
  <2> HIDE DEF kept, held
  <2>3. QED
    BY <1>3, <1>6, <2>2
<1>7. QED
  BY <1>5, <1>6

\* PauseKeepsText, one step of it
TextKept ==
  chapterPhase = "writing" /\ chapterPhase' = "paused" =>
    LET saved == drafts'[writer.attempt].text
    IN  /\ writer.pc = "streaming" => IsPrefix(Row.text, saved) /\ IsSuffix(writer.parts, saved)
        /\ Row.text # <<>> => saved # <<>>

LEMMA PauseSteps == StreamInv /\ [WriterNext]_writerVars => [TextKept]_writerVars
<1> SUFFICES ASSUME StreamInv, WriterNext, chapterPhase = "writing", chapterPhase' = "paused"
             PROVE  TextKept
  BY DEF TextKept
<1>1. InterruptWriting
  BY DEF WriterNext, StartWriting, BeginRound, Chunk, StreamEnds, Disconnect, TextReturned,
         NextRound, SubmitDraft, AcceptDraft, RejectDraft, CriticFails, WriterFails, WriterRaises,
         FailDraft, KillWriter,
         PauseWriting, ResumeWriting, ContinueWriting, Requeue
<1>2. QED
  BY <1>1, InterruptKeepsText DEF TextKept

\* When the pipeline stops a chapter (_pause_current_generation) the row keeps its text
\* and the pieces received in the interrupted round are at its end.
THEOREM PauseTakesNothingBack == WriterSpec => PauseKeepsText
<1>1. PauseKeepsText <=> [][TextKept]_writerVars
  BY PTL DEF PauseKeepsText, TextKept
<1>2. QED
  BY <1>1, PauseSteps, StreamInvariant, PTL DEF WriterSpec
=============================================================================
