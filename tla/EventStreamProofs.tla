------------------------- MODULE EventStreamProofs -------------------------
(***************************************************************************)
(* The live view, for texts, notes, lost connections and reloads without   *)
(* bound: the page is only told what is committed, and a connection that   *)
(* is lost and opened again overlooks nothing.                             *)
(*                                                                         *)
(* The strengthening says what the open transactions hold back, what the   *)
(* answers on their way to the page may say, and that the endpoint is      *)
(* ahead of the page: nothing that is still to arrive has an id the page   *)
(* has already passed, unless a list has moved it.                         *)
(*                                                                         *)
(* The second part is the safety half of ViewSettles: a page at rest shows *)
(* the committed text when the writer is done.                             *)
(***************************************************************************)
EXTENDS EventStream, FiniteSetTheorems, SequenceTheorems, WellFoundedInduction, TLAPS

\* an event of a batch of the text has a piece
BatchesHavePieces == \A i \in DOMAIN log : log[i].kind = "content_chunk" => log[i].piece > 0
\* what is flushed tells no more than its transaction commits
HeldBack ==
  /\ pipeTx.event # 0 => /\ pipeTx.event \in DOMAIN log
                         /\ log[pipeTx.event].piece <= pipeTx.sent
  /\ noteTx # 0 => noteTx \in DOMAIN log /\ log[noteTx].piece = 0
  /\ rowText <= pipeTx.sent
\* an answer shows the text and the events of some earlier moment
Answers ==
  /\ page.detail \in {NotYet, NoRequestMade} \cup 0..rowText
  /\ page.history \in {NoRequestMade, 0} \cup Visible
Ahead ==
  /\ \A i \in sse.wire : i <= sse.cursor
  /\ sse.open /\ ~ sse.jumped => /\ page.lastEventId <= sse.cursor
                                 /\ \A i \in sse.wire : page.lastEventId < i

ViewInv == ViewTypeOK /\ BatchesHavePieces /\ HeldBack /\ ToldIsSaved /\ Answers /\ Ahead

(************************ the rows of project_events ************************)

LEMMA ElementsTyped ==
  ASSUME NEW S, NEW s \in Seq(S)
  PROVE  \A k \in DOMAIN s : s[k] \in S
<1> QED  OBVIOUS

\* An event that is flushed is a new row, which nobody can read.
LEMMA FlushFacts ==
  ASSUME log \in Seq(ViewEvent), NEW kind \in EventKind, NEW piece \in 0..ViewPieces,
         log' = Flushed(kind, piece)
  PROVE  /\ log' \in Seq(ViewEvent)
         /\ DOMAIN log \subseteq DOMAIN log' /\ NextEventId \in DOMAIN log'
         /\ \A i \in DOMAIN log : log'[i] = log[i]
         /\ DOMAIN log' = DOMAIN log \cup {NextEventId}
         /\ log'[NextEventId].kind = kind /\ log'[NextEventId].piece = piece
         /\ Visible' = Visible
         /\ NextEventId \in Nat \ {0}
<1> DEFINE e == [kind |-> kind, piece |-> piece, state |-> "flushed"]
<1>1. e \in ViewEvent /\ log' = Append(log, e)
  BY DEF Flushed, ViewEvent
<1>2. /\ log' \in Seq(ViewEvent) /\ Len(log') = Len(log) + 1
      /\ \A i \in 1..Len(log) : log'[i] = log[i]
      /\ log'[Len(log) + 1] = e
  BY <1>1
<1>3. DOMAIN log = 1..Len(log) /\ DOMAIN log' = 1..(Len(log) + 1) /\ Len(log) \in Nat
  BY <1>2
<1>4. log'[NextEventId] = e
  BY <1>2 DEF NextEventId
<1>5. Visible' = Visible
  BY <1>2, <1>3, <1>4 DEF Visible, NextEventId
<1> QED  BY <1>2, <1>3, <1>4, <1>5 DEF NextEventId

\* A commit makes the row of its event readable and changes nothing else.
LEMMA PublishFacts ==
  ASSUME log \in Seq(ViewEvent), NEW i \in DOMAIN log, Publish(i)
  PROVE  /\ log' \in Seq(ViewEvent) /\ DOMAIN log' = DOMAIN log
         /\ \A j \in DOMAIN log : log'[j].kind = log[j].kind /\ log'[j].piece = log[j].piece
         /\ Visible' = Visible \cup {i}
<1>1. DOMAIN log = 1..Len(log) /\ log \in [1..Len(log) -> ViewEvent] /\ Len(log) \in Nat
  OBVIOUS
<1>2. log' \in [1..Len(log) -> ViewEvent]
  BY <1>1 DEF Publish, ViewEvent
<1>3. log' \in Seq(ViewEvent)
  BY <1>1, <1>2, SeqDef
<1>4. \A j \in DOMAIN log : /\ log'[j].kind = log[j].kind /\ log'[j].piece = log[j].piece
                            /\ log'[j].state = IF j = i THEN "committed" ELSE log[j].state
  BY <1>1 DEF Publish, ViewEvent
<1> QED  BY <1>1, <1>2, <1>3, <1>4 DEF Visible

\* A finite set of ids has a last one.
LEMMA LastId ==
  ASSUME NEW n \in Nat, NEW S \in SUBSET (0..n), S # {}
  PROVE  Max(S) \in S /\ \A k \in S : k <= Max(S)
<1> DEFINE T == {n - k : k \in S}
<1>1. T \subseteq Nat /\ T # {}
  <2>1. \A k \in S : n - k \in Nat
    OBVIOUS
  <2> QED  BY <2>1
<1>2. PICK x \in T : \A y \in T : ~ (<<y, x>> \in OpToRel(<, Nat))
  BY <1>1, NatLessThanWellFounded, WFMin
<1>3. \A y \in T : ~ (y < x)
  BY <1>1, <1>2 DEF OpToRel
<1>4. PICK m \in S : x = n - m
  BY <1>2
<1>5. m \in S /\ \A k \in S : m >= k
  <2>1. \A k \in S : n - k \in T /\ k \in 0..n
    OBVIOUS
  <2> HIDE DEF T
  <2> QED  BY <1>3, <1>4, <2>1
<1>6. PICK l \in S : l = Max(S) /\ \A k \in S : l >= k
  BY <1>5 DEF Max
<1> QED  BY <1>6

\* ... and a first one.
LEMMA FirstId ==
  ASSUME NEW S \in SUBSET Nat, S # {}
  PROVE  Min(S) \in S /\ \A k \in S : Min(S) <= k
<1>1. PICK x \in S : \A y \in S : ~ (<<y, x>> \in OpToRel(<, Nat))
  BY NatLessThanWellFounded, WFMin
<1>2. \A y \in S : ~ (y < x)
  BY <1>1 DEF OpToRel
<1>3. \A y \in S : x <= y
  BY <1>2
<1>4. PICK l \in S : l = Min(S) /\ \A k \in S : l <= k
  BY <1>3 DEF Min
<1> QED  BY <1>4

(******************************* the writers *******************************)

LEMMA PipelineFlushKeeps == ASSUME ViewInv, PipelineFlush PROVE ViewInv'
<1> USE EventStreamAssumption
<1>1. PICK kind \in {"chapter_writing", "content_chunk", "chapter_reviewing"} :
        LET piece == IF kind = "content_chunk" THEN pipeTx.sent + 1 ELSE 0
        IN  /\ kind = "content_chunk" => pipeTx.sent < ViewPieces
            /\ log' = Flushed(kind, piece)
            /\ pipeTx' = [event |-> NextEventId, started |-> TRUE,
                          sent |-> IF piece > 0 THEN piece ELSE pipeTx.sent,
                          ended |-> kind = "chapter_reviewing"]
  BY DEF PipelineFlush
<1> DEFINE piece == IF kind = "content_chunk" THEN pipeTx.sent + 1 ELSE 0
<1>2. /\ log \in Seq(ViewEvent) /\ pipeTx.sent \in 0..ViewPieces /\ rowText \in 0..ViewPieces
      /\ noteTx \in Nat /\ heard \subseteq DOMAIN log
  BY DEF ViewInv, ViewTypeOK
<1>3. piece \in 0..ViewPieces /\ kind \in EventKind /\ (kind = "content_chunk" => piece > 0)
  BY <1>1, <1>2 DEF EventKind
<1>4. log' = Flushed(kind, piece)
  BY <1>1
<1>5. /\ pipeTx'.event = NextEventId /\ pipeTx'.sent \in 0..ViewPieces
      /\ piece <= pipeTx'.sent /\ pipeTx.sent <= pipeTx'.sent
      /\ pipeTx' \in [event : Nat, started : BOOLEAN, sent : 0..ViewPieces, ended : BOOLEAN]
  BY <1>1, <1>2, <1>3 DEF NextEventId
<1>6. UNCHANGED <<rowText, noteTx, sse, page, viewBudget, heard>>
  BY DEF PipelineFlush
<1> HIDE DEF piece
<1>7. /\ log' \in Seq(ViewEvent)
      /\ DOMAIN log \subseteq DOMAIN log' /\ NextEventId \in DOMAIN log'
      /\ \A i \in DOMAIN log : log'[i] = log[i]
      /\ DOMAIN log' = DOMAIN log \cup {NextEventId}
      /\ log'[NextEventId].kind = kind /\ log'[NextEventId].piece = piece
      /\ Visible' = Visible /\ Visible \subseteq DOMAIN log
  BY <1>2, <1>3, <1>4, FlushFacts DEF Visible
<1>8. ViewTypeOK' /\ Answers' /\ Ahead'
  BY <1>2, <1>5, <1>6, <1>7 DEF ViewInv, ViewTypeOK, Answers, Ahead
<1>9. BatchesHavePieces'
  BY <1>3, <1>7 DEF ViewInv, BatchesHavePieces
<1>10. HeldBack'
  BY <1>2, <1>5, <1>6, <1>7 DEF ViewInv, HeldBack
<1>11. ToldIsSaved'
  BY <1>6, <1>7 DEF ViewInv, ToldIsSaved
<1> QED  BY <1>8, <1>9, <1>10, <1>11 DEF ViewInv

LEMMA PipelineCommitKeeps == ASSUME ViewInv, PipelineCommit PROVE ViewInv'
<1>1. /\ log \in Seq(ViewEvent) /\ pipeTx.sent \in 0..ViewPieces /\ rowText \in 0..ViewPieces
      /\ ViewPieces \in Nat
      /\ pipeTx \in [event : Nat, started : BOOLEAN, sent : 0..ViewPieces, ended : BOOLEAN]
  BY EventStreamAssumption DEF ViewInv, ViewTypeOK
<1>2. /\ pipeTx.event \in DOMAIN log /\ Publish(pipeTx.event) /\ rowText' = pipeTx.sent
      /\ log[pipeTx.event].piece <= pipeTx.sent /\ rowText <= rowText'
      /\ UNCHANGED <<noteTx, sse, page, viewBudget, heard>>
  BY DEF PipelineCommit, ViewInv, HeldBack
<1>3. /\ pipeTx' \in [event : Nat, started : BOOLEAN, sent : 0..ViewPieces, ended : BOOLEAN]
      /\ pipeTx'.sent = pipeTx.sent /\ pipeTx'.event = 0
  BY <1>1 DEF PipelineCommit
<1>4. /\ log' \in Seq(ViewEvent) /\ DOMAIN log' = DOMAIN log
      /\ \A j \in DOMAIN log : log'[j].kind = log[j].kind /\ log'[j].piece = log[j].piece
      /\ Visible' = Visible \cup {pipeTx.event}
  BY <1>1, <1>2, PublishFacts
<1>5. ViewTypeOK'
  BY <1>1, <1>2, <1>3, <1>4 DEF ViewInv, ViewTypeOK
<1>6. Answers' /\ Ahead'
  BY <1>1, <1>2, <1>4 DEF ViewInv, Answers, Ahead
<1>7. BatchesHavePieces' /\ HeldBack'
  <2>1. BatchesHavePieces'
    BY <1>4 DEF ViewInv, BatchesHavePieces
  <2>2. noteTx # 0 => noteTx \in DOMAIN log' /\ log'[noteTx].piece = 0
    BY <1>4 DEF ViewInv, HeldBack
  <2> QED  BY <1>1, <1>2, <1>3, <2>1, <2>2 DEF HeldBack
<1>8. ToldIsSaved'
  <2>1. \A i \in Visible' : log'[i].piece <= rowText'
    <3>1. \A i \in Visible : i \in DOMAIN log /\ log[i].piece \in 0..ViewPieces
      <4>1. \A i \in DOMAIN log : log[i] \in ViewEvent
        BY <1>1
      <4> QED  BY <4>1 DEF Visible, ViewEvent
    <3> QED  BY <1>1, <1>2, <1>4, <3>1 DEF ViewInv, ToldIsSaved
  <2>2. \A k \in DOMAIN page.view : page.view[k] \in 1..ViewPieces
    <3>1. page.view \in Seq(1..ViewPieces)
      BY DEF ViewInv, ViewTypeOK
    <3> QED  BY <3>1, ElementsTyped
  <2> QED  BY <1>1, <1>2, <1>4, <2>1, <2>2 DEF ViewInv, ToldIsSaved
<1> QED  BY <1>5, <1>6, <1>7, <1>8 DEF ViewInv

LEMMA NoteKeeps == ASSUME ViewInv, NoteFlush \/ NoteCommit PROVE ViewInv'
<1>1. /\ log \in Seq(ViewEvent) /\ rowText \in 0..ViewPieces /\ noteTx \in Nat
      /\ ViewPieces \in Nat /\ heard \subseteq DOMAIN log /\ 0 \in 0..ViewPieces
      /\ viewBudget \in [notes : Nat, drops : Nat, reloads : Nat]
      /\ "prompt_updated" \in EventKind /\ Visible \subseteq DOMAIN log
  BY EventStreamAssumption DEF ViewInv, ViewTypeOK, EventKind, Visible
<1>2. UNCHANGED <<rowText, pipeTx, sse, page, heard>>
  BY DEF NoteFlush, NoteCommit
<1>3. CASE NoteFlush
  <2>1. /\ log' \in Seq(ViewEvent)
        /\ DOMAIN log \subseteq DOMAIN log' /\ NextEventId \in DOMAIN log'
        /\ \A i \in DOMAIN log : log'[i] = log[i]
        /\ DOMAIN log' = DOMAIN log \cup {NextEventId}
        /\ log'[NextEventId].kind = "prompt_updated" /\ log'[NextEventId].piece = 0
        /\ Visible' = Visible /\ NextEventId \in Nat
    BY <1>1, <1>3, FlushFacts DEF NoteFlush
  <2>2. noteTx' = NextEventId /\ viewBudget' \in [notes : Nat, drops : Nat, reloads : Nat]
    BY <1>1, <1>3 DEF NoteFlush
  <2>3. ViewTypeOK' /\ Answers' /\ Ahead'
    BY <1>1, <1>2, <2>1, <2>2 DEF ViewInv, ViewTypeOK, Answers, Ahead
  <2>4. BatchesHavePieces' /\ HeldBack' /\ ToldIsSaved'
    BY <1>1, <1>2, <2>1, <2>2 DEF ViewInv, BatchesHavePieces, HeldBack, ToldIsSaved
  <2> QED  BY <2>3, <2>4 DEF ViewInv
<1>4. CASE NoteCommit
  <2>1. noteTx \in DOMAIN log /\ log[noteTx].piece = 0 /\ Publish(noteTx)
    BY <1>4 DEF NoteCommit, ViewInv, HeldBack
  <2>2. /\ log' \in Seq(ViewEvent) /\ DOMAIN log' = DOMAIN log
        /\ \A j \in DOMAIN log : log'[j].kind = log[j].kind /\ log'[j].piece = log[j].piece
        /\ Visible' = Visible \cup {noteTx}
    BY <1>1, <2>1, PublishFacts
  <2>3. noteTx' = 0 /\ viewBudget' = viewBudget
    BY <1>4 DEF NoteCommit
  <2>4. ViewTypeOK' /\ Answers' /\ Ahead'
    BY <1>1, <1>2, <2>2, <2>3 DEF ViewInv, ViewTypeOK, Answers, Ahead
  <2>5. BatchesHavePieces'
    BY <2>2 DEF ViewInv, BatchesHavePieces
  <2>6. HeldBack'
    <3>1. pipeTx.event # 0 => pipeTx.event \in DOMAIN log /\ log'[pipeTx.event].piece <= pipeTx.sent
      BY <2>2 DEF ViewInv, HeldBack
    <3> QED  BY <1>2, <2>2, <2>3, <3>1 DEF ViewInv, HeldBack
  <2>7. ToldIsSaved'
    <3>1. \A i \in Visible' : log'[i].piece <= rowText
      BY <1>1, <2>1, <2>2 DEF ViewInv, ToldIsSaved
    <3> QED  BY <1>2, <2>2, <3>1 DEF ViewInv, ToldIsSaved
  <2> QED  BY <2>4, <2>5, <2>6, <2>7 DEF ViewInv
<1> QED  BY <1>3, <1>4

(****************************** the endpoint *******************************)

LEMMA PollKeeps == ASSUME ViewInv, Poll PROVE ViewInv'
<1> DEFINE items == ListAfter(sse.cursor)
<1>1. /\ sse.open /\ items # {}
      /\ sse' = [sse EXCEPT !.cursor = Max(items), !.wire = @ \cup items]
      /\ UNCHANGED <<log, rowText, pipeTx, noteTx, page, viewBudget, heard>>
  BY DEF Poll
<1>2. items \subseteq Visible /\ \A i \in items : i > sse.cursor
  BY DEF ListAfter
<1>3. Visible \subseteq 0..Len(log) /\ Len(log) \in Nat
  BY DEF Visible, ViewInv, ViewTypeOK
<1>4. sse \in [open : BOOLEAN, cursor : Nat, wire : SUBSET Nat, jumped : BOOLEAN]
  BY DEF ViewInv, ViewTypeOK
<1> HIDE DEF items
<1>5. PICK last \in items : last = Max(items) /\ \A i \in items : i <= last
  BY <1>1, <1>2, <1>3, LastId
<1>6. /\ sse' \in [open : BOOLEAN, cursor : Nat, wire : SUBSET Nat, jumped : BOOLEAN]
      /\ sse'.open = sse.open /\ sse'.jumped = sse.jumped
      /\ sse'.cursor = last /\ sse'.wire = sse.wire \cup items
      /\ last > sse.cursor /\ last \in Nat
  <2>1. last \in Nat /\ items \in SUBSET Nat /\ last > sse.cursor
    BY <1>2, <1>3, <1>5
  <2>2. sse' = [sse EXCEPT !.cursor = last, !.wire = @ \cup items]
    BY <1>1, <1>5
  <2>3. sse.wire \cup items \in SUBSET Nat
    BY <1>4, <2>1
  <2> QED  BY <1>4, <2>1, <2>2, <2>3
<1>7. ViewTypeOK' /\ BatchesHavePieces' /\ HeldBack' /\ Answers'
  BY <1>1, <1>6 DEF ViewInv, ViewTypeOK, BatchesHavePieces, HeldBack, Answers, Visible
<1>8. ToldIsSaved'
  BY <1>1, <1>2, <1>5, <1>6 DEF ViewInv, ToldIsSaved, Visible
<1>9. Ahead'
  <2>1. items \subseteq Nat /\ page.lastEventId \in Nat /\ sse.wire \subseteq Nat
    BY <1>2, <1>3, <1>4 DEF ViewInv, ViewTypeOK
  <2>2. \A i \in sse'.wire : i <= sse'.cursor
    BY <1>4, <1>5, <1>6, <2>1 DEF ViewInv, Ahead
  <2>3. ASSUME sse'.open, ~ sse'.jumped
        PROVE  page.lastEventId <= sse'.cursor /\ \A i \in sse'.wire : page.lastEventId < i
    BY <1>2, <1>4, <1>6, <2>1, <2>3 DEF ViewInv, Ahead
  <2> QED  BY <1>1, <2>2, <2>3 DEF Ahead
<1> QED  BY <1>7, <1>8, <1>9 DEF ViewInv

LEMMA ConnectionKeeps == ASSUME ViewInv, Drop \/ Connect PROVE ViewInv'
<1>1. /\ UNCHANGED <<log, rowText, pipeTx, noteTx, page, heard>>
      /\ viewBudget' \in [notes : Nat, drops : Nat, reloads : Nat]
  BY DEF Drop, Connect, ViewInv, ViewTypeOK
<1>2. /\ sse'.wire = {} /\ ~ sse'.jumped
      /\ (sse'.cursor = 0 /\ ~ sse'.open) \/ sse'.cursor = page.lastEventId
      /\ sse' \in [open : BOOLEAN, cursor : Nat, wire : SUBSET Nat, jumped : BOOLEAN]
      /\ page.lastEventId \in Nat
  <2>1. page.lastEventId \in Nat
    BY DEF ViewInv, ViewTypeOK
  <2>2. \/ sse' = [open |-> FALSE, cursor |-> 0, wire |-> {}, jumped |-> FALSE]
        \/ sse' = [open |-> TRUE, cursor |-> page.lastEventId, wire |-> {}, jumped |-> FALSE]
    BY DEF Drop, Connect
  <2>3. CASE sse' = [open |-> FALSE, cursor |-> 0, wire |-> {}, jumped |-> FALSE]
    BY <2>1, <2>3
  <2>4. CASE sse' = [open |-> TRUE, cursor |-> page.lastEventId, wire |-> {}, jumped |-> FALSE]
    BY <2>1, <2>4
  <2> QED  BY <2>2, <2>3, <2>4
<1>3. ViewTypeOK' /\ BatchesHavePieces' /\ HeldBack' /\ Answers'
  BY <1>1, <1>2 DEF ViewInv, ViewTypeOK, BatchesHavePieces, HeldBack, Answers, Visible
<1>4. ToldIsSaved' /\ Ahead'
  BY <1>1, <1>2 DEF ViewInv, ToldIsSaved, Ahead, Visible
<1> QED  BY <1>3, <1>4 DEF ViewInv

(******************************** the page *********************************)

PageRow == [phase : {"loading", "loaded", "live"}, lastEventId : Nat,
            view : Seq(1..ViewPieces), lists : Nat,
            detail : 0..ViewPieces \cup {NotYet, NoRequestMade},
            history : Nat \cup {NoRequestMade}]

\* A page that shows only what is saved may show it, whatever it asks for next.
LEMMA PageKeeps ==
  ASSUME ViewInv, page' \in PageRow, heard' \subseteq DOMAIN log,
         UNCHANGED <<log, rowText, pipeTx, noteTx>>,
         viewBudget' \in [notes : Nat, drops : Nat, reloads : Nat],
         sse' \in [open : BOOLEAN, cursor : Nat, wire : SUBSET Nat, jumped : BOOLEAN],
         sse'.wire \subseteq sse.wire, sse'.cursor = sse.cursor,
         page'.lastEventId \in Visible \cup {0},
         \A k \in DOMAIN page'.view : page'.view[k] <= rowText,
         Answers', Ahead'
  PROVE  ViewInv'
<1>1. ViewTypeOK'
  BY DEF ViewInv, ViewTypeOK, PageRow
<1>2. BatchesHavePieces' /\ HeldBack' /\ ToldIsSaved'
  BY DEF ViewInv, BatchesHavePieces, HeldBack, ToldIsSaved, Visible
<1> QED  BY <1>1, <1>2 DEF ViewInv

\* What an action of the page may rely on.
LEMMA PageFacts ==
  ASSUME ViewInv
  PROVE  /\ page \in PageRow /\ log \in Seq(ViewEvent)
         /\ Visible \subseteq DOMAIN log /\ Visible \subseteq Nat
         /\ rowText \in 0..ViewPieces /\ ViewPieces \in Nat
         /\ viewBudget \in [notes : Nat, drops : Nat, reloads : Nat]
         /\ sse \in [open : BOOLEAN, cursor : Nat, wire : SUBSET Nat, jumped : BOOLEAN]
         /\ heard \subseteq DOMAIN log
<1>1. log \in Seq(ViewEvent) /\ Visible \subseteq DOMAIN log /\ Visible \subseteq Nat
  BY DEF ViewInv, ViewTypeOK, Visible
<1> QED  BY <1>1, EventStreamAssumption DEF ViewInv, ViewTypeOK, PageRow

\* What an event does to a page that may have been shown it.
LEMMA HandleFacts ==
  ASSUME NEW p \in PageRow, NEW e \in ViewEvent, e.kind = "content_chunk" => e.piece > 0,
         NEW t \in 0..ViewPieces, ViewPieces \in Nat, e.piece <= t,
         \A k \in DOMAIN p.view : p.view[k] <= t
  PROVE  /\ Handle(p, e) \in PageRow
         /\ Handle(p, e).phase = p.phase /\ Handle(p, e).lastEventId = p.lastEventId
         /\ Handle(p, e).detail = p.detail /\ Handle(p, e).history = p.history
         /\ \A k \in DOMAIN Handle(p, e).view : Handle(p, e).view[k] <= t
<1> DEFINE v == IF e.kind = "content_chunk" THEN Append(p.view, e.piece)
                ELSE IF e.kind = "chapter_writing" THEN <<>> ELSE p.view
           n == IF e.kind \in Refreshes THEN p.lists + 1 ELSE p.lists
<1>1. p.view \in Seq(1..ViewPieces) /\ p.lists \in Nat /\ e.piece \in 0..ViewPieces
  BY DEF PageRow, ViewEvent
<1>2. v \in Seq(1..ViewPieces)
  <2>1. CASE e.kind = "content_chunk"
    BY <1>1, <2>1
  <2>2. CASE e.kind = "chapter_writing"
    <3>1. v = <<>>
      BY <2>2
    <3>2. <<>> \in Seq(1..ViewPieces)
      OBVIOUS
    <3> QED  BY <3>1, <3>2
  <2>3. CASE e.kind \notin {"content_chunk", "chapter_writing"}
    BY <1>1, <2>3
  <2> QED  BY <2>1, <2>2, <2>3
<1>3. \A k \in DOMAIN v : v[k] <= t
  <2>1. CASE e.kind = "content_chunk"
    <3>1. e.piece \in 1..ViewPieces
      BY <1>1, <2>1
    <3>2. /\ DOMAIN v = 1..(Len(p.view) + 1) /\ v[Len(p.view) + 1] = e.piece
          /\ \A k \in 1..Len(p.view) : v[k] = p.view[k]
          /\ DOMAIN p.view = 1..Len(p.view) /\ Len(p.view) \in Nat
      BY <1>1, <2>1, <3>1
    <3> HIDE DEF v
    <3> QED  BY <3>2
  <2>2. CASE e.kind # "content_chunk"
    BY <2>2
  <2> QED  BY <2>1, <2>2
<1>4. n \in Nat
  BY <1>1
<1>5. Handle(p, e) = [p EXCEPT !.view = v, !.lists = n]
  BY DEF Handle, StartRefresh, PageRow
<1> HIDE DEF v, n
<1> QED  BY <1>2, <1>3, <1>4, <1>5 DEF PageRow

LEMMA DeliverKeeps == ASSUME ViewInv, Deliver PROVE ViewInv'
<1>1. /\ page \in PageRow /\ log \in Seq(ViewEvent)
      /\ Visible \subseteq DOMAIN log /\ Visible \subseteq Nat
      /\ rowText \in 0..ViewPieces /\ ViewPieces \in Nat
      /\ sse \in [open : BOOLEAN, cursor : Nat, wire : SUBSET Nat, jumped : BOOLEAN]
      /\ heard \subseteq DOMAIN log
  BY PageFacts
<1>2. PICK i \in sse.wire : i = Min(sse.wire) /\ \A k \in sse.wire : i <= k
  <2>1. sse.wire \in SUBSET Nat /\ sse.wire # {}
    BY <1>1 DEF Deliver
  <2> QED  BY <2>1, FirstId
<1> DEFINE p == [page EXCEPT !.lastEventId = IF i > @ THEN i ELSE @]
<1>3. /\ sse.open /\ page' = Handle(p, log[i]) /\ heard' = HeardWith(i)
      /\ sse' = [sse EXCEPT !.wire = @ \ {i}, !.jumped = @ /\ i <= page.lastEventId]
      /\ UNCHANGED <<log, rowText, pipeTx, noteTx, viewBudget>>
  BY <1>2 DEF Deliver
<1>4. /\ i \in Visible /\ i \in Nat /\ i \in DOMAIN log /\ log[i].piece <= rowText
      /\ page.lastEventId \in Visible \cup {0} /\ sse.wire \subseteq Visible
      /\ \A k \in DOMAIN page.view : page.view[k] <= rowText
      /\ page.lastEventId \in Nat
  BY <1>1, <1>2 DEF ViewInv, ToldIsSaved
<1>5. log[i] \in ViewEvent /\ (log[i].kind = "content_chunk" => log[i].piece > 0)
  BY <1>1, <1>4, ElementsTyped DEF ViewInv, BatchesHavePieces
<1>6. /\ p \in PageRow /\ p.phase = page.phase /\ p.view = page.view
      /\ p.detail = page.detail /\ p.history = page.history
      /\ p.lastEventId = IF i > page.lastEventId THEN i ELSE page.lastEventId
  BY <1>1, <1>4 DEF PageRow
<1> HIDE DEF p
<1>7. /\ page' \in PageRow /\ page'.lastEventId = p.lastEventId
      /\ page'.detail = page.detail /\ page'.history = page.history
      /\ \A k \in DOMAIN page'.view : page'.view[k] <= rowText
  BY <1>1, <1>3, <1>4, <1>5, <1>6, HandleFacts
<1>8. /\ sse' \in [open : BOOLEAN, cursor : Nat, wire : SUBSET Nat, jumped : BOOLEAN]
      /\ sse'.wire = sse.wire \ {i} /\ sse'.cursor = sse.cursor /\ sse'.open
      /\ sse'.jumped = (sse.jumped /\ i <= page.lastEventId)
  BY <1>1, <1>3
<1>9. Answers'
  BY <1>3, <1>7 DEF ViewInv, Answers, Visible
<1>10. Ahead'
  <2>1. \A k \in sse.wire : k \in Nat /\ k <= sse.cursor
    BY <1>1 DEF ViewInv, Ahead
  <2>2. ASSUME ~ sse'.jumped
        PROVE  /\ p.lastEventId <= sse.cursor
               /\ \A k \in sse.wire \ {i} : p.lastEventId < k
    <3>1. ~ sse.jumped => i > page.lastEventId
      BY <1>3 DEF ViewInv, Ahead
    <3>2. sse.jumped => i > page.lastEventId
      BY <1>4, <1>8, <2>2
    <3>3. i > page.lastEventId
      BY <3>1, <3>2
    <3> QED  BY <1>2, <1>4, <1>6, <2>1, <3>3
  <2> QED  BY <1>7, <1>8, <2>1, <2>2 DEF Ahead
<1>11. heard' \subseteq DOMAIN log
  BY <1>1, <1>3, <1>4 DEF HeardWith
<1> QED  BY <1>1, <1>3, <1>4, <1>6, <1>7, <1>8, <1>9, <1>10, <1>11, PageFacts, PageKeeps

LEMMA AnswersKeep ==
  ASSUME ViewInv, ListsReturn \/ DetailRead \/ DetailArrives
  PROVE  ViewInv'
<1>1. /\ page \in PageRow /\ Visible \subseteq DOMAIN log
      /\ rowText \in 0..ViewPieces /\ ViewPieces \in Nat
      /\ viewBudget \in [notes : Nat, drops : Nat, reloads : Nat]
      /\ sse \in [open : BOOLEAN, cursor : Nat, wire : SUBSET Nat, jumped : BOOLEAN]
      /\ heard \subseteq DOMAIN log
  BY PageFacts
<1>2. /\ UNCHANGED <<log, rowText, pipeTx, noteTx, sse, viewBudget>>
      /\ heard' \subseteq DOMAIN log
  BY <1>1 DEF ListsReturn, DetailRead, DetailArrives
<1>3. /\ page.detail \in {NotYet, NoRequestMade} \cup 0..rowText
      /\ \A k \in DOMAIN page.view : page.view[k] <= rowText
      /\ page.lastEventId \in Visible \cup {0}
  BY DEF ViewInv, Answers, ToldIsSaved
<1>4. /\ page' \in PageRow /\ page'.lastEventId = page.lastEventId
      /\ page'.history = page.history
      /\ page'.detail \in {NotYet, NoRequestMade} \cup 0..rowText
      /\ \A k \in DOMAIN page'.view : page'.view[k] <= rowText
  <2>1. CASE ListsReturn
    <3>1. page' = [page EXCEPT !.lists = @ - 1, !.detail = NotYet] /\ page.lists - 1 \in Nat
      BY <1>1, <2>1 DEF ListsReturn, PageRow
    <3>2. page' \in PageRow
      BY <1>1, <3>1 DEF PageRow
    <3> QED  BY <1>1, <1>3, <3>1, <3>2 DEF PageRow
  <2>2. CASE DetailRead
    <3>1. page' = [page EXCEPT !.detail = rowText]
      BY <2>2 DEF DetailRead
    <3>2. page' \in PageRow
      BY <1>1, <3>1 DEF PageRow
    <3> QED  BY <1>1, <1>3, <3>1, <3>2 DEF PageRow
  <2>3. CASE DetailArrives
    <3>1. page.detail \in 0..rowText
      BY <1>3, <2>3 DEF DetailArrives
    <3>2. PICK n \in 0..rowText : n = page.detail
      BY <3>1
    <3>3. /\ TextPieces(n) \in Seq(1..ViewPieces)
          /\ \A k \in DOMAIN TextPieces(n) : TextPieces(n)[k] <= rowText
      BY <1>1 DEF TextPieces
    <3>4. page' = [page EXCEPT !.view = TextPieces(n), !.detail = NoRequestMade,
                               !.phase = IF @ = "loading" THEN "loaded" ELSE @]
      BY <2>3, <3>2 DEF DetailArrives
    <3> QED  BY <1>1, <3>3, <3>4 DEF PageRow
  <2> QED  BY <2>1, <2>2, <2>3
<1>5. Answers' /\ Ahead'
  BY <1>2, <1>4 DEF ViewInv, Answers, Ahead, Visible
<1> QED  BY <1>1, <1>2, <1>3, <1>4, <1>5, PageKeeps

LEMMA HistoryKeeps ==
  ASSUME ViewInv, HistoryRead \/ HistoryArrives
  PROVE  ViewInv'
<1>1. /\ page \in PageRow /\ log \in Seq(ViewEvent)
      /\ Visible \subseteq DOMAIN log /\ Visible \subseteq Nat
      /\ viewBudget \in [notes : Nat, drops : Nat, reloads : Nat]
      /\ sse \in [open : BOOLEAN, cursor : Nat, wire : SUBSET Nat, jumped : BOOLEAN]
      /\ heard \subseteq DOMAIN log
  BY PageFacts
<1>2. /\ page.detail \in {NotYet, NoRequestMade} \cup 0..rowText
      /\ page.history \in {NoRequestMade, 0} \cup Visible
      /\ \A k \in DOMAIN page.view : page.view[k] <= rowText
      /\ page.lastEventId \in Visible \cup {0}
  BY DEF ViewInv, Answers, ToldIsSaved
<1>3. CASE HistoryRead
  <2>1. PICK h \in Visible \cup {0} : page' = [page EXCEPT !.history = h]
    <3>1. {0} \cup Visible \in SUBSET (0..Len(log)) /\ Len(log) \in Nat
      BY <1>1
    <3>2. Max({0} \cup Visible) \in {0} \cup Visible
      BY <3>1, LastId
    <3> QED  BY <1>3, <3>2 DEF HistoryRead
  <2>2. /\ UNCHANGED <<log, rowText, pipeTx, noteTx, sse, heard>>
        /\ viewBudget' \in [notes : Nat, drops : Nat, reloads : Nat]
    BY <1>1, <1>3 DEF HistoryRead
  <2>3. /\ page' \in PageRow /\ page'.view = page.view /\ page'.detail = page.detail
        /\ page'.lastEventId = page.lastEventId /\ page'.history = h
    <3>1. h \in Nat
      BY <1>1
    <3>2. page' \in PageRow
      BY <1>1, <2>1, <3>1 DEF PageRow
    <3> QED  BY <1>1, <2>1, <3>2 DEF PageRow
  <2>4. Answers' /\ Ahead'
    BY <1>2, <2>2, <2>3 DEF ViewInv, Answers, Ahead, Visible
  <2> QED  BY <1>1, <1>2, <2>2, <2>3, <2>4, PageKeeps
<1>4. CASE HistoryArrives
  <2>1. /\ UNCHANGED <<log, rowText, pipeTx, noteTx, viewBudget, heard>>
        /\ sse' = [sse EXCEPT !.jumped = sse.open]
        /\ page.history \in Visible \cup {0}
    BY <1>2, <1>4 DEF HistoryArrives
  <2>2. PICK h \in Visible \cup {0} : h = page.history
    BY <2>1
  <2>3. page' = IF page.phase = "live"
                THEN [page EXCEPT !.lastEventId = h, !.history = NoRequestMade,
                                  !.lists = @ + 1]
                ELSE [page EXCEPT !.lastEventId = h, !.history = NoRequestMade,
                                  !.phase = "live"]
    BY <1>1, <1>4, <2>2 DEF HistoryArrives, StartRefresh, PageRow
  <2>4. /\ page' \in PageRow /\ page'.view = page.view /\ page'.detail = page.detail
        /\ page'.lastEventId = h /\ page'.history = NoRequestMade
    <3>1. h \in Nat
      BY <1>1
    <3>2. CASE page.phase = "live"
      <4>1. /\ page' = [page EXCEPT !.lastEventId = h, !.history = NoRequestMade,
                                    !.lists = @ + 1]
            /\ page.lists + 1 \in Nat
        BY <1>1, <2>3, <3>2 DEF PageRow
      <4>2. page' \in PageRow
        BY <1>1, <3>1, <4>1 DEF PageRow
      <4> QED  BY <1>1, <4>1, <4>2 DEF PageRow
    <3>3. CASE page.phase # "live"
      BY <1>1, <2>3, <3>1, <3>3 DEF PageRow
    <3> QED  BY <3>2, <3>3
  <2>5. /\ sse' \in [open : BOOLEAN, cursor : Nat, wire : SUBSET Nat, jumped : BOOLEAN]
        /\ sse'.wire = sse.wire /\ sse'.cursor = sse.cursor
        /\ sse'.open = sse.open /\ sse'.jumped = sse.open
    BY <1>1, <2>1
  <2>6. Answers' /\ Ahead'
    BY <1>2, <2>1, <2>4, <2>5 DEF ViewInv, Answers, Ahead, Visible
  <2> QED  BY <1>1, <1>2, <2>1, <2>4, <2>5, <2>6, PageKeeps
<1> QED  BY <1>3, <1>4

(******************************** theorems ********************************)

LEMMA ViewStarts == ViewInit => ViewInv
<1> SUFFICES ASSUME ViewInit PROVE ViewInv
  OBVIOUS
<1>1. Visible = {} /\ DOMAIN log = {}
  BY DEF ViewInit, Visible
<1>2. ViewTypeOK
  BY EventStreamAssumption DEF ViewInit, ViewTypeOK
<1>3. BatchesHavePieces /\ HeldBack /\ ToldIsSaved /\ Answers /\ Ahead
  BY <1>1 DEF ViewInit, BatchesHavePieces, HeldBack, ToldIsSaved, Answers, Ahead
<1> QED  BY <1>2, <1>3 DEF ViewInv

LEMMA ViewSteps == ViewInv /\ [ViewNext]_viewVars => ViewInv'
<1> SUFFICES ASSUME ViewInv, [ViewNext]_viewVars PROVE ViewInv'
  OBVIOUS
<1>1. CASE UNCHANGED viewVars
  BY <1>1 DEF viewVars, ViewInv, ViewTypeOK, BatchesHavePieces, HeldBack, ToldIsSaved,
              Answers, Ahead, Visible
<1> QED  BY <1>1, PipelineFlushKeeps, PipelineCommitKeeps, NoteKeeps, PollKeeps,
            ConnectionKeeps, DeliverKeeps, AnswersKeep, HistoryKeeps DEF ViewNext

LEMMA ViewInvariant == ViewSpec => []ViewInv
BY ViewStarts, ViewSteps, PTL DEF ViewSpec

\* The rows, transactions, connections and what the page keeps have their types.
THEOREM ViewTypes == ViewSpec => []ViewTypeOK
<1>1. ViewInv => ViewTypeOK
  BY DEF ViewInv
<1> QED  BY <1>1, ViewInvariant, PTL

\* The page shows nothing that is not saved, and is told of nothing that is not committed,
\* for EventService.append draws an id before its event can be read.
THEOREM ToldOfCommitted == ViewSpec => []ToldIsSaved
<1>1. ViewInv => ToldIsSaved
  BY DEF ViewInv
<1> QED  BY <1>1, ViewInvariant, PTL

\* ReconnectOverlooksNothing, one step of it
NothingLost == sse.open # sse'.open /\ ~ sse.jumped /\ ~ Overlooked => ~ Overlooked'

LEMMA ReconnectSteps == ViewInv /\ [ViewNext]_viewVars => [NothingLost]_viewVars
<1> SUFFICES ASSUME ViewInv, ViewNext, sse.open # sse'.open, ~ sse.jumped, ~ Overlooked
             PROVE  ~ Overlooked'
  BY DEF NothingLost
<1>1. Drop \/ Connect
  <2>1. sse \in [open : BOOLEAN, cursor : Nat, wire : SUBSET Nat, jumped : BOOLEAN]
    BY PageFacts
  <2> QED  BY <2>1 DEF ViewNext, PipelineFlush, PipelineCommit, NoteFlush, NoteCommit, Poll,
                Deliver, ListsReturn, DetailRead, DetailArrives, HistoryRead, HistoryArrives
<1>2. UNCHANGED <<log, page, heard>>
  BY <1>1 DEF Drop, Connect
<1>3. ASSUME NEW i \in Visible, Coming(i)
      PROVE  Coming(i)'
  <2>1. i \in Nat /\ page.lastEventId \in Nat /\ sse.cursor \in Nat
    BY PageFacts DEF PageRow
  <2>2. CASE Drop
    <3>1. i > page.lastEventId
      BY <1>3, <2>1, <2>2 DEF Coming, Drop, ViewInv, Ahead
    <3>2. ~ sse'.open
      BY <2>2 DEF Drop
    <3> QED  BY <1>2, <3>1, <3>2 DEF Coming
  <2>3. CASE Connect
    <3>1. i > page.lastEventId
      BY <1>3, <2>3 DEF Coming, Connect
    <3>2. sse'.open /\ sse'.cursor = page.lastEventId
      BY <2>3 DEF Connect
    <3> QED  BY <3>1, <3>2 DEF Coming
  <2> QED  BY <1>1, <2>2, <2>3
<1> QED  BY <1>2, <1>3 DEF Overlooked, Visible

\* connect() of useProjectEvents.ts goes on where the page stopped: losing and opening a
\* connection overlooks nothing, unless a list moved lastEventId beside it.
THEOREM ReconnectLosesNothing == ViewSpec => ReconnectOverlooksNothing
<1>1. ReconnectOverlooksNothing <=> [][NothingLost]_viewVars
  BY PTL DEF ReconnectOverlooksNothing, NothingLost
<1> QED  BY <1>1, ReconnectSteps, ViewInvariant, PTL DEF ViewSpec

(************************* where the view settles *************************)

(***************************************************************************)
(* ViewSettles is a matter of fairness, out of reach of these proofs, but  *)
(* what it settles on is not: once the writer has ended, a page for which  *)
(* nothing more can happen by itself shows the saved text, or overlooks an *)
(* event of the writer.                                                    *)
(*                                                                         *)
(* The writer's events are committed one by one and its last one tells the *)
(* end, when the text is final.  A page that handled that one -- and no    *)
(* event of the writer again since -- has a refresh before it, or its      *)
(* answer, or shows it.                                                    *)
(***************************************************************************)

IsEnd(i) == log[i].kind = "chapter_reviewing"
OnlyNotesAfter(i) == \A j \in DOMAIN log : j > i => log[j].kind = "prompt_updated"

InOrder ==
  /\ pipeTx.ended => \E r \in DOMAIN log : IsEnd(r)
  /\ \A r \in DOMAIN log : IsEnd(r) => pipeTx.ended /\ OnlyNotesAfter(r)
  /\ pipeTx.event # 0 => /\ pipeTx.event \in DOMAIN log \ Visible
                         /\ log[pipeTx.event].kind # "prompt_updated"
                         /\ OnlyNotesAfter(pipeTx.event)
  /\ \A i \in DOMAIN log \ Visible : log[i].kind = "prompt_updated" \/ i = pipeTx.event
  /\ noteTx # 0 => log[noteTx].kind = "prompt_updated"
  /\ heard \subseteq Visible

Shows == page.detail = NoRequestMade /\ page.view = TextPieces(rowText)
Refreshed == page.lists > 0 \/ page.detail \in {NotYet, rowText} \/ Shows
EndShown == \A r \in Visible \cap heard : IsEnd(r) => Refreshed
Loading == page.phase = "loading" => page.lists > 0 \/ page.detail # NoRequestMade

EndInv == InOrder /\ EndShown /\ Loading

\* no action of ViewProgress is possible
AtRest ==
  /\ pipeTx.event = 0 /\ noteTx = 0
  /\ sse.open => sse.wire = {} /\ ListAfter(sse.cursor) = {}
  /\ page.phase = "live" => sse.open
  /\ page.lists = 0 /\ page.detail = NoRequestMade
  /\ page.history = NoRequestMade /\ page.phase # "loaded"

LEMMA WriterOrder == ASSUME ViewInv, EndInv, PipelineFlush PROVE EndInv'
<1>1. PICK kind \in {"chapter_writing", "content_chunk", "chapter_reviewing"} :
        LET piece == IF kind = "content_chunk" THEN pipeTx.sent + 1 ELSE 0
        IN  /\ kind = "content_chunk" => pipeTx.sent < ViewPieces
            /\ ~ pipeTx.ended
            /\ log' = Flushed(kind, piece)
            /\ pipeTx' = [event |-> NextEventId, started |-> TRUE,
                          sent |-> IF piece > 0 THEN piece ELSE pipeTx.sent,
                          ended |-> kind = "chapter_reviewing"]
  BY DEF PipelineFlush
<1> DEFINE piece == IF kind = "content_chunk" THEN pipeTx.sent + 1 ELSE 0
<1>2. log \in Seq(ViewEvent) /\ pipeTx.sent \in 0..ViewPieces
  BY DEF ViewInv, ViewTypeOK
<1>3. piece \in 0..ViewPieces /\ kind \in EventKind
  BY <1>1, <1>2, EventStreamAssumption DEF EventKind
<1>4. log' = Flushed(kind, piece) /\ ~ pipeTx.ended /\ pipeTx.event = 0
  BY <1>1 DEF PipelineFlush
<1>5. PICK n \in Nat \ {0} : n = NextEventId
  BY <1>2 DEF NextEventId
<1>6. pipeTx'.event = n /\ (pipeTx'.ended <=> kind = "chapter_reviewing")
  BY <1>1, <1>5
<1>7. UNCHANGED <<rowText, noteTx, sse, page, heard>>
  BY DEF PipelineFlush
<1> HIDE DEF piece
<1>8. /\ \A i \in DOMAIN log : i \in Nat \ {0} /\ i < n /\ ~ (n < i)
      /\ n \notin DOMAIN log
  BY <1>2, <1>5 DEF NextEventId
<1>9. /\ DOMAIN log' = DOMAIN log \cup {n}
      /\ \A i \in DOMAIN log : log'[i] = log[i]
      /\ log'[n].kind = kind
      /\ Visible' = Visible /\ Visible \subseteq DOMAIN log
  <2>1. kind \in EventKind /\ piece \in 0..ViewPieces /\ log' = Flushed(kind, piece)
    BY <1>3, <1>4
  <2> QED  BY <1>2, <1>5, <2>1, FlushFacts DEF Visible
<1>10. \A r \in DOMAIN log : ~ IsEnd(r)
  BY <1>4 DEF EndInv, InOrder
<1>11. \A j \in DOMAIN log' : j > n => log'[j].kind = "prompt_updated"
  BY <1>8, <1>9
<1>12. noteTx # 0 => noteTx \in DOMAIN log /\ log'[noteTx].kind = "prompt_updated"
  BY <1>9 DEF ViewInv, HeldBack, EndInv, InOrder
<1>13. \A r \in DOMAIN log' : log'[r].kind = "chapter_reviewing" => r = n
  BY <1>9, <1>10 DEF IsEnd
<1>14. \A i \in DOMAIN log' \ Visible' : log'[i].kind = "prompt_updated" \/ i = n
  BY <1>4, <1>8, <1>9 DEF EndInv, InOrder
<1>15. kind # "prompt_updated"
  OBVIOUS
<1>16. InOrder'
  <2>1. pipeTx'.ended => \E r \in DOMAIN log' : log'[r].kind = "chapter_reviewing"
    BY <1>6, <1>9
  <2>2. \A r \in DOMAIN log' : log'[r].kind = "chapter_reviewing" =>
          pipeTx'.ended /\ \A j \in DOMAIN log' : j > r => log'[j].kind = "prompt_updated"
    BY <1>6, <1>9, <1>11, <1>13
  <2>3. n \in DOMAIN log' \ Visible' /\ log'[n].kind # "prompt_updated"
    BY <1>8, <1>9, <1>15
  <2>4. heard' \subseteq Visible'
    BY <1>7, <1>9 DEF EndInv, InOrder
  <2> QED
    BY <1>6, <1>7, <1>11, <1>12, <1>14, <2>1, <2>2, <2>3, <2>4 DEF InOrder, IsEnd, OnlyNotesAfter
<1>17. EndShown'
  BY <1>9, <1>10 DEF EndShown, IsEnd
<1>18. Loading'
  BY <1>7 DEF EndInv, Loading
<1> QED  BY <1>16, <1>17, <1>18 DEF EndInv

\* A commit lets an event be read: the last of the writer's, or a note.
LEMMA CommitsOrder == ASSUME ViewInv, EndInv, PipelineCommit \/ NoteCommit PROVE EndInv'
<1>1. log \in Seq(ViewEvent) /\ Visible \subseteq DOMAIN log
  BY DEF ViewInv, ViewTypeOK, Visible
<1>2. /\ heard \subseteq Visible /\ heard' = heard /\ UNCHANGED <<page, sse>>
      /\ pipeTx'.ended = pipeTx.ended
  <2>1. pipeTx \in [event : Nat, started : BOOLEAN, sent : 0..ViewPieces, ended : BOOLEAN]
    BY DEF ViewInv, ViewTypeOK
  <2> QED  BY <2>1 DEF PipelineCommit, NoteCommit, EndInv, InOrder
<1>3. CASE PipelineCommit
  <2>1. PICK e \in DOMAIN log \ Visible :
          /\ e = pipeTx.event /\ e # 0 /\ OnlyNotesAfter(e) /\ log[e].kind # "prompt_updated"
    BY <1>3 DEF PipelineCommit, EndInv, InOrder
  <2>2. /\ DOMAIN log' = DOMAIN log
        /\ \A j \in DOMAIN log : log'[j].kind = log[j].kind
        /\ Visible' = Visible \cup {e}
    BY <1>1, <1>3, <2>1, PublishFacts DEF PipelineCommit
  <2>3. pipeTx'.event = 0 /\ noteTx' = noteTx
    <3>1. pipeTx \in [event : Nat, started : BOOLEAN, sent : 0..ViewPieces, ended : BOOLEAN]
      BY DEF ViewInv, ViewTypeOK
    <3> QED  BY <1>3, <3>1 DEF PipelineCommit
  <2>4. noteTx # 0 => noteTx \in DOMAIN log
    BY DEF ViewInv, HeldBack
  <2>5. InOrder'
    <3>1. \A i \in DOMAIN log' \ Visible' : log'[i].kind = "prompt_updated"
      BY <1>1, <2>1, <2>2 DEF EndInv, InOrder
    <3> QED
      BY <1>2, <2>2, <2>3, <2>4, <3>1 DEF EndInv, InOrder, IsEnd, OnlyNotesAfter
  <2>6. \A r \in Visible \cap heard : ~ IsEnd(r)
    <3>1. SUFFICES ASSUME NEW r \in Visible, IsEnd(r) PROVE FALSE
      OBVIOUS
    <3>2. r \in Nat /\ e \in Nat /\ r # e
      BY <1>1, <2>1
    <3>3. ~ (r > e)
      BY <1>1, <2>1, <3>1 DEF OnlyNotesAfter, IsEnd
    <3>4. ~ (e > r)
      BY <1>1, <2>1, <3>1 DEF EndInv, InOrder, OnlyNotesAfter
    <3> QED  BY <3>2, <3>3, <3>4
  <2>7. EndShown'
    BY <1>1, <1>2, <2>1, <2>2, <2>6 DEF EndShown, IsEnd
  <2> QED  BY <1>2, <2>5, <2>7 DEF EndInv, Loading
<1>4. CASE NoteCommit
  <2>1. PICK n \in DOMAIN log : n = noteTx /\ n # 0 /\ log[n].kind = "prompt_updated"
    BY <1>4 DEF NoteCommit, ViewInv, HeldBack, EndInv, InOrder
  <2>2. /\ DOMAIN log' = DOMAIN log
        /\ \A j \in DOMAIN log : log'[j].kind = log[j].kind
        /\ Visible' = Visible \cup {n}
    BY <1>1, <1>4, <2>1, PublishFacts DEF NoteCommit
  <2>3. noteTx' = 0 /\ UNCHANGED <<pipeTx, rowText>>
    BY <1>4 DEF NoteCommit
  <2>4. pipeTx.event # 0 => pipeTx.event \in DOMAIN log' \ Visible'
    BY <2>1, <2>2 DEF EndInv, InOrder
  <2>5. InOrder'
    BY <1>2, <2>2, <2>3, <2>4 DEF EndInv, InOrder, IsEnd, OnlyNotesAfter
  <2>6. EndShown'
    BY <1>1, <1>2, <2>2, <2>3 DEF EndInv, InOrder, EndShown, Refreshed, Shows, IsEnd
  <2> QED  BY <1>2, <2>5, <2>6 DEF EndInv, Loading
<1> QED  BY <1>3, <1>4

\* A note is not one of the writer's events, and what the page is not told it need not show.
LEMMA NoteOrder == ASSUME ViewInv, EndInv, NoteFlush PROVE EndInv'
<1>1. /\ log \in Seq(ViewEvent) /\ Visible \subseteq DOMAIN log
      /\ UNCHANGED <<rowText, pipeTx, sse, page, heard>>
  BY DEF ViewInv, ViewTypeOK, Visible, NoteFlush
<1>2. PICK n \in Nat \ {0} : n = NextEventId
  BY <1>1 DEF NextEventId
<1>3. log' = Flushed("prompt_updated", 0) /\ noteTx' = n
  BY <1>2 DEF NoteFlush
<1>4. /\ DOMAIN log' = DOMAIN log \cup {n}
      /\ \A i \in DOMAIN log : log'[i] = log[i]
      /\ log'[n].kind = "prompt_updated" /\ Visible' = Visible
  <2>1. "prompt_updated" \in EventKind /\ 0 \in 0..ViewPieces
    BY EventStreamAssumption DEF EventKind
  <2> QED  BY <1>1, <1>2, <1>3, <2>1, FlushFacts
<1>5. InOrder'
  BY <1>1, <1>3, <1>4 DEF EndInv, InOrder, IsEnd, OnlyNotesAfter
<1>6. EndShown' /\ Loading'
  BY <1>1, <1>4 DEF EndInv, EndShown, Refreshed, Shows, IsEnd, Loading
<1> QED  BY <1>5, <1>6 DEF EndInv

LEMMA ConnectionOrder == ASSUME ViewInv, EndInv, Poll \/ Drop \/ Connect PROVE EndInv'
<1>1. UNCHANGED <<log, rowText, pipeTx, noteTx, page, heard>>
  BY DEF Poll, Drop, Connect
<1> QED
  BY <1>1 DEF EndInv, InOrder, EndShown, Refreshed, Shows, IsEnd, Loading, OnlyNotesAfter, Visible

\* Handling the end of the writing asks for the text; handling another event of the writer
\* puts the end before the page again; a note changes nothing that is shown.
LEMMA DeliverOrder == ASSUME ViewInv, EndInv, Deliver PROVE EndInv'
<1>1. /\ page \in PageRow /\ log \in Seq(ViewEvent)
      /\ Visible \subseteq DOMAIN log /\ Visible \subseteq Nat
      /\ sse \in [open : BOOLEAN, cursor : Nat, wire : SUBSET Nat, jumped : BOOLEAN]
  BY PageFacts
<1>2. PICK i \in sse.wire : i = Min(sse.wire)
  <2>1. sse.wire \in SUBSET Nat /\ sse.wire # {}
    BY <1>1 DEF Deliver
  <2> QED  BY <2>1, FirstId
<1>3. i \in Visible /\ i \in DOMAIN log /\ page.lastEventId \in Nat
  BY <1>1, <1>2 DEF ViewInv, ToldIsSaved, PageRow
<1> DEFINE p == [page EXCEPT !.lastEventId = IF i > @ THEN i ELSE @]
<1>4. /\ page' = Handle(p, log[i]) /\ heard' = HeardWith(i)
      /\ UNCHANGED <<log, rowText, pipeTx, noteTx>>
  BY <1>2 DEF Deliver
<1>5. /\ p \in PageRow /\ p.view = page.view /\ p.lists = page.lists
      /\ p.detail = page.detail /\ p.phase = page.phase
  BY <1>1, <1>3 DEF PageRow
<1> HIDE DEF p
<1>6. p.lists \in Nat
  BY <1>5 DEF PageRow
<1>7. /\ log[i].kind \in Refreshes => page'.lists = page.lists + 1
      /\ log[i].kind \notin Refreshes => page'.lists = page.lists
      /\ log[i].kind = "prompt_updated" => page'.view = page.view
      /\ page'.detail = page.detail /\ page'.phase = page.phase
  BY <1>4, <1>5 DEF Handle, StartRefresh, PageRow, Refreshes
<1>8. heard' \subseteq Visible
  BY <1>3, <1>4 DEF HeardWith, EndInv, InOrder
<1>9. InOrder'
  BY <1>4, <1>8 DEF EndInv, InOrder, IsEnd, OnlyNotesAfter, Visible
<1>10. ASSUME NEW r \in Visible, r \in heard', IsEnd(r) PROVE Refreshed'
  <2>1. CASE r = i
    BY <1>5, <1>6, <1>7, <1>10, <2>1 DEF IsEnd, Refreshes, Refreshed
  <2>2. CASE r # i
    <3>1. r \in heard /\ (log[i].kind = "prompt_updated" \/ r < i)
      BY <1>4, <1>10, <2>2 DEF HeardWith
    <3>2. log[i].kind = "prompt_updated"
      <4>1. r \in DOMAIN log /\ r \in Nat /\ i \in Nat
        BY <1>1, <1>3
      <4> QED  BY <1>3, <1>10, <3>1, <4>1 DEF EndInv, InOrder, OnlyNotesAfter
    <3>3. Refreshed
      BY <1>10, <3>1 DEF EndInv, EndShown
    <3>4. UNCHANGED <<page.lists, page.detail, page.view, rowText>>
      BY <1>4, <1>7, <3>2 DEF Refreshes
    <3> QED  BY <3>3, <3>4 DEF Refreshed, Shows
  <2> QED  BY <2>1, <2>2
<1>11. EndShown'
  BY <1>4, <1>10 DEF EndShown, IsEnd, Visible
<1>12. Loading'
  BY <1>5, <1>6, <1>7 DEF EndInv, Loading
<1> QED  BY <1>9, <1>11, <1>12 DEF EndInv

LEMMA AnswersOrder ==
  ASSUME ViewInv, EndInv, ListsReturn \/ DetailRead \/ DetailArrives \/ HistoryRead \/ HistoryArrives
  PROVE  EndInv'
<1>1. page \in PageRow /\ rowText \in 0..ViewPieces /\ Visible \subseteq DOMAIN log
  BY PageFacts
<1>2. UNCHANGED <<log, rowText, pipeTx, noteTx, Visible>>
  BY DEF ListsReturn, DetailRead, DetailArrives, HistoryRead, HistoryArrives, Visible
<1>3. heard' = heard \/ (DetailRead /\ heard' = Visible)
  BY DEF ListsReturn, DetailRead, DetailArrives, HistoryRead, HistoryArrives
<1>4. InOrder'
  BY <1>2, <1>3 DEF EndInv, InOrder, IsEnd, OnlyNotesAfter
<1>5. CASE ListsReturn
  <2>1. page'.detail = NotYet
    BY <1>1, <1>5 DEF ListsReturn, PageRow
  <2> QED  BY <1>4, <2>1 DEF EndInv, EndShown, Refreshed, Loading, NotYet, NoRequestMade
<1>6. CASE DetailRead
  <2>1. page'.detail = rowText
    BY <1>1, <1>6 DEF DetailRead, PageRow
  <2>2. Refreshed'
    BY <1>2, <2>1 DEF Refreshed
  <2> QED  BY <1>1, <1>2, <1>4, <2>1, <2>2 DEF EndInv, EndShown, Loading, NoRequestMade
<1>7. CASE DetailArrives
  <2>1. /\ page'.view = TextPieces(page.detail) /\ page'.detail = NoRequestMade
        /\ page'.lists = page.lists /\ page'.phase # "loading"
    BY <1>1, <1>7 DEF DetailArrives, PageRow
  <2>2. page.detail \notin {NotYet, NoRequestMade} /\ heard' = heard
    BY <1>7 DEF DetailArrives
  <2>3. Refreshed => Refreshed'
    BY <1>2, <2>1, <2>2 DEF Refreshed, Shows
  <2> QED  BY <1>2, <1>4, <2>1, <2>2, <2>3 DEF EndInv, EndShown, Loading, IsEnd
<1>8. CASE HistoryRead \/ HistoryArrives
  <2>1. /\ page'.detail = page.detail /\ page'.view = page.view
        /\ page'.lists \in {page.lists, page.lists + 1} /\ page.lists \in Nat
        /\ page'.phase \in {page.phase, "live"} /\ heard' = heard
    BY <1>1, <1>8 DEF HistoryRead, HistoryArrives, StartRefresh, PageRow
  <2>2. page.lists > 0 => page'.lists > 0
    BY <2>1
  <2>3. Refreshed => Refreshed'
    BY <1>2, <2>1, <2>2 DEF Refreshed, Shows
  <2> QED  BY <1>2, <1>4, <2>1, <2>2, <2>3 DEF EndInv, EndShown, Loading, IsEnd
<1> QED  BY <1>5, <1>6, <1>7, <1>8

LEMMA EndStarts == ViewInit => EndInv
<1> SUFFICES ASSUME ViewInit PROVE EndInv
  OBVIOUS
<1>1. DOMAIN log = {} /\ Visible = {} /\ page.lists = 1
  BY DEF ViewInit, Visible
<1>2. page.lists > 0
  BY <1>1
<1> QED  BY <1>1, <1>2 DEF ViewInit, EndInv, InOrder, EndShown, Loading

LEMMA EndSteps == ViewInv /\ EndInv /\ [ViewNext]_viewVars => EndInv'
<1> SUFFICES ASSUME ViewInv, EndInv, [ViewNext]_viewVars PROVE EndInv'
  OBVIOUS
<1>1. CASE UNCHANGED viewVars
  BY <1>1 DEF viewVars, EndInv, InOrder, EndShown, Refreshed, Shows, IsEnd, Loading,
              OnlyNotesAfter, Visible
<1> QED  BY <1>1, WriterOrder, CommitsOrder, NoteOrder, ConnectionOrder, DeliverOrder,
            AnswersOrder DEF ViewNext

\* list_after returns nothing only when there is nothing later
LEMMA NothingLater ==
  ASSUME ViewInv, NEW cursor \in Nat, ListAfter(cursor) = {}
  PROVE  \A i \in Visible : ~ (i > cursor)
<1> DEFINE later == {i \in Visible : i > cursor}
<1>1. SUFFICES ASSUME later # {} PROVE FALSE
  OBVIOUS
<1>2. later \in SUBSET (0..Len(log)) /\ later \in SUBSET Nat /\ Len(log) \in Nat
  BY DEF Visible, ViewInv, ViewTypeOK
<1> HIDE DEF later
<1>3. PICK l \in later : \A k \in later : k <= l
  BY <1>1, <1>2, LastId
<1>4. PICK f \in later : \A k \in later : f <= k
  BY <1>1, <1>2, FirstId
<1>5. {j \in later : j < f} = {} /\ {j \in later : j > l} = {}
  <2>1. \A j \in later : j \in Nat /\ l \in Nat /\ f \in Nat
    BY <1>2
  <2>2. \A j \in later : ~ (j < f) /\ ~ (j > l)
    BY <1>3, <1>4, <2>1
  <2> QED  BY <2>2
<1>6. Cardinality({}) < PageLimit
  BY FS_EmptySet, EventStreamAssumption
<1>7. f \in ListAfter(cursor) \/ l \in ListAfter(cursor)
  BY <1>5, <1>6 DEF ListAfter, later
<1> QED  BY <1>7

\* A step that goes on by itself is none of a view at rest.
LEMMA RestIsRest == AtRest => ~ ViewProgress
<1> SUFFICES ASSUME AtRest, ViewProgress PROVE FALSE
  OBVIOUS
<1>1. ~ PipelineCommit /\ ~ NoteCommit /\ ~ Connect
  BY DEF AtRest, PipelineCommit, NoteCommit, Connect
<1>2. ~ Poll /\ ~ Deliver
  BY DEF AtRest, Poll, Deliver
<1>3. ~ ListsReturn /\ ~ DetailRead /\ ~ DetailArrives
  BY DEF AtRest, ListsReturn, DetailRead, DetailArrives, NotYet, NoRequestMade
<1>4. ~ (page.phase = "loaded" /\ HistoryRead) /\ ~ HistoryArrives
  BY DEF AtRest, HistoryArrives
<1> QED  BY <1>1, <1>2, <1>3, <1>4 DEF ViewProgress

\* When the writer has ended and nothing more can happen by itself, the page shows the saved
\* text, whatever was lost with a connection, sent twice or overwritten by the answer of an
\* earlier refresh, unless it overlooks an event of the writer (useLiveWritingState.ts).
THEOREM RestShowsText ==
  ViewSpec => [](AtRest /\ WriterDone => Overlooked \/ page.view = TextPieces(rowText))
<1>1. ASSUME ViewInv, EndInv, AtRest, WriterDone, ~ Overlooked
      PROVE  page.view = TextPieces(rowText)
  <2>1. PICK r \in DOMAIN log : IsEnd(r)
    BY <1>1 DEF EndInv, InOrder, WriterDone
  <2>2. /\ page \in PageRow /\ log \in Seq(ViewEvent) /\ Visible \subseteq Nat
        /\ sse \in [open : BOOLEAN, cursor : Nat, wire : SUBSET Nat, jumped : BOOLEAN]
        /\ rowText \in 0..ViewPieces
    BY <1>1, PageFacts
  <2>3. r # 0 /\ r \in Visible
    <3>1. r # 0 /\ log[r].kind # "prompt_updated"
      BY <2>1, <2>2 DEF IsEnd
    <3> QED  BY <1>1, <2>1, <3>1 DEF EndInv, InOrder, WriterDone
  <2>4. sse.open
    BY <1>1, <2>2 DEF AtRest, EndInv, Loading, PageRow
  <2>5. ~ (r > sse.cursor) /\ r \notin sse.wire
    BY <1>1, <2>2, <2>3, <2>4, NothingLater DEF AtRest
  <2>6. r \in heard
    BY <1>1, <2>1, <2>3, <2>4, <2>5 DEF Overlooked, Coming, IsEnd
  <2>7. Refreshed
    BY <1>1, <2>1, <2>3, <2>6 DEF EndInv, EndShown
  <2> QED  BY <1>1, <2>2, <2>7 DEF AtRest, Refreshed, Shows, NotYet, NoRequestMade
<1> QED  BY <1>1, ViewInvariant, ViewStarts, ViewSteps, EndStarts, EndSteps, PTL DEF ViewSpec
=============================================================================
