----------------------------- MODULE EventStream -----------------------------
(***************************************************************************)
(* The live view of a chapter that is being written: the rows of           *)
(* project_events, the SSE endpoint that polls them (backend/api/events.py),*)
(* and the page that folds them into what it shows                         *)
(* (frontend/src/composables/useProjectEvents.ts, useLiveWritingState.ts). *)
(*                                                                         *)
(* EventService.append draws the id of an event when it is flushed; the    *)
(* row can be read when its transaction commits.  Two transactions write:  *)
(* the pipeline's and the one of an HTTP handler, so ids may become        *)
(* visible out of order.  A text is the number of its pieces; what the     *)
(* page shows is a sequence of pieces, for it may show one twice.          *)
(***************************************************************************)
EXTENDS Integers, Sequences, FiniteSets, FiniteSetsExt

CONSTANTS
  ViewPieces,    \* bound: pieces the writer streams
  MaxNotes,      \* bound: events appended by handlers
  MaxDrops,      \* bound: SSE connections lost
  MaxReloads,    \* bound: fetchHistoricalEvents after a request of the user
  PageLimit      \* limit of EventService.list_after

ASSUME EventStreamAssumption ==
  /\ {ViewPieces, MaxNotes, MaxDrops, MaxReloads} \subseteq Nat
  /\ PageLimit \in Nat \ {0}

VARIABLES
  log,        \* the rows of project_events, by id
  rowText,    \* chapter_attempts.content, as committed
  pipeTx,     \* the pipeline: its phase and the events its open transaction flushed
  noteTx,     \* a handler: the event its open transaction flushed, or 0
  sse,        \* the connection: [open, cursor, wire], the ids sent being on the wire;
              \* history: jumped, whether lastEventId came from a list since
  page,       \* the client: [phase, lastEventId, view, lists, detail, history]
  viewBudget, \* what is left of the bounds
  heard       \* history: ids the page handled, or whose effect its first answer showed,
              \* and whose effect it has not undone by handling an earlier one again

viewVars == <<log, rowText, pipeTx, noteTx, sse, page, viewBudget, heard>>

EventKind == {"chapter_writing", "content_chunk", "chapter_reviewing", "prompt_updated"}
(* Mutant: the end of the writing does not refresh the page. *)
RefreshAtStart == {"chapter_writing"}

\* shouldRefreshProjectState
Refreshes == {"chapter_writing", "chapter_reviewing"}

Visible == {i \in DOMAIN log : log[i].state = "committed"}
Flushed(kind, piece) == Append(log, [kind |-> kind, piece |-> piece, state |-> "flushed"])
NextEventId == Len(log) + 1
TextPieces(n) == [i \in 1..n |-> i]
NotYet == -1    \* a request the server has not answered
NoRequestMade == -2

(******************************* the writers *******************************)

Publish(i) == log' = [log EXCEPT ![i].state = "committed"]

\* flush of an event by the pipeline: the start of the chapter, a batch of pieces, its end
PipelineFlush ==
  /\ pipeTx.event = 0
  /\ \E kind \in {"chapter_writing", "content_chunk", "chapter_reviewing"} :
       /\ kind = "chapter_writing" <=> pipeTx.sent = 0 /\ ~ pipeTx.started
       /\ kind = "content_chunk" => pipeTx.sent < ViewPieces
       /\ ~ pipeTx.ended
       /\ LET piece == IF kind = "content_chunk" THEN pipeTx.sent + 1 ELSE 0
          IN  /\ log' = Flushed(kind, piece)
              /\ pipeTx' = [event |-> NextEventId, started |-> TRUE,
                            sent |-> IF piece > 0 THEN piece ELSE pipeTx.sent,
                            ended |-> kind = "chapter_reviewing"]
  /\ UNCHANGED <<rowText, noteTx, sse, page, viewBudget, heard>>

(* Mutant: the events are committed in a transaction of their own, before the text. *)
PipelineCommitEvents ==
  /\ pipeTx.event # 0
  /\ Publish(pipeTx.event)
  /\ pipeTx' = [pipeTx EXCEPT !.event = 0]
  /\ UNCHANGED <<rowText, noteTx, sse, page, viewBudget, heard>>

\* its commit: the text and the event become visible together
PipelineCommit ==
  /\ pipeTx.event # 0
  /\ Publish(pipeTx.event)
  /\ rowText' = pipeTx.sent
  /\ pipeTx' = [pipeTx EXCEPT !.event = 0]
  /\ UNCHANGED <<noteTx, sse, page, viewBudget, heard>>

\* a handler that tells of something else, in a transaction of its own
NoteFlush ==
  /\ noteTx = 0 /\ viewBudget.notes > 0
  /\ viewBudget' = [viewBudget EXCEPT !.notes = @ - 1]
  /\ log' = Flushed("prompt_updated", 0)
  /\ noteTx' = NextEventId
  /\ UNCHANGED <<rowText, pipeTx, sse, page, heard>>

NoteCommit ==
  /\ noteTx # 0
  /\ Publish(noteTx)
  /\ noteTx' = 0
  /\ UNCHANGED <<rowText, pipeTx, sse, page, viewBudget, heard>>

(****************************** the endpoint *******************************)

\* EventService.list_after: the next rows, or the last ones of a client that has none
ListAfter(cursor) ==
  LET later == {i \in Visible : i > cursor}
      before(i) == IF cursor > 0 THEN {j \in later : j < i} ELSE {j \in later : j > i}
  IN  {i \in later : Cardinality(before(i)) < PageLimit}

\* one turn of event_generator, which sends the rows in the order of their ids: what is on
\* the wire arrives in that order
Poll ==
  /\ sse.open
  /\ LET items == ListAfter(sse.cursor)
     IN  /\ items # {}
         /\ sse' = [sse EXCEPT !.cursor = Max(items), !.wire = @ \cup items]
  /\ UNCHANGED <<log, rowText, pipeTx, noteTx, page, viewBudget, heard>>

\* the connection breaks, with what is on its way; the page closes it and starts a timer
Drop ==
  /\ sse.open /\ viewBudget.drops > 0
  /\ viewBudget' = [viewBudget EXCEPT !.drops = @ - 1]
  /\ sse' = [open |-> FALSE, cursor |-> 0, wire |-> {}, jumped |-> FALSE]
  /\ UNCHANGED <<log, rowText, pipeTx, noteTx, page, heard>>

(* Mutant: a new connection goes on after the last event of the server, not *)
(* after the last one that arrived.                                         *)
ConnectAtEnd ==
  /\ ~ sse.open /\ page.phase = "live"
  /\ sse' = [open |-> TRUE, cursor |-> Len(log), wire |-> {}, jumped |-> FALSE]
  /\ UNCHANGED <<log, rowText, pipeTx, noteTx, page, viewBudget, heard>>

\* connect: after_id is the highest id that has arrived
Connect ==
  /\ ~ sse.open /\ page.phase = "live"
  /\ sse' = [open |-> TRUE, cursor |-> page.lastEventId, wire |-> {}, jumped |-> FALSE]
  /\ UNCHANGED <<log, rowText, pipeTx, noteTx, page, viewBudget, heard>>

(******************************** the page *********************************)

\* refreshProjectState: the requests for the project and the list of chapters, then
\* fetchChapterDetails, which aborts a request for details that is in flight
StartRefresh(p) == [p EXCEPT !.lists = @ + 1]

\* handleProjectEvent
Handle(p, e) ==
  LET q == IF e.kind = "content_chunk" THEN [p EXCEPT !.view = Append(@, e.piece)]
           ELSE IF e.kind = "chapter_writing" THEN [p EXCEPT !.view = <<>>] ELSE p
  IN  IF e.kind \in Refreshes THEN StartRefresh(q) ELSE q

\* an event of the writer sets the page back to where the later ones have to follow
HeardWith(i) == {j \in heard : log[i].kind = "prompt_updated" \/ j < i} \cup {i}

\* handleIncomingEvent: upsertEvent, then the handler
Deliver ==
  /\ sse.open /\ sse.wire # {}
  /\ LET i == Min(sse.wire)
     IN  /\ page' = Handle([page EXCEPT !.lastEventId = IF i > @ THEN i ELSE @], log[i])
         /\ heard' = HeardWith(i)
         /\ sse' = [sse EXCEPT !.wire = @ \ {i}, !.jumped = @ /\ i <= page.lastEventId]
  /\ UNCHANGED <<log, rowText, pipeTx, noteTx, viewBudget>>

ListsReturn ==
  /\ page.lists > 0
  /\ page' = [page EXCEPT !.lists = @ - 1, !.detail = NotYet]
  /\ UNCHANGED <<log, rowText, pipeTx, noteTx, sse, viewBudget, heard>>

\* the server reads the attempt ...
DetailRead ==
  /\ page.detail = NotYet
  /\ page' = [page EXCEPT !.detail = rowText]
  /\ heard' = IF page.phase = "loading" THEN Visible ELSE heard
  /\ UNCHANGED <<log, rowText, pipeTx, noteTx, sse, viewBudget>>

\* ... and its answer replaces what is shown; the first one ends initProject's refresh
DetailArrives ==
  /\ page.detail \notin {NotYet, NoRequestMade}
  /\ page' = [page EXCEPT !.view = TextPieces(page.detail), !.detail = NoRequestMade,
                          !.phase = IF @ = "loading" THEN "loaded" ELSE @]
  /\ UNCHANGED <<log, rowText, pipeTx, noteTx, sse, viewBudget, heard>>

\* fetchHistoricalEvents, in initProject after the refresh, and in the live page after a
\* request of the user, whose own refresh follows it
HistoryRead ==
  /\ page.history = NoRequestMade
  /\ \/ page.phase = "loaded" /\ UNCHANGED viewBudget
     \/ /\ page.phase = "live" /\ viewBudget.reloads > 0
        /\ viewBudget' = [viewBudget EXCEPT !.reloads = @ - 1]
  /\ page' = [page EXCEPT !.history = Max({0} \cup Visible)]
  /\ UNCHANGED <<log, rowText, pipeTx, noteTx, sse, heard>>

HistoryArrives ==
  /\ page.history # NoRequestMade
  /\ LET p == [page EXCEPT !.lastEventId = page.history, !.history = NoRequestMade]
     IN  page' = IF p.phase = "live" THEN StartRefresh(p) ELSE [p EXCEPT !.phase = "live"]
  /\ sse' = [sse EXCEPT !.jumped = sse.open]
  /\ UNCHANGED <<log, rowText, pipeTx, noteTx, viewBudget, heard>>

ViewInit ==
  /\ log = <<>> /\ rowText = 0
  /\ pipeTx = [event |-> 0, started |-> FALSE, sent |-> 0, ended |-> FALSE]
  /\ noteTx = 0
  /\ sse = [open |-> FALSE, cursor |-> 0, wire |-> {}, jumped |-> FALSE]
  /\ page = [phase |-> "loading", lastEventId |-> 0, view |-> <<>>, lists |-> 1,
             detail |-> NoRequestMade, history |-> NoRequestMade]
  /\ viewBudget = [notes |-> MaxNotes, drops |-> MaxDrops, reloads |-> MaxReloads]
  /\ heard = {}

ViewNext ==
  \/ PipelineFlush \/ PipelineCommit \/ NoteFlush \/ NoteCommit \/ Poll \/ Drop \/ Connect
  \/ Deliver \/ ListsReturn \/ DetailRead \/ DetailArrives \/ HistoryRead \/ HistoryArrives

\* what goes on by itself: transactions end, the endpoint polls, the page connects, asks and
\* gets its answers.  No step of these can be repeated for ever, so that fairness of all of
\* them together is fairness of each.
ViewProgress ==
  \/ PipelineCommit \/ NoteCommit \/ Poll \/ Connect \/ Deliver \/ ListsReturn
  \/ DetailRead \/ DetailArrives \/ (page.phase = "loaded" /\ HistoryRead) \/ HistoryArrives
ViewSpec == ViewInit /\ [][ViewNext]_viewVars /\ WF_viewVars(ViewProgress)

(****************************** properties ********************************)

ViewEvent == [kind : EventKind, piece : 0..ViewPieces, state : {"flushed", "committed"}]
ViewTypeOK ==
  /\ log \in Seq(ViewEvent)
  /\ rowText \in 0..ViewPieces
  /\ pipeTx \in [event : Nat, started : BOOLEAN, sent : 0..ViewPieces, ended : BOOLEAN]
  /\ noteTx \in Nat
  /\ sse \in [open : BOOLEAN, cursor : Nat, wire : SUBSET Nat, jumped : BOOLEAN]
  /\ page \in [phase : {"loading", "loaded", "live"}, lastEventId : Nat,
               view : Seq(1..ViewPieces), lists : Nat,
               detail : 0..ViewPieces \cup {NotYet, NoRequestMade},
               history : Nat \cup {NoRequestMade}]
  /\ viewBudget \in [notes : Nat, drops : Nat, reloads : Nat]
  /\ heard \subseteq DOMAIN log

\* The page is only ever told what is committed, and shows no piece that is not in the
\* saved text: an event and the text it speaks of are committed together, whichever
\* transaction the ids around it belong to.
ToldIsSaved ==
  /\ sse.wire \subseteq Visible
  /\ sse.cursor \in Visible \cup {0} /\ page.lastEventId \in Visible \cup {0}
  /\ \A k \in DOMAIN page.view : page.view[k] <= rowText
  /\ \A i \in Visible : log[i].piece <= rowText

\* the page did not handle an event -- or handled it, and then an earlier one again -- and it
\* is no longer on its way
Coming(i) == IF sse.open THEN i > sse.cursor \/ i \in sse.wire
             ELSE page.phase # "live" \/ i > page.lastEventId
Overlooked == \E i \in Visible \ heard : log[i].kind # "prompt_updated" /\ ~ Coming(i)

\* A connection that is lost and opened again overlooks nothing, whatever was on the wire:
\* it goes on after the last id that arrived, unless a list fetched beside the connection
\* has moved that id past what was still to arrive.
ReconnectOverlooksNothing ==
  [][sse.open # sse'.open /\ ~ sse.jumped /\ ~ Overlooked => ~ Overlooked']_viewVars

\* The live view settles on the saved text: when the writer has ended, the page comes to
\* show every piece once and in order, whatever was lost with a connection, sent twice, or
\* overwritten by an answer of an earlier refresh -- unless an event of the pipeline is
\* overlooked: it was not handled and is no longer on its way (ids that became visible out
\* of order, the gap between the first refresh and the first event list, a list fetched
\* again that moves the cursor past what the connection has not sent).
WriterDone == pipeTx.ended /\ pipeTx.event = 0
ViewSettles == <>[](Overlooked \/ (WriterDone => page.view = TextPieces(rowText)))
=============================================================================
