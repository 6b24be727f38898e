------------------------------ MODULE LivePage ------------------------------
(***************************************************************************)
(* A Run page that follows a run and the output of one step: PostgreSQL's  *)
(* notifications, the listener, the hub, one event stream (web.events) and *)
(* the browser (static/js/live.js).                                        *)
(*                                                                         *)
(* Notifications sent while the listener is not connected are lost, an     *)
(* inbox that is full loses them too, a stream that breaks loses what it   *)
(* had sent, and the page asks for itself again over another connection.   *)
(* The page must still show every change, and the step's output once and   *)
(* in order.                                                               *)
(*                                                                         *)
(* A chunk of output is its number.  Notices about other runs are filtered *)
(* out and not modelled; polls, retries and timeouts may come at any time. *)
(***************************************************************************)
EXTENDS LogFeed

CONSTANTS
  InboxSize,   \* of subscriber.notices: 32
  MaxChunks,   \* bound on stored chunks
  MaxChanges,  \* bound on changes of the run and its steps
  Faults,      \* which faults may happen
  MaxFaults    \* bound on faults

ASSUME LivePageConstantsOK ==
  /\ {InboxSize, MaxChunks, MaxChanges, MaxFaults} \subseteq Nat
  /\ InboxSize > 0
  /\ MaxChanges > 0   \* the run's end is one
  /\ Faults \subseteq {"listener", "stream", "refused", "fetch", "access"}

VARIABLES
  version,    \* how often the run or one of its steps has changed
  allowed,    \* the reader's session and access
  listening,  \* the LISTEN connection is up
  wire,       \* notifications on their way to the listener
  stream,     \* the server's side of the event stream
  events,     \* what it sent and the browser has not read
  page,       \* the browser's side
  faults

pageVars == <<log, running, version, allowed, listening, wire, stream, events, page, faults>>

Notices == {"log", "run", "any"}   \* any: the empty channel

Stream ==
  [ state  : {"closed", "starting", "open"},
    inbox  : UNION {[1 .. n -> Notices] : n \in 0 .. InboxSize},
    missed : BOOLEAN,
    after  : Nat ]          \* the last chunk sent, as a count

NoStream == [state |-> "closed", inbox |-> <<>>, missed |-> FALSE, after |-> 0]

\* "open" stands for the response's first bytes, which carry the first log
\* events too: the code flushes only after them.
Event == [type : {"open", "change", "log"}, chunk : Nat]

Page ==
  [ source    : {"connecting", "open", "retrying", "done"},
    shown     : Seq(Nat),   \* chunks shown, in the order they were added
    seen      : Nat,        \* the version that is shown
    pending   : BOOLEAN,    \* a refresh is scheduled
    fetching  : BOOLEAN,    \* refreshing
    answer    : {<<>>} \cup {<<v, r>> : v \in 0 .. MaxChanges, r \in BOOLEAN},  \* the fetched page
    dirty     : BOOLEAN,
    failed    : BOOLEAN ]   \* history: the last refresh ended without a page

\* The page, the stream and the queues between them have their types.
LiveTypeOK ==
  /\ log \in Seq(Nat) /\ running \in BOOLEAN /\ version \in 0 .. MaxChanges
  /\ allowed \in BOOLEAN /\ listening \in BOOLEAN
  /\ wire \in Seq(Notices)
  /\ stream \in Stream
  /\ events \in Seq(Event)
  /\ page \in Page
  /\ faults \in 0 .. MaxFaults

\* The page was rendered before anything was stored or changed.
LiveInit ==
  /\ FeedInit
  /\ version = 0 /\ allowed = TRUE
  /\ listening = TRUE /\ wire = <<>>
  /\ stream = NoStream /\ events = <<>>
  /\ page = [source |-> "connecting", shown |-> <<>>, seen |-> 0, pending |-> FALSE,
             fetching |-> FALSE, answer |-> <<>>, dirty |-> FALSE, failed |-> FALSE]
  /\ faults = 0

Fault(kind) == kind \in Faults /\ faults < MaxFaults /\ faults' = faults + 1

----------------------------------------------------------------------------
(* The database: each change commits with its notification.                *)

Notify(n) == wire' = IF listening THEN Append(wire, n) ELSE wire

\* AppendLog
AppendLog ==
  /\ Len(log) < MaxChunks
  /\ log' = Append(log, Len(log) + 1)
  /\ StoreChunk
  /\ Notify("log")
  /\ UNCHANGED <<version, allowed, listening, stream, events, page, faults>>

\* notify(NotifyChannel): a step starts or finishes.
RunChanges ==
  /\ running /\ version < MaxChanges - 1
  /\ version' = version + 1
  /\ Notify("run")
  /\ UNCHANGED <<feedVars, allowed, listening, stream, events, page, faults>>

\* Finish
FinishRun ==
  /\ EndRun
  /\ version' = version + 1
  /\ Notify("run")
  /\ UNCHANGED <<allowed, listening, stream, events, page, faults>>

\* The session ends or the reader loses the repository.
LoseAccess ==
  /\ allowed
  /\ Fault("access")
  /\ allowed' = FALSE
  /\ UNCHANGED <<feedVars, version, listening, wire, stream, events, page>>

----------------------------------------------------------------------------
(* DB.Listen and hub.publish.                                              *)

MutPublished(n) ==   \* mutant: the inbox is not bounded
  IF stream.state = "closed" THEN stream ELSE [stream EXCEPT !.inbox = Append(@, n)]

\* publish: a full inbox marks the stream instead.
Published(n) ==
  IF stream.state = "closed" THEN stream
  ELSE IF Len(stream.inbox) < InboxSize THEN [stream EXCEPT !.inbox = Append(@, n)]
  ELSE [stream EXCEPT !.missed = TRUE]

Deliver ==
  /\ wire # <<>>
  /\ wire' = Tail(wire)
  /\ stream' = Published(Head(wire))
  /\ UNCHANGED <<feedVars, version, allowed, listening, events, page, faults>>

ListenerFails ==
  /\ listening
  /\ Fault("listener")
  /\ listening' = FALSE /\ wire' = <<>>
  /\ UNCHANGED <<feedVars, version, allowed, stream, events, page>>

MutListenAgain ==   \* mutant: no catching up after LISTEN
  /\ ~listening
  /\ listening' = TRUE
  /\ UNCHANGED <<feedVars, version, allowed, wire, stream, events, page, faults>>

\* listenOnce: LISTEN is in place before notify("", "").
ListenAgain ==
  /\ ~listening
  /\ listening' = TRUE
  /\ stream' = Published("any")
  /\ UNCHANGED <<feedVars, version, allowed, wire, events, page, faults>>

----------------------------------------------------------------------------
(* web.events.                                                             *)

Change == <<[type |-> "change", chunk |-> 0]>>

\* sendLogs, batch after batch of selectLogChunks.
LogEvents ==
  [i \in 1 .. Len(log) - stream.after |-> [type |-> "log", chunk |-> log[stream.after + i]]]

Ended == stream' = NoStream

MutAccept ==   \* mutant: Last-Event-ID is not read
  /\ stream.state = "closed" /\ page.source = "connecting"
  /\ allowed
  /\ stream' = [NoStream EXCEPT !.state = "starting"]
  /\ UNCHANGED <<feedVars, version, allowed, listening, wire, events, page, faults>>

\* The handler of GET /events: it subscribes, then sends the output there is
\* before its first flush.  Without access it refuses.
Accept ==
  /\ stream.state = "closed" /\ page.source = "connecting"
  /\ allowed
  /\ stream' = [NoStream EXCEPT !.state = "starting", !.after = Len(page.shown)]
  /\ UNCHANGED <<feedVars, version, allowed, listening, wire, events, page, faults>>

Start ==
  /\ stream.state = "starting"
  /\ IF ~allowed THEN Ended /\ UNCHANGED events
     ELSE /\ stream' = [stream EXCEPT !.state = "open", !.after = Len(log)]
          /\ events' = events \o <<[type |-> "open", chunk |-> 0]>> \o LogEvents
  /\ UNCHANGED <<feedVars, version, allowed, listening, wire, page, faults>>

\* The next notice: run and any send a change, log and any the new output.
TakeNotice ==
  /\ stream.state = "open" /\ stream.inbox # <<>>
  /\ LET n == Head(stream.inbox)
     IN IF ~allowed THEN Ended /\ UNCHANGED events
        ELSE /\ stream' = [stream EXCEPT !.inbox = Tail(@),
                                         !.after = IF n = "run" THEN @ ELSE Len(log)]
             /\ events' = events \o (IF n = "log" THEN <<>> ELSE Change)
                                 \o (IF n = "run" THEN <<>> ELSE LogEvents)
  /\ UNCHANGED <<feedVars, version, allowed, listening, wire, page, faults>>

MutPollQuiet ==   \* mutant: a poll sends no output
  /\ stream.state = "open"
  /\ IF ~allowed THEN Ended /\ UNCHANGED events
     ELSE /\ stream' = [stream EXCEPT !.missed = FALSE]
          /\ events' = events \o (IF stream.missed THEN Change ELSE <<>>)
  /\ UNCHANGED <<feedVars, version, allowed, listening, wire, page, faults>>

\* poll.C
Poll ==
  /\ stream.state = "open"
  /\ IF ~allowed THEN Ended /\ UNCHANGED events
     ELSE /\ stream' = [stream EXCEPT !.missed = FALSE, !.after = Len(log)]
          /\ events' = events \o (IF stream.missed THEN Change ELSE <<>>) \o LogEvents
  /\ UNCHANGED <<feedVars, version, allowed, listening, wire, page, faults>>

\* liveLifetime, a restart or the network: what was on its way is lost.
StreamBreaks ==
  /\ stream.state # "closed"
  /\ Fault("stream")
  /\ Ended /\ events' = <<>>
  /\ UNCHANGED <<feedVars, version, allowed, listening, wire, page>>

----------------------------------------------------------------------------
(* live.js.                                                                *)

\* scheduleRefresh
Scheduled(p) == IF p.fetching THEN [p EXCEPT !.dirty = TRUE] ELSE [p EXCEPT !.pending = TRUE]

\* The listeners of the EventSource.
Receive ==
  /\ events # <<>> /\ page.source # "done"
  /\ events' = Tail(events)
  /\ LET e == Head(events)
     IN page' = CASE e.type = "open"   -> Scheduled([page EXCEPT !.source = "open"])
                  [] e.type = "change" -> Scheduled(page)
                  [] e.type = "log"    -> [page EXCEPT !.shown = Append(@, e.chunk)]
  /\ UNCHANGED <<feedVars, version, allowed, listening, wire, stream, faults>>

\* The browser notices that the stream is gone; retry: 3000.
Lost ==
  /\ stream.state = "closed" /\ events = <<>> /\ page.source = "open"
  /\ page' = [page EXCEPT !.source = "retrying"]
  /\ UNCHANGED <<feedVars, version, allowed, listening, wire, stream, events, faults>>

\* It asks again, with the last chunk it has as Last-Event-ID and "after".
Reconnect ==
  /\ page.source = "retrying"
  /\ page' = [page EXCEPT !.source = "connecting"]
  /\ UNCHANGED <<feedVars, version, allowed, listening, wire, stream, events, faults>>

\* The answer is not a stream (too many streams, a proxy's error, no access):
\* a new EventSource is opened after a while, and the page refreshed.
Refused ==
  /\ stream.state = "closed" /\ page.source = "connecting"
  /\ IF allowed THEN Fault("refused") ELSE UNCHANGED faults
  /\ page' = Scheduled([page EXCEPT !.source = "retrying"])
  /\ UNCHANGED <<feedVars, version, allowed, listening, wire, stream, events>>

\* refresh: the timer fires, the page is fetched,
Refresh ==
  /\ page.pending /\ page.source # "done"
  /\ page' = IF page.fetching THEN [page EXCEPT !.pending = FALSE, !.dirty = TRUE]
             ELSE [page EXCEPT !.pending = FALSE, !.fetching = TRUE, !.dirty = FALSE]
  /\ UNCHANGED <<feedVars, version, allowed, listening, wire, stream, events, faults>>

\* the server renders it,
Render ==
  /\ page.fetching /\ page.answer = <<>> /\ allowed
  /\ page' = [page EXCEPT !.answer = <<version, running>>]
  /\ UNCHANGED <<feedVars, version, allowed, listening, wire, stream, events, faults>>

\* and its regions are put in.  A finished run's page has no event stream.
Swap ==
  /\ page.answer # <<>>
  /\ LET p == [page EXCEPT !.seen = page.answer[1], !.fetching = FALSE, !.answer = <<>>,
                           !.failed = FALSE, !.pending = page.dirty, !.dirty = FALSE]
     IN IF page.answer[2]
        THEN page' = p /\ UNCHANGED <<stream, events>>
        ELSE page' = [p EXCEPT !.source = "done"] /\ Ended /\ events' = <<>>
  /\ UNCHANGED <<feedVars, version, allowed, listening, wire, faults>>

\* The fetch fails or is not answered in ten seconds, or signs the reader out.
FetchFails ==
  /\ page.fetching
  /\ IF allowed THEN Fault("fetch") ELSE UNCHANGED faults
  /\ page' = IF allowed
             THEN [page EXCEPT !.fetching = FALSE, !.answer = <<>>, !.failed = TRUE,
                               !.pending = page.dirty, !.dirty = FALSE]
             ELSE [page EXCEPT !.fetching = FALSE, !.answer = <<>>, !.source = "done"]
  /\ UNCHANGED <<feedVars, version, allowed, listening, wire, stream, events>>

----------------------------------------------------------------------------

LiveNext ==
  \/ AppendLog \/ RunChanges \/ FinishRun \/ LoseAccess
  \/ Deliver \/ ListenerFails \/ ListenAgain
  \/ Accept \/ Start \/ TakeNotice \/ Poll \/ StreamBreaks
  \/ Receive \/ Lost \/ Reconnect \/ Refused
  \/ Refresh \/ Render \/ Swap \/ FetchFails

\* The listener reconnects, the ticker polls, the browser retries; nothing
\* makes a run produce output or end.
LiveFairness ==
  /\ WF_pageVars(Deliver) /\ WF_pageVars(ListenAgain)
  /\ WF_pageVars(Accept) /\ WF_pageVars(Start) /\ WF_pageVars(TakeNotice) /\ WF_pageVars(Poll)
  /\ WF_pageVars(Receive) /\ WF_pageVars(Lost) /\ WF_pageVars(Reconnect)
  /\ WF_pageVars(Refresh) /\ WF_pageVars(Render) /\ WF_pageVars(Swap)

LiveSpec == LiveInit /\ [][LiveNext]_pageVars /\ LiveFairness

----------------------------------------------------------------------------
(* Properties.                                                             *)

\* The page shows the step's output from its beginning, each chunk once and
\* in order, through broken streams and resumed ones.
ShownInOrder ==
  /\ Len(page.shown) <= Len(log)
  /\ \A i \in DOMAIN page.shown : page.shown[i] = log[i]

LogPlaces == {i \in DOMAIN events : events[i].type = "log"}

\* Events on their way carry the chunks after those shown, in order and once,
\* up to the nth.
Continues(n) ==
  /\ Len(page.shown) <= n
  /\ \A i \in LogPlaces : events[i].chunk \in Len(page.shown) + 1 .. n
  /\ \A i, j \in LogPlaces : i < j => events[i].chunk < events[j].chunk
  /\ \A c \in Len(page.shown) + 1 .. n : \E i \in LogPlaces : events[i].chunk = c

\* They get to where an open stream has got (sendLogs' after); a stream that
\* is accepted finds nothing of an earlier one on its way.
SentContinues ==
  /\ \E n \in 0 .. Len(log) : Continues(n) /\ (stream.state # "closed" => n = stream.after)
  /\ allowed /\ stream.state = "closed" => events = <<>>

\* Chunks are numbered from the first, and a running run has its end to come.
Numbered ==
  /\ \A i \in DOMAIN log : log[i] = i
  /\ running => version < MaxChanges

\* Streams and pages have their types, and output is shown once and in order,
\* as what is shown and what is on its way fit together.
PageSafe == LiveTypeOK /\ ShownInOrder /\ SentContinues /\ Numbered

\* Every change of the run reaches the page, though notifications are lost,
\* unless the page could not be fetched again or its reader lost access.
ChangesShown ==
  \A v \in 1 .. MaxChanges :
    (version >= v) ~> (page.seen >= v \/ page.failed \/ ~allowed)

\* Output is shown before long while the run lasts.
OutputShown ==
  \A n \in 1 .. MaxChunks :
    (Len(log) >= n) ~> (Len(page.shown) >= n \/ ~running \/ ~allowed)
=============================================================================
