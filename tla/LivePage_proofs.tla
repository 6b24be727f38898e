-------------------------- MODULE LivePage_proofs ---------------------------
(***************************************************************************)
(* Theorems about LivePage, for inboxes of any size, any amount of output  *)
(* and changes, and any faults.                                            *)
(***************************************************************************)
EXTENDS LivePage, SequenceTheorems, TLAPS

----------------------------------------------------------------------------
(* Events that continue what is shown.                                     *)

LogIn(ev) == {i \in 1 .. Len(ev) : ev[i].type = "log"}

\* ev carries the chunks after the kth, in order and once, up to the nth.
Fits(ev, k, n) ==
  /\ k <= n
  /\ \A i \in LogIn(ev) : ev[i].chunk \in k + 1 .. n
  /\ \A i, j \in LogIn(ev) : i < j => ev[i].chunk < ev[j].chunk
  /\ \A c \in k + 1 .. n : \E i \in LogIn(ev) : ev[i].chunk = c

\* What Continues says, of the events as they are.
LEMMA ContinuesFits ==
  ASSUME LiveTypeOK, NEW n
  PROVE  Continues(n) <=> Fits(events, Len(page.shown), n)
<1>1. DOMAIN events = 1 .. Len(events)
  BY LenProperties DEF LiveTypeOK
<1>. QED BY <1>1 DEF Continues, Fits, LogPlaces, LogIn

\* Nothing on its way is all there is to show.
LEMMA NothingFits == \A k \in Nat : Fits(<<>>, k, k)
BY DEF Fits, LogIn

\* Places and chunks are numbers.
LEMMA PlacesTyped ==
  ASSUME NEW ev \in Seq(Event), NEW i \in LogIn(ev)
  PROVE  i \in Nat /\ i \in 1 .. Len(ev) /\ ev[i].type = "log" /\ ev[i].chunk \in Nat
<1>1. i \in 1 .. Len(ev) /\ ev[i].type = "log"
  BY DEF LogIn
<1>2. ev[i] \in Event
  BY <1>1, ElementOfSeq
<1>. QED BY <1>1, <1>2 DEF Event

\* Adding at the end: what is added has the places after those there are.
LEMMA JoinPlaces ==
  ASSUME NEW ev \in Seq(Event), NEW X \in Seq(Event)
  PROVE  /\ ev \o X \in Seq(Event)
         /\ \A i \in LogIn(ev) : i \in LogIn(ev \o X) /\ (ev \o X)[i] = ev[i]
         /\ \A i \in LogIn(X) : i + Len(ev) \in LogIn(ev \o X) /\ (ev \o X)[i + Len(ev)] = X[i]
         /\ \A i \in LogIn(ev \o X) : \/ i \in LogIn(ev)
                                      \/ i - Len(ev) \in LogIn(X) /\ i > Len(ev)
<1> DEFINE J == ev \o X
           p == Len(ev)
           q == Len(X)
<1>1. /\ J \in Seq(Event) /\ p \in Nat /\ q \in Nat /\ Len(J) = p + q
      /\ \A i \in 1 .. p + q : J[i] = IF i <= p THEN ev[i] ELSE X[i - p]
  BY ConcatProperties, LenProperties
<1>2. /\ LogIn(ev) = {i \in 1 .. p : ev[i].type = "log"}
      /\ LogIn(X) = {i \in 1 .. q : X[i].type = "log"}
      /\ LogIn(J) = {i \in 1 .. p + q : J[i].type = "log"}
  BY <1>1 DEF LogIn
<1> HIDE DEF J, p, q
<1>3. \A i \in LogIn(ev) : i \in LogIn(J) /\ J[i] = ev[i]
  BY <1>1, <1>2
<1>4. \A i \in LogIn(X) : i + p \in LogIn(J) /\ J[i + p] = X[i]
  <2> SUFFICES ASSUME NEW i \in LogIn(X) PROVE i + p \in LogIn(J) /\ J[i + p] = X[i]
    OBVIOUS
  <2>1. i \in 1 .. q /\ i + p \in 1 .. p + q /\ ~(i + p <= p) /\ (i + p) - p = i
    BY <1>1, <1>2
  <2>2. J[i + p] = X[i]
    BY <1>1, <2>1
  <2>. QED BY <1>2, <2>1, <2>2
<1>5. \A i \in LogIn(J) : i \in LogIn(ev) \/ (i - p \in LogIn(X) /\ i > p)
  <2> SUFFICES ASSUME NEW i \in LogIn(J)
               PROVE  i \in LogIn(ev) \/ (i - p \in LogIn(X) /\ i > p)
    OBVIOUS
  <2>1. i \in 1 .. p + q /\ J[i].type = "log"
    BY <1>2
  <2>2. CASE i <= p
    BY <1>1, <1>2, <2>1, <2>2
  <2>3. CASE i > p
    <3>1. i - p \in 1 .. q /\ J[i] = X[i - p]
      BY <1>1, <2>1, <2>3
    <3>. QED BY <1>2, <2>1, <2>3, <3>1
  <2>. QED BY <1>1, <2>1, <2>2, <2>3
<1>. QED BY <1>1, <1>3, <1>4, <1>5 DEF J, p

\* Events that are not output leave what is on its way as it was.
LEMMA JoinOthers ==
  ASSUME NEW ev \in Seq(Event), NEW X \in Seq(Event), NEW k \in Nat, NEW n \in Nat,
         Fits(ev, k, n), LogIn(X) = {}
  PROVE  Fits(ev \o X, k, n)
<1> DEFINE J == ev \o X
<1>1. /\ \A i \in LogIn(ev) : i \in LogIn(J) /\ J[i] = ev[i]
      /\ \A i \in LogIn(J) : i \in LogIn(ev) \/ i - Len(ev) \in LogIn(X)
  BY JoinPlaces
<1> HIDE DEF J
<1>2. LogIn(J) = LogIn(ev) /\ \A i \in LogIn(ev) : J[i] = ev[i]
  BY <1>1
<1>3. Fits(J, k, n)
  BY <1>2 DEF Fits
<1>. QED BY <1>3 DEF J

\* What a batch of sendLogs adds continues what is on its way.
LEMMA JoinLogs ==
  ASSUME NEW ev \in Seq(Event), NEW L \in Seq(Event),
         NEW k \in Nat, NEW a \in Nat, NEW m \in Nat, a <= m, Fits(ev, k, a),
         Len(L) = m - a,
         \A i \in 1 .. m - a : L[i].type = "log" /\ L[i].chunk = a + i
  PROVE  Fits(ev \o L, k, m)
<1> DEFINE J == ev \o L
           p == Len(ev)
<1>1. /\ J \in Seq(Event) /\ p \in Nat
      /\ \A i \in LogIn(ev) : i \in LogIn(J) /\ J[i] = ev[i]
      /\ \A i \in LogIn(L) : i + p \in LogIn(J) /\ J[i + p] = L[i]
      /\ \A i \in LogIn(J) : i \in LogIn(ev) \/ (i - p \in LogIn(L) /\ i > p)
  BY JoinPlaces, LenProperties
<1>2. LogIn(L) = 1 .. m - a
  BY DEF LogIn
<1>3. \A i \in LogIn(ev) : i \in 1 .. p /\ ev[i].chunk \in Nat
  BY PlacesTyped
<1> HIDE DEF J, p
<1>4. \A i \in LogIn(ev) : ev[i].chunk \in k + 1 .. a
  BY DEF Fits
<1>5. \A i \in LogIn(J) :
        \/ i \in LogIn(ev) /\ i \in 1 .. p /\ J[i] = ev[i] /\ J[i].chunk \in k + 1 .. a
        \/ i - p \in 1 .. m - a /\ i > p /\ i \in Nat /\ J[i].chunk = a + (i - p)
  <2> SUFFICES ASSUME NEW i \in LogIn(J), i \notin LogIn(ev)
               PROVE  i - p \in 1 .. m - a /\ i > p /\ i \in Nat /\ J[i].chunk = a + (i - p)
    BY <1>1, <1>3, <1>4
  <2>1. i - p \in 1 .. m - a /\ i > p /\ i \in Nat
    BY <1>1, <1>2, PlacesTyped
  <2>2. (i - p) + p = i
    BY <1>1, <2>1
  <2>3. J[i] = L[i - p]
    BY <1>1, <1>2, <2>1, <2>2
  <2>. QED BY <2>1, <2>3
<1>6. k <= a
  BY DEF Fits
<1>7. \A i \in LogIn(J) : J[i].chunk \in k + 1 .. m
  <2> SUFFICES ASSUME NEW i \in LogIn(J) PROVE J[i].chunk \in k + 1 .. m
    OBVIOUS
  <2> DEFINE c == J[i].chunk
  <2>1. c \in k + 1 .. a \/ (c = a + (i - p) /\ i - p \in 1 .. m - a)
    BY <1>5
  <2> HIDE DEF c
  <2>2. c \in k + 1 .. m
    BY <1>1, <1>6, <2>1
  <2>. QED BY <2>2 DEF c
<1>8. \A i, j \in LogIn(J) : i < j => J[i].chunk < J[j].chunk
  <2> SUFFICES ASSUME NEW i \in LogIn(J), NEW j \in LogIn(J), i < j
               PROVE  J[i].chunk < J[j].chunk
    OBVIOUS
  <2> DEFINE c == J[i].chunk
             d == J[j].chunk
  <2>1. CASE i \in LogIn(ev) /\ j \in LogIn(ev) /\ J[i] = ev[i] /\ J[j] = ev[j]
    BY <2>1 DEF Fits
  <2>2. CASE i \in LogIn(ev) /\ c \in k + 1 .. a /\ d = a + (j - p) /\ j - p \in 1 .. m - a
    <3> HIDE DEF c, d
    <3>1. c < d
      BY <2>2, <1>1
    <3>. QED BY <3>1 DEF c, d
  <2>3. CASE i > p /\ i - p \in 1 .. m - a /\ c = a + (i - p) /\ i \in Nat
    <3>1. j \in Nat
      BY PlacesTyped, <1>1
    <3>2. j - p \in 1 .. m - a /\ d = a + (j - p)
      BY <1>1, <1>5, <2>3, <3>1
    <3> HIDE DEF c, d
    <3>3. c < d
      BY <1>1, <2>3, <3>1, <3>2
    <3>. QED BY <3>3 DEF c, d
  <2>. QED BY <1>5, <2>1, <2>2, <2>3
<1>9. \A c \in k + 1 .. m : \E i \in LogIn(J) : J[i].chunk = c
  <2> SUFFICES ASSUME NEW c \in k + 1 .. m PROVE \E i \in LogIn(J) : J[i].chunk = c
    OBVIOUS
  <2>1. CASE c <= a
    <3>1. c \in k + 1 .. a
      BY <2>1
    <3>2. PICK i \in LogIn(ev) : ev[i].chunk = c
      BY <3>1 DEF Fits
    <3>. QED BY <1>1, <3>2
  <2>2. CASE c > a
    <3>1. c - a \in 1 .. m - a /\ a + (c - a) = c
      BY <2>2
    <3>2. (c - a) + p \in LogIn(J) /\ J[(c - a) + p] = L[c - a]
      BY <1>1, <1>2, <3>1
    <3>3. L[c - a].chunk = c
      BY <3>1
    <3>. QED BY <3>2, <3>3
  <2>. QED BY <2>1, <2>2
<1>10. k <= m
  BY <1>6
<1>11. Fits(J, k, m)
  BY <1>7, <1>8, <1>9, <1>10 DEF Fits
<1>. QED BY <1>11 DEF J

\* The event that arrives first is the next chunk, if it is output.
LEMMA HeadFits ==
  ASSUME NEW ev \in Seq(Event), ev # <<>>, NEW k \in Nat, NEW n \in Nat, Fits(ev, k, n)
  PROVE  /\ Tail(ev) \in Seq(Event) /\ Head(ev) \in Event
         /\ Head(ev).type # "log" => Fits(Tail(ev), k, n)
         /\ Head(ev).type = "log" => Head(ev).chunk = k + 1 /\ Fits(Tail(ev), k + 1, n)
<1> DEFINE T == Tail(ev)
<1>1. /\ T \in Seq(Event) /\ Len(ev) \in Nat /\ Len(ev) > 0 /\ Head(ev) \in Event
      /\ Len(T) = Len(ev) - 1 /\ Head(ev) = ev[1]
      /\ \A i \in 1 .. Len(ev) - 1 : T[i] = ev[i + 1]
  BY HeadTailProperties, LenProperties, EmptySeq
<1> HIDE DEF T
<1>2. \A i \in LogIn(T) : i \in Nat /\ i + 1 \in LogIn(ev) /\ T[i] = ev[i + 1]
  BY <1>1 DEF LogIn
<1>3. \A j \in LogIn(ev) : j \in Nat /\ (j # 1 => j - 1 \in LogIn(T) /\ T[j - 1] = ev[j])
  <2> SUFFICES ASSUME NEW j \in LogIn(ev)
               PROVE  j \in Nat /\ (j # 1 => j - 1 \in LogIn(T) /\ T[j - 1] = ev[j])
    OBVIOUS
  <2>1. j \in 1 .. Len(ev) /\ ev[j].type = "log"
    BY DEF LogIn
  <2>2. ASSUME j # 1 PROVE j - 1 \in 1 .. Len(ev) - 1 /\ T[j - 1] = ev[j]
    <3>1. j - 1 \in 1 .. Len(ev) - 1 /\ (j - 1) + 1 = j
      BY <1>1, <2>1, <2>2
    <3>. QED BY <1>1, <3>1
  <2>. QED BY <1>1, <2>1, <2>2 DEF LogIn
<1>4. \A i, j \in LogIn(ev) : i < j => ev[i].chunk < ev[j].chunk
  BY DEF Fits
<1>5. \A i, j \in LogIn(T) : i < j => T[i].chunk < T[j].chunk
  <2> SUFFICES ASSUME NEW i \in LogIn(T), NEW j \in LogIn(T), i < j
               PROVE  T[i].chunk < T[j].chunk
    OBVIOUS
  <2>1. i + 1 \in LogIn(ev) /\ j + 1 \in LogIn(ev) /\ i + 1 < j + 1
    BY <1>2
  <2>2. ev[i + 1].chunk < ev[j + 1].chunk
    BY <1>4, <2>1
  <2>. QED BY <1>2, <2>2
<1>6. CASE Head(ev).type # "log"
  <2>1. 1 \notin LogIn(ev)
    BY <1>1, <1>6 DEF LogIn
  <2>2. \A i \in LogIn(T) : T[i].chunk \in k + 1 .. n
    BY <1>2 DEF Fits
  <2>3. ASSUME NEW c \in k + 1 .. n PROVE \E i \in LogIn(T) : T[i].chunk = c
    <3>1. PICK j \in LogIn(ev) : ev[j].chunk = c
      BY DEF Fits
    <3>2. j # 1
      BY <2>1
    <3>. QED BY <1>3, <3>1, <3>2
  <2>4. k <= n
    BY DEF Fits
  <2>5. Fits(T, k, n)
    BY <1>5, <2>2, <2>3, <2>4 DEF Fits
  <2>. QED BY <1>1, <1>6, <2>5 DEF T
<1>7. CASE Head(ev).type = "log"
  <2>1. 1 \in LogIn(ev)
    BY <1>1, <1>7 DEF LogIn
  <2>2. ev[1].chunk \in k + 1 .. n
    BY <2>1 DEF Fits
  <2>3. k + 1 \in k + 1 .. n /\ k + 1 <= n
    BY <2>2
  <2>4. PICK i \in LogIn(ev) : ev[i].chunk = k + 1
    BY <2>3 DEF Fits
  <2>5. i \in Nat /\ i >= 1
    BY PlacesTyped
  <2>6. i = 1
    <3> SUFFICES ASSUME i # 1 PROVE FALSE
      OBVIOUS
    <3>1. 1 < i
      BY <2>5
    <3>2. ev[1].chunk < k + 1
      BY <1>4, <2>1, <2>4, <3>1
    <3>. QED BY <2>2, <3>2
  <2>7. ASSUME NEW j \in LogIn(T) PROVE T[j].chunk \in k + 2 .. n
    <3>1. j + 1 \in LogIn(ev) /\ 1 < j + 1 /\ T[j] = ev[j + 1]
      BY <1>2, PlacesTyped, <1>1
    <3>2. ev[1].chunk < ev[j + 1].chunk /\ ev[j + 1].chunk \in k + 1 .. n
      BY <1>4, <2>1, <3>1 DEF Fits
    <3>3. k + 1 < T[j].chunk /\ T[j].chunk \in k + 1 .. n
      BY <2>4, <2>6, <3>1, <3>2
    <3> DEFINE c == T[j].chunk
    <3> HIDE DEF c
    <3>4. k + 1 < c /\ c \in k + 1 .. n
      BY <3>3 DEF c
    <3>5. c \in k + 2 .. n
      BY <3>4
    <3>. QED BY <3>5 DEF c
  <2>8. ASSUME NEW c \in k + 2 .. n PROVE \E j \in LogIn(T) : T[j].chunk = c
    <3>1. c \in k + 1 .. n /\ c # k + 1
      OBVIOUS
    <3>2. PICK j \in LogIn(ev) : ev[j].chunk = c
      BY <3>1 DEF Fits
    <3>3. j # 1
      BY <2>4, <2>6, <3>1, <3>2
    <3>. QED BY <1>3, <3>2, <3>3
  <2>9. (k + 1) + 1 = k + 2
    OBVIOUS
  <2>10. Fits(T, k + 1, n)
    BY <1>5, <2>3, <2>7, <2>8, <2>9 DEF Fits
  <2>. QED BY <1>1, <1>7, <2>4, <2>6, <2>10 DEF T
<1>. QED BY <1>6, <1>7

----------------------------------------------------------------------------
(* Types.                                                                  *)

\* A function on the first n numbers is a sequence.
LEMMA CountedSeq == ASSUME NEW S, NEW n \in Nat, NEW f \in [1 .. n -> S]
                    PROVE  f \in Seq(S) /\ Len(f) = n
OBVIOUS

Sources == {"connecting", "open", "retrying", "done"}
Answers == {<<>>} \cup {<<v, r>> : v \in 0 .. MaxChanges, r \in BOOLEAN}

\* A page whose texts and answers come from Q and A.
PageOf(S, Q, A) ==
  [source : S, shown : Q, seen : Nat, pending : BOOLEAN, fetching : BOOLEAN, answer : A,
   dirty : BOOLEAN, failed : BOOLEAN]

\* What a page is.
LEMMA PageIs == Page = PageOf(Sources, Seq(Nat), Answers)
BY DEF Page, PageOf, Sources, Answers

\* What is shown.
LEMMA ShownTyped ==
  ASSUME NEW p \in Page
  PROVE  p.shown \in Seq(Nat) /\ Len(p.shown) \in Nat
BY PageIs, LenProperties DEF PageOf

\* More of it.
LEMMA ShownMore ==
  ASSUME page \in Page, NEW c \in Nat, page' = [page EXCEPT !.shown = Append(@, c)]
  PROVE  page' \in Page /\ page'.shown = Append(page.shown, c)
<1> DEFINE q == Append(page.shown, c)
<1>1. q \in Seq(Nat) /\ page \in PageOf(Sources, Seq(Nat), Answers)
  BY PageIs, ShownTyped, AppendProperties
<1>2. page' = [page EXCEPT !.shown = q]
  OBVIOUS
<1> HIDE DEF q
<1>3. page' \in PageOf(Sources, Seq(Nat), Answers) /\ page'.shown = q
  BY <1>1, <1>2 DEF PageOf
<1>. QED BY <1>3, PageIs DEF q

\* scheduleRefresh shows nothing.
LEMMA ScheduledTyped ==
  ASSUME NEW p \in Page
  PROVE  Scheduled(p) \in Page /\ Scheduled(p).shown = p.shown
<1>1. \/ Scheduled(p) = [p EXCEPT !.dirty = TRUE]
      \/ Scheduled(p) = [p EXCEPT !.pending = TRUE]
  BY Zenon DEF Scheduled
<1>2. p \in PageOf(Sources, Seq(Nat), Answers)
  BY PageIs
<1>3. /\ [p EXCEPT !.dirty = TRUE] \in PageOf(Sources, Seq(Nat), Answers)
      /\ [p EXCEPT !.dirty = TRUE].shown = p.shown
  BY <1>2 DEF PageOf
<1>4. /\ [p EXCEPT !.pending = TRUE] \in PageOf(Sources, Seq(Nat), Answers)
      /\ [p EXCEPT !.pending = TRUE].shown = p.shown
  BY <1>2 DEF PageOf
<1>. QED BY <1>1, <1>3, <1>4, PageIs

\* Inboxes.
LEMMA InboxTyped ==
  ASSUME NEW s \in Stream
  PROVE  /\ s.inbox \in Seq(Notices) /\ Len(s.inbox) \in 0 .. InboxSize
         /\ s.after \in Nat /\ s.state \in {"closed", "starting", "open"} /\ s.missed \in BOOLEAN
<1>1. PICK n \in 0 .. InboxSize : s.inbox \in [1 .. n -> Notices]
  BY DEF Stream
<1>2. n \in Nat /\ InboxSize \in Nat
  BY LivePageConstantsOK
<1>. QED BY <1>1, <1>2, CountedSeq DEF Stream

\* A sequence of notices that fits is an inbox.
LEMMA InboxFits ==
  ASSUME NEW q \in Seq(Notices), Len(q) <= InboxSize
  PROVE  q \in UNION {[1 .. n -> Notices] : n \in 0 .. InboxSize}
<1>1. q \in [1 .. Len(q) -> Notices] /\ Len(q) \in Nat
  BY LenProperties
<1>2. Len(q) \in 0 .. InboxSize
  BY <1>1, LivePageConstantsOK
<1>. QED BY <1>1, <1>2

\* publish keeps the inbox within its size, and touches nothing else.
LEMMA PublishedTyped ==
  ASSUME stream \in Stream, NEW n \in Notices
  PROVE  /\ Published(n) \in Stream
         /\ Published(n).state = stream.state /\ Published(n).after = stream.after
<1>1. CASE stream.state # "closed" /\ Len(stream.inbox) < InboxSize
  <2>1. /\ Append(stream.inbox, n) \in Seq(Notices)
        /\ Len(Append(stream.inbox, n)) = Len(stream.inbox) + 1
    BY InboxTyped, AppendProperties
  <2>2. Len(Append(stream.inbox, n)) <= InboxSize
    BY <1>1, <2>1, InboxTyped, LivePageConstantsOK
  <2> DEFINE q == Append(stream.inbox, n)
  <2>3. q \in UNION {[1 .. m -> Notices] : m \in 0 .. InboxSize}
    BY <2>1, <2>2, InboxFits
  <2>4. Published(n) = [stream EXCEPT !.inbox = q]
    BY <1>1 DEF Published
  <2> HIDE DEF q
  <2>. QED BY <2>3, <2>4 DEF Stream
<1>2. CASE ~(stream.state # "closed" /\ Len(stream.inbox) < InboxSize)
  BY <1>2 DEF Published, Stream
<1>. QED BY <1>1, <1>2

\* No stream is a stream.
LEMMA NoStreamTyped == NoStream \in Stream /\ NoStream.state = "closed" /\ NoStream.after = 0
<1>1. <<>> \in UNION {[1 .. m -> Notices] : m \in 0 .. InboxSize}
  BY InboxFits, EmptySeq, LivePageConstantsOK
<1>. QED BY <1>1 DEF NoStream, Stream

\* A stream that is accepted.
LEMMA StreamBegins ==
  ASSUME NEW k \in Nat, stream' = [NoStream EXCEPT !.state = "starting", !.after = k]
  PROVE  stream' \in Stream /\ stream'.state = "starting" /\ stream'.after = k
BY NoStreamTyped DEF NoStream, Stream

\* The next batch of output.
LEMMA BatchTyped ==
  ASSUME LiveTypeOK, Numbered, stream.after <= Len(log)
  PROVE  /\ LogEvents \in Seq(Event) /\ Len(LogEvents) = Len(log) - stream.after
         /\ \A i \in 1 .. Len(log) - stream.after :
              LogEvents[i].type = "log" /\ LogEvents[i].chunk = stream.after + i
<1> DEFINE a == stream.after
           n == Len(log)
<1>1. a \in Nat /\ n \in Nat /\ n - a \in Nat /\ DOMAIN log = 1 .. n
  BY InboxTyped, LenProperties DEF LiveTypeOK
<1>2. \A i \in 1 .. n - a : a + i \in 1 .. n
  BY <1>1
<1>3. \A i \in 1 .. n - a : log[a + i] = a + i /\ a + i \in Nat
  BY <1>1, <1>2 DEF Numbered
<1>4. LogEvents \in [1 .. n - a -> Event]
  BY <1>3 DEF LogEvents, Event
<1>5. LogEvents \in Seq(Event) /\ Len(LogEvents) = n - a
  BY <1>1, <1>4, CountedSeq
<1>6. \A i \in 1 .. n - a : LogEvents[i].type = "log" /\ LogEvents[i].chunk = a + i
  BY <1>3 DEF LogEvents
<1>. QED BY <1>5, <1>6

\* An open event or a change is no output.
LEMMA NoOutput ==
  /\ Change \in Seq(Event) /\ LogIn(Change) = {}
  /\ <<[type |-> "open", chunk |-> 0]>> \in Seq(Event)
  /\ LogIn(<<[type |-> "open", chunk |-> 0]>>) = {}
  /\ <<>> \in Seq(Event) /\ LogIn(<<>>) = {}
BY DEF Change, LogIn, Event

----------------------------------------------------------------------------
(* The parts of the invariant that a step leaves alone.                    *)

\* The events on their way get to the nth chunk, where an open stream is.
Sent(n) == Fits(events, Len(page.shown), n) /\ (stream.state # "closed" => n = stream.after)

\* What the invariant says of them.
LEMMA SentFits ==
  ASSUME PageSafe
  PROVE  /\ \E n \in 0 .. Len(log) : Sent(n)
         /\ allowed /\ stream.state = "closed" => events = <<>>
         /\ LiveTypeOK /\ Len(log) \in Nat /\ Len(page.shown) \in Nat
         /\ events \in Seq(Event) /\ stream \in Stream /\ stream.after \in Nat /\ page \in Page
<1>1. LiveTypeOK /\ SentContinues
  BY DEF PageSafe
<1>2. \A n : Continues(n) <=> Fits(events, Len(page.shown), n)
  BY <1>1, ContinuesFits
<1>3. Len(log) \in Nat /\ Len(page.shown) \in Nat /\ stream.after \in Nat
  BY <1>1, LenProperties, ShownTyped, InboxTyped DEF LiveTypeOK
<1>. QED BY <1>1, <1>2, <1>3 DEF SentContinues, LiveTypeOK, Sent

\* And of those that will be.
LEMMA FitsSent ==
  ASSUME LiveTypeOK', NEW n \in 0 .. Len(log'), Fits(events', Len(page'.shown), n),
         stream'.state # "closed" => n = stream'.after,
         allowed' /\ stream'.state = "closed" => events' = <<>>
  PROVE  SentContinues'
<1>1. DOMAIN events' = 1 .. Len(events')
  BY LenProperties DEF LiveTypeOK
<1>2. Continues(n)'
  BY <1>1 DEF Continues, Fits, LogPlaces, LogIn
<1>. QED BY <1>2 DEF SentContinues

\* A step that neither sends nor shows output.
LEMMA QuietStep ==
  ASSUME PageSafe, LiveTypeOK', UNCHANGED <<log, events>>, page'.shown = page.shown,
         running' => running /\ version' < MaxChanges,
         stream'.state = stream.state, stream'.after = stream.after,
         allowed' => allowed
  PROVE  PageSafe'
<1>1. PICK n \in 0 .. Len(log) : Sent(n)
  BY SentFits
<1>2. SentContinues'
  <2>1. n \in 0 .. Len(log') /\ Fits(events', Len(page'.shown), n)
        /\ (stream'.state # "closed" => n = stream'.after)
    BY <1>1 DEF Sent
  <2>2. allowed' /\ stream'.state = "closed" => events' = <<>>
    BY SentFits
  <2>. QED BY <2>1, <2>2, FitsSent
<1>3. ShownInOrder'
  BY DEF ShownInOrder, PageSafe
<1>4. Numbered'
  BY DEF Numbered, PageSafe
<1>. QED BY <1>2, <1>3, <1>4 DEF PageSafe

\* A step that ends the stream and clears what it had sent, or ends it for a
\* reader without access.
LEMMA EndingStep ==
  ASSUME PageSafe, LiveTypeOK', UNCHANGED <<log, running, version, allowed>>,
         page'.shown = page.shown, stream' = NoStream,
         events' = <<>> \/ (events' = events /\ ~allowed)
  PROVE  PageSafe'
<1>1. PICK n \in 0 .. Len(log) : Sent(n)
  BY SentFits
<1>2. Len(page.shown) <= Len(log) /\ Len(page.shown) \in Nat /\ Len(log) \in Nat
  BY SentFits DEF PageSafe, ShownInOrder
<1>3. SentContinues'
  <2>1. CASE events' = <<>>
    <3>1. Len(page.shown) \in 0 .. Len(log') /\ Fits(events', Len(page'.shown), Len(page.shown))
      BY <1>2, <2>1, NothingFits
    <3>. QED BY <2>1, <3>1, NoStreamTyped, FitsSent
  <2>2. CASE events' = events /\ ~allowed
    BY <1>1, <2>2, NoStreamTyped, FitsSent DEF Sent
  <2>. QED BY <2>1, <2>2
<1>4. ShownInOrder' /\ Numbered'
  BY DEF ShownInOrder, Numbered, PageSafe
<1>. QED BY <1>3, <1>4 DEF PageSafe

\* A step of an open or starting stream that sends events and, after them, the
\* output there is, or none.
LEMMA SendingStep ==
  ASSUME PageSafe, stream.state # "closed", NEW X \in Seq(Event), LogIn(X) = {},
         UNCHANGED <<log, running, version, allowed, page>>, stream'.state = "open",
         wire' \in Seq(Notices), stream' \in Stream, faults' \in 0 .. MaxFaults,
         UNCHANGED listening,
         \/ events' = events \o X \o LogEvents /\ stream'.after = Len(log)
         \/ events' = events \o X /\ stream'.after = stream.after
  PROVE  PageSafe'
<1>0. PICK n \in 0 .. Len(log) : Sent(n)
  BY SentFits
<1>1. Fits(events, Len(page.shown), n) /\ n = stream.after
  BY <1>0 DEF Sent
<1>2. /\ Len(page.shown) \in Nat /\ Len(log) \in Nat /\ stream.after \in Nat
      /\ stream.after <= Len(log) /\ events \in Seq(Event) /\ LiveTypeOK /\ Numbered
  BY <1>1, SentFits DEF PageSafe
<1>3. /\ events \o X \in Seq(Event)
      /\ Fits(events \o X, Len(page.shown), stream.after)
  BY <1>1, <1>2, JoinPlaces, JoinOthers
<1>4. /\ LogEvents \in Seq(Event) /\ Len(LogEvents) = Len(log) - stream.after
      /\ \A i \in 1 .. Len(log) - stream.after :
           LogEvents[i].type = "log" /\ LogEvents[i].chunk = stream.after + i
  BY <1>2, BatchTyped
<1>5. /\ events \o X \o LogEvents \in Seq(Event)
      /\ Fits(events \o X \o LogEvents, Len(page.shown), Len(log))
  <2> HIDE DEF LogEvents
  <2> DEFINE ev == events \o X
  <2>1. ev \in Seq(Event) /\ Fits(ev, Len(page.shown), stream.after)
    BY <1>3
  <2> HIDE DEF ev
  <2>2. ev \o LogEvents \in Seq(Event) /\ Fits(ev \o LogEvents, Len(page.shown), Len(log))
    BY <1>2, <1>4, <2>1, JoinPlaces, JoinLogs
  <2>. QED BY <2>2 DEF ev
<1>6. LiveTypeOK'
  BY <1>2, <1>3, <1>5 DEF LiveTypeOK
<1>7. SentContinues'
  <2>1. CASE events' = events \o X \o LogEvents /\ stream'.after = Len(log)
    <3>1. Len(log) \in 0 .. Len(log') /\ Fits(events', Len(page'.shown), Len(log))
      BY <1>2, <1>5, <2>1
    <3>. QED BY <1>6, <2>1, <3>1, FitsSent
  <2>2. CASE events' = events \o X /\ stream'.after = stream.after
    <3>1. n \in 0 .. Len(log') /\ Fits(events', Len(page'.shown), n)
      BY <1>1, <1>2, <1>3, <2>2
    <3>. QED BY <1>1, <1>6, <2>2, <3>1, FitsSent
  <2>. QED BY <2>1, <2>2
<1>8. ShownInOrder' /\ Numbered'
  BY DEF ShownInOrder, Numbered, PageSafe
<1>. QED BY <1>6, <1>7, <1>8 DEF PageSafe

----------------------------------------------------------------------------
(* The database and the listener.                                          *)

\* A notification is on its way if somebody listens.
LEMMA NotifyTyped ==
  ASSUME wire \in Seq(Notices), NEW n \in Notices, Notify(n)
  PROVE  wire' \in Seq(Notices)
BY AppendProperties DEF Notify

\* A chunk is stored behind the others.
LEMMA AppendLogStep ==
  ASSUME PageSafe, AppendLog
  PROVE  PageSafe'
<1> DEFINE k == Len(log)
<1>1. /\ LiveTypeOK /\ log \in Seq(Nat) /\ k \in Nat /\ DOMAIN log = 1 .. k
      /\ wire \in Seq(Notices) /\ "log" \in Notices
  BY LenProperties DEF PageSafe, LiveTypeOK, Notices
<1>2. /\ log' = Append(log, k + 1) /\ running' = running
      /\ UNCHANGED <<version, allowed, listening, stream, events, page, faults>>
      /\ Notify("log")
  BY DEF AppendLog, StoreChunk
<1>3. /\ log' \in Seq(Nat) /\ Len(log') = k + 1 /\ DOMAIN log' = 1 .. k + 1
      /\ \A i \in 1 .. k : log'[i] = log[i]
      /\ log'[k + 1] = k + 1
  BY <1>1, <1>2, AppendProperties, LenProperties
<1> HIDE DEF k
<1>4. LiveTypeOK'
  BY <1>1, <1>2, <1>3, NotifyTyped DEF LiveTypeOK
<1>5. Numbered'
  BY <1>1, <1>2, <1>3 DEF Numbered, PageSafe
<1>6. ShownInOrder'
  <2>1. Len(page.shown) \in Nat /\ DOMAIN page.shown = 1 .. Len(page.shown)
    BY <1>1, ShownTyped, LenProperties DEF LiveTypeOK
  <2>2. Len(page.shown) <= k /\ \A i \in DOMAIN page.shown : page.shown[i] = log[i]
    BY DEF ShownInOrder, PageSafe, k
  <2>3. \A i \in DOMAIN page.shown : i \in 1 .. k
    BY <1>1, <2>1, <2>2
  <2>4. Len(page.shown) <= k + 1 /\ \A i \in DOMAIN page.shown : page.shown[i] = log'[i]
    BY <1>1, <1>3, <2>1, <2>2, <2>3
  <2>. QED BY <1>2, <1>3, <2>4 DEF ShownInOrder
<1>7. SentContinues'
  <2>1. PICK n \in 0 .. Len(log) : Sent(n)
    BY SentFits
  <2>2. n \in 0 .. Len(log')
    BY <1>1, <1>3 DEF k
  <2>3. Fits(events', Len(page'.shown), n) /\ (stream'.state # "closed" => n = stream'.after)
    BY <1>2, <2>1 DEF Sent
  <2>4. allowed' /\ stream'.state = "closed" => events' = <<>>
    BY <1>2, SentFits
  <2>. QED BY <1>4, <2>2, <2>3, <2>4, FitsSent
<1>. QED BY <1>4, <1>5, <1>6, <1>7 DEF PageSafe

\* The run and its reader change; notifications come and go.
LEMMA ServerStep ==
  ASSUME PageSafe,
         RunChanges \/ FinishRun \/ LoseAccess \/ Deliver \/ ListenerFails \/ ListenAgain
  PROVE  PageSafe'
<1>1. /\ LiveTypeOK /\ Numbered /\ wire \in Seq(Notices) /\ stream \in Stream
      /\ {"log", "run", "any"} \subseteq Notices
      /\ version \in 0 .. MaxChanges /\ MaxChanges \in Nat /\ MaxFaults \in Nat
      /\ faults \in 0 .. MaxFaults
  BY LivePageConstantsOK DEF PageSafe, LiveTypeOK, Notices
<1>2. \A kind : Fault(kind) => faults' \in 0 .. MaxFaults
  BY <1>1 DEF Fault
<1>3. CASE RunChanges
  <2>1. version' = version + 1 /\ version < MaxChanges - 1 /\ version' \in 0 .. MaxChanges
        /\ version' < MaxChanges
    BY <1>1, <1>3 DEF RunChanges
  <2>2. wire' \in Seq(Notices)
    BY <1>1, <1>3, NotifyTyped DEF RunChanges
  <2>3. UNCHANGED <<log, running, allowed, listening, stream, events, page, faults>>
    BY <1>3 DEF RunChanges, feedVars
  <2>4. LiveTypeOK'
    BY <1>1, <2>1, <2>2, <2>3 DEF LiveTypeOK
  <2>. QED BY <2>1, <2>3, <2>4, QuietStep
<1>4. CASE FinishRun
  <2>1. running /\ running' = FALSE /\ version' = version + 1 /\ version < MaxChanges
        /\ version' \in 0 .. MaxChanges
    BY <1>1, <1>4 DEF FinishRun, EndRun, Numbered
  <2>2. wire' \in Seq(Notices)
    BY <1>1, <1>4, NotifyTyped DEF FinishRun
  <2>3. UNCHANGED <<log, allowed, listening, stream, events, page, faults>>
    BY <1>4 DEF FinishRun, EndRun
  <2>4. LiveTypeOK'
    BY <1>1, <2>1, <2>2, <2>3 DEF LiveTypeOK
  <2>. QED BY <2>1, <2>3, <2>4, QuietStep
<1>5. CASE LoseAccess
  <2>1. /\ UNCHANGED <<log, running, version, listening, wire, stream, events, page>>
        /\ allowed /\ allowed' = FALSE /\ faults' \in 0 .. MaxFaults
    BY <1>2, <1>5 DEF LoseAccess, feedVars
  <2>2. LiveTypeOK'
    <3>1. allowed' \in BOOLEAN
      BY <2>1
    <3>. QED BY <1>1, <2>1, <3>1, Zenon DEF LiveTypeOK
  <2>. QED BY <1>1, <2>1, <2>2, QuietStep DEF Numbered
<1>6. CASE Deliver
  <2>1. /\ UNCHANGED <<log, running, version, allowed, listening, events, page, faults>>
        /\ wire # <<>> /\ wire' = Tail(wire) /\ stream' = Published(Head(wire))
    BY <1>6 DEF Deliver, feedVars
  <2>2. Head(wire) \in Notices /\ wire' \in Seq(Notices)
    BY <1>1, <2>1, HeadTailProperties
  <2>3. stream' \in Stream /\ stream'.state = stream.state /\ stream'.after = stream.after
    BY <1>1, <2>1, <2>2, PublishedTyped
  <2>4. LiveTypeOK'
    BY <1>1, <2>1, <2>2, <2>3 DEF LiveTypeOK
  <2>. QED BY <1>1, <2>1, <2>3, <2>4, QuietStep DEF Numbered
<1>7. CASE ListenerFails
  <2>1. /\ UNCHANGED <<log, running, version, allowed, stream, events, page>>
        /\ listening' = FALSE /\ wire' = <<>> /\ faults' \in 0 .. MaxFaults
    BY <1>2, <1>7 DEF ListenerFails, feedVars
  <2>2. LiveTypeOK'
    <3>1. wire' \in Seq(Notices) /\ listening' \in BOOLEAN
      BY <2>1, EmptySeq
    <3>. QED BY <1>1, <2>1, <3>1 DEF LiveTypeOK
  <2>. QED BY <1>1, <2>1, <2>2, QuietStep DEF Numbered
<1>8. CASE ListenAgain
  <2>1. /\ UNCHANGED <<log, running, version, allowed, wire, events, page, faults>>
        /\ listening' = TRUE /\ stream' = Published("any")
    BY <1>8 DEF ListenAgain, feedVars
  <2>2. stream' \in Stream /\ stream'.state = stream.state /\ stream'.after = stream.after
    BY <1>1, <2>1, PublishedTyped
  <2>3. LiveTypeOK'
    BY <1>1, <2>1, <2>2 DEF LiveTypeOK
  <2>. QED BY <1>1, <2>1, <2>2, <2>3, QuietStep DEF Numbered
<1>. QED BY <1>3, <1>4, <1>5, <1>6, <1>7, <1>8

----------------------------------------------------------------------------
(* The event stream.                                                       *)

\* A stream is resumed behind the last chunk that is shown.
LEMMA AcceptStep ==
  ASSUME PageSafe, Accept
  PROVE  PageSafe'
<1> DEFINE k == Len(page.shown)
<1>1. /\ stream' = [NoStream EXCEPT !.state = "starting", !.after = k]
      /\ stream.state = "closed" /\ allowed
      /\ UNCHANGED <<log, running, version, allowed, listening, wire, events, page, faults>>
  BY DEF Accept, feedVars
<1>2. k \in Nat /\ k <= Len(log) /\ Len(log) \in Nat /\ LiveTypeOK /\ events = <<>>
  BY <1>1, SentFits DEF PageSafe, ShownInOrder
<1> HIDE DEF k
<1>3. stream' \in Stream /\ stream'.state = "starting" /\ stream'.after = k
  BY <1>1, <1>2, StreamBegins
<1>4. LiveTypeOK'
  BY <1>1, <1>2, <1>3 DEF LiveTypeOK
<1>5. k \in 0 .. Len(log') /\ Fits(events', Len(page'.shown), k)
  BY <1>1, <1>2, NothingFits DEF k
<1>6. SentContinues'
  BY <1>1, <1>2, <1>3, <1>4, <1>5, FitsSent
<1>. QED BY <1>1, <1>4, <1>6 DEF PageSafe, ShownInOrder, Numbered

\* What a stream that sends becomes.
LEMMA StreamSent ==
  ASSUME stream \in Stream, NEW k \in Nat,
         \/ stream' = [stream EXCEPT !.state = "open", !.after = k]
         \/ stream' = [stream EXCEPT !.missed = FALSE, !.after = k] /\ stream.state = "open"
         \/ /\ stream' = [stream EXCEPT !.inbox = Tail(@), !.after = k]
            /\ stream.state = "open" /\ stream.inbox # <<>>
  PROVE  stream' \in Stream /\ stream'.state = "open" /\ stream'.after = k
<1>1. CASE \/ stream' = [stream EXCEPT !.state = "open", !.after = k]
           \/ stream' = [stream EXCEPT !.missed = FALSE, !.after = k] /\ stream.state = "open"
  BY <1>1 DEF Stream
<1>2. CASE /\ stream' = [stream EXCEPT !.inbox = Tail(@), !.after = k]
           /\ stream.state = "open" /\ stream.inbox # <<>>
  <2> DEFINE q == Tail(stream.inbox)
  <2>1. q \in Seq(Notices) /\ Len(q) <= InboxSize
    BY <1>2, InboxTyped, HeadTailProperties, LivePageConstantsOK
  <2>2. q \in UNION {[1 .. m -> Notices] : m \in 0 .. InboxSize}
    BY <2>1, InboxFits
  <2>3. stream' = [stream EXCEPT !.inbox = q, !.after = k]
    BY <1>2
  <2> HIDE DEF q
  <2>. QED BY <1>2, <2>2, <2>3 DEF Stream
<1>. QED BY <1>1, <1>2

\* A stream that starts, takes a notice or polls sends what there is, if its
\* reader has access still.
LEMMA StreamStep ==
  ASSUME PageSafe, Start \/ TakeNotice \/ Poll
  PROVE  PageSafe'
<1>1. /\ LiveTypeOK /\ stream \in Stream /\ Len(log) \in Nat /\ stream.after \in Nat
      /\ events \in Seq(Event)
  BY SentFits
<1>2. UNCHANGED <<log, running, version, allowed, listening, wire, page, faults>>
  BY DEF Start, TakeNotice, Poll, feedVars
<1>3. stream.state # "closed"
  BY DEF Start, TakeNotice, Poll
<1>4. CASE ~allowed
  <2>1. stream' = NoStream /\ events' = events
    BY <1>4 DEF Start, TakeNotice, Poll, Ended
  <2>2. LiveTypeOK'
    BY <1>1, <1>2, <2>1, NoStreamTyped DEF LiveTypeOK
  <2>. QED BY <1>2, <1>4, <2>1, <2>2, EndingStep
<1>5. ASSUME NEW X \in Seq(Event), LogIn(X) = {}, stream'.state = "open", stream' \in Stream,
             \/ events' = events \o X \o LogEvents /\ stream'.after = Len(log)
             \/ events' = events \o X /\ stream'.after = stream.after
      PROVE  PageSafe'
  <2>1. wire' \in Seq(Notices) /\ faults' \in 0 .. MaxFaults
    BY <1>1, <1>2 DEF LiveTypeOK
  <2>. QED BY <1>2, <1>3, <1>5, <2>1, SendingStep
<1>6. CASE allowed /\ Start
  <2> DEFINE X == <<[type |-> "open", chunk |-> 0]>>
  <2>1. /\ stream' = [stream EXCEPT !.state = "open", !.after = Len(log)]
        /\ events' = events \o X \o LogEvents
    BY <1>6 DEF Start
  <2>2. X \in Seq(Event) /\ LogIn(X) = {}
    BY NoOutput
  <2> HIDE DEF X
  <2>. QED BY <1>1, <1>5, <2>1, <2>2, StreamSent
<1>7. CASE allowed /\ Poll
  <2>1. /\ stream' = [stream EXCEPT !.missed = FALSE, !.after = Len(log)]
        /\ stream.state = "open"
        /\ events' = events \o (IF stream.missed THEN Change ELSE <<>>) \o LogEvents
    BY <1>7 DEF Poll
  <2>2. stream' \in Stream /\ stream'.state = "open" /\ stream'.after = Len(log)
    BY <1>1, <2>1, StreamSent
  <2> DEFINE X == IF stream.missed THEN Change ELSE <<>>
  <2>3. X = Change \/ X = <<>>
    BY Zenon
  <2>4. X \in Seq(Event) /\ LogIn(X) = {}
    BY <2>3, NoOutput
  <2> HIDE DEF X
  <2>5. events' = events \o X \o LogEvents
    BY <2>1 DEF X
  <2>. QED BY <1>5, <2>2, <2>4, <2>5
<1>8. CASE allowed /\ TakeNotice
  <2> DEFINE n == Head(stream.inbox)
  <2>1. /\ stream.state = "open" /\ stream.inbox # <<>>
        /\ stream' = [stream EXCEPT !.inbox = Tail(@),
                                    !.after = IF n = "run" THEN @ ELSE Len(log)]
        /\ events' = events \o (IF n = "log" THEN <<>> ELSE Change)
                            \o (IF n = "run" THEN <<>> ELSE LogEvents)
    BY <1>8 DEF TakeNotice
  <2> HIDE DEF n
  <2>2. CASE n = "run"
    <3>1. stream' = [stream EXCEPT !.inbox = Tail(@), !.after = stream.after]
      BY <2>1, <2>2
    <3>2. events' = (events \o Change) \o <<>>
      BY <2>1, <2>2
    <3>3. events \o Change \in Seq(Event)
      BY <1>1, NoOutput, ConcatProperties
    <3>4. events' = events \o Change
      BY <3>2, <3>3, ConcatEmptySeq
    <3>5. stream' \in Stream /\ stream'.state = "open" /\ stream'.after = stream.after
      BY <1>1, <2>1, <3>1, StreamSent
    <3>. QED BY <1>5, <3>4, <3>5, NoOutput
  <2>3. CASE n # "run"
    <3>1. stream' = [stream EXCEPT !.inbox = Tail(@), !.after = Len(log)]
      BY <2>1, <2>3
    <3> DEFINE X == IF n = "log" THEN <<>> ELSE Change
    <3>2. X \in Seq(Event) /\ LogIn(X) = {}
      BY NoOutput
    <3>3. events' = events \o X \o LogEvents
      BY <2>1, <2>3
    <3> HIDE DEF X
    <3>4. stream' \in Stream /\ stream'.state = "open" /\ stream'.after = Len(log)
      BY <1>1, <2>1, <3>1, StreamSent
    <3>. QED BY <1>5, <3>2, <3>3, <3>4
  <2>. QED BY <2>2, <2>3
<1>9. allowed \in BOOLEAN
  BY <1>1 DEF LiveTypeOK
<1>. QED BY <1>4, <1>6, <1>7, <1>8, <1>9

\* A stream that breaks takes what it had sent with it.
LEMMA BreakStep ==
  ASSUME PageSafe, StreamBreaks
  PROVE  PageSafe'
<1>1. /\ LiveTypeOK /\ stream' = NoStream /\ events' = <<>>
      /\ UNCHANGED <<log, running, version, allowed, listening, wire, page>>
  BY SentFits DEF StreamBreaks, feedVars, Ended
<1>2. faults' \in 0 .. MaxFaults
  BY <1>1, LivePageConstantsOK DEF StreamBreaks, Fault, LiveTypeOK
<1>3. LiveTypeOK'
  BY <1>1, <1>2, NoStreamTyped, NoOutput DEF LiveTypeOK
<1>. QED BY <1>1, <1>3, EndingStep

----------------------------------------------------------------------------
(* The browser.                                                            *)

\* An event is read.  Output that arrives is the next chunk.
LEMMA ReceiveStep ==
  ASSUME PageSafe, Receive
  PROVE  PageSafe'
<1> DEFINE e == Head(events)
           k == Len(page.shown)
<1>1. /\ events # <<>> /\ events' = Tail(events)
      /\ page' = CASE e.type = "open"   -> Scheduled([page EXCEPT !.source = "open"])
                   [] e.type = "change" -> Scheduled(page)
                   [] e.type = "log"    -> [page EXCEPT !.shown = Append(@, e.chunk)]
      /\ UNCHANGED <<log, running, version, allowed, listening, wire, stream, faults>>
  BY DEF Receive, feedVars
<1>2. /\ LiveTypeOK /\ Len(log) \in Nat /\ k \in Nat /\ events \in Seq(Event) /\ page \in Page
      /\ (allowed /\ stream.state = "closed" => events = <<>>)
      /\ ShownInOrder /\ Numbered /\ log \in Seq(Nat)
  BY SentFits DEF PageSafe, LiveTypeOK
<1>3. PICK n \in 0 .. Len(log) : Sent(n)
  BY SentFits
<1>4. n \in Nat /\ Fits(events, k, n) /\ (stream.state # "closed" => n = stream.after)
  BY <1>2, <1>3 DEF Sent
<1>5. /\ Tail(events) \in Seq(Event) /\ e \in Event
      /\ e.type # "log" => Fits(Tail(events), k, n)
      /\ e.type = "log" => e.chunk = k + 1 /\ Fits(Tail(events), k + 1, n)
  BY <1>1, <1>2, <1>4, HeadFits
<1>6. e.type \in {"open", "change", "log"} /\ e.chunk \in Nat
  BY <1>5 DEF Event
<1> HIDE DEF e, k
<1>7. CASE e.type # "log"
  <2>1. page' \in Page /\ page'.shown = page.shown
    <3>1. CASE e.type = "open"
      <4> DEFINE p == [page EXCEPT !.source = "open"]
      <4>1. page \in PageOf(Sources, Seq(Nat), Answers) /\ "open" \in Sources
        BY <1>2, PageIs DEF Sources
      <4>2. p \in PageOf(Sources, Seq(Nat), Answers) /\ p.shown = page.shown
        BY <4>1 DEF PageOf
      <4>3. page' = Scheduled(p)
        BY <1>1, <3>1
      <4> HIDE DEF p
      <4>. QED BY <4>2, <4>3, PageIs, ScheduledTyped
    <3>2. CASE e.type = "change"
      <4>1. page' = Scheduled(page)
        BY <1>1, <3>2
      <4>. QED BY <1>2, <4>1, ScheduledTyped
    <3>. QED BY <1>6, <1>7, <3>1, <3>2
  <2>2. LiveTypeOK'
    BY <1>1, <1>2, <1>5, <2>1 DEF LiveTypeOK
  <2>3. Fits(events', Len(page'.shown), n) /\ n \in 0 .. Len(log')
    BY <1>1, <1>5, <1>7, <2>1 DEF k
  <2>4. SentContinues'
    BY <1>1, <1>2, <1>4, <2>2, <2>3, FitsSent
  <2>. QED BY <1>1, <1>2, <2>1, <2>2, <2>4 DEF PageSafe, ShownInOrder, Numbered
<1>8. CASE e.type = "log"
  <2>1. page' = [page EXCEPT !.shown = Append(@, k + 1)]
    BY <1>1, <1>5, <1>8
  <2>0. page.shown \in Seq(Nat) /\ k + 1 \in Nat
    BY <1>2, ShownTyped
  <2>2. /\ page.shown \in Seq(Nat) /\ k + 1 \in Nat
        /\ page' \in Page /\ page'.shown = Append(page.shown, k + 1)
    BY <1>2, <2>0, <2>1, ShownMore
  <2>3. /\ Len(page'.shown) = k + 1 /\ DOMAIN page'.shown = 1 .. k + 1
        /\ \A i \in 1 .. k : page'.shown[i] = page.shown[i]
        /\ page'.shown[k + 1] = k + 1
        /\ DOMAIN page.shown = 1 .. k
    BY <2>2, AppendProperties, LenProperties DEF k
  <2>4. LiveTypeOK'
    BY <1>1, <1>2, <1>5, <2>2 DEF LiveTypeOK
  <2>5. k + 1 <= n /\ n <= Len(log)
    BY <1>3, <1>5, <1>8 DEF Fits
  <2>6. Fits(events', Len(page'.shown), n) /\ n \in 0 .. Len(log')
    BY <1>1, <1>5, <1>8, <2>3
  <2>7. SentContinues'
    BY <1>1, <1>2, <1>4, <2>4, <2>6, FitsSent
  <2>8. ShownInOrder'
    <3>1. DOMAIN log = 1 .. Len(log)
      BY <1>2, LenProperties
    <3>2. k + 1 \in DOMAIN log
      BY <1>2, <1>4, <2>5, <3>1
    <3>3. log[k + 1] = k + 1
      BY <1>2, <3>2 DEF Numbered
    <3>4. \A i \in 1 .. k : page.shown[i] = log[i]
      BY <1>2, <2>3 DEF ShownInOrder
    <3>5. \A i \in 1 .. k + 1 : page'.shown[i] = log[i]
      BY <1>2, <2>3, <3>3, <3>4
    <3>6. Len(page'.shown) <= Len(log)
      BY <1>2, <1>4, <2>3, <2>5
    <3>. QED BY <1>1, <2>3, <3>5, <3>6 DEF ShownInOrder
  <2>. QED BY <1>1, <1>2, <2>4, <2>7, <2>8 DEF PageSafe, Numbered
<1>. QED BY <1>7, <1>8

\* A step of the page that shows no output, and leaves the stream alone.
LEMMA PageStep ==
  ASSUME PageSafe, page' \in Page, page'.shown = page.shown, faults' \in 0 .. MaxFaults,
         UNCHANGED <<log, running, version, allowed, listening, wire, stream, events>>
  PROVE  PageSafe'
<1>1. LiveTypeOK /\ Numbered
  BY DEF PageSafe
<1>2. LiveTypeOK'
  BY <1>1 DEF LiveTypeOK
<1>. QED BY <1>1, <1>2, QuietStep DEF Numbered

\* Losing, opening and being refused a stream.
LEMMA SourceStep ==
  ASSUME PageSafe, Lost \/ Reconnect \/ Refused
  PROVE  PageSafe'
<1>1. /\ LiveTypeOK /\ page \in PageOf(Sources, Seq(Nat), Answers)
      /\ "retrying" \in Sources /\ "connecting" \in Sources /\ faults \in 0 .. MaxFaults
  BY SentFits, PageIs DEF Sources, LiveTypeOK
<1>2. UNCHANGED <<log, running, version, allowed, listening, wire, stream, events>>
  BY DEF Lost, Reconnect, Refused, feedVars
<1>3. faults' \in 0 .. MaxFaults
  BY <1>1, LivePageConstantsOK DEF Lost, Reconnect, Refused, Fault
<1> DEFINE p == [page EXCEPT !.source = "retrying"]
           q == [page EXCEPT !.source = "connecting"]
<1>4. /\ p \in PageOf(Sources, Seq(Nat), Answers) /\ p.shown = page.shown
      /\ q \in PageOf(Sources, Seq(Nat), Answers) /\ q.shown = page.shown
  BY <1>1 DEF PageOf
<1>5. page' \in {p, q, Scheduled(p)}
  BY DEF Lost, Reconnect, Refused
<1> HIDE DEF p, q
<1>6. page' \in Page /\ page'.shown = page.shown
  BY <1>4, <1>5, PageIs, ScheduledTyped
<1>. QED BY <1>2, <1>3, <1>6, PageStep

\* A refresh begins, is rendered, or fails.
LEMMA RefreshStep ==
  ASSUME PageSafe, Refresh \/ Render \/ FetchFails
  PROVE  PageSafe'
<1>1. /\ LiveTypeOK /\ page \in PageOf(Sources, Seq(Nat), Answers)
      /\ "done" \in Sources /\ <<>> \in Answers /\ faults \in 0 .. MaxFaults
      /\ <<version, running>> \in Answers
  BY SentFits, PageIs DEF Sources, Answers, LiveTypeOK
<1>2. UNCHANGED <<log, running, version, allowed, listening, wire, stream, events>>
  BY DEF Refresh, Render, FetchFails, feedVars
<1>3. faults' \in 0 .. MaxFaults
  BY <1>1, LivePageConstantsOK DEF Refresh, Render, FetchFails, Fault
<1> DEFINE dirty == page.dirty
           answer == <<version, running>>
<1>4. dirty \in BOOLEAN /\ answer \in Answers
  BY <1>1 DEF PageOf
<1>5. page' \in {[page EXCEPT !.pending = FALSE, !.dirty = TRUE],
                 [page EXCEPT !.pending = FALSE, !.fetching = TRUE, !.dirty = FALSE],
                 [page EXCEPT !.answer = answer],
                 [page EXCEPT !.fetching = FALSE, !.answer = <<>>, !.failed = TRUE,
                              !.pending = dirty, !.dirty = FALSE],
                 [page EXCEPT !.fetching = FALSE, !.answer = <<>>, !.source = "done"]}
  BY Zenon DEF Refresh, Render, FetchFails
<1> HIDE DEF dirty, answer
<1>6. page' \in PageOf(Sources, Seq(Nat), Answers) /\ page'.shown = page.shown
  BY <1>1, <1>4, <1>5 DEF PageOf
<1>. QED BY <1>2, <1>3, <1>6, PageIs, PageStep

\* A page is put in: of a run that has ended, with no stream.
LEMMA SwapStep ==
  ASSUME PageSafe, Swap
  PROVE  PageSafe'
<1>1. /\ LiveTypeOK /\ page \in PageOf(Sources, Seq(Nat), Answers)
      /\ "done" \in Sources /\ <<>> \in Answers /\ faults \in 0 .. MaxFaults
  BY SentFits, PageIs DEF Sources, Answers, LiveTypeOK
<1>2. UNCHANGED <<log, running, version, allowed, listening, wire, faults>>
  BY DEF Swap, feedVars
<1> DEFINE dirty == page.dirty
           seen == page.answer[1]
           p == [page EXCEPT !.seen = seen, !.fetching = FALSE, !.answer = <<>>,
                             !.failed = FALSE, !.pending = dirty, !.dirty = FALSE]
<1>3. dirty \in BOOLEAN /\ seen \in Nat
  <2>1. page.answer \in Answers /\ page.answer # <<>>
    BY <1>1 DEF PageOf, Swap
  <2>. QED BY <1>1, <2>1 DEF PageOf, Answers
<1>4. \/ page' = p /\ UNCHANGED <<stream, events>>
      \/ page' = [p EXCEPT !.source = "done"] /\ stream' = NoStream /\ events' = <<>>
  BY Zenon DEF Swap, Ended
<1> HIDE DEF dirty, seen
<1>5. p \in PageOf(Sources, Seq(Nat), Answers) /\ p.shown = page.shown
  BY <1>1, <1>3 DEF PageOf
<1> HIDE DEF p
<1>6. page' \in PageOf(Sources, Seq(Nat), Answers) /\ page'.shown = page.shown
  BY <1>1, <1>4, <1>5 DEF PageOf
<1>7. CASE UNCHANGED <<stream, events>>
  BY <1>1, <1>2, <1>6, <1>7, PageIs, PageStep
<1>8. CASE stream' = NoStream /\ events' = <<>>
  <2>1. LiveTypeOK'
    BY <1>1, <1>2, <1>6, <1>8, PageIs, NoStreamTyped, NoOutput DEF LiveTypeOK
  <2>. QED BY <1>2, <1>6, <1>8, <2>1, EndingStep
<1>. QED BY <1>4, <1>7, <1>8

----------------------------------------------------------------------------
(* The theorem.                                                            *)

\* Nothing is stored, sent or shown at first.
LEMMA InitSafe == LiveInit => PageSafe
<1> SUFFICES ASSUME LiveInit PROVE PageSafe
  OBVIOUS
<1>1. /\ log = <<>> /\ running = TRUE /\ version = 0 /\ allowed = TRUE /\ listening = TRUE
      /\ wire = <<>> /\ stream = NoStream /\ events = <<>> /\ faults = 0
      /\ page = [source |-> "connecting", shown |-> <<>>, seen |-> 0, pending |-> FALSE,
                 fetching |-> FALSE, answer |-> <<>>, dirty |-> FALSE, failed |-> FALSE]
  BY DEF LiveInit, FeedInit
<1>2. page \in Page /\ page.shown = <<>>
  BY <1>1, EmptySeq DEF Page
<1>3. LiveTypeOK
  <2>1. log \in Seq(Nat) /\ wire \in Seq(Notices) /\ events \in Seq(Event)
    BY <1>1, EmptySeq
  <2>2. version \in 0 .. MaxChanges /\ faults \in 0 .. MaxFaults /\ stream \in Stream
    BY <1>1, NoStreamTyped, LivePageConstantsOK
  <2>3. running \in BOOLEAN /\ allowed \in BOOLEAN /\ listening \in BOOLEAN
    BY <1>1
  <2>. QED BY <1>2, <2>1, <2>2, <2>3, Zenon DEF LiveTypeOK
<1>4. ShownInOrder /\ Numbered
  BY <1>1, <1>2, LivePageConstantsOK DEF ShownInOrder, Numbered
<1>5. SentContinues
  <2>1. Len(log) = 0 /\ Len(page.shown) = 0
    BY <1>1, <1>2
  <2>2. Fits(events, Len(page.shown), 0)
    BY <1>1, <2>1, NothingFits
  <2>3. Continues(0)
    BY <1>3, <2>2, ContinuesFits
  <2>4. stream.state = "closed" /\ 0 \in 0 .. Len(log) /\ events = <<>>
    BY <1>1, <2>1, NoStreamTyped
  <2>. QED BY <2>3, <2>4 DEF SentContinues
<1>. QED BY <1>3, <1>4, <1>5 DEF PageSafe

\* The page shows the step's output from its beginning, each chunk once and in
\* order, whatever is lost (web.events resumes behind Last-Event-ID; live.js adds
\* what arrives): what is on its way always continues what is shown.
THEOREM OutputInOrder == LiveSpec => []PageSafe
<1>1. PageSafe /\ [LiveNext]_pageVars => PageSafe'
  <2>1. ASSUME PageSafe, UNCHANGED pageVars PROVE PageSafe'
    BY <2>1 DEF pageVars, PageSafe, LiveTypeOK, ShownInOrder, SentContinues, Continues,
                LogPlaces, Numbered
  <2>. QED BY <2>1, AppendLogStep, ServerStep, AcceptStep, StreamStep, BreakStep, ReceiveStep,
              SourceStep, RefreshStep, SwapStep DEF LiveNext
<1>. QED BY <1>1, InitSafe, PTL DEF LiveSpec
=============================================================================
