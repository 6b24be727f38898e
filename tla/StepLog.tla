------------------------------ MODULE StepLog -------------------------------
(***************************************************************************)
(* A step's output from the container to the database: worker.logWriter    *)
(* and Service.AppendLog.                                                  *)
(*                                                                         *)
(* Writers put output in a buffer under the writer's mutex; one flusher    *)
(* stores it in numbered chunks without the mutex, and does not know of a  *)
(* failed attempt whether the database committed it, or still will.  Close *)
(* stops the flusher and stores what is left.                              *)
(*                                                                         *)
(* A piece of output is as long as its number of bytes and masks; Gitman's *)
(* own notes take no room.  Timers (flush, retry, backpressure, Close's 30 *)
(* seconds) may fire at any moment.  UTF-8 repair is left out.             *)
(***************************************************************************)
EXTENDS Redact, Integers, FiniteSets

CONSTANTS
  Writers,      \* what writes: the copied output of docker, and note
  Bytes,        \* the bytes they write
  ChunkSize,    \* logChunkBytes
  MaxUnstored,  \* maxUnstoredBytes
  MaxStepLog,   \* maxStepLogBytes
  MaxBytes,     \* bound on output
  MaxFaults     \* bound on failed attempts, expired waits and ended runs

ASSUME StepLogConstantsOK ==
  /\ {ChunkSize, MaxUnstored, MaxStepLog, MaxBytes, MaxFaults} \subseteq Nat
  /\ 0 < ChunkSize /\ ChunkSize <= MaxUnstored
  /\ Secrets \subseteq Seq(Bytes) /\ IsFiniteSet(Writers)

VARIABLES
  written,   \* history: every byte given to Write
  emitted,   \* history: the pieces given to emitLocked, joined
  accepted,  \* history: what emitLocked put in the buffer
  ansi,      \* logWriter.ansi
  redactor,  \* logWriter.redactor
  buffer,    \* the fields of logWriter that mu guards
  blocked,   \* per writer: the piece that waits for room in waitForRoomLocked
  sending,   \* the chunk the flusher is storing, or none
  phase,     \* of the logWriter
  chunks,    \* table step_logs
  late,      \* attempts that failed here and may yet be committed
  running,   \* the run's status is running
  faults

logVars == <<written, emitted, accepted, ansi, redactor, buffer, blocked, sending, phase,
             chunks, late, running, faults>>

Pieces == Seq(Bytes \cup {"ESC", Mask})

\* noted: the bytes its note says could not be stored; 0: no note.
Chunk == [noted : Nat, text : Pieces]
NoChunk == [noted |-> 0, text |-> <<>>]

Attempt == [sequence : Nat, content : Chunk]

Buffer ==
  [ pending   : Pieces,
    unsent    : Chunk,
    sequence  : Nat,
    stored    : Nat,
    dropped   : Nat,
    failing   : BOOLEAN,
    truncated : BOOLEAN,
    failed    : BOOLEAN ]   \* err is set

\* Every part of the writer, and every stored chunk, has its type; a chunk
\* and the buffer keep within their limits.
LogTypeOK ==
  /\ written \in Seq(Bytes) /\ emitted \in Pieces /\ accepted \in Pieces
  /\ ansi \in AnsiStates
  /\ redactor.node \in Nodes /\ redactor.masking \in BOOLEAN
  /\ redactor.held \in Seq([byte : Bytes \cup {"ESC"}, masked : BOOLEAN])
  /\ buffer \in Buffer
  /\ Len(buffer.unsent.text) <= ChunkSize
  /\ Len(buffer.unsent.text) + Len(buffer.pending) <= MaxUnstored
  /\ blocked \in [Writers -> Pieces]
  /\ sending \in {{}} \cup {{a} : a \in {[sequence |-> buffer.sequence, content |-> buffer.unsent]}}
  /\ phase \in {"open", "flushing", "closed"}
  /\ \A i \in DOMAIN chunks : i \in Nat /\ chunks[i] \in Chunk
  /\ \A a \in late : a \in Attempt
  /\ running \in BOOLEAN
  /\ faults \in 0 .. MaxFaults

LogInit ==
  /\ written = <<>> /\ emitted = <<>> /\ accepted = <<>>
  /\ ansi = "text" /\ redactor = NewStream
  /\ buffer = [pending |-> <<>>, unsent |-> NoChunk, sequence |-> 0, stored |-> 0, dropped |-> 0,
               failing |-> FALSE, truncated |-> FALSE, failed |-> FALSE]
  /\ blocked = [w \in Writers |-> <<>>]
  /\ sending = {}
  /\ phase = "open"
  /\ chunks = <<>> /\ late = {}
  /\ running = TRUE
  /\ faults = 0

Fault == faults < MaxFaults /\ faults' = faults + 1

----------------------------------------------------------------------------
(* Write.                                                                  *)

MutUnstored == Len(buffer.pending)   \* mutant: the chunk being stored is not counted

Unstored == Len(buffer.unsent.text) + Len(buffer.pending)

Room(text) == Len(text) <= MaxUnstored - Unstored

\* overCapLocked
OverCap(text) == buffer.stored + buffer.dropped + Unstored + Len(text) > MaxStepLog

\* emitLocked with room, before and after a wait: past the cap the rest of
\* the output is discarded.
Take(text) ==
  IF buffer.truncated THEN UNCHANGED <<buffer, accepted>>
  ELSE IF OverCap(text)
  THEN /\ buffer' = [buffer EXCEPT !.truncated = TRUE]
       /\ UNCHANGED accepted
  ELSE /\ buffer' = [buffer EXCEPT !.pending = @ \o text]
       /\ accepted' = accepted \o text

MutDrop(text) == UNCHANGED <<buffer, accepted>>   \* mutant: dropped output is not counted

Drop(text) ==
  /\ buffer' = [buffer EXCEPT !.dropped = @ + Len(text)]
  /\ UNCHANGED accepted

Waits(text) == ~buffer.truncated /\ ~OverCap(text) /\ ~Room(text)

\* Write of one byte; a piece that finds no room waits or is dropped.
Write(w, b) ==
  /\ phase = "open" /\ blocked[w] = <<>>
  /\ Len(written) < MaxBytes
  /\ LET out == AppendBytes(redactor, AnsiText(ansi, b))
         text == out.text
     IN /\ written' = Append(written, b)
        /\ ansi' = AnsiState(ansi, b)
        /\ redactor' = out.stream
        /\ emitted' = emitted \o text
        /\ IF ~Waits(text) THEN Take(text) /\ UNCHANGED blocked
           ELSE IF buffer.failing THEN Drop(text) /\ UNCHANGED blocked
           ELSE blocked' = [blocked EXCEPT ![w] = text] /\ UNCHANGED <<buffer, accepted>>
  /\ UNCHANGED <<sending, phase, chunks, late, running, faults>>

\* waitForRoomLocked returns: there is room, storage is failing, or Close runs.
Wake(w) ==
  /\ blocked[w] # <<>>
  /\ \/ Room(blocked[w]) /\ Take(blocked[w])
     \/ ~Room(blocked[w]) /\ (buffer.failing \/ phase # "open") /\ Drop(blocked[w])
  /\ blocked' = [blocked EXCEPT ![w] = <<>>]
  /\ UNCHANGED <<written, emitted, ansi, redactor, sending, phase, chunks, late, running, faults>>

\* logBackpressureTimeout
GiveUp(w) ==
  /\ blocked[w] # <<>> /\ ~Room(blocked[w])
  /\ Fault
  /\ Drop(blocked[w])
  /\ blocked' = [blocked EXCEPT ![w] = <<>>]
  /\ UNCHANGED <<written, emitted, ansi, redactor, sending, phase, chunks, late, running>>

----------------------------------------------------------------------------
(* flush.                                                                  *)

MutFilled(bf) ==   \* mutant: a chunk to retry is filled up with newer output
  LET n == IF Len(bf.pending) <= ChunkSize - Len(bf.unsent.text)
           THEN Len(bf.pending) ELSE ChunkSize - Len(bf.unsent.text)
  IN [bf EXCEPT !.unsent = [noted |-> @.noted + bf.dropped,
                            text |-> @.text \o SubSeq(bf.pending, 1, n)],
                !.dropped = 0,
                !.pending = SubSeq(@, n + 1, Len(@))]

\* fillUnsentLocked: a chunk that failed to store is left as it was.
Filled(bf) ==
  LET n == IF Len(bf.pending) <= ChunkSize THEN Len(bf.pending) ELSE ChunkSize
  IN IF bf.unsent # NoChunk THEN bf
     ELSE [bf EXCEPT !.unsent = [noted |-> bf.dropped, text |-> SubSeq(bf.pending, 1, n)],
                     !.dropped = 0,
                     !.pending = SubSeq(@, n + 1, Len(@))]

MutFlush ==   \* mutant: output waits for a full chunk, whatever the ticker says
  /\ phase # "closed" /\ sending = {}
  /\ Len(Filled(buffer).unsent.text) = ChunkSize \/ phase = "flushing"
  /\ buffer' = Filled(buffer)
  /\ sending' = {[sequence |-> buffer.sequence, content |-> Filled(buffer).unsent]}
  /\ UNCHANGED <<written, emitted, accepted, ansi, redactor, blocked, phase, chunks, late, running, faults>>

\* flush up to its call of the sink.
Flush ==
  /\ phase # "closed" /\ sending = {}
  /\ Filled(buffer).unsent # NoChunk
  /\ buffer' = Filled(buffer)
  /\ sending' = {[sequence |-> buffer.sequence, content |-> Filled(buffer).unsent]}
  /\ UNCHANGED <<written, emitted, accepted, ansi, redactor, blocked, phase, chunks, late, running, faults>>

MutInserted(a, rows) ==   \* mutant: an ended run still takes output
  IF a.sequence \in DOMAIN rows THEN rows
  ELSE [i \in DOMAIN rows \cup {a.sequence} |-> IF i = a.sequence THEN a.content ELSE rows[i]]

\* insertLogChunk: nothing once the run has ended, or if the chunk is there.
Inserted(a, rows) ==
  IF ~running \/ a.sequence \in DOMAIN rows THEN rows
  ELSE [i \in DOMAIN rows \cup {a.sequence} |-> IF i = a.sequence THEN a.content ELSE rows[i]]

\* More to send: what keeps flush in its loop.
More(bf) == bf.pending # <<>> \/ bf.dropped > 0

\* The chunk is stored and flush knows.
FlushStored ==
  \E a \in sending :
    /\ chunks' = Inserted(a, chunks)
    /\ buffer' = [buffer EXCEPT !.unsent = NoChunk, !.sequence = @ + 1, !.failing = FALSE,
                                !.stored = @ + Len(a.content.text)]
    /\ sending' = {}
    /\ phase' = IF phase = "flushing" /\ ~More(buffer) THEN "closed" ELSE phase
    /\ UNCHANGED <<written, emitted, accepted, ansi, redactor, blocked, late, running, faults>>

\* The attempt fails or times out: not executed, executed, or not yet.  Close
\* makes no second one.
FlushFails ==
  /\ Fault
  /\ \E a \in sending :
       /\ \/ UNCHANGED <<chunks, late>>
          \/ chunks' = Inserted(a, chunks) /\ UNCHANGED late
          \/ late' = late \cup {a} /\ UNCHANGED chunks
       /\ buffer' = [buffer EXCEPT !.failing = TRUE, !.failed = TRUE]
       /\ sending' = {}
       /\ phase' = IF phase = "flushing" THEN "closed" ELSE phase
       /\ UNCHANGED <<written, emitted, accepted, ansi, redactor, blocked, running>>

LateCommit(a) ==
  /\ a \in late
  /\ chunks' = Inserted(a, chunks)
  /\ late' = late \ {a}
  /\ UNCHANGED <<written, emitted, accepted, ansi, redactor, buffer, blocked, sending, phase,
                 running, faults>>

----------------------------------------------------------------------------
(* Close.                                                                  *)

\* Close, with the flusher stopped.  What the redactor holds is the last
\* piece; one that finds no room is dropped, as closing is set.
Close ==
  /\ phase = "open" /\ sending = {}
  /\ LET text == Final(redactor)
     IN /\ emitted' = emitted \o text
        /\ IF Waits(text) THEN Drop(text) ELSE Take(text)
  /\ redactor' = NewStream
  /\ phase' = IF Filled(buffer').unsent = NoChunk THEN "closed" ELSE "flushing"
  /\ UNCHANGED <<written, ansi, blocked, sending, chunks, late, running, faults>>

\* Close's context ends between two chunks.
CloseTimeout ==
  /\ phase = "flushing" /\ sending = {}
  /\ Fault
  /\ phase' = "closed"
  /\ buffer' = [buffer EXCEPT !.failed = TRUE]
  /\ UNCHANGED <<written, emitted, accepted, ansi, redactor, blocked, sending, chunks, late, running>>

\* Another worker fails the run as lost, while this one still writes.
RunLost ==
  /\ running
  /\ Fault
  /\ running' = FALSE
  /\ UNCHANGED <<written, emitted, accepted, ansi, redactor, buffer, blocked, sending, phase,
                 chunks, late>>

----------------------------------------------------------------------------

LogNext ==
  \/ \E w \in Writers : (\E b \in Bytes : Write(w, b)) \/ Wake(w) \/ GiveUp(w)
  \/ Flush \/ FlushStored \/ FlushFails
  \/ \E a \in late : LateCommit(a)
  \/ Close \/ CloseTimeout \/ RunLost

\* The flusher's ticker and its store timeout; a woken writer runs.
LogFairness ==
  /\ WF_logVars(Flush) /\ WF_logVars(FlushStored)
  /\ \A w \in Writers : WF_logVars(Wake(w))

LogSpec == LogInit /\ [][LogNext]_logVars /\ LogFairness

----------------------------------------------------------------------------
(* Properties.                                                             *)

StoredLog == [i \in 1 .. Cardinality(DOMAIN chunks) |-> chunks[i - 1]]

Gapless == DOMAIN chunks = 0 .. Cardinality(DOMAIN chunks) - 1

Text(rows) == FlattenSeq([i \in 1 .. Len(rows) |-> rows[i].text])
Noted(rows) == FoldLeft(LAMBDA n, row : n + row.noted, 0, rows)

\* Every secret in the output is masked, however writes cut it and whatever
\* terminal escapes are put inside it: what is given out so far begins, and
\* after Close is, the mask of the whole output.
SecretsMasked ==
  /\ IsPrefix(emitted, Masked(Stripped(written)))
  /\ phase # "open" => emitted = Masked(Stripped(written))

\* Chunks hold the buffered output in order and once, through failed,
\* repeated and late attempts; while the run lasts nothing buffered is lost.
StoredInOrder ==
  /\ Gapless
  /\ IsPrefix(Text(StoredLog), accepted)
  /\ running =>
       Text(SubSeq(StoredLog, 1, buffer.sequence)) \o buffer.unsent.text \o buffer.pending = accepted

\* Until the cap, every byte given out is stored, in the buffer, waiting for
\* room, or counted by a note: none is dropped in silence.
DropsAccounted ==
  running /\ ~buffer.truncated =>
    LET done == SubSeq(StoredLog, 1, buffer.sequence) \o <<buffer.unsent>>
    IN Len(emitted) = Len(Text(done)) + Noted(done) + Len(buffer.pending) + buffer.dropped
                      + FoldFunction(LAMBDA t, n : Len(t) + n, 0, blocked)

\* The writer's state has its type, what is stored is in order and every lost
\* byte is accounted for.
LogSafe == LogTypeOK /\ StoredInOrder /\ DropsAccounted

Feed == INSTANCE LogFeed WITH log <- StoredLog

\* What is stored implements the feed that readers rely on.
ImplementsFeed == Feed!FeedSpec

\* Buffered output is stored before long and a step never hangs on its log,
\* once storage answers again.
OutputMoves ==
  /\ \A k \in 1 .. MaxBytes :
       (Len(accepted) >= k) ~> (Len(Text(StoredLog)) >= k \/ phase = "closed" \/ ~running)
  /\ \A w \in Writers : (blocked[w] # <<>>) ~> (blocked[w] = <<>>)
=============================================================================
