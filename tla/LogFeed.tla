------------------------------ MODULE LogFeed -------------------------------
(***************************************************************************)
(* What readers of a step's output rely on: chunks are numbered without    *)
(* gaps, never change once they are there, and none is added after the run *)
(* has ended.  A reader that asks for everything after the last number it  *)
(* has therefore misses nothing and repeats nothing.                       *)
(***************************************************************************)
EXTENDS Naturals, Sequences

VARIABLES
  log,      \* table step_logs: the step's chunks, by sequence number
  running   \* the run is running

feedVars == <<log, running>>

FeedInit == log = <<>> /\ running = TRUE

\* insertLogChunk, when it inserts.
StoreChunk ==
  /\ running
  /\ Len(log') = Len(log) + 1
  /\ SubSeq(log', 1, Len(log)) = log
  /\ UNCHANGED running

EndRun ==
  /\ running
  /\ running' = FALSE
  /\ UNCHANGED log

FeedSpec == FeedInit /\ [][StoreChunk \/ EndRun]_feedVars
=============================================================================
