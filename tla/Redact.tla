------------------------------- MODULE Redact -------------------------------
(***************************************************************************)
(* How a step's output becomes text that may be stored: terminal escapes   *)
(* are stripped, then secrets are masked, both across write boundaries     *)
(* (worker.ansiStripper, redact.Stream), one byte at a time.               *)
(*                                                                         *)
(* A byte is a string: "ESC" and "BEL" are the control characters, "[",    *)
(* "]" and "\\" the ones escapes are made of, anything else stands for     *)
(* itself and is a letter.  A node of redact.Matcher is the text on its    *)
(* path, so its depth is its length.                                       *)
(***************************************************************************)
EXTENDS Naturals, Sequences, SequencesExt

CONSTANT Secrets   \* the complete values and long lines newSecretMasker adds

ASSUME SecretsOK == \A s \in Secrets : s # <<>>

Mask == "***"

----------------------------------------------------------------------------
(* ansiStripper.                                                           *)

AnsiStates == {"text", "escape", "csi", "osc", "oscEscape"}

AnsiState(state, b) ==
  CASE state = "text"      -> IF b = "ESC" THEN "escape" ELSE "text"
    [] state = "escape"    -> IF b = "[" THEN "csi" ELSE IF b = "]" THEN "osc" ELSE "text"
    [] state = "csi"       -> IF b \in {"ESC", "BEL"} THEN "csi" ELSE "text"
    [] state = "osc"       -> IF b = "BEL" THEN "text" ELSE IF b = "ESC" THEN "oscEscape" ELSE "osc"
    [] state = "oscEscape" -> IF b = "\\" THEN "text" ELSE "osc"

\* The bytes that b lets through.
AnsiText(state, b) ==
  CASE state = "text" /\ b # "ESC"              -> <<b>>
    [] state = "escape" /\ b \notin {"[", "]"}  -> <<"ESC", b>>
    [] OTHER                                    -> <<>>

----------------------------------------------------------------------------
(* redact.Matcher and redact.Stream.                                       *)

Longest(texts) == CHOOSE t \in texts : \A u \in texts : Len(u) <= Len(t)

Nodes == {<<>>} \cup UNION {Prefixes(s) : s \in Secrets}

MutStep(node, b) ==   \* mutant: after a mismatch the match starts over
  IF Append(node, b) \in Nodes THEN Append(node, b) ELSE <<>>

\* next and the fail links: the longest suffix that is a node.
Step(node, b) == Longest({n \in Nodes : IsSuffix(n, Append(node, b))})

\* match: the longest secret that ends here.
Match(node) == Len(Longest({<<>>} \cup {s \in Secrets : IsSuffix(s, node)}))

\* Stream: state, pending and masked as one sequence of marked bytes, masking.
NewStream == [node |-> <<>>, held |-> <<>>, masking |-> FALSE]

\* emit: of n held bytes a run of masked ones becomes one mask.
Emitted(held, masking, n) ==
  LET before(i) == IF i = 1 THEN masking ELSE held[i - 1].masked
  IN FlattenSeq([i \in 1 .. n |->
       IF ~held[i].masked THEN <<held[i].byte>> ELSE IF before(i) THEN <<>> ELSE <<Mask>>])

Emit(stream, n) ==
  [ stream |-> [stream EXCEPT
                  !.held = SubSeq(@, n + 1, Len(@)),
                  !.masking = IF n = 0 THEN @ ELSE stream.held[n].masked],
    text   |-> Emitted(stream.held, stream.masking, n) ]

\* Append of one byte: everything that is not a prefix of a secret goes, and
\* masked bytes go without more lookahead.
AppendByte(stream, b) ==
  LET node == Step(stream.node, b)
      all  == Append(stream.held, [byte |-> b, masked |-> FALSE])
      held == [i \in DOMAIN all |->
                [all[i] EXCEPT !.masked = @ \/ i > Len(all) - Match(node)]]
      low  == IF Len(node) >= Len(held) THEN 0 ELSE Len(held) - Len(node)
      n    == CHOOSE k \in low .. Len(held) :
                /\ \A i \in low + 1 .. k : held[i].masked
                /\ k < Len(held) => ~held[k + 1].masked
  IN Emit([node |-> node, held |-> held, masking |-> stream.masking], n)

\* Append of several bytes; final gives the rest.
AppendBytes(stream, bytes) ==
  FoldLeft(LAMBDA r, b : LET next == AppendByte(r.stream, b)
                         IN [stream |-> next.stream, text |-> r.text \o next.text],
           [stream |-> stream, text |-> <<>>], bytes)

Final(stream) == Emit(stream, Len(stream.held)).text

----------------------------------------------------------------------------
(* What they are meant to compute, from the whole output at once.          *)

\* Terminal escapes taken out.
Stripped(bytes) ==
  FoldLeft(LAMBDA r, b : [state |-> AnsiState(r.state, b), text |-> r.text \o AnsiText(r.state, b)],
           [state |-> "text", text |-> <<>>], bytes).text

\* Position i belongs to some occurrence of a secret.
InSecret(text, i) ==
  \E s \in Secrets : \E j \in 1 .. i :
    i < j + Len(s) /\ j + Len(s) - 1 <= Len(text) /\ SubSeq(text, j, j + Len(s) - 1) = s

Masked(text) ==
  FlattenSeq([i \in 1 .. Len(text) |->
    IF ~InSecret(text, i) THEN <<text[i]>>
    ELSE IF i > 1 /\ InSecret(text, i - 1) THEN <<>> ELSE <<Mask>>])
=============================================================================
