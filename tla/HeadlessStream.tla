--------------------------- MODULE HeadlessStream ---------------------------
(* Where the assistant's text is on its way from the CLI to the user:         *)
(* cli/headless/claude-invoker-stream.ts and native-timeout-detector.ts. A    *)
(* piece of text is its number. Text may be held back three times: while it   *)
(* may be a timeout message of the CLI, after one, and, when a session is     *)
(* resumed, until thinking or a tool shows that the agent has its context.    *)
EXTENDS Naturals, Sequences, SequencesExt

CONSTANT
  MaxPieces   \* bound: pieces of text

ASSUME StreamAssumption == MaxPieces \in Nat

VARIABLE
  text        \* the text fields of StreamHandlerContext and of its detector

\* line: lineBuffer; post: postTimeoutBuffer; resume: resumeAssessmentBuffer;
\* deltas: hasReceivedTextDeltas; messages: pieces that were timeout messages;
\* result: what the result of the run hands over that was never shown.
StreamTypeOK ==
  LET Pieces == Seq(1..MaxPieces) IN
  text \in [arrived : 0..MaxPieces, shown : Pieces, resume : Pieces, post : Pieces,
            line : Pieces, active : BOOLEAN, deltas : BOOLEAN,
            messages : SUBSET (1..MaxPieces), over : BOOLEAN, result : Pieces]

StreamInit ==
  \E resumed \in BOOLEAN :
    text = [arrived |-> 0, shown |-> <<>>, resume |-> <<>>, post |-> <<>>, line |-> <<>>,
            active |-> resumed, deltas |-> FALSE, messages |-> {}, over |-> FALSE,
            result |-> <<>>]

Streaming == ~ text.over
Piece == text.arrived + 1
Arriving == Streaming /\ Piece <= MaxPieces

\* handleTextDelta with what the detector lets through.
Through(t, s) ==
  IF t.messages # {} THEN [t EXCEPT !.post = @ \o s]
  ELSE IF t.active THEN [t EXCEPT !.resume = @ \o s]
  ELSE [t EXCEPT !.shown = @ \o s]

\* processChunk: the line so far may still become a timeout message, is none
\* any more, or was one.
Detected(t, line) ==
  {[t EXCEPT !.line = line],
   Through([t EXCEPT !.line = <<>>], line),
   [t EXCEPT !.line = <<>>, !.messages = @ \cup ToSet(line)]}
TextDelta ==
  /\ Arriving
  /\ text' \in Detected([text EXCEPT !.arrived = Piece, !.deltas = TRUE],
                       text.line \o <<Piece>>)

\* Mutant: what was held back is dropped.
ReleasedLost(t) == [t EXCEPT !.active = FALSE, !.resume = <<>>]

\* Thinking, the start of a tool, and the end of a whole assistant message end
\* the resume assessment and show what it held back.
Released(t) == [t EXCEPT !.active = FALSE, !.shown = @ \o t.resume, !.resume = <<>>]
ContextShown ==
  /\ Streaming /\ text.active
  /\ text' = Released(text)

\* A whole assistant message: its text, unless deltas brought text before, and
\* the final text of a result event when there was none.
AssistantMessage ==
  /\ Arriving /\ ~ text.deltas
  /\ text' = Released([text EXCEPT !.arrived = Piece, !.shown = @ \o <<Piece>>])

\* buildCloseResult: flush of the detector (the last line may be a message
\* without its newline), and what the resume assessment still holds.
StreamCloses ==
  /\ Streaming
  /\ \E message \in BOOLEAN :
       text' = [text EXCEPT !.over = TRUE, !.line = <<>>, !.post = <<>>, !.resume = <<>>,
         !.messages = IF message THEN @ \cup ToSet(text.line) ELSE @,
         !.result = (IF text.active THEN text.resume ELSE <<>>)
                      \o text.post \o (IF message THEN <<>> ELSE text.line)]

StreamNext == TextDelta \/ ContextShown \/ AssistantMessage \/ StreamCloses

StreamSpec == StreamInit /\ [][StreamNext]_text
-----------------------------------------------------------------------------
\* No text is lost, repeated or shown out of order, however the three reasons to
\* hold it back overlap: what was shown, what is held back and what the result
\* hands over are, in this order, everything that came but timeout messages.
AllText == text.shown \o text.result \o text.resume \o text.post \o text.line
InOrder(s) == \A i, j \in 1..Len(s) : i < j => s[i] < s[j]
TextAccounted ==
  InOrder(AllText) /\ ToSet(AllText) = 1..text.arrived \ text.messages
=============================================================================
