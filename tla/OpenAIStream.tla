----------------------------- MODULE OpenAIStream -----------------------------
(***************************************************************************)
(* The StreamConverter of internal/provider/openai/stream.go: Responses    *)
(* API events in, Anthropic events out.                                    *)
(*                                                                         *)
(* A part is what the API counts as one: a text content part, a function   *)
(* call item, or a part of a reasoning summary.  textBlocks,               *)
(* functionBlocks and thinkingBlocks, which never share a key, are one map *)
(* from parts to block indexes.  A converter's step is a record: its new   *)
(* state, the events it returns, and whether it returns an error, in which *)
(* case the events of the step are lost.                                   *)
(***************************************************************************)
EXTENDS StreamEvents, Integers, FiniteSets, SequencesExt

CONSTANT Parts

None == -1

NewStreamConverter ==
    [messageStarted |-> FALSE, stopReasonSent |-> FALSE, sawFunctionCall |-> FALSE,
     contentBlockCompleted |-> FALSE, nextBlockIndex |-> 0,
     open |-> {},                               \* blocksByIndex
     block |-> [p \in Parts |-> None]]

Out(c, events) == [conv |-> c, events |-> events, err |-> FALSE]
Failed(c) == [conv |-> c, events |-> <<>>, err |-> TRUE]
Silent(c) == Out(c, <<>>)

Started(c) == [c EXCEPT !.messageStarted = TRUE]
MissingStart(c) == IF c.messageStarted THEN <<>> ELSE <<MessageStart>>

\* ensureMessageStart alone: response.created, and items that are no calls.
Begin(c) == Out(Started(c), MissingStart(c))

Missing(c, p) == c.block[p] = None

-----------------------------------------------------------------------------
(* Parts.                                                                  *)

Added(c, p, kind) ==
    Out([Started(c) EXCEPT !.nextBlockIndex = @ + 1,
                           !.open = @ \cup {c.nextBlockIndex},
                           !.block[p] = c.nextBlockIndex,
                           !.sawFunctionCall = @ \/ kind = "tool"],
        MissingStart(c) \o <<BlockStart(c.nextBlockIndex, kind)>>)

TextDelta(c, p, d) ==
    IF Missing(c, p) THEN Failed(c) ELSE Out(c, <<BlockDelta(c.block[p], "text", d)>>)

\* The message is started even if the block is missing, and the event lost.
CallDelta(c, p, d) ==
    IF Missing(c, p) THEN Failed(Started(c))
    ELSE Out(Started(c), MissingStart(c) \o <<BlockDelta(c.block[p], "tool", d)>>)

ThinkingDelta(c, p, d) ==
    IF Missing(c, p) THEN Silent(c) ELSE Out(c, <<BlockDelta(c.block[p], "thinking", d)>>)

CloseBlock(c, i) ==
    IF i \notin c.open THEN Silent(c)
    ELSE Out([c EXCEPT !.open = @ \ {i}, !.contentBlockCompleted = TRUE], <<BlockStop(i)>>)

\* The done event of a text or a call; of a reasoning part, its text's and its own.
Done(c, p) == IF Missing(c, p) THEN Silent(c) ELSE CloseBlock(c, c.block[p])

-----------------------------------------------------------------------------
(* The end.                                                                *)

\* Highest index first.
CloseOpenBlocks(c) ==
    Out([c EXCEPT !.open = {}, !.contentBlockCompleted = @ \/ c.open # {}],
        Stops(Reverse(Ascending(c.open))))

EnsureContentBlock(c) ==
    IF c.contentBlockCompleted THEN Silent(c)
    ELSE Out([c EXCEPT !.nextBlockIndex = @ + 1, !.contentBlockCompleted = TRUE],
             <<BlockStart(c.nextBlockIndex, "text"), BlockStop(c.nextBlockIndex)>>)

StopReason(c) == IF c.sawFunctionCall THEN "tool_use" ELSE "end_turn"

\* Closes what is open, and ends the message unless that was done.
End(c) ==
    LET closed == CloseOpenBlocks(c)
        filled == EnsureContentBlock(closed.conv)
    IN  IF c.stopReasonSent THEN closed
        ELSE Out([filled.conv EXCEPT !.stopReasonSent = TRUE],
                 closed.events \o filled.events \o Ending(StopReason(c)))

Completed(c) == LET s == End(Started(c))
                IN  [s EXCEPT !.events = MissingStart(c) \o @]

\* Faulty variant: a message is ended again after response.completed ended it.
FinalizeAgain(c) ==
    IF c.messageStarted THEN End([c EXCEPT !.stopReasonSent = FALSE]) ELSE Silent(c)

Finalize(c) == IF c.messageStarted THEN End(c) ELSE Silent(c)

\* What ProcessEvent does with an event of the upstream.
ProcessEvent(c, e) ==
    CASE e.type = "created" -> Begin(c)
      [] e.type = "added" -> Added(c, e.part, e.kind)
      [] e.type = "delta" /\ e.kind = "text" -> TextDelta(c, e.part, e.data)
      [] e.type = "delta" /\ e.kind = "tool" -> CallDelta(c, e.part, e.data)
      [] e.type = "delta" /\ e.kind = "thinking" -> ThinkingDelta(c, e.part, e.data)
      [] e.type = "done" -> Done(c, e.part)
      [] e.type = "completed" -> Completed(c)
      [] e.type = "malformed" -> Failed(c)
      [] OTHER -> Silent(c)         \* response.in_progress, failed, incomplete, ...
=============================================================================
