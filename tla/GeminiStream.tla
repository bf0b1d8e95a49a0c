----------------------------- MODULE GeminiStream -----------------------------
(***************************************************************************)
(* The StreamConverter of internal/provider/gemini/stream.go: chunks of    *)
(* generateContent in, Anthropic events out.  A chunk is                   *)
(*     [parts : sequence of parts, finish : "none" or a finish reason]     *)
(* and a part [kind : {"thought", "text", "call"}, data, signature].       *)
(* Text and arguments are sequences of letters, since computeStreamDelta   *)
(* guesses from prefixes whether they are increments or snapshots.         *)
(***************************************************************************)
EXTENDS StreamEvents, Integers, FiniteSets, SequencesExt

CONSTANT Positions      \* of a part in its chunk: 1..n

NoBlock == -1
NoTool == [index |-> NoBlock, open |-> FALSE, previousJSON |-> <<>>]

NewConverter ==
    [started |-> FALSE, finished |-> FALSE, contentBlockCompleted |-> FALSE,
     nextIndex |-> 0, textIndex |-> NoBlock, previousText |-> <<>>,
     textBlockOpen |-> FALSE,
     toolStates |-> [i \in Positions |-> NoTool],
     sawFunctionCall |-> FALSE]

Step(g, events) == [conv |-> g, events |-> events, err |-> FALSE]
Then(s, g, events) == Step(g, s.events \o events)
Data(d) == d # <<>>

\* Faulty variant: every text is taken for an increment.
StreamDeltaWhole(incoming, previous) == incoming

\* computeStreamDelta: what incoming adds to previous, if it starts with it.
StreamDelta(incoming, previous) ==
    IF IsPrefix(previous, incoming)
    THEN SubSeq(incoming, Len(previous) + 1, Len(incoming))
    ELSE incoming

-----------------------------------------------------------------------------
(* The three kinds of parts, in s.conv; each returns s with more events.   *)

\* A thinking block of its own.
Thought(s, p) ==
    LET g == s.conv
    IN  Then(s, [g EXCEPT !.nextIndex = @ + 1, !.contentBlockCompleted = TRUE],
             <<BlockStart(g.nextIndex, "thinking")>>
             \o (IF Data(p.data) THEN <<BlockDelta(g.nextIndex, "thinking", p.data)>> ELSE <<>>)
             \o (IF p.signature > 0 THEN <<SignatureDelta(g.nextIndex, p.signature)>> ELSE <<>>)
             \o <<BlockStop(g.nextIndex)>>)

OpenText(s) ==
    LET g == s.conv
    IN  IF g.textBlockOpen THEN s
        ELSE Then(s, [g EXCEPT !.nextIndex = @ + 1, !.textIndex = g.nextIndex,
                               !.textBlockOpen = TRUE],
                  <<BlockStart(g.nextIndex, "text")>>)

\* The one text block stays open until the end of the message.
TextPart(s, p) ==
    LET o == OpenText(s)
        delta == StreamDelta(p.data, o.conv.previousText)
    IN  Then(o, [o.conv EXCEPT !.previousText = p.data],
             IF Data(delta) THEN <<BlockDelta(o.conv.textIndex, "text", delta)>> ELSE <<>>)

\* Faulty variant: the signature of a call is dropped.
SignatureCarrierNone(s, signature) == s

\* emitSignatureCarrier: an empty thinking block in front of the call.
SignatureCarrier(s, signature) ==
    LET g == s.conv
    IN  IF signature = 0 THEN s
        ELSE Then(s, [g EXCEPT !.nextIndex = @ + 1, !.contentBlockCompleted = TRUE],
                  <<BlockStart(g.nextIndex, "thinking"), SignatureDelta(g.nextIndex, signature),
                    BlockStop(g.nextIndex)>>)

\* Faulty variant: the index of a new tool block stays the next one.
OpenToolSameIndex(s, i) ==
    IF s.conv.toolStates[i].open THEN s
    ELSE Then(s, [s.conv EXCEPT !.toolStates[i].index = s.conv.nextIndex,
                                !.toolStates[i].open = TRUE],
              <<BlockStart(s.conv.nextIndex, "tool")>>)

\* A call is known by its position in the chunk.
OpenTool(s, i) ==
    LET g == s.conv
        index == IF g.toolStates[i].index = NoBlock THEN g.nextIndex
                 ELSE g.toolStates[i].index
    IN  IF g.toolStates[i].open THEN s
        ELSE Then(s, [g EXCEPT !.nextIndex = IF index = @ THEN @ + 1 ELSE @,
                               !.toolStates[i].index = index, !.toolStates[i].open = TRUE],
                  <<BlockStart(index, "tool")>>)

CallPart(s, i, p) ==
    LET carried == SignatureCarrier(s, p.signature)
        o == OpenTool([carried EXCEPT !.conv.sawFunctionCall = TRUE], i)
        tool == o.conv.toolStates[i]
        delta == StreamDelta(p.data, tool.previousJSON)
    IN  Then(o, [o.conv EXCEPT !.toolStates[i].previousJSON = p.data],
             IF Data(delta) THEN <<BlockDelta(tool.index, "tool", delta)>> ELSE <<>>)

Part(s, i, p) ==
    CASE p.kind = "thought" -> Thought(s, p)
      [] p.kind = "text" -> IF Data(p.data) THEN TextPart(s, p) ELSE s
      [] p.kind = "call" -> CallPart(s, i, p)

-----------------------------------------------------------------------------
(* The end.                                                                *)

\* The text, then the tools by index.
CloseBlocks(s) ==
    LET g == s.conv
        tools == {g.toolStates[i].index : i \in {j \in Positions : g.toolStates[j].open}}
        text == IF g.textBlockOpen THEN <<g.textIndex>> ELSE <<>>
        closing == text \o Ascending(tools)
    IN  Then(s, [g EXCEPT !.textBlockOpen = FALSE,
                          !.toolStates = [i \in Positions |-> [g.toolStates[i] EXCEPT !.open = FALSE]],
                          !.contentBlockCompleted = @ \/ closing # <<>>],
             Stops(closing))

\* ensureContentBlock.
Filler(s) ==
    LET g == s.conv
    IN  IF g.contentBlockCompleted THEN s
        ELSE Then(s, [g EXCEPT !.nextIndex = @ + 1, !.contentBlockCompleted = TRUE],
                  <<BlockStart(g.nextIndex, "text"), BlockStop(g.nextIndex)>>)

EndWith(s, stop) ==
    LET filled == Filler(CloseBlocks(s))
    IN  Then(filled, [filled.conv EXCEPT !.finished = TRUE], Ending(stop))

\* mapFinishReason; "other" is every other reason, MALFORMED_FUNCTION_CALL too.
StopReasonOf(g, finish) ==
    CASE finish = "MAX_TOKENS" -> "max_tokens"
      [] finish = "STOP" /\ g.sawFunctionCall -> "tool_use"
      [] OTHER -> "end_turn"

ProcessResponse(g, chunk) ==
    LET begun == Step([g EXCEPT !.started = TRUE], IF g.started THEN <<>> ELSE <<MessageStart>>)
        read[n \in 0..Len(chunk.parts)] ==
            IF n = 0 THEN begun ELSE Part(read[n - 1], n, chunk.parts[n])
        all == read[Len(chunk.parts)]
    IN  IF chunk.finish = "none" THEN all
        ELSE EndWith(all, StopReasonOf(all.conv, chunk.finish))

FinalizeGemini(g) ==
    CASE ~g.started -> Step(g, <<>>)
      [] g.started /\ g.finished -> CloseBlocks(Step(g, <<>>))
      [] g.started /\ ~g.finished -> EndWith(Step(g, <<>>), "end_turn")
=============================================================================
