------------------------------- MODULE Provider -------------------------------
(***************************************************************************)
(* One conversation through a provider adapter: Stream of                  *)
(* internal/provider/openai/adapter.go and of internal/provider/gemini/    *)
(* adapter.go, which translate the request, read the upstream's stream     *)
(* event by event, convert it and write the client's stream through the    *)
(* sse.Writer of pkg/sse/writer.go; then the request the client sends      *)
(* next, with the answer and the results of its tool calls in it.  Every   *)
(* request is translated for both providers, since it may fail over from   *)
(* one to the other.                                                       *)
(*                                                                         *)
(* The upstream is the environment: the OpenAI one says its parts side by  *)
(* side, may refer to a part it never announced, leave parts or the whole  *)
(* response unfinished, send garbage, or break off; the Gemini one sends   *)
(* what is new (increment) or all it said so far (snapshot,                *)
(* docs/admin-api.md:172).  What it does not do is go on with a part that  *)
(* is done, or with a response it ended.                                   *)
(***************************************************************************)
EXTENDS OpenAIStream, GeminiStream, Requests

CONSTANTS
    MaxDeltas,      \* of a part of the OpenAI upstream
    MaxChunks,      \* of the Gemini upstream
    MaxNew,         \* parts that are new in a chunk
    Letters,        \* of the Gemini upstream's text
    MaxText,        \* letters of a text that is new in a chunk
    Texts           \* what it may say

ASSUME BoundsAssumption ==
    /\ MaxDeltas \in Nat /\ MaxChunks \in Nat /\ MaxNew \in Nat /\ MaxText \in Nat
    /\ Letters \subseteq Nat
    /\ Texts \subseteq UNION {[1..k -> Letters] : k \in 1..MaxText}
    /\ IsFiniteSet(Positions) /\ Positions = 1..Cardinality(Positions)

VARIABLES
    phase,      \* of the conversation
    request,    \* the settings of the first request, the messages of the second
    sent,       \* what the providers make of it
    provider,   \* the one that answers
    upstream,   \* of the environment: where the upstream is in its answer
    said,       \* of the environment: the parts it said, [kind, data, signature]
    conv,       \* the StreamConverter
    queue,      \* events ProcessEvent or Finalize returned and Stream still writes
    then,       \* what Stream does when they are written: read on, or return
    buffer,     \* sse.Writer.buffer
    buffering,  \* "on", "flushing" while FlushBuffered writes, "off"
    result,     \* of Stream and the FlushBuffered after it
    view        \* the client's

request_vars == <<request, sent, provider>>
writer_vars == <<buffer, buffering, view>>
vars == <<phase, request, sent, provider, upstream, said, conv, queue, then,
          buffer, buffering, result, view>>

-----------------------------------------------------------------------------
(* The first request.                                                      *)

Asks(thinking, effort, budget, account, model, filter, choice, tools) ==
    [thinking |-> thinking, effort |-> effort, budget |-> budget,
     thinkingEffort |-> account[1], reasoningEffort |-> account[2],
     accountBudget |-> account[3], model |-> model,
     filter |-> filter, choice |-> choice, tools |-> tools, chosen |-> "Read"]

Settings ==
    {Asks(t, e, b, account, m, "unset", "absent", ToolNames) :
        t \in ThinkingForms, e \in Efforts, b \in {0, 2048},
        account \in Efforts \X Efforts \X {0, 512}, m \in Models}
    \cup
    {Asks("absent", "none", 0, <<"none", "none", 0>>, "plain", f, c, ts) :
        f \in Filters, c \in ToolChoices, ts \in SUBSET ToolNames}

Init ==
    /\ phase = "asked"
    /\ request \in Settings
    /\ sent = <<>>
    /\ provider \in {"openai", "gemini"}
    /\ upstream = <<>> /\ said = <<>> /\ conv = <<>>
    /\ queue = <<>> /\ then = "read"
    /\ buffer = <<>> /\ buffering = "on"
    /\ result = "none"
    /\ view = NoMessage

Translate ==
    /\ phase = "asked"
    /\ phase' = "translated"
    /\ sent' = [openai |-> OpenAISettings(request), gemini |-> GeminiSettings(request)]
    /\ UNCHANGED <<request, provider, upstream, said, conv, queue, then, writer_vars, result>>

\* The upstream refuses: connection error or status 300 and up.
Refuse ==
    /\ phase = "translated"
    /\ phase' = "streaming" /\ then' = "error"
    /\ request' = <<>> /\ sent' = <<>>
    /\ UNCHANGED <<provider, upstream, said, conv, queue, writer_vars, result>>

\* What the converter knows, and where the upstream is.
StartOpenAI ==
    /\ provider = "openai"
    /\ conv' = NewStreamConverter
    /\ upstream' = [part |-> [p \in Parts |-> 0], done |-> {}, ended |-> FALSE]

StartGemini ==
    /\ provider = "gemini"
    /\ conv' = NewConverter
    /\ \E m \in {"increment", "snapshot"} :
          upstream' = [mode |-> m, chunks |-> 0, called |-> {}, merged |-> FALSE, ended |-> FALSE]

Accept ==
    /\ phase = "translated"
    /\ phase' = "streaming"
    /\ StartOpenAI \/ StartGemini
    /\ request' = <<>> /\ sent' = <<>>
    /\ UNCHANGED <<provider, said, queue, then, writer_vars, result>>

-----------------------------------------------------------------------------
(* Reading.  Events of an answer that failed are lost, and the message is  *)
(* finalized before Stream returns the error.                              *)

Final(c) == IF provider = "openai" THEN Finalize(c) ELSE FinalizeGemini(c)

\* Stream writes these events, then goes on with next.
Handle(s, next) ==
    /\ conv' = s.conv
    /\ queue' = s.events
    /\ then' = next

Process(s) ==
    IF s.err THEN Handle(Final(s.conv), "error") ELSE Handle(s, "read")

Reading ==
    /\ phase = "streaming" /\ then = "read" /\ queue = <<>>
    /\ buffering # "flushing"
    /\ UNCHANGED <<phase, request_vars, writer_vars, result>>

HearOpenAI(e) == Process(ProcessEvent(conv, e))

Add(p) ==
    /\ upstream.part[p] = 0
    /\ \E k \in Kinds :
          /\ HearOpenAI([type |-> "added", part |-> p, kind |-> k])
          /\ said' = Append(said, [kind |-> k, data |-> <<>>, signature |-> 0])
    /\ upstream' = [upstream EXCEPT !.part[p] = Len(said) + 1]

Extend(p) ==
    LET n == upstream.part[p]
        letter == Len(said[n].data) + 1
    IN  /\ n # 0 /\ p \notin upstream.done /\ letter <= MaxDeltas
        /\ HearOpenAI([type |-> "delta", part |-> p, kind |-> said[n].kind, data |-> <<letter>>])
        /\ said' = [said EXCEPT ![n].data = Append(@, letter)]
        /\ UNCHANGED upstream

Complete(p) ==
    /\ upstream.part[p] # 0 /\ p \notin upstream.done
    /\ HearOpenAI([type |-> "done", part |-> p])
    /\ upstream' = [upstream EXCEPT !.done = @ \cup {p}]
    /\ UNCHANGED said

\* About a part that was never announced.
Orphan(p) ==
    /\ upstream.part[p] = 0
    /\ \/ \E k \in Kinds :
             HearOpenAI([type |-> "delta", part |-> p, kind |-> k, data |-> <<1>>])
       \/ HearOpenAI([type |-> "done", part |-> p])
    /\ UNCHANGED <<upstream, said>>

Signal(type) ==
    /\ HearOpenAI([type |-> type])
    /\ upstream' = [upstream EXCEPT !.ended = (type = "completed")]
    /\ UNCHANGED said

OpenAIEvent ==
    /\ Reading
    /\ provider = "openai" /\ ~upstream.ended
    /\ \/ \E p \in Parts : Add(p) \/ Extend(p) \/ Complete(p) \/ Orphan(p)
       \/ \E type \in {"created", "completed", "malformed", "failed"} : Signal(type)

\* The parts a chunk may add to n parts: calls and thoughts say their number.
NewParts(n) ==
    LET part == [kind : {"text"}, data : Texts, signature : {0}]
                \cup [kind : {"thought", "call"}, data : {<<k>> : k \in n + 1..n + MaxNew},
                      signature : 0..n + MaxNew]
        Plausible(p, k) == \/ p.kind = "text"
                           \/ p.data = <<k>> /\ p.signature \in {0, k}
    IN  {q \in UNION {[1..k -> part] : k \in 0..MaxNew} :
            \A i \in DOMAIN q : Plausible(q[i], n + i)}

\* A snapshot may go on with its last part, if that is text.
Continued(parts) ==
    {parts} \cup
    (IF parts = <<>> \/ Last(parts).kind # "text" THEN {}
     ELSE {Front(parts) \o <<[Last(parts) EXCEPT !.data = Append(@, l)]>> : l \in Letters})

Calls(parts) == {i \in DOMAIN parts : parts[i].kind = "call"}

HearGemini(parts, finish) ==
    /\ Len(parts) <= Cardinality(Positions)
    /\ Process(ProcessResponse(conv, [parts |-> parts, finish |-> finish]))
    /\ upstream' = [upstream EXCEPT !.chunks = @ + 1, !.ended = (finish # "none"),
                                    !.merged = @ \/ upstream.called \cap Calls(parts) # {},
                                    !.called = @ \cup Calls(parts)]

Increment(finish) ==
    /\ upstream.mode = "increment"
    /\ \E parts \in NewParts(Len(said)) :
          /\ Len(said) + Len(parts) <= Cardinality(Positions)
          /\ HearGemini(parts, finish)
          /\ said' = said \o parts

Snapshot(finish) ==
    /\ upstream.mode = "snapshot"
    /\ \E old \in Continued(said), new \in NewParts(Len(said)) :
          /\ HearGemini(old \o new, finish)
          /\ said' = old \o new

\* A chunk that is no JSON.
Garbage ==
    /\ Process([conv |-> conv, events |-> <<>>, err |-> TRUE])
    /\ UNCHANGED <<upstream, said>>

GeminiChunk ==
    /\ Reading
    /\ provider = "gemini" /\ ~upstream.ended /\ upstream.chunks < MaxChunks
    /\ \/ \E finish \in {"none", "STOP", "MAX_TOKENS", "other"} :
             Increment(finish) \/ Snapshot(finish)
       \/ Garbage

\* The upstream's stream ends, where it should or not, or breaks off.
EndOfStream ==
    /\ Reading
    /\ \E next \in {"ok", "error"} : Handle(Final(conv), next)
    /\ UNCHANGED <<upstream, said>>

-----------------------------------------------------------------------------
(* Writing: sse.Writer.  An event whose size nothing bounds may fill the   *)
(* prelude's buffer; the others together never do.  The bytes of one write *)
(* reach the client event by event.                                        *)

Unbounded(e) == \/ e.type \in {"message_start", "content_block_delta", "signature_delta"}
                \/ e.type = "content_block_start" /\ e.kind = "tool"

MayBeFull(events) == \E i \in DOMAIN events : Unbounded(events[i])

Write ==
    /\ queue # <<>> /\ buffering # "flushing"
    /\ queue' = Tail(queue)
    /\ IF buffering = "off"
       THEN view' = Apply(view, Head(queue)) /\ UNCHANGED <<buffer, buffering>>
       ELSE /\ buffer' = Append(buffer, Head(queue))
            /\ \/ UNCHANGED buffering
               \/ MayBeFull(buffer') /\ buffering' = "flushing"
            /\ UNCHANGED view
    /\ UNCHANGED <<phase, request_vars, upstream, said, conv, then, result>>

Flush ==
    /\ buffering = "flushing"
    /\ IF buffer = <<>>
       THEN buffering' = "off" /\ UNCHANGED <<buffer, view>>
       ELSE /\ view' = Apply(view, Head(buffer))
            /\ buffer' = Tail(buffer)
            /\ UNCHANGED buffering
    /\ UNCHANGED <<phase, request_vars, upstream, said, conv, queue, then, result>>

\* The client is gone: Stream, or the FlushBuffered after it, returns the error.
WriteFails ==
    /\ \/ buffering = "off" /\ queue # <<>>
       \/ buffering = "flushing"
    /\ queue' = <<>> /\ then' = "error"
    /\ buffer' = <<>> /\ buffering' = "off"
    /\ UNCHANGED <<phase, request_vars, upstream, said, conv, result, view>>

\* Faulty variant: a short answer stays in the prelude's buffer.
ReturnUnflushed ==
    /\ phase = "streaming" /\ result = "none"
    /\ then # "read" /\ queue = <<>> /\ buffering # "flushing"
    /\ result' = then
    /\ UNCHANGED <<phase, request_vars, upstream, said, conv, queue, then, writer_vars>>

\* Stream returns; the prelude of an error is never written.
Return ==
    /\ phase = "streaming" /\ result = "none"
    /\ then # "read" /\ queue = <<>> /\ buffering # "flushing"
    /\ CASE then = "error" -> /\ result' = "error" /\ buffer' = <<>>
                              /\ UNCHANGED buffering
         [] then = "ok" /\ buffering = "on" -> /\ buffering' = "flushing"
                                              /\ UNCHANGED <<result, buffer>>
         [] then = "ok" /\ buffering = "off" -> /\ result' = "ok"
                                               /\ UNCHANGED <<buffer, buffering>>
    /\ UNCHANGED <<phase, request_vars, upstream, said, conv, queue, then, view>>

-----------------------------------------------------------------------------
(* The next request: the answer as the client saw it, and the results of   *)
(* the calls in it.                                                        *)

Answer == [i \in DOMAIN view.blocks |->
              Block(view.blocks[i].kind, i, view.blocks[i].signature)]

Results == LET call(b) == b.kind = "tool"
               result_of(b) == Block("result", b.id, 0)
               calls == SelectSeq(Answer, call)
           IN  [i \in DOMAIN calls |-> result_of(calls[i])]

Follow ==
    /\ result = "ok" /\ view.msg = "stopped"
    /\ phase = "streaming"
    /\ phase' = "followed"
    /\ request' = <<[role |-> "assistant", blocks |-> Answer], [role |-> "user", blocks |-> Results]>>
    /\ sent' = [openai |-> OpenAIInput(request'), gemini |-> GeminiContents(request')]
    /\ UNCHANGED <<provider, upstream, said, conv, queue, then, writer_vars, result>>

Next ==
    \/ Translate \/ Refuse \/ Accept
    \/ OpenAIEvent \/ GeminiChunk \/ EndOfStream
    \/ Write \/ Flush \/ WriteFails \/ Return
    \/ Follow

Spec == Init /\ [][Next]_vars

-----------------------------------------------------------------------------
(* What the client should see: of OpenAI every part in the order announced,*)
(* of Gemini the calls, and all text in one block; its thoughts are not    *)
(* compared, since each snapshot repeats them.                             *)

Bare(b) == [kind |-> b.kind, data |-> b.data]

WithPart(blocks, p) ==
    LET texts == {i \in DOMAIN blocks : blocks[i].kind = "text"}
    IN  CASE p.kind = "thought" -> blocks
          [] p.kind = "call" -> Append(blocks, [kind |-> "tool", data |-> p.data])
          [] p.kind = "text" /\ texts = {} -> Append(blocks, Bare(p))
          [] p.kind = "text" /\ texts # {} ->
                [i \in DOMAIN blocks |->
                    IF i \in texts THEN [blocks[i] EXCEPT !.data = @ \o p.data] ELSE blocks[i]]

Merged(parts) ==
    LET first[n \in 0..Len(parts)] == IF n = 0 THEN <<>> ELSE WithPart(first[n - 1], parts[n])
    IN  first[Len(parts)]

Expected == IF provider = "gemini" THEN Merged(said)
            ELSE [i \in DOMAIN said |-> Bare(said[i])]

Compared(b) == provider = "openai" \/ b.kind # "thinking"

Shown == LET order == Ascending({i \in DOMAIN view.blocks : Compared(view.blocks[i])})
         IN  [k \in DOMAIN order |-> Bare(view.blocks[order[k]])]

Filled == <<[kind |-> "text", data |-> <<>>]>>

\* What computeStreamDelta cannot tell: an increment that starts with the last
\* one, from a snapshot; two texts in a snapshot, from increments; nor, in
\* increments, a call from an earlier one at its position in another chunk.
Unclear ==
    LET texts == {i \in DOMAIN said : said[i].kind = "text"}
        Following(i, j) == i < j /\ \A k \in texts : k <= i \/ j <= k
    IN  /\ provider = "gemini" /\ upstream # <<>>
        /\ \/ upstream.merged /\ upstream.mode = "increment"
           \/ upstream.mode = "snapshot" /\ \E i, j \in texts : i < j
           \/ /\ upstream.mode = "increment"
              /\ \E i, j \in texts : Following(i, j) /\ IsPrefix(said[i].data, said[j].data)

-----------------------------------------------------------------------------
(* Properties.                                                             *)

\* No event the converters emit breaks the client (stream.go of both: an event
\* names the index of a block that was started, and blocks are numbered in the
\* order they start); the writer's state is one it can be in.
TypeOK ==
    /\ phase \in {"asked", "translated", "streaming", "followed"}
    /\ provider \in {"openai", "gemini"}
    /\ then \in {"read", "ok", "error"} /\ result \in {"none", "ok", "error"}
    /\ buffering \in {"on", "flushing", "off"}
    /\ buffering = "off" => buffer = <<>>
    /\ view.msg \in {"none", "started", "ending", "stopped"}
    /\ view.stop \in StopReasons \cup {"none"}
    /\ \A i \in DOMAIN view.blocks : view.blocks[i].kind \in Kinds

\* Whatever the upstream does, however the prelude is flushed and wherever the
\* answer breaks off, the client sees a well-formed stream, and a message that
\* ends has a completed block (openai/stream.go:613-615, "CC requires at least one
\* completed content_block before message_stop").
Message == INSTANCE MessageStream WITH
    msg <- view.msg,
    blocks <- [i \in DOMAIN view.blocks |->
                  [kind |-> view.blocks[i].kind, open |-> view.blocks[i].open,
                   signed |-> view.blocks[i].signature > 0,
                   size |-> Len(view.blocks[i].data)]],
    Sizes <- 0..MaxText + MaxChunks + MaxDeltas

ImplementsMessageStream == Message!Spec

\* The client never sees anything the upstream did not say, nor twice, nor in
\* another order: its blocks are what the upstream's blocks begin with.  Only
\* an answer without content is filled with an empty text block.  (Delta
\* handling of openai/stream.go:205-425; snapshots and increments of
\* gemini/stream.go:453-468.)
BlocksFaithful ==
    ~Unclear =>
        \/ /\ Len(Shown) <= Len(Expected)
           /\ \A i \in DOMAIN Shown : /\ Shown[i].kind = Expected[i].kind
                                      /\ IsPrefix(Shown[i].data, Expected[i].data)
        \/ Expected = <<>> /\ Shown = Filled

\* A Stream that reports success delivered everything that was said, in a
\* message that ended, however short (handler.go:259 flushes the prelude), or
\* the upstream said nothing; and "tool_use" tells the client of calls that are
\* there (and OpenAI's of every call).
SuccessDelivers ==
    result = "ok" =>
        /\ \/ said = <<>> /\ view = NoMessage
           \/ view.msg = "stopped" /\ (Unclear \/ Shown = Expected \/ Expected = <<>>)
        /\ view.stop = "tool_use" => \E i \in DOMAIN Shown : Shown[i].kind = "tool"
        /\ provider = "openai" /\ (\E i \in DOMAIN Shown : Shown[i].kind = "tool") =>
              view.stop = "tool_use"

SaidCalls == LET isCall(p) == p.kind = "call" IN SelectSeq(said, isCall)
SentCalls == LET isCall(p) == p.type = "functionCall" IN SelectSeq(sent.gemini, isCall)

\* Thoughts are signed the way calls are, and a call may follow one.
OfThoughts == {0} \cup {said[i].signature : i \in {j \in DOMAIN said : said[j].kind = "thought"}}

\* The signature Gemini gave with a call comes back with that call in the next
\* request, by way of an empty thinking block in front of it
\* (gemini/stream.go:193-198, translate.go:398-448: Gemini 3 refuses a call
\* without its signature), and a call without one gets none but a thought's;
\* after snapshots, which repeat the blocks that carry signatures, it may get
\* another call's.
SignaturesComeBack ==
    phase = "followed" /\ provider = "gemini" /\ ~Unclear =>
        /\ Len(SentCalls) = Len(SaidCalls)
        /\ \A i \in DOMAIN SaidCalls :
              IF SaidCalls[i].signature > 0
              THEN SentCalls[i].signature = SaidCalls[i].signature
              ELSE upstream.mode = "increment" => SentCalls[i].signature \in OfThoughts

KindOf(type) ==
    CASE type \in {"text", "message"} -> "text"
      [] type \in {"functionCall", "function_call"} -> "tool"
      [] type \in {"functionResponse", "function_call_output"} -> "result"
      [] OTHER -> type

\* Whichever provider the next request goes to, it tells the conversation as
\* the client did: the same texts, calls and results, in that order, and every
\* result with the name of its call (translateContentBlocks,
\* translateRawContent).
ConversationKept ==
    phase = "followed" =>
        LET told(b) == <<b.kind, b.id>>
            spoken(b) == b.kind \notin {"thinking", "thought"}
            notThought(p) == p.type # "thought"
            blocks == SelectSeq(request[1].blocks \o request[2].blocks, spoken)
            parts == SelectSeq(sent.gemini, notThought)
            items == [i \in DOMAIN sent.openai |->
                        [j \in DOMAIN sent.openai[i].ids |->
                            <<KindOf(sent.openai[i].type), sent.openai[i].ids[j]>>]]
            conversation == [i \in DOMAIN blocks |-> told(blocks[i])]
        IN  /\ FlattenSeq(items) = conversation
            /\ [i \in DOMAIN parts |-> <<KindOf(parts[i].type), parts[i].id>>] = conversation

\* A failover from one provider to the other does not change what the client
\* asked: both think or neither does, unless the model cannot or an effort
\* contradicts the type; both declare the same tools under every filter the
\* docs know (docs/admin-api.md:173), and both force the same choice.
SameChoice(o, g) ==
    CASE g.mode = "absent" -> o.mode = "absent"
      [] g.mode = "AUTO" -> o.mode = "auto"
      [] g.mode = "NONE" -> o.mode = "none"
      [] g.mode = "ANY" /\ g.names = {} -> o.mode = "required"
      [] g.mode = "ANY" /\ g.names # {} -> o.mode = "function" /\ g.names = {o.name}

ProvidersAgree ==
    phase = "translated" =>
        LET o == sent.openai
            g == sent.gemini
        IN  /\ \/ o.reasoning.on = g.thinking.on
               \/ request.model = "plain"
               \/ request.thinking \in {"disabled", "false"} /\ request.effort # "none"
            /\ request.filter # "unknown" => o.tools = g.tools
            /\ SameChoice(o.choice, g.choice)
=============================================================================
