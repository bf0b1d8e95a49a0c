----------------------------- MODULE StreamEvents -----------------------------
(***************************************************************************)
(* The Anthropic stream events the converters of internal/provider emit,   *)
(* and what a client makes of them.  What an event carries is a sequence   *)
(* of letters, so that text that is lost, doubled or reordered shows; the  *)
(* signature of a block is a number, 0 if there is none.                   *)
(***************************************************************************)
EXTENDS Naturals, Sequences, FiniteSets

Kinds == {"text", "tool", "thinking"}
StopReasons == {"end_turn", "tool_use", "max_tokens"}

MessageStart == [type |-> "message_start"]
BlockStart(i, k) == [type |-> "content_block_start", index |-> i, kind |-> k]
BlockDelta(i, k, d) == [type |-> "content_block_delta", index |-> i, kind |-> k, data |-> d]
SignatureDelta(i, s) == [type |-> "signature_delta", index |-> i, signature |-> s]
BlockStop(i) == [type |-> "content_block_stop", index |-> i]
MessageDelta(s) == [type |-> "message_delta", stop |-> s]
MessageStop == [type |-> "message_stop"]

\* The events that end a message.
Ending(stop) == <<MessageDelta(stop), MessageStop>>

\* The events that stop blocks, given by their indexes.
Stops(indexes) == [i \in DOMAIN indexes |-> BlockStop(indexes[i])]

\* A finite set of numbers in ascending order.
Ascending(S) ==
    [k \in 1..Cardinality(S) |-> CHOOSE i \in S : Cardinality({j \in S : j <= i}) = k]

-----------------------------------------------------------------------------
(* The client: its message, and its content blocks by index (from 0).  It  *)
(* does as it is told; an event about a block that is not open breaks it.   *)

NoMessage == [msg |-> "none", blocks |-> <<>>, stop |-> "none"]
Broken(v) == [v EXCEPT !.msg = "broken"]

HasBlock(v, i) == i < Len(v.blocks) /\ v.blocks[i + 1].open

Apply(v, e) ==
    CASE e.type = "message_start" ->
            [NoMessage EXCEPT !.msg = "started"]
      [] e.type = "content_block_start" ->
            IF e.index = Len(v.blocks)
            THEN [v EXCEPT !.blocks = Append(@, [kind |-> e.kind, open |-> TRUE,
                                                 data |-> <<>>, signature |-> 0])]
            ELSE Broken(v)
      [] e.type = "content_block_delta" ->
            IF HasBlock(v, e.index) /\ v.blocks[e.index + 1].kind = e.kind
            THEN [v EXCEPT !.blocks[e.index + 1].data = @ \o e.data]
            ELSE Broken(v)
      [] e.type = "signature_delta" ->
            IF HasBlock(v, e.index) /\ v.blocks[e.index + 1].kind = "thinking"
            THEN [v EXCEPT !.blocks[e.index + 1].signature = e.signature]
            ELSE Broken(v)
      [] e.type = "content_block_stop" ->
            IF HasBlock(v, e.index) THEN [v EXCEPT !.blocks[e.index + 1].open = FALSE]
            ELSE Broken(v)
      [] e.type = "message_delta" -> [v EXCEPT !.msg = "ending", !.stop = e.stop]
      [] e.type = "message_stop" -> [v EXCEPT !.msg = "stopped"]
=============================================================================
