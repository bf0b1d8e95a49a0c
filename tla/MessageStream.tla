---------------------------- MODULE MessageStream ----------------------------
(***************************************************************************)
(* What a client of the gateway relies on: the grammar of an Anthropic     *)
(* event stream.  One message_start, first; content blocks whose indexes   *)
(* count up from 0, each started once, extended only while it is open, and *)
(* stopped once; then, when no block is open and at least one was completed*)
(* (openai/stream.go:613-615), message_delta and                           *)
(* message_stop; then nothing.  The stream may end anywhere: the           *)
(* connection may break.                                                   *)
(***************************************************************************)
EXTENDS Naturals, Sequences

CONSTANT Sizes      \* how much one event may add to a block

VARIABLES
    msg,        \* of the message
    blocks      \* [kind, open, signed, size] of each content block

vars == <<msg, blocks>>

Init == msg = "none" /\ blocks = <<>>

Start ==
    /\ msg = "none"
    /\ msg' = "started"
    /\ UNCHANGED blocks

StartBlock ==
    /\ msg = "started"
    /\ \E k \in {"text", "tool", "thinking"} :
          blocks' = Append(blocks, [kind |-> k, open |-> TRUE, signed |-> FALSE, size |-> 0])
    /\ UNCHANGED msg

\* Blocks may be open side by side.
Extend(i) ==
    /\ msg = "started" /\ blocks[i].open
    /\ \/ \E n \in Sizes : blocks' = [blocks EXCEPT ![i].size = @ + n]
       \/ /\ blocks[i].kind = "thinking"
          /\ blocks' = [blocks EXCEPT ![i].signed = TRUE]
    /\ UNCHANGED msg

StopBlock(i) ==
    /\ msg = "started" /\ blocks[i].open
    /\ blocks' = [blocks EXCEPT ![i].open = FALSE]
    /\ UNCHANGED msg

EndMessage ==
    /\ msg = "started"
    /\ blocks # <<>> /\ \A i \in DOMAIN blocks : ~blocks[i].open
    /\ msg' = "ending"
    /\ UNCHANGED blocks

Stop ==
    /\ msg = "ending"
    /\ msg' = "stopped"
    /\ UNCHANGED blocks

Next ==
    \/ Start \/ StartBlock \/ EndMessage \/ Stop
    \/ \E i \in DOMAIN blocks : Extend(i) \/ StopBlock(i)

Spec == Init /\ [][Next]_vars
=============================================================================
