----------------------------- MODULE MCRecorder -----------------------------
(***************************************************************************)
(* Four requests and a queue of two: enough to fill it while the writer    *)
(* holds a record, and to have one left when the queue is closed.          *)
(***************************************************************************)
EXTENDS Recorder
=============================================================================
