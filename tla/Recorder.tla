------------------------------ MODULE Recorder ------------------------------
(***************************************************************************)
(* The request log (internal/accounting/recorder.go) and the shutdown of   *)
(* the gateway (cmd/gateway/main.go): requests hand their record to a      *)
(* bounded queue that never blocks them, one goroutine writes the queue to *)
(* SQLite, and shutdown drains the server, closes the queue, waits for the *)
(* writer and closes the database.                                         *)
(*                                                                         *)
(* A record is the id of its request.                                      *)
(***************************************************************************)
EXTENDS Integers, Sequences, SequencesExt

CONSTANTS
    Requests,        \* the requests of one run of the process
    Capacity         \* of the queue (1000 in the code)

ASSUME RecorderAssumption == Capacity \in Nat \ {0}

VARIABLES
    request,         \* each request: "new", "serving" or "done"
    queue, closed,
    writer,          \* processLoop: "receive", "log", "payload" or "stopped"
    record,          \* the record the writer works on, as a set of at most one
    logs,            \* rows of request_logs, in the order of their ids
    payloads,        \* rows of request_payloads
    main,            \* how far shutdown has come
    dbOpen,
    \* History.
    submitted,       \* records in the order of the Record calls
    dropped,         \* met a full queue; counted by RecorderDropped
    failed,          \* InsertLog returned an error
    panicked,        \* sent on the closed queue
    timedOut         \* server.Shutdown gave up waiting

requestVars == <<request, submitted, dropped, panicked>>
writerVars == <<writer, record, logs, payloads, failed>>
mainVars == <<main, dbOpen, timedOut>>
vars == <<requestVars, queue, closed, writerVars, mainVars>>

Stages == {"running", "draining", "closing", "waiting", "closeDb", "exited"}

TypeOK ==
    /\ request \in [Requests -> {"new", "serving", "done"}]
    /\ queue \in Seq(Requests) /\ Len(queue) <= Capacity
    /\ closed \in BOOLEAN /\ dbOpen \in BOOLEAN /\ timedOut \in BOOLEAN
    /\ writer \in {"receive", "log", "payload", "stopped"}
    /\ record \subseteq Requests
    /\ record = {} <=> writer \in {"receive", "stopped"}
    /\ logs \in Seq(Requests) /\ submitted \in Seq(Requests)
    /\ main \in Stages
    /\ payloads \subseteq ToSet(logs)
    /\ dropped \cup failed \cup panicked \subseteq Requests

Init ==
    /\ request = [r \in Requests |-> "new"]
    /\ queue = <<>> /\ closed = FALSE
    /\ writer = "receive" /\ record = {}
    /\ logs = <<>> /\ payloads = {}
    /\ main = "running" /\ dbOpen = TRUE /\ timedOut = FALSE
    /\ submitted = <<>> /\ dropped = {} /\ failed = {} /\ panicked = {}

-----------------------------------------------------------------------------
(* Requests.                                                               *)

\* The listener is closed first when the server shuts down.
Accept(r) ==
    /\ main = "running"
    /\ request[r] = "new"
    /\ request' = [request EXCEPT ![r] = "serving"]
    /\ UNCHANGED <<queue, closed, writerVars, mainVars, submitted, dropped, panicked>>

\* Faulty variant: the queue grows past its capacity.
HasRoomAlways == TRUE

HasRoom == Len(queue) < Capacity

\* The deferred Record of ServeHTTP.  A send on a closed channel panics, also
\* with a default case; the Recoverer middleware ends the request.
Record(r) ==
    /\ main # "exited"
    /\ request[r] = "serving"
    /\ request' = [request EXCEPT ![r] = "done"]
    /\ submitted' = Append(submitted, r)
    /\ queue' = IF ~closed /\ HasRoom THEN Append(queue, r) ELSE queue
    /\ dropped' = IF ~closed /\ ~HasRoom THEN dropped \cup {r} ELSE dropped
    /\ panicked' = IF closed THEN panicked \cup {r} ELSE panicked
    /\ UNCHANGED <<closed, writerVars, mainVars>>

-----------------------------------------------------------------------------
(* processLoop.                                                            *)

Receive ==
    /\ writer = "receive" /\ queue # <<>>
    /\ record' = {Head(queue)}
    /\ queue' = Tail(queue)
    /\ writer' = "log"
    /\ UNCHANGED <<requestVars, closed, logs, payloads, failed, mainVars>>

\* InsertLog fails: the record is given up, and its payload with it.
LogFails ==
    /\ writer = "log"
    /\ failed' = failed \cup record
    /\ record' = {} /\ writer' = "receive"
    /\ UNCHANGED <<requestVars, queue, closed, logs, payloads, mainVars>>

\* InsertLog; a record without bodies has no payload.
InsertLog ==
    /\ writer = "log"
    /\ logs' = logs \o SetToSeq(record)
    /\ \/ writer' = "payload" /\ UNCHANGED record
       \/ writer' = "receive" /\ record' = {}
    /\ UNCHANGED <<requestVars, queue, closed, payloads, failed, mainVars>>

\* Faulty variant: a payload that is not written sends the record back.
PayloadRequeues ==
    /\ writer = "payload"
    /\ record' = {} /\ writer' = "receive"
    /\ \/ payloads' = payloads \cup record /\ UNCHANGED queue
       \/ queue' = queue \o SetToSeq(record) /\ UNCHANGED payloads
    /\ UNCHANGED <<requestVars, closed, logs, failed, mainVars>>

\* InsertPayload, or its failure, which leaves a log row without a payload.
InsertPayload ==
    /\ writer = "payload"
    /\ record' = {} /\ writer' = "receive"
    /\ payloads' \in {payloads, payloads \cup record}
    /\ UNCHANGED <<requestVars, queue, closed, logs, failed, mainVars>>

\* The range loop ends when the closed queue is empty.
Stop ==
    /\ writer = "receive" /\ queue = <<>> /\ closed
    /\ writer' = "stopped"
    /\ UNCHANGED <<requestVars, queue, closed, record, logs, payloads, failed, mainVars>>

Write == Receive \/ LogFails \/ InsertLog \/ InsertPayload \/ Stop

-----------------------------------------------------------------------------
(* Shutdown.                                                               *)

\* A signal, or an error of one of the servers.
BeginShutdown ==
    /\ main = "running"
    /\ main' = "draining"
    /\ UNCHANGED <<requestVars, queue, closed, writerVars, dbOpen, timedOut>>

\* Faulty variant: the server is shut down without a deadline.
NoDeadline == FALSE

Serving == \E r \in Requests : request[r] = "serving"

\* The context of 30 seconds.
Deadline == Serving

\* server.Shutdown returns when no request is left, or at the deadline; the
\* requests still served then go on.
Drain ==
    /\ main = "draining"
    /\ ~Serving \/ Deadline
    /\ timedOut' = Serving
    /\ main' = "closing"
    /\ UNCHANGED <<requestVars, queue, closed, writerVars, dbOpen>>

\* Recorder.Close: close(queue) ...
CloseQueue ==
    /\ main = "closing"
    /\ closed' = TRUE
    /\ main' = "waiting"
    /\ UNCHANGED <<requestVars, queue, writerVars, dbOpen, timedOut>>

\* Faulty variant: Close does not wait for the writer.
DontWait ==
    /\ main = "waiting"
    /\ main' = "closeDb"
    /\ UNCHANGED <<requestVars, queue, closed, writerVars, dbOpen, timedOut>>

\* ... and wg.Wait.
WaitWriter ==
    /\ main = "waiting" /\ writer = "stopped"
    /\ main' = "closeDb"
    /\ UNCHANGED <<requestVars, queue, closed, writerVars, dbOpen, timedOut>>

CloseDb ==
    /\ main = "closeDb" /\ dbOpen
    /\ dbOpen' = FALSE
    /\ UNCHANGED <<requestVars, queue, closed, writerVars, main, timedOut>>

Exit ==
    /\ main = "closeDb" /\ ~dbOpen
    /\ main' = "exited"
    /\ UNCHANGED <<requestVars, queue, closed, writerVars, dbOpen, timedOut>>

ShutDown == Drain \/ CloseQueue \/ WaitWriter \/ CloseDb \/ Exit

-----------------------------------------------------------------------------

Next ==
    \/ \E r \in Requests : Accept(r) \/ Record(r)
    \/ main # "exited" /\ Write
    \/ BeginShutdown \/ ShutDown

\* The writer's statements have a context of 10 seconds and the drain one of
\* 30.  Nothing bounds how long a request takes.
Spec == Init /\ [][Next]_vars /\ WF_vars(main # "exited" /\ Write) /\ WF_vars(ShutDown)

-----------------------------------------------------------------------------
(* Properties.                                                             *)

\* The records logged, being logged and queued.
Kept == logs \o SetToSeq(record \ ToSet(logs)) \o queue

\* The request of record q ended before the one of record r.
Before(q, r) ==
    \E m, n \in 1..Len(submitted) : m < n /\ submitted[m] = q /\ submitted[n] = r

\* A record has one fate: it passes from the queue to the log, in the order in
\* which the requests ended, or is dropped, failed or lost to a panic; whatever
\* happens to one record, no other is lost, overtaken or logged twice
\* (recorder.go:51-110).
OneFate ==
    /\ IsInjective(submitted)
    /\ ToSet(Kept) = ToSet(submitted) \ (dropped \cup failed \cup panicked)
    /\ \A i, j \in 1..Len(Kept) : i < j => Before(Kept[i], Kept[j])

\* When the drain met its deadline, the process ends with every record of a
\* request it served logged, unless the queue was full or SQLite refused it.
GracefulExitKeepsRecords ==
    main = "exited" /\ ~timedOut =>
        \A r \in Requests :
            request[r] = "new" \/ r \in ToSet(logs) \cup dropped \cup failed

\* Shutdown ends, however long the requests in flight take.
ShutdownEnds == main = "draining" ~> main = "exited"
=============================================================================
