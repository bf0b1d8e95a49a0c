----------------------------- MODULE AttemptLoop -----------------------------
(***************************************************************************)
(* ServeHTTP (internal/proxy/handler.go): the life of one request, from    *)
(* admission over attempts on several accounts, each with retries, to the  *)
(* one answer the client gets.                                             *)
(*                                                                         *)
(* A request is one goroutine; what is not its own is nondeterministic:    *)
(* what the router knows of the accounts and how far its balancers are     *)
(* each time it is asked (reloads and other requests change both), whether *)
(* an account has a free slot, and how a provider call ends.               *)
(* Contents are abstracted to their origin: the client has seen bytes of   *)
(* these provider calls, an error body, or nothing.                        *)
(***************************************************************************)
EXTENDS Selection

CONSTANTS
    Models,          \* a client may ask for
    MaxRetries,      \* retry_config.max_retries of the accounts
    MaxTurn          \* bound on the balancer's counter

ASSUME LoopAssumption == MaxRetries \in Nat /\ MaxTurn \in Nat

VARIABLES
    pc,
    keyed,           \* an API key was required: it belongs to a group
    strategy,        \* balancer of the group; without one, round robin
    model,           \* the client asked for
    keySlot,         \* holds a slot of the key
    attempt, retry,
    excluded,        \* accounts the router must not select again
    found,           \* what the router saw in the latest selection
    current,         \* account of this attempt, as a set of at most one
    sent,            \* the model the account is asked for
    slots,           \* accounts a slot is held on
    lastErr,         \* "none", "limit" or "upstream"
    result,          \* of the latest provider call: "none", "ok", "retry", "fail"
    \* What the client has got: responseStateWriter.
    seen,            \* provider calls, as <<attempt, retry>>, it has bytes of
    header,          \* "none", "stream" or the status of an error answer
    \* What is recorded.
    recordErr,       \* the request is logged with an error
    charged,         \* RecordUsage calls
    reported,        \* outcomes reported to the router: <<account, outcome>>
    \* History.
    calls            \* provider calls so far, as <<account, attempt, retry>>

requestVars == <<keyed, strategy, model>>
clientVars == <<seen, header>>
recordVars == <<recordErr, charged, reported>>
routerVars == <<found, sent>>
loopVars == <<attempt, retry, excluded, current, slots, lastErr, result>>
vars == <<pc, requestVars, keySlot, routerVars, loopVars, clientVars, recordVars, calls>>

\* The statuses of writeError and writeMappedError.
Statuses == {"400", "401", "403", "405", "429", "500", "502"}

\* Two attempts at least, one per account of a larger group.
MaxAttempts ==
    IF keyed /\ Cardinality(Accounts) > 2 THEN Cardinality(Accounts) ELSE 2

\* The statements after the loop (handler.go:324-331) are not a place of the
\* request: the last attempt answers within the loop.
TypeOK ==
    /\ pc \in {"start", "select", "slot", "call", "backoff", "settle", "done"}
    /\ keyed \in BOOLEAN /\ strategy \in Strategies /\ model \in Models
    /\ keySlot \in BOOLEAN
    /\ attempt \in 0..MaxAttempts /\ retry \in 0..MaxRetries
    /\ excluded \subseteq Accounts
    /\ current \subseteq Accounts /\ Cardinality(current) <= 1
    /\ slots \subseteq Accounts
    /\ lastErr \in {"none", "limit", "upstream"}
    /\ result \in {"none", "ok", "retry", "fail"}
    /\ seen \subseteq (0..MaxAttempts) \X (0..MaxRetries)
    /\ header \in {"none", "stream"} \cup Statuses
    /\ recordErr \in BOOLEAN
    /\ charged \in 0..MaxAttempts
    /\ reported \subseteq Accounts \X {"success", "failure"}
    /\ calls \subseteq Accounts \X (0..MaxAttempts) \X (0..MaxRetries)

Init ==
    /\ pc = "start"
    /\ keyed \in BOOLEAN /\ keySlot = FALSE
    /\ strategy \in IF keyed THEN Strategies ELSE {"round_robin"}
    /\ model \in Models
    /\ found = {} /\ sent = "none"
    /\ attempt = 0 /\ retry = 0
    /\ excluded = {} /\ current = {} /\ slots = {}
    /\ lastErr = "none" /\ result = "none"
    /\ seen = {} /\ header = "none"
    /\ recordErr = FALSE /\ charged = 0 /\ reported = {}
    /\ calls = {}

\* writeError, recordErr set, and the return with its deferred releases.
Fail(status) ==
    /\ header' = status
    /\ recordErr' = TRUE
    /\ keySlot' = FALSE
    /\ pc' = "done"

-----------------------------------------------------------------------------
(* Admission.                                                              *)

\* Bad request, authentication, model, quota or key slot: nothing acquired.
Reject(status) ==
    /\ pc = "start"
    /\ keyed \/ status \in {"400", "405"}
    /\ Fail(status)
    /\ UNCHANGED <<requestVars, routerVars, loopVars, seen, charged, reported, calls>>

Admit ==
    /\ pc = "start"
    /\ keySlot' = keyed
    /\ pc' = "select"
    /\ UNCHANGED <<requestVars, routerVars, loopVars, clientVars, recordVars, calls>>

-----------------------------------------------------------------------------
(* The head of the attempt loop: select an account.                        *)

\* What a selection may meet.  The accounts of a group come in its order.
Orders ==
    {order \in SetToSeqs(Accounts) :
        keyed => \A i, j \in DOMAIN order : i < j => order[i] < order[j]}

Encounters ==
    [order : Orders, usable : SUBSET Accounts,
     turn : IF strategy \in {"round_robin", "weighted"} THEN 0..MaxTurn ELSE {0},
     load : IF strategy = "least_connections" THEN [Accounts -> {0, 1}]
            ELSE {[a \in Accounts |-> 0]}]

CandidatesOf(f) == Candidates(f.order, model, excluded, f.usable)

\* No candidate, or no such group any more: the answer tells what went wrong
\* before.
NoAccount ==
    /\ pc = "select" /\ attempt < MaxAttempts
    /\ Fail(CASE lastErr = "limit"    -> "429"
              [] lastErr = "upstream" -> "502"
              [] lastErr = "none"     -> "400")
    /\ UNCHANGED <<requestVars, routerVars, loopVars, seen, charged, reported, calls>>

Select(f) ==
    /\ pc = "select" /\ attempt < MaxAttempts
    /\ CandidatesOf(f) # <<>>
    /\ current' = {Balance(strategy, CandidatesOf(f), f.turn, f.load)}
    /\ found' = {f}
    /\ pc' = "slot"
    /\ UNCHANGED <<requestVars, keySlot, attempt, retry, excluded, slots, lastErr, result,
                   sent, clientVars, recordVars, calls>>

\* The next attempt; the loop may also run out of attempts.
NextAttempt ==
    /\ attempt' = attempt + 1
    /\ pc' = IF attempt + 1 < MaxAttempts THEN "select" ELSE "fellThrough"

\* The attempts allowed are used up by accounts without a slot.
GivesUp == Cardinality(excluded') >= MaxAttempts

\* AcquireAccountConcurrency refuses.
NoSlot ==
    /\ pc = "slot"
    /\ lastErr' = "limit"
    /\ excluded' = excluded \cup current
    /\ found' = {}
    /\ \/ /\ GivesUp
          /\ Fail("429")
          /\ UNCHANGED attempt
       \/ /\ ~GivesUp
          /\ NextAttempt
          /\ UNCHANGED <<keySlot, header, recordErr>>
    /\ UNCHANGED <<requestVars, sent, retry, current, slots, result, seen, charged, reported,
                   calls>>

GotSlot ==
    /\ pc = "slot"
    /\ slots' = slots \cup current
    /\ retry' = 0
    /\ result' = "none"
    /\ found' = {}
    /\ \E a \in current : sent' \in ResolveModel(a, model)
    /\ pc' = "call"
    /\ UNCHANGED <<requestVars, keySlot, attempt, excluded, current, lastErr, clientVars,
                   recordVars, calls>>

\* The account names a provider the gateway does not have.
NoProvider ==
    /\ pc = "call" /\ retry = 0
    /\ slots' = slots \ current
    /\ Fail("500")
    /\ UNCHANGED <<requestVars, routerVars, attempt, retry, excluded, current, lastErr, result, seen,
                   charged, reported, calls>>

-----------------------------------------------------------------------------
(* Provider calls.  An SSE writer buffers the first kilobyte: bytes reach  *)
(* the client when it overflows, or is flushed after success.              *)

\* Faulty variant: a call that failed half-way is retried all the same.
GoesOnHalfWay(outcome) == outcome = "retry" /\ retry < MaxRetries

\* The call failed, and may be repeated on the same account.
GoesOn(outcome) ==
    outcome = "retry" /\ retry < MaxRetries /\ header' = "none"

\* outcome: "ok", or an error that is retryable or not; reach: whether bytes
\* reached the client, or a write to it was tried and failed.
Call(outcome, reach) ==
    /\ pc = "call"
    /\ calls' = calls \cup (current \X {attempt} \X {retry})
    /\ result' = outcome
    /\ seen' = IF reach = "bytes" THEN seen \cup {<<attempt, retry>>} ELSE seen
    /\ header' = IF reach = "nothing" THEN header ELSE "stream"
    /\ pc' = IF GoesOn(outcome) THEN "backoff" ELSE "settle"
    /\ UNCHANGED <<requestVars, routerVars, keySlot, attempt, retry, excluded, current, slots, lastErr,
                   recordVars>>

\* Faulty variant: the retry counter stands still.
RetryForever ==
    /\ pc = "backoff"
    /\ pc' = "call"
    /\ UNCHANGED <<requestVars, routerVars, keySlot, loopVars, clientVars, recordVars, calls>>

Retry ==
    /\ pc = "backoff"
    /\ retry' = retry + 1
    /\ pc' = "call"
    /\ UNCHANGED <<requestVars, routerVars, keySlot, attempt, excluded, current, slots, lastErr, result,
                   clientVars, recordVars, calls>>

\* Faulty variant: the slot is not given back.
CancelledKeepsSlot ==
    /\ pc = "backoff"
    /\ Fail("502")
    /\ UNCHANGED <<requestVars, routerVars, loopVars, seen, charged, reported, calls>>

\* The client goes away during the backoff: no outcome is reported.
Cancelled ==
    /\ pc = "backoff"
    /\ slots' = slots \ current
    /\ Fail("502")
    /\ UNCHANGED <<requestVars, routerVars, attempt, retry, excluded, current, lastErr, result, seen,
                   charged, reported, calls>>

-----------------------------------------------------------------------------
(* After the retries: release, charge, report, and answer or go on.        *)

\* `usage': the last call came with token usage.
Settle(usage) ==
    /\ pc = "settle"
    /\ slots' = slots \ current
    /\ charged' = IF usage /\ keyed THEN charged + 1 ELSE charged
    /\ UNCHANGED <<requestVars, routerVars, retry, current, result, seen, calls>>

Succeed(usage) ==
    /\ result = "ok"
    /\ Settle(usage)
    /\ reported' = reported \cup (current \X {"success"})
    /\ keySlot' = FALSE
    /\ pc' = "done"
    /\ UNCHANGED <<attempt, excluded, lastErr, header, recordErr>>

\* Faulty variant: a failed last attempt is followed by another one.
LastWordNever == FALSE

\* Bytes are out, or this was the last attempt.
LastWord == header # "none" \/ attempt = MaxAttempts - 1

GiveUp(usage) ==
    /\ result # "ok" /\ LastWord
    /\ Settle(usage)
    /\ reported' = reported \cup (current \X {"failure"})
    /\ lastErr' = "upstream"
    /\ recordErr' = TRUE
    /\ header' = IF header = "none" THEN "502" ELSE header
    /\ keySlot' = FALSE
    /\ pc' = "done"
    /\ UNCHANGED <<attempt, excluded>>

\* Faulty variant: the failure is not reported to the router.
FailoverUnreported(usage) ==
    /\ result # "ok" /\ ~LastWord
    /\ Settle(usage)
    /\ lastErr' = "upstream"
    /\ recordErr' = TRUE
    /\ excluded' = excluded \cup current
    /\ NextAttempt
    /\ UNCHANGED <<keySlot, header, reported>>

\* Nothing has reached the client: try another account.
Failover(usage) ==
    /\ result # "ok" /\ ~LastWord
    /\ Settle(usage)
    /\ reported' = reported \cup (current \X {"failure"})
    /\ lastErr' = "upstream"
    /\ recordErr' = TRUE
    /\ excluded' = excluded \cup current
    /\ NextAttempt
    /\ UNCHANGED <<keySlot, header>>

-----------------------------------------------------------------------------
\* A success has flushed its buffer; it may have had nothing to say.
Next ==
    \/ \E s \in Statuses \ {"500", "502"} : Reject(s)
    \/ Admit
    \/ NoAccount \/ \E f \in Encounters : Select(f)
    \/ NoSlot \/ GotSlot \/ NoProvider
    \/ \E r \in {"nothing", "bytes"} : Call("ok", r)
    \/ \E o \in {"retry", "fail"}, r \in {"nothing", "bytes", "failedWrite"} : Call(o, r)
    \/ Retry \/ Cancelled
    \/ \E u \in BOOLEAN : Succeed(u) \/ GiveUp(u) \/ Failover(u)

\* The goroutine runs, and provider calls return: the upstream ends them, or
\* the client's context does.
Spec == Init /\ [][Next]_vars /\ WF_vars(Next)

-----------------------------------------------------------------------------
(* Properties.                                                             *)

CalledAccounts == {c[1] : c \in calls}
ReportedAccounts == {r[1] : r \in reported}

\* The request is past admission and holds an account.
OnAccount == pc \in {"call", "backoff", "settle"}

\* A client hears one provider call at most: once bytes of a call are out, no
\* retry, no other account and no error body follows (handler.go:264, 313).
OneProviderSpeaks ==
    /\ Cardinality(seen) <= 1
    /\ seen # {} => /\ header = "stream"
                    /\ \A c \in calls : \A s \in seen :
                          c[2] < s[1] \/ (c[2] = s[1] /\ c[3] <= s[2])

\* A request goes to an account it has not tried, that was enabled, allowed by
\* its breaker and fit for the model, and to the one the strategy names among
\* them.  Priority: "only falls to [1], [2], etc. when earlier ones are
\* unavailable" (balancer.go:99-103).  Weighted: over as many turns as there
\* are weights each account gets its own (docs/admin-api.md:351), and round
\* robin gives each one turn.
Available(a, f) ==
    a \in f.usable \ excluded /\ CanServeModel(a, model)

Share(a, f) ==
    LET weight(b) == IF strategy = "weighted" THEN Weight(b) ELSE 1
        available == {b \in Accounts : Available(b, f)}
        tickets == UNION {{b} \X (1..weight(b)) : b \in available}
        got == {t \in 0..Cardinality(tickets) - 1 :
                    a = Balance(strategy, CandidatesOf(f), t, f.load)}
    IN  Cardinality(got) = weight(a)

SelectionKeepsPromise ==
    pc = "slot" =>
        \A f \in found, a \in current :
            /\ Available(a, f)
            /\ \A b \in Accounts : Available(b, f) =>
                  CASE strategy = "priority" -> a <= b
                    [] strategy = "least_connections" -> f.load[a] <= f.load[b]
                    [] OTHER -> Share(a, f)

\* Whatever the exit taken (cancellation, missing provider, success, last word,
\* next account), the account slot and the in-flight count are held exactly
\* while the account is worked on, and the key slot until the answer.
SlotsBalanced ==
    /\ slots = IF OnAccount THEN current ELSE {}
    /\ keySlot <=> keyed /\ pc \notin {"start", "done"}

\* Every account called is reported to its breaker exactly once and with the
\* outcome of its last call, except the one whose backoff was cancelled; and
\* a key is charged once at most for each reported outcome.
OutcomesReported ==
    /\ charged <= Cardinality(reported)
    /\ Cardinality(ReportedAccounts) = Cardinality(reported)
    /\ \A a \in CalledAccounts \ ReportedAccounts :
          a \in current /\ (OnAccount \/ (pc = "done" /\ result = "retry"))
    /\ \A a \in ReportedAccounts :
          <<a, "success">> \in reported <=> a \in current /\ pc = "done" /\ result = "ok"

\* A request is answered after finitely many retries and attempts.
AnswersEventually == <>(pc = "done")
=============================================================================
