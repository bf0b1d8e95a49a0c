------------------------------ MODULE RouterLock ------------------------------
(***************************************************************************)
(* Who holds and who waits for Router.mu (internal/router/router.go).      *)
(*                                                                         *)
(* A selection holds the read lock while the balancer picks a candidate.   *)
(* The least_connections balancer asks getAccountInflight for each of      *)
(* them, which takes the read lock again.  Reload and the slow path of     *)
(* getOrCreateInflightCounter take the write lock.                         *)
(*                                                                         *)
(* sync.RWMutex is modelled by what it documents: writers queue on a mutex *)
(* of their own; the one at the head announces itself, from then on new    *)
(* read locks block, and it enters when the read locks held have been      *)
(* given back; when it leaves, the blocked readers get in before the next  *)
(* writer.                                                                 *)
(***************************************************************************)
EXTENDS Naturals

CONSTANTS
    Selectors,        \* requests selecting an account
    Writers,          \* goroutines calling Reload, or creating a counter
    MaxCandidates,    \* bound on the candidates of a selection
    Strategy          \* balancer of the group each selector selects in

ASSUME LockAssumption ==
    /\ MaxCandidates \in Nat \ {0}
    /\ Strategy \in [Selectors ->
                     {"round_robin", "weighted", "priority", "least_connections"}]

VARIABLES
    pc,          \* of a selector
    left,        \* candidates whose counter the balancer has not read yet
    held,        \* read locks a selector holds
    blocked,     \* selectors blocked in RLock
    wpc,         \* of a writer: "idle", "queued", "announced" or "writing"
    writer       \* {w} for the writer past the writers' mutex, or {}

lockVars == <<held, blocked, writer>>
vars == <<pc, left, held, blocked, wpc, writer>>

TypeOK ==
    /\ pc \in [Selectors -> {"idle", "start", "choose", "count"}]
    /\ left \in [Selectors -> 0..MaxCandidates]
    /\ held \in [Selectors -> 0..2]
    /\ blocked \subseteq Selectors
    /\ wpc \in [Writers -> {"idle", "queued", "announced", "writing"}]
    /\ writer \in SUBSET Writers

Init ==
    /\ pc = [s \in Selectors |-> "idle"]
    /\ left = [s \in Selectors |-> 0]
    /\ held = [s \in Selectors |-> 0]
    /\ blocked = {}
    /\ wpc = [w \in Writers |-> "idle"]
    /\ writer = {}

-----------------------------------------------------------------------------
(* sync.RWMutex, for readers.                                              *)

\* RLock by s, which continues only when it is not blocked.
RLock(s) ==
    IF writer = {} THEN /\ held' = [held EXCEPT ![s] = @ + 1]
                        /\ UNCHANGED blocked
                   ELSE /\ blocked' = blocked \cup {s}
                        /\ UNCHANGED held

RUnlock(s) == held' = [held EXCEPT ![s] = @ - 1] /\ UNCHANGED blocked

Running(s, place) == pc[s] = place /\ s \notin blocked

-----------------------------------------------------------------------------
(* SelectAccountExcept and selectAccountFromAll.                           *)

BeginSelect(s) ==
    /\ Running(s, "idle")
    /\ RLock(s)
    /\ pc' = [pc EXCEPT ![s] = "start"]
    /\ UNCHANGED <<left, wpc, writer>>

\* Faulty variant: the early return forgets the lock.
NothingToSelectLocked(s) ==
    /\ Running(s, "start")
    /\ pc' = [pc EXCEPT ![s] = "idle"]
    /\ UNCHANGED <<left, lockVars, wpc>>

\* ErrNoGroup, or no candidate.
NothingToSelect(s) ==
    /\ Running(s, "start")
    /\ RUnlock(s)
    /\ pc' = [pc EXCEPT ![s] = "idle"]
    /\ UNCHANGED <<left, wpc, writer>>

\* The candidates are known; the balancer reads their counters one by one,
\* or none of them.
Candidates(s) ==
    /\ Running(s, "start")
    /\ \E n \in 1..MaxCandidates :
          left' = [left EXCEPT ![s] = IF Strategy[s] = "least_connections" THEN n ELSE 0]
    /\ pc' = [pc EXCEPT ![s] = "choose"]
    /\ UNCHANGED <<lockVars, wpc>>

\* getAccountInflight: RLock again, read the counter, RUnlock.
ReadInflight(s) ==
    /\ Running(s, "choose") /\ left[s] > 0
    /\ RLock(s)
    /\ pc' = [pc EXCEPT ![s] = "count"]
    /\ UNCHANGED <<left, wpc, writer>>

InflightRead(s) ==
    /\ Running(s, "count")
    /\ RUnlock(s)
    /\ left' = [left EXCEPT ![s] = @ - 1]
    /\ pc' = [pc EXCEPT ![s] = "choose"]
    /\ UNCHANGED <<wpc, writer>>

EndSelect(s) ==
    /\ Running(s, "choose") /\ left[s] = 0
    /\ RUnlock(s)
    /\ pc' = [pc EXCEPT ![s] = "idle"]
    /\ UNCHANGED <<left, wpc, writer>>

-----------------------------------------------------------------------------
(* Reload, and getOrCreateInflightCounter when there is no counter.        *)

CallLock(w) ==
    /\ wpc[w] = "idle"
    /\ wpc' = [wpc EXCEPT ![w] = "queued"]
    /\ UNCHANGED <<pc, left, lockVars>>

Announce(w) ==
    /\ wpc[w] = "queued" /\ writer = {}
    /\ writer' = {w}
    /\ wpc' = [wpc EXCEPT ![w] = "announced"]
    /\ UNCHANGED <<pc, left, held, blocked>>

Enter(w) ==
    /\ wpc[w] = "announced"
    /\ \A s \in Selectors : held[s] = 0
    /\ wpc' = [wpc EXCEPT ![w] = "writing"]
    /\ UNCHANGED <<pc, left, lockVars>>

\* The maps are rebuilt; Unlock lets the blocked readers in.
Leave(w) ==
    /\ wpc[w] = "writing"
    /\ wpc' = [wpc EXCEPT ![w] = "idle"]
    /\ writer' = {}
    /\ held' = [s \in Selectors |-> IF s \in blocked THEN held[s] + 1 ELSE held[s]]
    /\ blocked' = {}
    /\ UNCHANGED <<pc, left>>

-----------------------------------------------------------------------------
Finish(s) ==
    NothingToSelect(s) \/ Candidates(s) \/ ReadInflight(s) \/ InflightRead(s) \/ EndSelect(s)

Next ==
    \/ \E s \in Selectors : BeginSelect(s) \/ Finish(s)
    \/ \E w \in Writers : CallLock(w) \/ Announce(w) \/ Enter(w) \/ Leave(w)

\* A goroutine that can run, runs; the writers' mutex is handed over fairly.
Fairness ==
    /\ \A s \in Selectors : WF_vars(Finish(s))
    /\ \A w \in Writers : SF_vars(Announce(w)) /\ WF_vars(Enter(w)) /\ WF_vars(Leave(w))

Spec == Init /\ [][Next]_vars /\ Fairness

-----------------------------------------------------------------------------
(* Properties.                                                             *)

\* A selection that holds the read lock and waits for it again, behind a
\* writer that waits for the first one: neither will ever move.
NestedReadBlocked == \E s \in blocked : held[s] > 0

\* The nested read lock is the only way a reload can be held up for good:
\* however many requests keep selecting, the writer gets in.
ReloadCompletesUnlessNested ==
    \A w \in Writers : wpc[w] = "queued" ~> wpc[w] = "idle" \/ NestedReadBlocked

\* Nor can a request hang while selecting an account in any other way,
\* however many reloads come.
SelectionReturnsUnlessNested ==
    \A s \in Selectors : pc[s] = "start" ~> pc[s] = "idle" \/ NestedReadBlocked

\* README.md:212 has every change of accounts, groups and keys reloaded into
\* the in-memory router at once: a reload that was called completes.
ReloadCompletes ==
    \A w \in Writers : wpc[w] = "queued" ~> wpc[w] = "idle"

=============================================================================
