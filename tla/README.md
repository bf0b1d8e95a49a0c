# A TLA+ model of cc-gateway

cc-gateway accepts Anthropic Messages requests, selects an upstream account
(Anthropic, OpenAI or Gemini), translates and streams the answer back, and keeps
accounts, groups, API keys, usage and logs in SQLite behind an admin API. This
directory models the parts whose correctness depends on interleaving, order,
failure, counting or translation: the modules are checked with TLC on small
instances, and most safety properties are proved with TLAPS for any number of
requests, attempts, admin handlers and accounts, and any stream an upstream of the
model sends.

Run a model with `tlc -config MCBreaker.cfg MCBreaker.tla`, check the proofs of a
component with `tlapm BreakerProofs.tla`.

## The system

| Component | State it keeps | Operations | Talks to |
|---|---|---|---|
| Request handler, `internal/proxy/handler.go`, `retry.go` | per request: attempt, retry, excluded accounts, slots held, what the client has seen | `ServeHTTP` | key store, router, providers, recorder |
| Key store, `internal/proxy/auth.go` | map of keys with in-flight and usage counters, groups, account semaphores, current month | `Authenticate`, `Acquire*`, `RecordUsage`, `Reload` | SQLite (usage) |
| Router, `internal/router` | maps of accounts, groups, balancers, breakers, in-flight counters, one RWMutex | `SelectAccount*`, `Record*`, `Increment/DecrementInflight`, `Reload` | breakers, balancers, metrics |
| Circuit breaker, `internal/breaker` | state, two counters, `openedAt` | `Allow`, `RecordSuccess`, `RecordFailure`, `Reset` | - |
| Domain, `internal/domain/account.go` | none | model aliases, allowed models | router, handler |
| Providers, `internal/provider` | per stream: open blocks, usage, stop reason | request translation, `Stream`, event conversion | upstream, SSE writer |
| SSE writer, `pkg/sse/writer.go` | prelude buffer | `WriteEvent`, `FlushBuffered` | client |
| Admin API, `internal/admin` | none of its own | CRUD on accounts, groups, keys; rotate; reset breaker; logs, stats, cleanup | SQLite, `reloadFn` |
| Process, `cmd/gateway/main.go` | configuration, prices | start, `reloadFn`, SIGHUP, shutdown | everything |
| Request log, `internal/accounting/recorder.go` | queue of 1000, one writer | `Record`, `processLoop`, `Close` | SQLite |
| Cleaner, cost, `internal/accounting` | ticker; price table | delete old payloads; compute cost | SQLite |
| Store, `internal/store` | SQLite tables, one connection | CRUD, usage increments, logs | - |
| Config, metrics, SSE reader, web UI | YAML; gauges; - | - | - |

What is hard: handlers, attempts, reloads and the log writer run concurrently and
share objects that reloads replace; a request fails over between accounts while
part of an answer may be out; breaker outcomes arrive late; admin writes merge
into rows and reload memory without a lock; usage is persisted behind the
request's back; upstreams stream in orders and forms of their own; shutdown has a
deadline. `PROJECT.json` lists each hazard with its line and the properties aimed
at it. Correctness, by component:

- breaker: counts exactly the consecutive outcomes, serves its cooldown, never
  locks a healthy account out;
- slots: what is acquired is released once, on the object it was acquired on, and
  the limit holds;
- router: selections and reloads return; a selection is a candidate the strategy
  names, able to serve the model, and not one the request has tried;
- handler: one provider's bytes only, every exit balanced, every outcome reported;
- key store: tokens are neither lost nor doubled on the way to the table, the
  quota is compared with what was recorded, a valid key is accepted;
- admin and reload: memory equals the database at rest, updates are not lost,
  references hold, retired secrets are refused;
- request log: one fate per record, nothing lost by a shutdown that meets its
  deadline;
- providers: the client gets a well-formed event stream that says what the
  upstream said, and the next request tells the conversation as it was, whichever
  provider it goes to.

## Modules

| Module | Models | Actions and the code |
|---|---|---|
| `CircuitGate` | abstract: what a breaker promises the router | - |
| `Breaker` | `breaker.go` and the attempts that consult it | one action per method and state found; the clock is the distance to `openedAt` |
| `AccountSlots` | account semaphores and in-flight counters under reloads | one action per atomic operation and per unlocked read of `limit`; objects have identities, so a reload can replace what an attempt still refers to |
| `RouterLock` | `Router.mu` as `sync.RWMutex` documents it | lock, unlock, announce, enter; one action per step of a selection |
| `Selection` | candidates, the four balancers, aliases and allowed models | operators |
| `AttemptLoop` (extends `Selection`) | `ServeHTTP`, one request | one action per exit or turn of the attempt and retry loops |
| `KeyUsage` | one key: authentication, quota, its slots, `RecordUsage` and its goroutine, overlapping reloads, month's end, restart | one action per section under the lock and per access outside it; entries have identities, so a reload can drop or replace what a request still refers to |
| `AdminReload` | the twelve admin handlers that write rows, SQLite, `reloadFn` | one action per SQL statement of a write or reload, and per install |
| `Recorder` | request log and shutdown | one action per step of `Record`, `processLoop`, `Close` and `shutdown` |
| `MessageStream` | abstract: the event stream an Anthropic client relies on | - |
| `StreamEvents` | the events a converter emits | operators |
| `OpenAIStream`, `GeminiStream` | the two `StreamConverter`s: `ProcessEvent`, `Finalize` | operators from converter state and event to state and output |
| `Requests` | both request translations: thinking, tools, `tool_choice`, messages | operators |
| `Provider` (extends the three before it) | a conversation: translate, `Stream`, prelude buffer, the answer in the next request; both upstreams are its environment | one action per event received, event written, and end |
| `BreakerProofs`, `AccountSlotsProofs`, `KeyUsageProofs`, `RecorderProofs`, `AttemptLoopProofs`, `AdminReloadProofs`, `ProviderProofs` | theorems on the modules they are named for; those of `Selection` are in `AttemptLoopProofs` | - |
| `StreamProofs` | lemmas on the events and the two converters, for `ProviderProofs` | - |

Compositions in TLA+: `AttemptLoop` is over `Selection`; `Provider` puts the
converters, the translations and the writer together and implements
`MessageStream`; `Breaker` implements `CircuitGate`. The other modules overlap in
what they share with the code: `AttemptLoop` is the inside of one attempt of
`Breaker` and `AccountSlots`, and a provider call of it is a `Stream` of `Provider`;
`KeyUsage` is the key's side of the same request; `AdminReload`'s installs are the
reloads of `AccountSlots` and `KeyUsage` and the writers of `RouterLock`;
`Recorder`'s requests end where `AttemptLoop` ends. `MC*` modules only fix
instances. Definitions called *faulty variant* belong to no specification: each is
the definition after it with one plausible bug, and replacing the definition by it
must break a property.

## Runs

| Run | Instance | Shows |
|---|---|---|
| `breaker` | 3 attempts, thresholds 3 and default 2, 2 ticks open; 254 states | counts exact, cooldown served, recovery, refinement |
| `account_slots` | 2 attempts, 1 account, limits 0-2, 2 reloads of each component; 385 125 states up to symmetry | slots and counters exact, limit respected by every always-limited semaphore |
| `account_slots_unlimited` | the same, limits 0-1 | **violated**: `max_concurrent` after a limit was 0 |
| `router_lock` | round robin and least connections, 2 writers; 260 states | everything returns unless a nested read lock is blocked |
| `router_lock_nested` | the same | **violated**: a reload deadlocks with a least-connections selection |
| `attempt_loop` | 3 accounts with aliases, allowed models and weights 2, 3 (default), 1; 2 models, 4 strategies, 2 retries, counter up to 5; 115 721 states | one provider speaks, selections as promised, slots balanced, outcomes reported, answers |
| `admin_reload` | 2 handlers, 1 account, 1 key, 3 requests, restarts; 564 093 states up to symmetry | memory is the database at rest, updates stick, references hold |
| `admin_reload_rotate` | the same | **violated**: a rotated key still works |
| `recorder` | 4 requests, queue of 2; 129 096 states | one fate per record, shutdown |
| `key_usage` | 2 requests, 2 secrets, limits 0-1, quota 1, 2 months, 1 token, 2 reloads at once, 3 changes, reloads or restarts; 2 783 453 states up to symmetry | tokens conserved, quota counter exact, slots exact and limit respected entry by entry, valid keys accepted |
| `key_slots_overlap` | 2 requests, limit 1, 3 changes, reloads or restarts | **violated**: two entries of one secret together exceed `max_concurrent` |
| `providers` | 2 parts at 3 positions with 2 deltas (OpenAI); 2 chunks of 2 new parts, texts of up to 2 letters of which one may begin or end the other (Gemini); 1 492 405 states up to symmetry | faithful, well-formed streams; signatures and conversation come back; providers agree |

Why the bounds are enough. Breaker: three attempts allow one reported early, one
late and one probing; a cooldown of two ticks tells a partial from a full one.
Slots: two attempts race for the last slot, and two reloads delete and re-create
an account or change a limit twice. Lock: the deadlock and every fair handover
need two of each kind. Loop: three accounts are more than the minimum of two
attempts, so `len(AccountIDs)` is what counts, and two retries tell the first
from the last; a counter up to 5 reaches every turn of the sum of the weights, 6.
Reload: one request to set up and two to overlap, or two that overlap and one
that reloads alone. Recorder: four requests fill the queue while one record is
being written and leave one for after the close. Keys: a second secret is a
rotation, a second month a rollover, one token reaches the quota, and three
events let a reload list a secret, a rotation and its own reload drop it, and the
first one install it again, or put a change, a reload and a restart around a
request; two requests ask for one slot, or for those of two entries. (Three
requests with limits of 1 and 2 and four events, without usage, have also been
searched for the slots: 953 589 states; and two tokens with two events for the
rest: 2 368 463.) Providers: two parts interleave, and a third position is one the upstream
never announced; two chunks tell a snapshot from an increment; the texts "a",
"b" and "ab" repeat, begin, end or differ from the last. (All six texts of up to
two letters have also been searched: 3 416 518 states.)

Where a passing property carries a proviso, it is the largest guarantee the code
gives:

- `SlotsExact` and `WithinLargestLimit` exclude semaphores that were ever
  unlimited, `CounterExact` accounts dropped under an attempt;
- the liveness of `RouterLock` excludes the nested lock;
- `MemoryIsDatabase` and `RetiredSecretRejected` exclude overlapping or failed
  reloads, `ReferencesHold` a write between another handler's check and write,
  `UpdatesStick` a write of the row between another handler's read and write;
- `QuotaCounterExact` excludes memory that a reload filled while tokens were not
  in the table, or a month that ended under a request, until the next reload;
- `KeySlotsExact` and `KeyLimitHolds` are about the slots of one entry, and the
  largest limit its secret has had: a secret may have several entries in use,
  when an overlapping reload brings it back;
- `UnchangedKeyAccepted` excludes an authentication between the moment a reload
  has emptied the map of groups and the moment it has filled it;
- `BlocksFaithful`, `SuccessDelivers` and `SignaturesComeBack` exclude Gemini
  streams the code cannot tell apart (`Unclear`): an increment of text that
  starts with the last one ("a" then "ab", or the same again) looks like a
  snapshot, and loses that much of itself; a snapshot with two texts looks like
  increments; and in increments a call (`merged`) looks like an earlier chunk's
  call at the same position, and its arguments go to that call's block;
- `SignaturesComeBack` lets a call without a signature have that of a thought,
  and after snapshots any other's;
- `ProvidersAgree` excludes models without thinking, `disabled` with an effort,
  and tool filters the documentation does not know.

The violated runs show what happens without some of them; what follows names others.

What else was seen in the code and no run checks, for a reader of the models:

- the error of a failed attempt stays in `recordErr` after a later success
  (`handler.go:305`), so the request is logged as an error;
- one counter serves the round-robin turns of first picks and of failovers, so a
  failover takes a turn from the next request;
- `safety_settings` are consulted only when `safety_level` is not a valid one;
- an unknown `tool_filter` strips MCP tools for Gemini, while
  `docs/admin-api.md:173` knows no such default;
- a Gemini stream that breaks off is finished as `end_turn`, even after a call,
  and an upstream that ends early is reported as a success;
- thought parts are repeated with each Gemini snapshot, and snapshots of call
  arguments need not extend the one before;
- the empty text block that fills an answer without content goes back to Gemini
  as an empty part in the next request;
- a Gemini snapshot with two texts is told again, and so is the block that carries
  the signature of a call it repeats (`gemini/stream.go:193`, 453), although
  `docs/admin-api.md:172` says that the gateway works out what is new;
- two handlers may delete an account and write a group that refers to it, or take
  back each other's columns (`admin/server.go:246`, 198), against
  `docs/admin-api.md:265`, 288;
- `convertSchemaValue` (`gemini/translate.go:612`) holds the names of a tool's
  parameters against the fields of a schema, and drops the others;
- the ids of Gemini's calls are made of the time in nanoseconds
  (`gemini/stream.go:206`) and may collide.

## Fairness

- `Breaker`: the clock advances. That clients keep asking and that an account that
  is asked again and again sometimes succeeds is an assumption on the traffic,
  used by `HealthyAccountRecovers` only.
- `RouterLock`: runnable goroutines run (weak); the writers' mutex is handed over
  fairly (strong: Go's mutexes have a starvation mode).
- `AttemptLoop`: the request's goroutine runs, and provider calls return, as
  upstream or the client's context ends them.
- `Recorder`: the writer runs (its statements have 10 seconds), and so does the
  shutdown, whose drain has 30 seconds. Requests in flight have no fairness:
  nothing bounds a stream, and `ShutdownEnds` holds without.
- The other modules have safety properties only and assume none.

## Proofs

Every `*Proofs` module but `StreamProofs`, which is about operators, proves
`Spec => []IInv` for one inductive invariant (`StreamInv` in `ProviderProofs`), and
the properties of the runs from it: state invariants, `UnchangedKeyAccepted`, the
action property of `KeyUsage`, and the refinements of `CircuitGate` and
`MessageStream`. The runs' instances have also been searched with the invariant
(the `w` of `StreamInv` is computed there, by applying the events on their way to
the view). Most properties are conjuncts of it; the other conjuncts say
what these need of the places where the processes are.

| Module | Proved | Assumed of the constants |
|---|---|---|
| `BreakerProofs` | types; `ClosedCountsFailureRun`, `HalfOpenCountsSuccessRun`, `ProbesOnlyAfterCooldown`; transitions are earned; refinement of `CircuitGate` | configured values are integers, of any sign |
| `AccountSlotsProofs` | types; `SlotsExact`, `WithinLargestLimit`, `CounterExact` | finitely many attempts; limits are integers |
| `KeyUsageProofs` | types; `DatabaseConserves`, `QuotaCounterExact`, `KeySlotsExact`, `KeyLimitHolds`, `UnchangedKeyAccepted` | finitely many requests; secrets and months numbered in order |
| `RecorderProofs` | types; `OneFate`, `GracefulExitKeepsRecords` | the queue has a capacity |
| `AttemptLoopProofs` | of `Selection`: weighted and round-robin turns are shared out exactly, a candidate is selected; types; `OneProviderSpeaks`, `SelectionKeepsPromise`, `SlotsBalanced`, `OutcomesReported` | accounts are a finite set of integers; weights are positive; bounds are naturals |
| `AdminReloadProofs` | types; `MemoryIsDatabase`, `RetiredSecretRejected`, `ReferencesHold`, `UpdatesStick` | there is an account, and the key's id is none of theirs |
| `ProviderProofs` | types; refinement of `MessageStream`; `BlocksFaithful`, `SuccessDelivers`, `ProvidersAgree` | positions in a chunk are numbered from 1 to a bound; bounds are naturals; texts are not empty |

The bounds of the models (`MaxReloads`, `MaxEvents`, `MaxOps`...) are constants
too: what is proved holds for each of their values. So are the provisos listed
above: the theorems are about the same formulas as the runs.

**Breaker.** That a closed breaker counts exactly the failures since the last
success needs to know that nothing is carried over from half-open, and the
refinement that `elapsed` is the time since the trip. `TransitionsEarned`, that the
breaker opens and closes only on the configured runs of outcomes or by the
operator, is proved and not among the runs' properties.

**Account slots.** `SlotsExact` compares a number with the cardinality of a set of
attempts, so each step is a lemma on what it adds to or takes from that set. The
limit rests on `SeenBelowLimit`: between the comparison and the CAS a reload may
change the limit, and what the CAS swaps in is then within the limit the
comparison saw. `CounterKept` says that an account not dropped under an attempt
still has the counter that attempt has incremented.

**Key usage.** `ReloadKnowsUsage` is what a reload under way has read: as long as
nothing was recorded since, it is the month's usage, which makes the new entries'
counters exact. `EntriesNamed` says that an entry keeps its secret for
good, with limits that secret was given, and that the map has it under no other;
so a request that went on with an entry the map has lost still compares its slots
with a limit of the same secret. A slot is given back to the entry it was taken
from, and an entry a reload makes anew is held by nobody.
`RowUnchanged` carries a key nobody changes through every reload under way, from its
list to the maps.

**Request log.** `OneFate` says that log, writer and queue, one after the other, are
the submitted records without the dropped, failed and lost ones, in order;
preserving it takes lemmas on the sequences each step moves a record between.
`ShutdownOrder` states how far the others are at each stage of `shutdown`; the
writer having stopped means that the queue is empty.

**Selection** (in `AttemptLoopProofs`). The sums of `Weighted.Select` are a recursive function on the
naturals, and what they add up to is an induction: it is done by the least
number for which the claim fails (`Least`), since the library's induction theorem
takes an operator. From the sums follows the share: the turns a candidate
gets are an interval of the length of its weight.

**Attempt loop.** `InAttempt` counts: each attempt that failed has excluded one account,
so `attempt` is the size of `excluded`, and the request cannot leave the loop
without an answer. `CallsInOrder` separates the calls of earlier attempts, whose
outcomes are reported, from those of this one. `Heard` says that bytes that
reached the client end the retries. `SelectionKeepsPromise` rests on the theorems of
`Selection` and on what the candidates are.

**Admin and reload.** `ReloadsUpToDate` is the argument for reloading after every write:
unless a write is waiting for its own reload, a reload that is alone has read
what the database still holds. `ChecksHold` says that what a handler has checked is
true until its write, or a write came in between; `SecretsFresh` and
`SecretsReplaced` that a secret which was rotated out is in no table a lone
reload could install.

**Providers.** `StreamInv` says that the events in the buffer and the queue lead the
client, each of them one it can apply, to the message the converter believes it
holds (`Lawful`), or are the end of a message that was never begun and are
dropped with the prelude (`Prelude`: `Finalize` after an orphaned delta). What the
converter believes is `Matches` for OpenAI, `Tracks` for Gemini: the next index is
the number of blocks, and the blocks it counts as open are the open ones. Each
handler of the converters preserves that for every event or chunk
(`StreamProofs`); the writer only moves events from the queue to the client, in
order. That every prefix of the events is lawful gives `TypeOK` and, block by
block, the steps of `MessageStream`.

That the client is told what was said is a relation between upstream, converter
and message, kept by every event. For OpenAI (`FollowsOpenAI`), the blocks are the
announced parts in their order, with what was said of them. For Gemini
(`FollowsGemini`), they are the parts heard, those of one position or one run of
text put together (`Heeds`), unless the stream is one the code cannot tell apart
(`Hazy`); which of the parts of a chunk are new depends on what the converter
remembers, the last text and the calls by position: all of the last snapshot
(`Repeats`), or which positions have called (`Adds`). A chunk is read part by part,
so its effect is an induction on its length (`SnapshotHeard`, `IncrementHeard`,
`ChunkFollows`). `Calling` is kept in any stream, and makes a `tool_use` tell of a
call the client has. A client that holds less was told less (`SpokenGrows`), so
`BlocksFaithful` holds at every moment, and `SuccessDelivers` once nothing is on
its way.

Only model-checked:

- liveness, which is out of the prover's reach, as `ENABLED` is:
  `HealthyAccountRecovers`, the two properties of `RouterLock`, `AnswersEventually`,
  `ShutdownEnds`;
- of `Provider`, `SignaturesComeBack` and `ConversationKept`: the translations of
  messages are folds and selections of sequences, which the provers cannot
  compute.

## Not modelled

- The payload cleaner, which deletes by age and shares nothing but the database;
  cost, which is arithmetic on prices, and the SIGHUP reload of prices.
- The Anthropic adapter: it forwards events as they come, and only its outcomes
  appear, as those of `Call` in `AttemptLoop`. The SSE reader: parsing of lines.
- Of requests: sampling parameters, system prompt, headers and safety settings,
  which are copied or set one by one; the schemas of tools, which are
  rewritten by recursion on their data; the contents of tool results and images. Of
  answers: token counts.
- Panics in a provider call, which skip the releases that are not deferred, and
  the durations of backoffs.
- In `AdminReload`, interleavings between the reads that precede one write; in
  `KeyUsage`, the other keys, which share only the month and the maps' locks; that
  there are some keeps authentication on (`HasKeys`), and `AttemptLoop` has
  requests with a key and without.
- The breaker gauge and other metrics, configuration, read-only endpoints, the web
  UI.

## Plan

1. Safety of `RouterLock`: who holds the lock is determined by where the goroutines
   are, and no selection reads maps a reload is replacing.
2. Model: the cleaner and the usage goroutines in the shutdown of `Recorder`.
