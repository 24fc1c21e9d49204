# AISecurityControlPlane: specifications in TLA+

The control plane is a gateway between the users of an organisation and three
AI providers. It decides by policy what a request may do, reserves and charges
the user's budget, calls a provider or falls back to the next one, and leaves an
audit event. A browser extension and an endpoint agent report to it what happens
away from it. These specifications are about what the gateway and its clients do
when requests, processes, failures and restarts interleave: the arithmetic of
the shared budget counters, what the audit trail may lose, which provider answers,
on what evidence a device is trusted, which policy is in force and which version the
audit trail names, what becomes of an event an endpoint has buffered, and what a
browser page sends although, or before, it was told not to.

Paths such as `app/budget.py` are relative to the repository.

## Inventory

| Component | State it keeps | Operations | Works with | What is hard | What makes it correct |
|---|---|---|---|---|---|
| Budget service, `app/budget.py` | four counters per user in Redis: actual and reserved, of the day and of the month; or sums over audit rows in store-fallback mode | `spend_snapshot`, `reserve`, `reconcile` | called by both proxy handlers; Redis is shared by all replicas | check and add are two round trips; keys named after the moment; round trips that raise, applied or not; a process that dies while it holds a reservation | counters are the sums of what was reserved and spent; a budget is exceeded by no more than what is explained; holds are released |
| Proxy handlers, `app/main.py` | none of their own; coroutines of one event loop | decide, downgrade, reserve, call, reconcile, log | policy, budget, providers, audit pipeline | everything after an await may be stale; every exit must reconcile and log | one settlement per reservation; a downgrade is decided on current numbers |
| Provider routing, `app/policy.py`, `app/main.py` | the live policy; which providers have keys | `fallback_candidates`, the loop over candidates, `should_fallback_status` | proxy handlers, provider adapters | the list dates from before the calls; skipped, raised and retryable candidates mix | the documented list; the client gets the last response; 502 only if there was none |
| Audit pipeline, `app/audit_pipeline.py` | a bounded queue, a worker, four metrics, spool files | `start`, `stop`, `log_event`, `_worker`, `_persist`, `_spill` | every handler; audit store | queue at its limit; inserts and spills that raise; shutdown and crash | each logged event is queued, stored or spooled; metrics balance; rows in order |
| Audit store, `app/store.py` | tables of audit events and devices | `log_event`, queries, device rows | audit pipeline, admin API, identity, budget in fallback mode | an insert may raise after its commit; timestamps are those of the insert | a row for each event, in the order of logging |
| Endpoint event buffer, `endpoint/event_buffer.py` | files of a spool directory | `append`, `flush` | one process per run of `agent_demo.py`; the ingest route | nothing locks the directory; torn lines; answers that are late or lost | an appended event stays until it is delivered |
| Event ingest, `app/main.py` | none | `ingest_events` | event buffer, extension; audit pipeline | a batch may fail midway and be repeated | each event logged, repeated only after failures |
| Policy engine, `app/policy.py` | the parsed policy | `decide`, `decide_web`, `resolve_model`, `budget_downgrade_model` | handlers | order of its rules; substitutes that are not checked again | block before allow; no rule skipped |
| Policy store and admin API, `app/main.py`, `app/policy.py` | policy file, backups, `policy`, `policy_version` | `reload`, admin PUT | every handler | reload in a thread beside the loop; backups of one second share a name; a reload that raises between its two assignments; a file that was opened for writing and not written | policy, version and file agree once reloads have ended; events name a policy of their time; no text is lost |
| Identity and device trust, `app/identity.py`, `app/devices.py` | enrolled devices; discovery cache | enroll, verify, revoke, resolve | handlers, audit store | read and touch are two transactions; awaits after the check | a revoked device is not trusted |
| Browser extension, `extension/*.js` | timers and pending decisions in a page | hooks of fetch, XMLHttpRequest, beacon; event handlers | `/v1/web/evaluate`, event ingest | a timer races the decision; `preventDefault` after an await | a decision is obeyed where there still is time; what left is audited; what is refused is told |
| Provider adapters, `app/providers.py` | API keys | one call per provider | proxy handlers | a call that was charged for and whose answer cannot be converted | each call ends in a response or an exception the loop handles |
| Scanners, `app/scanners.py` | none | regular expressions | policy engine, extension | none beyond the patterns | not a matter of states |
| Policy signing, `app/signing.py` | none | HMAC over canonical JSON | policy bundle route | none | not a matter of states |
| Settings, `app/settings.py` | environment | none | all | choose between behaviours | constants and initial choices here |
| Admin console, scripts, manifests | none | none | none | none | the manifest's three replicas are why `Budget` has several |

`PROJECT.json` lists the hazards line by line.

## Modules

| Module | Stands for | Built on |
|---|---|---|
| `Budget`, `BudgetLedger` | the budget in Redis; the account it should be | |
| `AuditPipeline` | queue, worker, spool, store | |
| `StoreBudget` | the budget without Redis, read from the rows the pipeline writes | `AuditPipeline` |
| `PolicyEngine` | the decisions of `app/policy.py`, as operators | |
| `Failover` | a chat request from decision to answer | `PolicyEngine` |
| `WebGuard` | the extension, its gateway calls and the page | `PolicyEngine` |
| `Identity`, `PolicyStore` | who a request is; the policy file and the policy in force | |
| `ControlPlane` | the handlers of one process over these two | `Identity`, `PolicyStore` |
| `EventDelivery` | the endpoint's buffer and the ingest of its events | |

`X` has a module `MCX` with the values for TLC and a module `XProofs` with its theorems;
`SetInduction` has lemmas on induction that several of these use. `Identity` and `PolicyStore` have the actions of their parts, and are
run in `ControlPlane`, which adds the event loop they share.

The handler of a chat request is cut at its seams: `ControlPlane` has its
identification and when it reads the policy; `Failover` its decision, its candidates
and the loop over them; `Budget` its steps that touch Redis, with the provider calls
as one await (they meet in the states "calling" and "unrouted" of `Budget`: `Failover`
ends in "answered" or "unavailable", and either way the handler reconciles); and
`AuditPipeline` what becomes of its event.

### Budget

The user's counters, keyed by day and month, and the control state of every
request of that user. A handler holds its replica's event loop from one await to
the next (`OnLoop`, `LoopFree`), while a Redis round trip is one step between
which other replicas run.

| Action | Code |
|---|---|
| `Block`, `Admit` | the policy decision of a handler up to its first Redis round trip |
| `Project` | the chat handler's `spend_snapshot` and `budget_downgrade_model` |
| `Snapshot`, `Commit` | the two round trips of `reserve` |
| `Settle`, `Log` | the end of the provider calls, `reconcile`, the audit event and answer |
| `Unparseable` | `/v1/messages` failing on the usage of an answer, before it reconciles |
| `ReadFails`, `CommitFails`, `SettleFails` | a round trip that raises; a write may have been applied |
| `Crash`, `Tick` | a gateway process dies; midnight |

`held`, `cost`, `reservedOn` and `settledOn` are history: no guard reads them but
`held`, which is the reservation the handler keeps in a local variable. Sums of
money are counted as sets of units (`HeldUnits` and so on), which gives TLC and the
proofs cardinalities to reason with and no recursive sum.

`BudgetLedger` is an account that reserves in one indivisible step within its
allowance and charges once. With one replica and within one day the handlers
implement it (`ImplementsLedger`).

### AuditPipeline

Several lives of one gateway process. `Boot` is `__init__` and `start`. `Enqueue`,
`Overflow` and `WriteThrough` are the three ways through `log_event`. `Wake`,
`Persist`, `PersistFails` and `Rest` are the worker: it gives up the loop only where
`queue.get` finds the queue empty, because the insertion and the spill are
synchronous, so no handler logs while it is "draining". `Stop` cancels the worker
where it waits; `Restart` follows a shutdown or a crash.

### StoreBudget

A gateway without Redis, or one that did not reach it when it was constructed, which is
a decision for the life of the process. The events of `AuditPipeline` are the chat
requests of one user: `Approve`, `CheckFails` and `Refuse` are the handler up to its
provider call, `Finish` is its end. `Refuse` and `Finish` log through the pipeline's own
actions. `Spent` is `spend_since`: the costs on the rows stored since midnight, and a row
has the time of its insertion (`StampRows`), not that of its request. `unseen` is history:
how many approved calls of the day its last check could not see.

### Failover

One request. `Refuse` and `Route` are `decide`, the downgrade and `fallback_candidates`,
between which the handler does not wait. `FallbackCandidates` is built from `ChainCandidates` and `WithDefaults`
as the source builds it, and compared with what its docstring says
(`CandidatesAsDocumented`), a definition by rank that has none of its loops. `Skip`,
`CallRaises`, `CallReturns` and `Finish` are the handler's loop and what follows it.
Whether an error's status is retryable is asked of the live policy, so it is a choice
for each; a good response is never retried. `billed` is history: what the providers
charge for, which is every good response, and any call that raised, for the handler's
`except Exception` also catches an adapter that cannot convert what it received.

### Identity, PolicyStore and ControlPlane

`Identity` has the table of enrolled devices, shared by all processes, and `resolve`:
`Arrive` and `Identify` up to `verify`'s read of the row, `Touch` its second transaction,
`Enriched` the return of JumpCloud. `DeviceChecked` and `Resolved` are the branches
between them, `MayAdminister` is `require_admin`. `since` is history: the devices that
were trusted at some moment since the request arrived.

`PolicyStore` has the file with its backups, and the policy in force. A reload is `Load`, `Assign`,
`Find` and `SetVersion`: it reads the file, assigns the policy, reads it again for its version,
assigns that. `Find` raises for a policy that has no `version` and cannot be hashed (`json.dumps`
refuses a date, or keys of several types): such policies are those outside `Versioned`, and stay in
force under the version there was. The PUT is `Backup`, `Truncate`, `Write` and a reload, without an
await. `BackupFails`, `WriteFails` and `LoadFails` are a disk that is full or does not answer: a
write that fails once the file is open leaves it empty, broken or a shorter policy (`Leftovers`,
`Fragments`). Whatever raises ends the PUT with an error. The reload endpoint is a plain `def`,
which the framework runs in a worker thread: `StartThread`, and a reload whose steps anything may
come between. `Edit` is the operator's, `Die` and `Boot` are a process that ends and starts again.
`lineage`, `named`, `doubt`, `unread`, `torn`, `written` and `taken` are history: the policies that
were in force, one after another, and the last of them whose version was; `doubt` says that reloads
have overlapped and none has run alone since, `unread` that the file changed without a reload after
it.

`ControlPlane` gives both an event loop. A handler that is not waiting (`OnLoop`) excludes
the others (`LoopFree`), but no thread, no other process and no operator. `DecideFirst` and `DecideLast`
are the first and last of `decide`'s reads of `self.policy`; `Answer` logs with the version
of the moment; `PutPolicy`, `PutStatus`, `EnrollDevice`, `Thread` and `Crash` are the
parts' actions on the loop or beside it.

### EventDelivery

The directory maps names to files, and an open file outlives its name, as on POSIX.
`Exists`, `Size`, `OpenToAppend`, `Write` and `WriteFails` are one `append` by one
process; `Glob`, `OpenToRead`, `Read`, `EndOfFile`, `Unlink` and `UnlinkFails` are
`flush`; `Accepted`, `Refused`, `TimedOut` and `Arrives` are a request and the
gateway's `ingest_events`. A torn line swallows the next one. `alone` is chosen at
the start: a host that runs one process at a time, or any interleaving.

### PolicyEngine

A policy is a record of what `decide` and `decide_web` read from `policy.yaml`, a
request a record of what they tell apart: the model, whether it streams, the topics
that steer `resolve_model`, the kinds of findings, and the models a JSON body names in
the order of the document. A pattern of a hosted model is the set of the names it
occurs in. `Decide` joins the rules that block, for their order only chooses a reason;
`DecideWeb` keeps the order of its stages, for that decides what is allowed.

### WebGuard

One interaction of a page, from the call or event to its end. Interactions share
nothing but the banner's place on the screen, so one stands for all. `page`, `guard`
and the gateway's `logged` advance independently of each other.

| Action | Code |
|---|---|
| `Call` | `secureAIFetch`, `secureAIXhrSend`, `secureAIBeacon` up to reading the body; a beacon leaves at once |
| `Dispatch` | the listeners for paste, submit, drop and file change, and the browser's own handling of the event |
| `Read`, `ReadFails` | `bodyToText`, `requestToPayload`, and the message to the content script |
| `Receive` | the content script's message listener up to its await |
| `Evaluate` | `evaluate_web_event`: `decide_web` and the audit event |
| `Answer`, `CallFails` | `evaluateWebEvent` returning, on the gateway's answer or on local findings, and its caller: banner, `preventDefault`, the message back |
| `Decided`, `Timeout` | `requestDecision` resolving by the message or by its timer, and what the hook does then |

`by` is history: on whose word the call left.

## Runs

| Run | Question | Properties | Result |
|---|---|---|---|
| `budget_gateway` | What do two replicas, Redis failures, crashes and a midnight do to the counters? | `TypeOK`, `CountersExplained`, `OvershootBound`, `SpendBound` | hold |
| `budget_one_replica` | Is one replica within one day as good as the ledger, and does it give everything back? | `BudgetRespected`, `PremiumOnlyBelowThreshold`, `ImplementsLedger`, `HoldsReleased` | hold |
| `budget_race` | Do replicas keep the budget? | `BudgetRespected` | violated |
| `audit_pipeline` | What can two lives of a failing process lose, in which order are the rows, and how far does a budget that is read from them hold? | `TypeOK`, `MetricsBalance`, `LossBound`, `StoreInLogOrder`, `FallbackOvershoot`, `QueuedIsPersisted` | hold |
| `audit_shutdown` | Does an orderly shutdown keep what was logged? | `ShutdownKeepsEvents` | violated |
| `failover` | Is the list the documented one, is the answer the right one, who pays for what, and does the audit trail tell of a substitute? | `TypeOK`, `CandidatesAsDocumented`, `OutcomeExplained`, `SubstituteIsAudited` | hold |
| `failover_shipped` | Is each configured provider tried, with the shipped policy? | `EveryConfiguredProviderTried` | violated |
| `control_plane` | Requests beside reloads, withdrawals, edits, a failing disk, an unnamed policy and crashes: what is trusted, in force, stamped and lost? | `TypeOK`, `TrustIsEvidenced`, `WithdrawalSticks`, `ChangesAreAuthorised`, `ReloadsSettle`, `EmptyByAccident`, `BackupsBound`, `MixedByThread`, `AuditNamesPolicy`, `IdentitySettles` | hold |
| `event_delivery` | What do interleaved and failing appends and flushes keep, deliver and repeat? | `TypeOK`, `DeliveredBeforeUnlink`, `DurableAlone`, `RedeliveredByFailures`, `BufferedIsDelivered` | hold |
| `event_buffer_race` | Does an append survive a flush? | `NoEventLost` | violated |
| `web_guard` | With timer, gateway and page in any order: what leaves, what do audit trail and user learn, is each call answered? | `TypeOK`, `SentIsPermitted`, `PassedIsAudited`, `LateBlockByTimer`, `RefusedIsTold`, `WebReinforces`, `CallSettles` | hold |
| `web_guard_banner` | Did what the banner calls blocked not happen? | `BlockedDidNotHappen` | violated |

The five violations are disagreements between the code and what its documents and
comments say of it:

- **budget_race.** `reserve` reads with one round trip and adds with another. Two
  replicas that read before either adds both find the amount affordable. How far
  this goes is `OvershootBound`: one reservation for each further replica, plus what
  calls cost beyond their reservation.
- **audit_shutdown.** `stop` cancels the worker and leaves the queue as it is:
  events whose `log_event` returned are neither stored nor spooled, nothing having
  failed. `LossBound` says how many: a full queue for each process that ended. Under uvicorn the
  window is narrow: it calls the lifespan's shutdown when its requests have ended, so only what was logged since the
  worker last had the event loop is still queued then.
- **failover_shipped.** The candidate list is cut to `max_attempts` before
  candidates without an API key are skipped. With the shipped policy and only the
  last provider of the chain configured, a request ends in 502 without a call,
  though `docs/PROVIDER_FAILOVER.md` says each configured provider is tried.
- **event_buffer_race.** `flush` reads a file to its end and then unlinks its name; a
  line appended in between is gone. Where no two processes overlap nothing is lost
  (`DurableAlone`).
- **web_guard_banner.** The listeners call `preventDefault` after an await, when the
  browser has carried the event out. A paste with a secret takes place and the banner
  says it was blocked. For fetch and XMLHttpRequest the same can happen only when the
  timer of 1.8 s came first (`LateBlockByTimer`); a file input is emptied after the
  page has seen it.

Several properties that hold are weaker than one might expect, and say what the code
does.

- `FallbackOvershoot`: without Redis nothing is reserved, so a budget is exceeded by the
  calls a check could not see: in flight, queued, spooled, or lost with a process.
  There is no other bound. A store that refuses insertions for good spools every row,
  and from then on every check passes, for `spend_since` counts rows only.
- `SubstituteIsAudited`: neither the fallback chain nor the downgrade asks `decide` again.
  A blocked model can answer, and a request with personal data can leave for another
  model than `confidential_data_model`; the audit event then says "fallback", in place of the
  decision it had (also where that was a warning), or names the downgrade.
- `OutcomeExplained`: a call whose answer cannot be converted is paid for by nobody's budget,
  and the next provider is called.
- `TrustIsEvidenced`: a device that is revoked while its request waits for JumpCloud is trusted for the
  rest of that request. Later requests are not.
- `AuditNamesPolicy` is about the version that was in force, which need not be the policy's: after a reload that raised in
  `Find` the policy of the file is in force and decides, and events name the last policy before it
  that has a version. `ReloadsSettle` says exactly that of the version, and that the policy is the file's.
- `ReloadsSettle` leaves open what is in force while the file is `unread`: after an edit, or after a PUT that
  failed once it had opened the file. Such a PUT answers with an error, and
  what it left is loaded by whichever reload comes next.
- `ReloadsSettle` and `AuditNamesPolicy` except reloads that overlap. A worker thread's
  reload beside a PUT can put the policy from before the PUT back in force, load the
  file while it is empty (`EmptyByAccident`; the policy `{}` has no lists and the
  defaults of the code), or leave the version of one policy with another. The next
  reload that runs alone repairs it. `MixedByThread`: a decision can read two
  policies for the same reason.
- `EmptyByAccident` also excepts a process that died between truncating and writing
  the file, and a write that failed there: the next start or reload takes the policy `{}`.
- `BackupsBound`: two PUTs of one second share a backup's name, and the text the
  first saved is lost. A backup that fails halfway keeps its name, and counts as one of them.

Two results of `web_guard` are weaker too. `WebReinforces` excepts bodies that name a
permitted hosted model, for which `decide_web` returns the hosted decision and drops `decide`'s PII warning.
`SentIsPermitted` looks at the first model of a body only, as the code does; and where
the call of the gateway fails, what passes has no local finding, and nothing else is
known of it: no code reads `fail_closed_on_gateway_unavailable` of `policy.yaml`.

### Bounds, and why they are enough

- `budget_gateway`: two replicas, three requests, two days of one month, a price of
  2 and budgets of 2 and 3, costs up to 3. Two requests can pass the check together
  while a third finds their result; a reservation can straddle midnight; a call can
  cost nothing, less and more than its reservation. Requests and replicas are
  symmetric: no definition orders them, and the run checks invariants only. The proofs hold
  for every value of these constants.
- `budget_one_replica`: two models, so that a downgrade can happen, and budgets that
  a second reservation exhausts. No symmetry, since it checks liveness.
- `audit_pipeline`: three requests and a queue of two, so that two events wait in an order (a worker that took the
  newest first would be seen) and the third overflows, unless one was taken before; two lives, as the second starts from what the first
  left; two days, so that a row can be stored on another day than its call was made. A
  reservation of 1, a budget of 2, calls that cost 1, 2 and 2: one call uses the budget
  up, or a call costs more than it was approved with. A request's cost is fixed, for
  which of the requests is dear is symmetric to when it runs. The pipeline's
  properties are proved for every queue size, number of events and number of lives.
- `audit_shutdown`: four events and a queue of two.
- `failover`: four models of three providers, chains of up to two models in any
  order (repetitions and the model itself included), two fallback orders, one of them
  repeating and incomplete, `max_attempts` unset, smaller and larger than the list,
  a provider without a default model, every set of configured providers. And, with
  the shipped routing, every set of blocked models with three lists of allowed ones, a
  route for personal data that is missing, the shipped one or another, an alias, a
  downgrade, requests with personal data, with a secret, with a topic, with no model.
- `control_plane`: eleven scenarios of two requests and the settings they meet, with or
  without a reload thread, an operator's edit, a tick of the clock, a failing disk, a crash, and
  enrolment and one withdrawal through another process. Two requests suffice for two
  PUTs, for an admin beside a request, or for two decisions; one thread beside a PUT
  makes every overlap of two reloaders. One device, owned by the admin, with requests that name another user,
  forge its token or lack it; three policies besides the empty one and a fragment, each its own version
  but the second PUT's, which has none. With any number of versions, fragments and PUTs it is proved.
- `event_delivery`: three events, two flushes at a time (each may begin again and again), files rotated
  after the second line, batches of two, so that a file may be one batch, a part of
  one, or several; one fault. An hour that changes does what a rotation does, give
  new events another name, so two names stand for all: the one `glob` sorts first
  and the one it sorts last. `ingested` saturates above every number the properties
  compare it with. Writes of an append may fail any number of times.
- `web_guard`: the shipped policy and twelve that differ from it in a rule or two, so
  that each rule of `decide`, `decide_web` and the hosted control is decisive somewhere;
  contents with up to two findings, up to two models and three sets of topics. Proved for
  every policy and content.

### Fairness, and what justifies it

- `Budget`: `WF(Proceed(r))`. An event loop runs its ready coroutines, synchronous
  Redis calls return or raise, and a provider call ends at the latest with the HTTP
  client's timeout of 120 s. Nothing obliges a request to arrive, a process to crash
  or the day to end.
- `AuditPipeline`: `WF(Drain)`. A woken worker runs, and runs on without an await. No
  handler is obliged to log, no process to stop.
- `StoreBudget`: `WF(Worker)`, the same.
- `ControlPlane`: `WF(Advance(r))`. The loop runs its ready coroutines, and every call `resolve`
  waits for has a timeout (10 s for the discovery, 15 s for JumpCloud). Nothing is
  assumed of clients, threads, other processes or the operator.
- `EventDelivery`: weak fairness of each append that was begun and of each flush. The
  second is the operator's: `agent_demo.py --flush` is to be run again after it failed. Faults of flushes
  are bounded, for a gateway that fails for ever delivers nothing. Weak fairness
  suffices because a flush never waits for another process.
- `WebGuard`: `WF(Hook)`. The browser runs the page's timers and promises. Content
  script and gateway get none: the call between them has no timeout.

`QueuedIsPersisted`, `HoldsReleased`, `CallSettles` and `IdentitySettles` are leads-to properties. `BufferedIsDelivered`
is an always-eventually: from every state on there comes a time when nothing
appended waits for delivery.

### Stopping

Every run sets `CHECK_DEADLOCK FALSE`: a request that was answered, a process that was
shut down for the last time, a buffer that was emptied and an interaction that is over are where these systems stop.

## Proofs

Checked with TLAPS, for every value of the constants the named assumptions allow. Every
safety invariant, action property and refinement that a passing run checks is the statement of a theorem.

`BudgetProofs`, from `BudgetAssumption`:

- `TypeCorrect`: `TypeOK` is inductive.
- `CountersAlwaysExplained`: with `HistoryInv`, which says of each control state what the request has
  written so far (nothing reserved before the commit, nothing charged before the
  settlement). Without it a step could hold or charge a second time. `HoldUnits`,
  `ReconcileUnits` and `AddUnits` say what a step does to the sets of units.
- `OvershootAlwaysBounded`: `OvershootBound` is not inductive, because a request that has passed the check
  will add its reservation whatever the counters have become. `PendingBound` makes room for all that
  is pending; `OneHolder` says that a replica has at most one such request, since its
  loop is held; `Fresh` says that the counters of a period that has not begun are zero, which
  midnight needs. `BoundSnapshot`, `BoundHold`, `BoundReconcile` and `BoundTick` are the four
  steps that disturb the bound.
- `SpendAlwaysBounded`: a consequence of the three invariants before it.
- `OneReplicaRespectsBudget` and `OneReplicaDowngrades` assume `OneReplica` and `OneDay`, which is what
  `BudgetOneReplica.cfg` sets, with any number of requests, any prices, crashes and Redis
  failures. `Approved` and `Dear` say that what the check and the downgrade found still holds until
  the reservation is added: with one replica every step in between is the same handler's
  (`OneHolder`). A second replica falsifies both, which is `budget_race`. `OneDay` is
  needed because midnight moves a release to another period's counter.
- `OneReplicaImplementsLedger` assumes `ReservationEnabled` as well: the ledger charges only
  what it has reserved (`ReservedFirst`). The commit of `reserve` maps to the
  ledger's `Reserve`, which its test allows by `Approved`; reconciliation maps to `Charge`; every
  other step of handler, Redis and process is a stutter.

`AuditPipelineProofs`, from `AuditAssumption`:

- `TypeCorrect` and `MetricsAlwaysBalance`: inductive as they stand, the second with the first.
- `LossAlwaysBounded`: inductive with `TypeOK`; the argument is that a step loses at most the queue
  (`Restart`, `Stop` not yet, for its queue still stands) or the event whose spill raised.
- `StoreAlwaysInLogOrder`: `OrderInv` adds where an event can be (`Places`), that the queue is in
  the order of logging, and that what is stored was logged before what is queued.

`StoreBudgetProofs`, from `AuditAssumption` and `StoreBudgetAssumption`:

- `BudgetDrivesThePipeline`: each step is a step of `AuditPipeline` or leaves it alone, so the
  theorems above hold of `StoreBudget`.
- `OvershootAlwaysBounded`: `Checked` says that the approved calls of a day have a part `S` that
  fitted in the budget when it was counted, is done and keeps its costs, and that the rest is no more than what
  the last check could not see, and its own call. `Approve` establishes it anew: what is approved and not
  `Pending` is on a row of today (`NotPending`, from where a handler and an event can be,
  `Handled` and `Known`, and that a row is no older than its call's approval, `Stamped`). What is left is about
  sums: `TotalRemove` (in whatever order) and `TotalBetween`.

`ControlPlaneProofs`, from the assumptions of `Identity`, `PolicyStore` and `ControlPlane`: one
inductive invariant `IInv`, for any number of requests, devices, reload threads, PUTs, edits
and crashes. What its parts are for:

- `Alone`, the exclusion on the loop; `PutsReload`, only a PUT reloads on it; `Alive`, nothing is
  under way in a process that is down. Every other part needs them.
- `TrustAlwaysEvidenced`: `Evidenced`. While a request is served, `since` has every device
  that is trusted now, so the row `verify` reads is evidence; from there on the part carries it
  through the second transaction and the wait for JumpCloud, where the row may change.
- `ChangesAlwaysAuthorised`: `Admitted` keeps for a request that waits (for its body) what
  `require_admin` found before the await.
- `WithdrawalAlwaysSticks`: no part of its own but the types; the argument is that `touch_device`
  writes no status, and that enrolment adds a row under a fresh id.
- `OnlyThreadsMix`: `Mixed`. A decision has read the policy in force, until a thread assigns another;
  a PUT on the loop cannot come between, by `Alone`.
- `ReloadsAlwaysSettle`: not inductive, for it says nothing of a reload under way.
  `AloneReload` says that what a reloader has read is still there while none other is active
  (`doubt`). `Settled` says that the version is that of the policy at `named`, that every later one has no
  version but one whose reload is still at work, and that a file that is not in force is `unread`
  or about to be loaded (`Fresh`). `BrokenIsUnread`: a file `reload` cannot parse is an operator's, or of a PUT that
  failed.
- `AuditAlwaysNamesPolicy`: `EpochsNamed`, that a request's decision was taken under a version no newer than the present
  one, with `Settled`, that the present one is the version of `named`.
- `EmptyOnlyByAccident`: `Emptied` follows the empty text from the truncated file to what a
  reloader has loaded and to the policy in force.
- `BackupsAlwaysBound`: `BackupsCounted` adds that during a PUT the text of the file is in a
  backup already, or was when another PUT of the second took its name.

`FailoverProofs`, from `FailoverAssumption`:

- `CandidatesAlwaysAsDocumented`: `Chained` and `Defaulted` characterise what the two loops have built after
  each element of a chain and of a fallback order: which candidates, each once, in the order of
  their ranks. `ChainIsChained` and `AllIsDefaulted` prove it by induction, `PrefixDocumented` says that
  the cut at `max_attempts` keeps it, and `ListedAsDocumented` concludes.
- `OutcomeAlwaysExplained` and `SubstituteAlwaysAudited`, with `TypeCorrect`: `IInv`. `Relayed` says that the result is
  the last response there was and, while the loop goes on, one to be retried; `Charged` that
  a good response is the last. `Routed` keeps what `decide` said of the model, and `Ended` that an event
  other than "fallback" means the first candidate; by `ListedAsDocumented` that
  is the model's own.

`EventDeliveryProofs`, from `EventAssumption`: one invariant `IInv`, of two layers.

- In any interleaving: `Controlled` and `Written` say what an open file, a batch and a line can be;
  `Delivered` that what a flush has read is in its batch or with the gateway, which makes
  `UnlinksOnlyDelivered`; `FilesLeft` that there is a file left for an append that opens one,
  without which `NewFile` would have nothing to choose.
- On a host that runs one process at a time: `Solo`, and `Held`, that the open file still has its name, so that
  nothing is appended to a file that was read to its end. With `Once` (no event is on two
  lines, no file has two names) `Held` makes `AlwaysDurableAlone` inductive.
  `OnlyFailuresRedeliver` needs a count (`Counted`): how often an event was delivered, is on its way late, and is
  due once more, is at most one more than the faults there were.

`WebGuardProofs`, from `WebAssumption`: all six safety properties, from one inductive
invariant `Inv`. Its parts follow the parties: `GatewayInv`, what is logged is what
`DecideWeb` says; `GuardInv`, verdict and banner are the content script's conclusion
from it; `PageInv`, how far the page can be; `LeftInv`, on whose word a call left and
what that word was. Without the last, a step of the content script after the call has
left could contradict it. `DecideWebRange`, `WebPermits` and `DecideFindings` are about the
decisions alone and hold for any policy and request; `SentIsPermittedAlways` joins
`WebPermits` with `LeftInv`, and so spans the policy rules and the hook.

`SetInduction` has what the recursive functions need: induction over an interval and over the
subsets of a finite set. The library's induction theorems take a predicate as parameter, which the provers
cannot instantiate; these take the set of the values for which it holds, and follow
from the existence of a least element. With them a recursive function is shown to exist
(`ChainExists`, `OrderExists`, `SumsExist`) before it is unfolded.

Assumptions. The proofs assume nothing but the modules' named `ASSUME`s, which TLC
evaluates in every run, and, where a theorem says so, `OneReplica`, `OneDay` and `ReservationEnabled`.
`PolicyStoreAssumption` asks that the texts of the policy file and fragments of them, the empty file, one that cannot be
parsed and no backup are told apart, and that the first policy and `{}` have a version (a process without one does not
start; `{}` has its hash); nothing asks that versions differ between policies.

Only model-checked: liveness (`HoldsReleased`, `QueuedIsPersisted`, `BufferedIsDelivered`, `CallSettles`,
`IdentitySettles`), which needs ENABLED; and the five properties that are violated.

## Not modelled, and why

- A fleet in which some replicas reached Redis when they started and others did not:
  `Budget` and `StoreBudget` are the two modes by themselves. In such a fleet each
  replica is blind to part of what the others spend, so no bound relates the two.
- Expiry of Redis keys: it comes after the period of a key, when nothing reads it
  but a late `reconcile`.
- Amounts as floating point and their rounding: whole units; no property is about it.
- A policy that is reloaded while requests are under way: `ControlPlane` has the
  reload and the version, in `Failover` the retry test sees it, in `Budget` prices and limits are constants.
- In `PolicyStore`: a file longer than a read buffer, which a thread could read torn; YAML
  that is no mapping, from an operator's edit; a crash during the write of a backup, and one that leaves a part of the
  policy file (it is smaller than a buffer: a crash leaves all or nothing).
- In `Identity`: which claims and JumpCloud records count as what is data. The discovery cache is a wait that
  may be short. `resolve` compares `device_trust_mode == "required"` as it is spelled, while
  the device service lowers its case first: settings spelled otherwise are outside `SettingsType`.
- The admin's reports, device lists and health endpoints: they only read.
- `budget_reservation_enabled = false`: the proofs but the ledger's cover it, no run does, for its
  counters see costs only.
- Spooled audit events are read by nothing in the repository, so the spool is where an
  event ends.
- `max_file_bytes` is counted in lines; names of three and more rotated files, see above;
  the cut of an ingest at 1000 events, which a batch of 250 does not reach.
- In `WebGuard`: several sends on one `XMLHttpRequest` object and an abort by the page
  before the decision; a `send` that raises and is repeated by the `catch` of
  `secureAIXhrSend`; the reading of the configuration; texts over 250000 characters;
  the model a rewrite puts in; identity and the 401 of an untrusted device, which to the
  extension is a failed call.
- What the adapters translate: `_gemini_from_chat` keeps only the last system message of a
  conversation, `_anthropic_from_chat` joins them all. Data, of which `Failover` keeps the outcome.
- Scanners, signing, console and scripts: no state, or only input and output.

## Plan

Done, in this order: `Budget` with `BudgetLedger` and its proofs, `AuditPipeline` and its proofs, `Failover`,
`EventDelivery`, `PolicyEngine` with `WebGuard` and its proofs; `Identity` and `PolicyStore` with
`ControlPlane`, `StoreBudget` over `AuditPipeline`, `decide` and the charges in `Failover`; then the proofs
of `ControlPlane`, `Failover`, one replica's `Budget`, `EventDelivery` and `StoreBudget`. Left:

1. An abstract specification of the policy in force, that a reload replaces policy and version in
   one step, which `PolicyStore` implements while nothing overlaps (`doubt` is "none"); `AloneReload` and `Settled` are the
   invariant its refinement needs.
2. An abstract buffer, a set of appended events that is delivered at least once, for
   `EventDelivery` on a host that runs one process at a time.
3. How the counts of `BudgetRespected` change when midnight is let in for one replica: the misfiled
   units of `SpendBound` are the only difference.
