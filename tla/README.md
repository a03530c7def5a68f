# TLA+ models of 仟流智算

The repository is an enterprise gateway for large-language-model calls: employees, projects and applications
("principals") call one OpenAI-compatible endpoint with their own Key, the gateway picks a provider resource (a
coding plan or a paid API), calls it, and keeps books of what was used. This directory models the part of it that has
to be right under concurrency, crashes and late answers: what a request writes from the moment it is claimed to the
moment it is terminal, which provider resources may be called meanwhile and what reopens one that is spent, what
each Key may use up, and what the worker does with the books afterwards: it allocates a month's cost to projects, by
rules that administrators publish meanwhile, and sends reports.

Contents: [inventory](#inventory), [plan](#plan), the modules
([RequestSettlement and SettleOnce](#requestsettlement-and-settleonce), [ResourceHealth](#resourcehealth),
[QuotaBlock](#quotablock), [KeyLimits](#keylimits), [ProjectAllocation](#projectallocation),
[AllocationPolicy](#allocationpolicy),
[ReportDelivery and DeliveryPromise](#reportdelivery-and-deliverypromise)),
[runs](#runs), [proofs](#proofs), [disagreements with the documents](#disagreements-with-the-documents),
[what is not modelled](#what-is-not-modelled).

## Inventory

| Part | State it keeps | Operations | What is hard | What makes it correct |
|---|---|---|---|---|
| Gateway pipeline, `apps/gateway/src/pipeline` | memory of one handler: `PipelineExecutionState` (attempt number, tried resources, leases and quota items to settle, outcome) | admission, attempt loop with failover, fences before the upstream, about a dozen paths that publish a terminal status | the process may die or a statement throw between any two awaits; attempts of one request leave pending leases and estimates behind | every path leaves complete books and nothing reserved; a committed answer is the last attempt |
| Ledger, `gateway-ledger-*.ts` | `ai_request`, `upstream_attempt`, `usage_event`, `ledger_line`, `ledger_transaction` | claim (idempotent), create attempt, write evidence, finish attempt, finalise | a dozen paths publish a terminal status; a repeated call meets a terminal request | terminal is final and complete |
| Concurrency leases, `quota-gate-repository.ts` | `concurrency_lease` | acquire under the resource's row lock, release by the settling transaction, reclaim | count-then-insert by many processes; a request keeps the lease of a failed attempt while it waits for another | calls under way never exceed `concurrency_limit`; every lease is released |
| Principal quota, `quota_counter` | used, limit | conditional reserve, settle by actual, release | parallel reservations, crashes between reserve and settle | used agrees with the ledger and the open reservations |
| Employee monthly quota, `employee-quota-*.ts` | `principal_quota_period`, `principal_quota_usage` | reserve with a row per attempt, settle with the evidence, release, mark UNKNOWN | as above, plus usage nobody can measure | used and reserved agree with the rows |
| Operating bill, `operating-bill-*.ts` | period and version of a month | close (snapshot), reopen, write barrier for all ledger writers | repeatable-read snapshot against concurrent writers | a closed bill has every line of its month |
| Resource health, `resource-lifecycle.ts`, `resource-pool-repository.ts` | status, `cooldown_until`, `last_probe_at`, `auth_failure_id` | effects of answers, half-open probe lease, chat probe, administrator's recovery, quota facts | effects are deferred and late; the lease is a timestamp; several actors lift or impose isolation | one probe per wave; releases are fenced; an older success never lifts a newer isolation |
| Key limits, `pipeline-key-limits.ts` | `principal_key.used_tokens`, rows in progress | insert, count, reserve estimate, correct afterwards | insert and count are two statements; correction is a transaction of its own | both limits hold; used never falls below what was used |
| Coding plan quota block, `quota-block-*.ts` | block windows, revision, incident, bound events | query fenced by a token, exhaustion fault, recovery, rotation | an old query's answer meets a new fault or a new credential | an exhaustion stays blocked until a later answer refutes it; the worker alone reopens |
| Routing, dispatch, prices (`packages/domain`) | none (pure) | scoring, policy match, price and multiplier | boundaries of intervals and of numbers | equal to a reference definition |
| Authorization | Keys, grants, model rules | check at admission, re-check before the upstream | an administrator writes in between | no call after a revocation that was seen |
| Provider adapters | none that lasts | HTTP, streams, timeouts | late and partial answers | answers within the timeouts, classified |
| Report delivery, `apps/worker/src/reporting`, `report-delivery-repository.ts` | bundles, messages, attempts, the day's schedule row | freeze, claim under a lease, post, finish, expire, controlled resend | a post is outside of every transaction: its answer can be lost, its process can die or be stopped | no message twice without an operator's leave, the text after its picture, no recipient forgotten |
| Allocation rules, `employee-allocation-policy-repository.ts`, `project-membership-*.ts`, `project-accounting-lifecycle-repository.ts` | memberships, accounting windows, the rules of the current policy version | intents, joins, revised memberships, start and end of an accounting, the split of a line | rules are read before the lock that guards them; two kinds of locks; what is marked is computed apart from what is changed | weights never exceed 100%, nobody's weight is overwritten, what changes is allocated again |
| Project allocation, `project-allocation-*.ts` | dirty generation, runs, current publication of a month | mark, scan, enqueue, claim, read, publish, takeover | input changes between two reads, executors lose their lease and go on, lines become visible late | what a close freezes is the present input; a marked month is published without anybody's help |
| Runtime assurance, directory sync, usage aggregates, renewals (`apps/worker`) | events, outbox, staging and run rows | periodic ticks of several workers | a crash between a side effect and its mark, lost claims | at most one run at a time, nothing lost |
| Provider finance | activation, cutover and balance rows | activation and cutover protocols | quiescence against running writers | balanced books before and after |
| control-api, web, contracts, config, observability | none of their own | HTTP and UI around the repositories | the writes appear in the parts above | - |

How they interact. There are no messages between the processes: gateway, control-api and worker meet in PostgreSQL
rows, under row locks, conditional UPDATEs, unique indexes and, for the bill, an advisory write barrier. The only call
that leaves the system is the adapter's HTTP request. A gateway handler runs admission, (Key limits), the attempt loop
(health gate, lease, quota, attempt row, fence, upstream, evidence), the settling transaction, then the deferred
effects on resource health, the answer to the client and, in a `finally`, the correction of the Key.

`PROJECT.json` lists every part with its sources and status, and every hazard with the line where it bites.

## Plan

| Step | Modules | Aim | State |
|---|---|---|---|
| 1 | RequestSettlement, RequestSettlementProofs | life of a request with ledger, leases, both quotas and the bill | done |
| 2 | ResourceHealth, ResourceHealthProofs | status of a resource, half-open probe, chat probe | done |
| 3 | KeyLimits, KeyLimitsProofs | admission by count and by tokens, correction | done |
| 4 | QuotaBlock, QuotaBlockProofs | query tokens against faults, recoveries and rotations | done |
| 5 | ReportDelivery, DeliveryPromise, ReportDeliveryProofs | claims, leases and doubt of messages; the promise to the recipient as an abstract specification | done |
| 6 | ProjectAllocation, ProjectAllocationProofs | dirty generations against torn reads, takeovers and closes | done |
| 7 | SettleOnce (proved in RequestSettlementProofs) | usage is recorded once, charged once and billed: the promise of the books, implemented by RequestSettlement | done |
| 8 | AllocationPolicy, AllocationPolicyProofs | the rules of one employee against concurrent intents, memberships and lifecycles; the split of a line | done |
| - | FiniteSums | lemmas about sums over finite sets, for the proofs about both quotas, Key tokens and the split of a line | done |
| 9 | EmployeeQuota | sizes of usage by token class, the replay of UNKNOWN rows, the change of month, adjustments and reconciliation | planned |
| 10 | OperatingBill | several months, corrections, retry of a serialisation failure | planned |
| 11 | RuntimeAssurance | availability events, the notification outbox and its stale claims | planned |
| 12 | Routing, Prices | pure operators against reference definitions over bounded inputs | planned |

RequestSettlement composes the pipeline with the rows it writes, because its properties relate them. The other modules
are composed with it only through what they assume of it: ResourceHealth and QuotaBlock take any outcome within the
timeouts, KeyLimits only the lines and results of the attempts, ProjectAllocation a settlement that begins, commits or
aborts. ResourceHealth and QuotaBlock share the status of a resource: each has the transitions it tells apart and
leaves the other's open. ReportDelivery reads nothing that the others write. ProjectAllocation takes it for granted
that whoever changes the configuration of a month marks the month (`ChangeConfig`); AllocationPolicy shows it of rules,
memberships and ends of accountings (`ChangesAreMarked`). No module declares a RECURSIVE operator, parameters are
CONSTANTS with named assumptions, and invariants are conjunctions of named parts, so that all can be proved about.

In each module an operator marked "bug" is a plausible wrong version of the operator after it (a dropped guard, a
swapped sign, a reset left out). No specification uses it; `PROJECT.json` (`mutants`) names the property that fails
when it takes its neighbour's place.

## RequestSettlement and SettleOnce

One action is one database transaction, or the part of a handler between two awaits. `pc` is where the handler stands.

| State | Code |
|---|---|
| `status`, `attempt`, `resource`, `committed`, `line`, `amount`, `txn` | rows of `ai_request`, `upstream_attempt`, `usage_event` with `ledger_line`, `ledger_transaction` |
| `leases` | `concurrency_lease` with `released_at IS NULL` |
| `used`, `reserved`, `usageRow` | `quota_counter`, or `principal_quota_period` and `principal_quota_usage` |
| `bill`, `frozen` | `operating_bill_period` and the lines in its frozen version |
| `pc`, `no`, `winner`, `eligible`, `tried`, `forced`, `heldLease`, `heldGrant`, `pendLease`, `pendEst`, `pendAct`, `outcome`, `last` | `PipelineExecutionState` and locals of `executeSelectedAttempt`; lost by `Crash` |

| Actions | Code |
|---|---|
| `Claim`, `AdmitReject`, `Admit` | `claimRequest`, `pipeline-admission.ts` |
| `SelectWinner`, `EndLoop`, `DispatchTerminates` | `runPipelineAttempts`, `applyInitialDispatchDecision` |
| `PreflightSkips/Stops/Passes`, `AcquireLease`, `LeaseWaitEnds`, `ReserveQuota`, `QuotaRejects`, `CreateAttempt`, `CreateRefused`, `CreateThrows`, `UndoLease` | `prepareSelectedAttempt`, `acquireConcurrencyLease`, `reserveAttemptQuota`, `createGuardedUpstreamAttempt` |
| `FenceRejects/FailsOver/Reselects/Passes` | the last check of authorization and dispatch policy before the upstream, `revoked-attempt-settlement.ts`, `finalizeRejectedAttemptSettlementAtomically` |
| `UpstreamAnswers`, `PersistEvidence`, `RecordResult` | `executeSelectedAttempt`, `persistAttemptUsageEvidence`, `updateGuardedAttemptResult` |
| `SettleRequest`, `PublishFailed` | `finalizeLedgerSettlementAtomically`, `pipeline-failure-settlement.ts` |
| `BeginClose`, `CommitClose`, `AbortClose`, `ReopenMonth` | `closeMonth` (its snapshot and its commit are two steps), `reopenMonth` |
| `Crash` | the process ends, or a handler throws past every release |

Prices and token columns are abstracted to one consumption per line, all candidates to "any untried one", a policy or
authorization change to "the fence may refuse at any time". A month is one month, quota is that of one principal
shared by all requests. `CreateThrows` is the `catch` of `prepareSelectedAttempt`: `createAttempt` throws, or
`bindEmployeeQuotaAttempt` does after the attempt was committed; quota and lease are given back in two statements and
the error goes past the pipeline, so the request ends where a crash would leave it.

SettleOnce says what this machinery is for, without stages, leases or quota: the usage of an attempt is recorded once,
in an open month, while its request runs; a request ends once and is then charged for all that is recorded; a month is
closed only when all that is recorded is charged, and its bill is exactly that until the month is reopened. The
mapping: `phase` is the status, `usage` the line of each attempt with its amount, `charged` the attempts in a
`ledger_transaction`, `closed` a bill that is not OPEN, `billed` the frozen lines.

## ResourceHealth

One resource. `status`, `cooldown`, `probeAge` and `authFailure` are its row; `phase`, `asProbe`, `token` and `result`
the handlers that read the row at admission and write it after settlement; `chat` the administrator's running chat
probe, `syncRead` the worker that has listed the resource and has not yet scheduled the next query. `current`,
`rejected` and `chatClean` are history for the properties. The effects of answers (`RecordSuccess`,
`RecordRateLimit`, `RecordTemporary`, `RecordBilling`, `RecordCredential`) are `deriveResourceTransition` and
`deriveSuccessTransition` with `applyTransitionTx`; `AcquireProbe` and `ReleaseProbe` the half-open lease of
`resource-pool-repository.ts`; `BeginChat` and `FinishChat` `credential-chat-probe.ts`; `AdminRecover`
`admin-write-repository.ts`; `QuotaRecovers`, `QuotaSeenEmpty` and `ScheduleQuotaSync` the only effects of the quota
block on the status.

Time is relative: `cooldown` is what is left, a lease is its age, so equal timestamps are equal ages and the state
space is finite. All processes are taken to share one clock. `Tick` is bounded by what the code guarantees: an
upstream call ends before the lease does (`upstream-caller-factory.ts` caps it, the lease adds a safety margin), and
a request settles within `MaxHold`. A cooldown is at least one tick because `Retry-After` is clamped to a second.
Failure ids stand for fresh UUIDs: a new one differs from the stored and from the probed one, three are enough.

## QuotaBlock

One coding plan resource. `provider`, `status` and `block` are its row, `event` its bound availability events, `query`
and `call` the quota queries and gateway calls under way. Versions, credential versions, revisions and incidents are
only ever compared with what was captured, so the model keeps what has changed since: `stale`. The provider's answers
are arbitrary at every question; Kimi and Zhipu differ in which answer confirms a recovery. `unresolved` is history:
what was reported spent, less what an answer to a later question found left (`blamed` are the reports since a query
began). `calm` is the moment from which the windows are full and nobody disturbs, for the liveness property only.

`Choose`, `Begin`, `RecordFault`, `RecordResult`, `EndCall` are a call from admission to its deferred effects;
`Capture`, `Superseded`, `Commit`, `CommitFailure`, `LoseQuery` a query (`captureQuotaQueryToken`,
`verifyQuotaQueryTokenTx`, `commitQuotaQueryResult`, `commitQuotaQueryFailure`), each commit one transaction under the
row's lock; `Recover`, `Rotate`, `Edit`, `ChatProbePassed`, `CloseEvent` what administrators do. `Unreadable` lets the
row start with a block that does not parse.

## KeyLimits

One Key. `inProgress` and `stale` are the IN_PROGRESS rows and those of them older than the one-hour window;
`usedTokens` is `used_tokens`; `booked` what the correction will read back from lines and attempts; `due` the same of
what the upstream really did (history). `Claim`, `CountPasses`/`Refuse`, `ReserveKeyQuota`/`KeyQuotaExhausted` are
`claimRequest` and `enforceKeyLimitsAndAssembleContext`; `Answer`, `PersistLine`, `RecordResult`, `FailOver` an attempt
as far as the correction sees it; `Publish` the end of the pipeline, `Throw` an exception that leaves it; `SettleKey`
and `SettleKeyFails` the `finally` clause; `AgeOut` the window. Only the row of a dead handler ages out: two attempts
of at most ten minutes each and their waits stay well below the hour.

`Held` is what `used_tokens` contains for a request, which is not what the request used. `UsedMatchesBooks` says that
the column is exactly the sum of these shares, and that the share covers the usage of a request that was corrected
after its status was published. It claims no such thing of one that died, whose correction failed or in which a
statement threw: there the column can be too small, see [below](#disagreements-with-the-documents).

## ProjectAllocation

One month. `dirty`, `run`, `current`, `enabled` are its rows in `project_allocation_dirty`, `_run`, `_publication` and
`_period`. The unique index on active runs and the trigger that makes ended runs immutable (migration 0080) let the
model keep one run: the active one. What an allocation is computed from are the ledger lines and the parts of the
configuration whose writers mark the month in their own transaction; equal digests are equal inputs. Resource
snapshots, whose lag the code accepts, are left out. `ChangeConfig`, `BeginLine`, `CommitLine`, `AbortLine`, `Delayed`
change the input: a line's `created_at` is read before its settlement commits, so `last_marked_at`, or the scan's
lookback of ten minutes, may pass it while it is invisible (`fresh`, `missed`). `Enable` and `Rebuild` are the
administrator's routes, `ScanLines`, `ScanMark`, `ScanEnqueue` the steps of `projectAllocationTick`. An enqueue reads
the rows and inserts later (`asked`, `Insert`). `Claim`, `ReadLines`, `ReadPart`, `Publish`, `Fail`, `Crash` are an
executor: it reads its input by queries of their own, in any order, under a lease that may end at any moment; another
executor may claim the run meanwhile, and nothing compares `lease_owner`. `Closable` is the question
`freezeProjectAllocationForClose` asks; the close itself is in RequestSettlement. `due` (the lines visible at the last
mark) and `missed` are history.

## AllocationPolicy

One employee: rules and memberships are written under the employee's advisory lock only, so employees are
independent. `members` is the ACTIVE revision of each stint (an employee's membership in a project: the first, the
second, ...), `window` the accounting profile of each project, `rules` and `version` the current policy; `tx` the
transactions under way with what they have read and will write; `marked` the months that the last one marked.

| Actions | Code |
|---|---|
| `BeginIntent`, `ResolveIntent`, `LockIntent` | `publishProjectIntent`: the rules it keeps are read, then the membership, then `publishEmployeeRulesInTx` takes the lock, compares the version, validates |
| `Join`, `Revise` | `createProjectMembership` (with a weight or without), `reviseProjectMembership` with `clipRulesToMembership` |
| `StartAccounting`, `BeginEnd`, `LockEnd` | `reviseProjectAccountingLifecycle`: under the project's lock, the employee's only when `clipRulesAtAccountingEnd` has rules to cut |
| `Commit`, `Abort` | the end of the transaction |

`Valid` is `validatePolicyRules` with the checks of migration 0079; it looks at the boundaries of the rules, as
`weightLimitConflicts` does. `Cut` and `Within` are `subtractRuleCuts` and the two clips. `Allocation` and
`AllocateByBps` are what `allocatePoolLine` and `allocateByBps` make of the rules in a month.

Simplified: boundaries are starts of months, an intent has one segment, a join gives its weight for the whole stint,
replays by idempotency key and the revision numbers of memberships are left out (under the lock they only refuse more),
and an intent expects the version it finds when it begins: an older one would be refused all the same.
`publishEmployeeRules` has no caller. The months of the model have begun; later ones are marked when they are enabled.

## ReportDelivery and DeliveryPromise

One report type and day of one enterprise. `frozen`, `msg`, `log`, `discovered` are the bundles, messages (a picture
and a text each), attempts and the schedule row; `tick` is the tick that holds the advisory lock, `proc` the
processes. `accepted` (what the chat service took) and `overrides` (what an operator took on himself) are history.

| Actions | Code |
|---|---|
| `Open`, `Claim`, `SkipMessage`, `Prepare`, `NotSent`, `StartMessageRequest`, `Post`, `Finish`, `FinishThrows` | `executeReportBundle` with `expire`, `claim`, `owns`, `startMessageRequest`, `finish` |
| `TickStart`, `TickResume`, `TickResumed`, `TickDeliver`, `RecipientFails`, `TickEnd`, `Throw`, `SaveBlocked` | `runReportDeliveryTick`, `deliverReport` |
| `CommandDeliver`, `ManualResend` | the reporting commands, `delivery-cli.ts --execute` |
| `LeaseEnds`, `Expire`, `Crash` | time, the worker's `expire`, the end of a process |

The lease of 90 seconds may run out between any two steps, also between `startMessageRequest` and the post; every
other look at the clock may go either way. The chat service may take or refuse a message and lose either answer.

DeliveryPromise is what the recipient relies on: a message is taken once; again only if between the two attempts an
operator granted the doubt about the earlier; a text after its confirmed picture; confirmed for ever. The mapping:
`taken` is `accepted`, `granted` is `overrides`, `confirmed` the messages whose row is SENT.

## Runs

| Run | Instance | Shows |
|---|---|---|
| `legacy` | 2 requests, a plan and an API resource, lease limit 1, estimate 2, quota 3, consumption 1 or 3, 2 attempts, crashes and throws, 1 close; 1.77 M states | types, complete and released terminal requests, counter = ledger + open estimates, no overrun by parallel calls, final bill, committed attempt last, terminal for ever |
| `monthly` | 2 requests, 2 plans, quota 4 in period rows, otherwise the same; 1.55 M states | the lease limit bounds the calls, used and reserved = rows and ledger, no overrun, SettleOnce implemented |
| `live` | 2 requests, 2 plans, no crash, consumption above estimate, overage allowed, 1 close; 0.58 M states | every claimed request ends, also one that waits for a month being closed |
| `probe` | 2 requests that may crash, cooldowns 1 and 2, lease 2; 0.44 M states | lease owned and fenced, tokens distinct, one probe per wave, stale chat harmless, the probe comes free again |
| `keys` | KeyLimits: 3 requests, limit 2, quota for two estimates, usage below and above the estimate, 2 attempts, crashes and throws. AllocationPolicy: 2 projects, 2 stints in each, 2 transactions at a time and 3 in all, 3 months, a weight of which two do not fit, from nothing or from two memberships with half the weight each; 1.66 M states | both Key limits, used_tokens is what the books make it; rules fit, nothing is overwritten, what changes is marked, lines are split exactly |
| `quota` | 2 queries, one of the worker, 2 calls, both providers, a block that may not parse | exhaustions stay blocked, events follow their block, calm reopens |
| `delivery` | 2 bundles that compete for the day's claim, 2 workers of which one also runs commands, 2 automatic attempts, 2 versions | types, attempts tell all, discovery complete, DeliveryPromise implemented |
| `allocation` | 2 executors, 1 part with two values, 1 line, 2 failures, 2 generations of the configuration; 0.76 M states | what may be frozen is the present, no line is lost, calm publishes |
| `orphan`, `twoprobes`, `rejected`, `refund` | small instances | counterexamples, see below |

Why the bounds are enough to be interesting. Two requests with two resources and a lease limit of 1 already give the
cycle in which each failed attempt holds what the other waits for; quota 3 (4) with estimate 2 lets one (two)
reservations in and refuses the next, and consumptions below and above the estimate exercise both corrections and the
clamp at zero; a single close meets every stage of both requests and, after `ReopenMonth`, the month takes new lines.
With `MaxAttempts` 2 a request that still has untried candidates after its last attempt does not occur in the two
resource instances; the proofs cover it. Two handlers race for a probe, and the safety of any number of them is
proved; the counterexample `twoprobes` needs three. Three requests are two past a Key's gate and one before it. Two
queries and two calls are the old answer, the new one, the stale fault and the fresh one. Two bundles with one claim,
two processes and two versions are a lost answer, its expiry, an operator's resend and the late first post. Two
executors are the one that lost its lease and the one that took over; a part that may return to its first value is
what makes an unchanged publication possible; two parts with one executor have been checked too. Two transactions over
an employee's rules are an intent that has read and the publication that comes between, or an end of an accounting and
the join it does not see; a third one follows either; in three months a rule can lose its beginning, its end or its
middle. KeyLimits and AllocationPolicy have no row in common: a behaviour of the run `keys` is of the one or of the
other. Every action fires in a passing run.

Symmetry is used in safety runs only, over requests, failure ids and bundles, which no definition tells apart. Deadlock
is not looked for in RequestSettlement, KeyLimits and AllocationPolicy: once all requests have ended, or the bounded
transactions are used up, the system rightly stops. In the other modules it is.

Fairness. `live` assumes weak fairness of each handler's next step: the upstream call has a timeout, the wait for a
lease a deadline (`capacityWaitMs`, `LeaseWaitEnds`), the rest are statements of PostgreSQL; and of the end of a
`closeMonth` transaction, on which writers of the month wait. Nothing is assumed of crashes, of administrators or
of a client that calls. `orphan` assumes the same and shows that it is not enough once a process has died. `probe`
assumes it of each live handler and of time. `quota` assumes that the worker's timer begins a query whenever the last
one has ended and that a query ends (it has a timeout); of the administrator's query nothing. `allocation` assumes that
the worker goes on scanning and that each executor goes on claiming, reading and publishing: the worker's loop ticks
for ever, a lease or a backoff comes to its end. Failures and crashes are not excluded by fairness but by the
condition of the property: after `calm` there are none, and calm may never come.

## Proofs

TLAPS proves for all values of the constants, under the assumptions named in the modules (finitely many requests,
numbers are numbers, `None` is no resource; positive cooldowns and a lease no longer than the bound on holding it; a
positive horizon of months and natural weights).

**RequestSettlement** (`Spec`, both quota modes, with crashes). None of the properties is inductive. The invariant
`IInv` has ten parts: `TypeOK`; `StageInv` (status per stage); `RouteInv` (a selected attempt has a number and a
resource); `LeaseInv` (every unreleased lease is in the hands of the request it was given to, a plan is called under a
lease of its own); `LimitInv` (leases of a limited plan are within the limit); `SlotInv` (what the rows of an attempt
say, before, at and behind the current number); `LedgerInv` (pending work has lines, a transaction comes with the
terminal status); `ReservationInv` (only the current attempt reserves); `CommitInv`; and `ClosedMonthIsFinal`, which is
inductive next to the others because the write barrier fences attempts and lines alike. A handler's step changes only
its own request's rows (`Frame`), so each part is proved for the moving request and carried over for the others.
`ProviderConcurrencyBounded` follows by an injection of the calls under way into the leases on the resource.
Proved: `TypeCorrect`, `ConcurrencyBound`, `TerminalReleased`, `TerminalComplete`, `ClosedMonth`, `CommittedLast`,
`TerminalForever`.

The quota counters are one number for all requests, so that they are right is a statement about sums: what is used is
the sum of what each request was charged (in the counter mode, of what it still holds until it is), what is reserved
one estimate for each open row. A step changes the
summand of its own request alone, and what has to be shown is that the counter changes by the same. `QuotaInv`
therefore has three parts about each request: `GrantInv` (which stages hold a reservation, and what its period row
says), `AmountInv` (no charge without a line; usage nobody could measure charges nothing) and `PendInv` (in the
counter mode, what a live process will settle is what the lines of its attempts charge, and the estimates it will
settle cover that as far as each attempt's own estimate goes, but for the attempt whose result is being recorded); and the two properties. `IInv` is
assumed of both states. A correction that subtracts is never cut off at zero, because the counter contains the summand
of the request it is for; this is where `QuotaMatchesLedger` itself is needed before the step. Proved:
`QuotaFollowsLedger` (`QuotaMatchesLedger`) and `QuotaHolds` (`NoConcurrentOverrun`), for any number of requests and
attempts, any estimate, limit and consumption, in both modes, whatever throws or crashes.

**ResourceHealth.** `IInv` = `TypeOK`, `IdleHoldsNothing`, `ProbingIsYoung` (timeouts), `FreshToken`,
`TokensDistinct`, `ProbeOwnsSlot`, `ChatIsFresh`. The argument: a lease can be drawn only when none younger than the
lease length is on the row; a transition removes the lease but starts a cooldown or leaves RATE_LIMITED, so no second
lease is drawn at the same instant; hence timestamps tell leases apart and a conditional release hits only its own.
Proved: `TypeCorrect`, `ProbeSlot`, `TokensDiffer`, `OnePerWave`, `StaleChat`.

**SettleOnce.** `PromiseIsKept`: each action of a request moves its books in one of four ways (it is quiet, begins,
records, or ends); with `IInv` before and after, each is a step of SettleOnce or none. A close finds everything
charged because a line without a transaction holds it up, and a transaction exists only for requests that have ended,
for all of their lines (`LedgerInv`).

**KeyLimits.** `IInv` = `TypeOK`, `RowCounted` (the row of a request at or past the gate is among those counted),
`NewHasNoRow`, `KeyConcurrencyBounded`. Who passes the gate has counted a set that contains all who passed before.
Proved: `TypeCorrect`, `KeyConcurrency`. For the tokens `IInv` goes on with `ReservedInLoop`, `BooksAreDue` (until a
statement throws, the rows say of a request at least what its upstream calls used) and the two properties themselves:
each step changes the share of its own request alone (`HandleShare`) and `used_tokens` by exactly that (`HandleUse`).
At the correction the estimate is one of the shares, hence the difference is not negative and `max(0, ...)` does
nothing (`CorrectionExact`). Proved: `KeyBooksExact` (`UsedMatchesBooks`), `KeyQuotaHolds` (`NoKeyOverrun`).

**QuotaBlock.** `IInv` = `TypeOK` and `Safe`: `FaultsStayBlocked`, `EventsFollowBlock`, each query that was blamed has
a stale token (so that what it brings is not committed), and a row without a readable block has empty windows. Proved:
`TypeCorrect`, `FaultsBlocked`, `EventsFollow`, whatever answers, calls and administrators do.

**ReportDelivery.** `IInv` = `TypeOK`, `MessagesInv` (row and attempts agree; each earlier attempt of doubtful outcome
has an override; the text's row moves only after the picture's is SENT), `ExecutorsInv` (what a process knows of its
attempt wherever it was stopped), `ClaimsDistinct` (two executors of one message never have the same version: it is
the fence) and `DiscoveryInv` (a tick without a failure has dealt with everybody it has left behind). Proved:
`TypeCorrect`, `AttemptsComplete`, `DiscoveryIsComplete`, `PromiseIsKept` (the refinement).

**ProjectAllocation.** `IInv` = `TypeOK`, `Counts`, `Sets`, `ReadsSound`, `ClosableReflects`. The generation that a run
captured tells nothing about its place among the publications, because the enqueue that read it may have been slow.
What holds is `InTime`: while the month is not dirty, or is dirty of the very generation the run captured, nothing an
executor has read is older than the last mark. A publication that clears dirty, or that leaves nothing unconsumed, is
in time. Proved: `TypeCorrect`, `ClosableCorrect`, `NotOlder`.

**AllocationPolicy.** `IInv` = `PolicyTypeOK`, `RulesFit`, `Opened` (a window has no end before its accounting ends),
`OneLocked`, `OneEnd` (the locks) and `TxInv` of each transaction under way: an intent whose version is still current
has kept the current rules (`Fresh`); what is ready in the lock fits (`Fits`), keeps what it does not concern (`Keeps`)
and marks what it changes (`Marks`). Nobody else can be ready, so a commit disturbs none of it. `ValidFits` is why
boundaries are enough: the rules of a month are those of the last boundary up to it. Proved: `PolicyTypeCorrect`,
`RulesAlwaysFit`, `NothingOverwritten`, `ChangesMarked`, and `SplitIsExact` (`SplitsExactly`): with the remainder the
shares of a month are the whole (`SharesAreWhole`: rules that overlap are of different projects, so summing by project
is summing all), and a split by weights that are the whole loses nothing (`ByBpsSplits`). What the floors leave over
is the sum of the remainders divided by the limit, so there are fewer such units than targets with a remainder; ranks
are places (`RanksArePlaces`), so exactly that many shares are raised, and none of them had a remainder of zero.

**FiniteSums.** `SumFunctionOnSet` is defined by taking one element out of the set after the other, in an order nobody
knows. The induction theorems of the library can not be instantiated by the installed provers; the lemmas here take a
least set among the counterexamples instead, which exists because the subsets of a finite set are well-founded
(`LeastSubset`). They say that a sum does not depend on the order (`SumRemove`), splits with the set (`SumSplit`), is monotone and linear, counts (`SumCount`), can be summed by key first (`SumByKey`), and changes with the
function by what the function changes (`SumChangeOne`).

Every safety property and every action property of the runs is the subject of a theorem. Only model-checked:
`EveryRequestEnds`, `ProbeComesFree`, `CalmReopens` and `CalmPublishes` (liveness under fairness is out of the
prover's reach), and the counterexamples. What a theorem takes as it is: the constants' assumptions, the modules'
abstractions named below, and nothing else.

## Disagreements with the documents

Each is a run that ends in a counterexample; `PROJECT.json` (`findings`) quotes the lines.

- `orphan`: the requirements and a comment have the worker reclaim leases left by a crash and recover timed-out
  requests; nothing calls `reclaimExpiredLeases`, which `acquireLease` would need because it counts expired leases
  too, and nothing scans requests. The slot is lost, the row stays IN_PROGRESS, its quota stays reserved and, once it
  has an attempt, its month can not be closed.
- `twoprobes`: a late 429 takes the lease off a running probe and starts a new wave; two probes can be under way.
- `rejected`: a billing fault overwrites CREDENTIAL_INVALID, and lifting the exhaustion lets the rejected credential
  serve.
- `refund`: an answer whose evidence could not be written is refunded as if it had used nothing.

Met while modelling and not made runs:

- What a crash or a failed correction leaves in `used_tokens` is called too large, never too small
  (`pipeline-key-limits.ts` lines 8, 84, 93, the log text of line 124; `quota-gate-repository.ts:384`). It is the
  estimate, a quarter of the characters of the input plus 256 tokens, and an answer may be longer: in the instance of
  `keys`, where the estimate is 2 and an answer may use 5, `Answer` with 5 and then `Crash`, or `Publish` and then
  `SettleKeyFails`, leaves 2 in `used_tokens` for ever. `UsedMatchesBooks` therefore gives such a request its estimate
  and says nothing of what it used. A crash before the answer, or an answer shorter than the estimate, does err on the
  large side. The case of a statement that throws before the correction is the run `refund`.
The following need state the modules leave out or hang on one reading of a comment:

- A block that does not parse is to be kept (`quota-block-repository.ts:120`, `quota-block.ts:90`), but any successful
  query without a spent window stores null in its place. `unresolved` starts empty, so `FaultsStayBlocked` does not
  speak of such a block.
- A ledger line whose `created_at` is passed by `last_marked_at`, or by the scan's lookback, before it commits is found
  by no scan until the month is marked for another reason (`missed`, excepted by `CalmPublishes`); and enabling a month
  that is enabled already moves `last_marked_at` without a new generation. A month enabled while a run that was
  enqueued by hand at generation 0 is active, and then fails, is never marked at all (the `generation > 0` of
  `CalmPublishes`). Between the insertion of a line and the next scan dirty is false although the line is not in the
  publication, so "dirty=false" in `project-allocation-freeze.ts` means: reflects all that was marked.
- `publishProjectIntent` reads the rules it keeps before the employee's lock, although its comment says inside. What
  saves them is that the route demands `expectedPolicyVersion`; it compares with `undefined` only, so a JSON null would
  pass and switch the comparison off. The web console sends null to the preview alone.
- `reviseProjectAccountingLifecycle` finds the employees it has to cut before it has their locks, and who publishes
  rules reads the windows without the project's. A rule committed in between lies beyond the ended window; its months
  are not allocated (RULE_PENDING_REPAIR), and each later publication for that employee is refused with
  RULE_OUTSIDE_ACCOUNTING until the membership is shortened. `RulesFit` therefore says nothing of windows.
- The start of an accounting neither clips rules nor marks the months before it, in which weights lose their effect
  (`StartsLater`, excepted by `ChangesAreMarked`); the same refusal follows for rules that begin before it.
- Residuals of plan costs are computed when the run is published, their digest before: a cash event between the two and
  its reversal later leave a publication that an equal digest keeps in place.

## What is not modelled

Of RequestSettlement: the stream and the wording of answers, saved dispatch evidence, the reset of a counter period,
more than one month, corrections and department freezes of the bill, administrator's adjustments and reconciliation
of UNKNOWN rows, and the replay conflict of an attempt whose usage has only cache or reasoning tokens (one consumption
per line can not tell token classes apart; step 9 of the plan). Of ResourceHealth: UNAVAILABLE and EXPIRED, which no
transition enters any more, operations without a caller, clocks that differ between processes. Of KeyLimits: Keys
without limits, and the change of a limit while requests run. Of QuotaBlock: when a query is due, the window snapshots,
providers that are disabled or archived. Of ProjectAllocation: residuals, several months, the stamps that PostgreSQL's
`now()` takes at the start of a transaction. Of AllocationPolicy: boundaries within a month, several segments, the
project a single request is assigned to, the cost of the pool. Of ReportDelivery: what a report says, the milestones in
Redis, LEGACY_UNVERIFIED days, alerts of operations.

Most of the repository is administration, bookkeeping of provider finance, read models and a web console: rows written
in one transaction and shown again. It is larger by far than the parts above and has few behaviours of several actors.
The other parts of the inventory are listed in `PROJECT.json` with the reason; the web console, contracts,
configuration and logging have no protocol state and will stay out.
