------------------------- MODULE RequestSettlement -------------------------
(***************************************************************************)
(* The request pipeline of apps/gateway together with the PostgreSQL rows  *)
(* it writes through packages/database: the life of an AI request from     *)
(* claim to terminal status, its upstream attempts, the usage evidence     *)
(* and ledger transaction, the concurrency leases, the quota counter (or   *)
(* the monthly quota period) and the operating bill that freezes a month.  *)
(*                                                                         *)
(* Every action is one database transaction, or the part of a handler      *)
(* between two awaits.  A request is driven by one gateway process; its    *)
(* local memory is pc .. last below, everything else is in PostgreSQL and  *)
(* survives Crash.                                                         *)
(*                                                                         *)
(* An operator marked "bug" is a plausible wrong version of the operator   *)
(* that follows it.  No specification uses it: it is put in the place of   *)
(* its neighbour to see that a property notices.                           *)
(***************************************************************************)
EXTENDS Integers, FiniteSets, Functions

CONSTANTS
    Requests,      \* ids of ai_request rows
    Resources,     \* provider_resource rows
    CodingPlan,    \* the resources whose mode is CODING_PLAN, the rest are API
    MaxAttempts,   \* real-pipeline.ts: deps.maxAttempts ?? 2
    LeaseLimit,    \* provider_resource.concurrency_limit, 0 means unlimited
    Estimate,      \* the reserved estimate of an attempt
    QuotaLimit,    \* principal_grant.quota_value / principal_quota_period.limit_value
    AllowOverage,  \* principal_grant.allow_overage
    Measured,      \* the consumptions an upstream can report
    MonthlyQuota,  \* TRUE: reserveEmployeeQuota answers MONTHLY, FALSE: LEGACY
    MayCrash,      \* does a process die or a handler throw in this instance?
    MaxCloses,     \* bound: how often an administrator tries to close the month
    None           \* no resource

ASSUME ResourceAssumption ==
    /\ IsFiniteSet(Requests)
    /\ CodingPlan \subseteq Resources
    /\ None \notin Resources

ASSUME NumberAssumption ==
    /\ MaxAttempts \in Nat \ {0}
    /\ LeaseLimit \in Nat
    /\ Estimate \in Nat
    /\ QuotaLimit \in Nat
    /\ Measured \subseteq Nat
    /\ MaxCloses \in Nat
    /\ AllowOverage \in BOOLEAN /\ MonthlyQuota \in BOOLEAN /\ MayCrash \in BOOLEAN

Nos   == 1..MaxAttempts          \* upstream_attempt.attempt_no
Slots == Requests \X Nos         \* one upstream_attempt row at most

VARIABLES
    \* --- rows in PostgreSQL ---
    status,     \* ai_request.status, NONE before the row exists
    attempt,    \* upstream_attempt: NONE, STARTED or FINISHED (finished_at set)
    resource,   \* upstream_attempt.provider_resource_id
    committed,  \* upstream_attempt.response_committed
    line,       \* usage_event + ledger_line: NONE, MEASURED or UNKNOWN
    amount,     \* the consumption the line carries
    txn,        \* ledger_transaction: the attempts whose lines it sums up
    leases,     \* concurrency_lease rows with released_at IS NULL
    used,       \* quota_counter.used_value / principal_quota_period.used_value
    reserved,   \* principal_quota_period.reserved_value (monthly only)
    usageRow,   \* principal_quota_usage.status (monthly only)
    bill,       \* operating_bill_period.status; CLOSING while closeMonth commits
    frozen,     \* the lines in the operating_bill_version of a closing or closed month
    closes,     \* bound: the closes an administrator has begun
    \* --- memory of the process that serves the request ---
    pc, no, winner, eligible, tried, forced,
    heldLease,  \* lease of the current attempt, not yet handed to pendLease
    heldGrant,  \* the current attempt holds a reservation
    pendLease,  \* state.pendingLeaseIds
    pendEst,    \* state.pendingQuotaSettlements, summed: reserved_estimate
    pendAct,    \* state.pendingQuotaSettlements, summed: actual_deducted
    outcome,    \* state.finalOutcome
    last        \* the Outcome adapter.invoke returned for the current attempt

quotaVars  == <<used, reserved, usageRow>>
factVars   == <<attempt, resource, committed, line, amount>>
billVars   == <<bill, frozen, closes>>
pendVars   == <<pendLease, pendEst, pendAct>>
routeVars  == <<no, winner, eligible, tried, forced>>
vars == <<status, factVars, txn, leases, quotaVars, billVars,
          pc, routeVars, heldLease, heldGrant, pendVars, outcome, last>>

-----------------------------------------------------------------------------
Stages == {"idle", "admit", "select", "preflight", "lease", "quota", "create",
           "undo", "unwind", "fence", "upstream", "evidence", "result",
           "settle", "publish", "done", "crashed"}
Statuses  == {"NONE", "IN_PROGRESS", "SUCCEEDED", "FAILED"}
Terminal  == {"SUCCEEDED", "FAILED"}
RowStates == {"NONE", "RESERVED", "SETTLED", "RELEASED", "UNKNOWN"}
Lease     == Requests \X Nos \X Resources
NoTxn     == [posted |-> FALSE, attempts |-> {}]
NoResult  == [kind |-> "NONE", quality |-> "UNKNOWN", amount |-> 0]

\* What adapter.invoke can answer: success, an error after which another
\* candidate may be tried, an error that ends the request, an error after the
\* first byte went north.
Kinds == {"OK", "SWITCHABLE", "FATAL", "COMMITTED_ERROR"}
Results ==
    {[kind |-> k, quality |-> "MEASURED", amount |-> a] : k \in Kinds, a \in Measured}
    \cup {[kind |-> k, quality |-> "UNKNOWN", amount |-> 0] : k \in Kinds}

FactType ==
    /\ status    \in [Requests -> Statuses]
    /\ attempt   \in [Slots -> {"NONE", "STARTED", "FINISHED"}]
    /\ resource  \in [Slots -> Resources \cup {None}]
    /\ committed \in [Slots -> BOOLEAN]
    /\ line      \in [Slots -> {"NONE", "MEASURED", "UNKNOWN"}]
    /\ amount    \in [Slots -> Nat]
    /\ txn       \in [Requests -> [posted : BOOLEAN, attempts : SUBSET Nos]]

QuotaType ==
    /\ used \in Nat /\ reserved \in Nat
    /\ usageRow  \in [Slots -> RowStates]

BillType ==
    /\ bill \in {"OPEN", "CLOSING", "CLOSED"}
    /\ frozen \subseteq Slots
    /\ closes \in 0..MaxCloses

RouteType ==
    /\ pc        \in [Requests -> Stages]
    /\ no        \in [Requests -> 0..MaxAttempts]
    /\ winner    \in [Requests -> Resources \cup {None}]
    /\ eligible  \in [Requests -> SUBSET Resources]
    /\ tried     \in [Requests -> SUBSET Resources]
    /\ forced    \in [Requests -> Resources \cup {None}]

HoldType ==
    /\ heldLease \in [Requests -> SUBSET Lease]
    /\ heldGrant \in [Requests -> BOOLEAN]
    /\ pendLease \in [Requests -> SUBSET Lease]
    /\ pendEst   \in [Requests -> Nat]
    /\ pendAct   \in [Requests -> Nat]
    /\ outcome   \in [Requests -> {"NONE"} \cup Kinds]
    /\ last      \in [Requests -> [kind : {"NONE"} \cup Kinds,
                                   quality : {"MEASURED", "UNKNOWN"}, amount : Nat]]

\* Every row and every process variable has its type; the quota columns never
\* go negative, whatever the upstream reports.
TypeOK ==
    /\ FactType /\ QuotaType /\ BillType /\ RouteType /\ HoldType
    /\ leases \subseteq Lease

Init ==
    /\ status    = [r \in Requests |-> "NONE"]
    /\ attempt   = [s \in Slots |-> "NONE"]
    /\ resource  = [s \in Slots |-> None]
    /\ committed = [s \in Slots |-> FALSE]
    /\ line      = [s \in Slots |-> "NONE"]
    /\ amount    = [s \in Slots |-> 0]
    /\ txn       = [r \in Requests |-> NoTxn]
    /\ leases = {} /\ used = 0 /\ reserved = 0
    /\ usageRow  = [s \in Slots |-> "NONE"]
    /\ bill = "OPEN" /\ frozen = {} /\ closes = 0
    /\ pc        = [r \in Requests |-> "idle"]
    /\ no        = [r \in Requests |-> 0]
    /\ winner    = [r \in Requests |-> None]
    /\ eligible  = [r \in Requests |-> {}]
    /\ tried     = [r \in Requests |-> {}]
    /\ forced    = [r \in Requests |-> None]
    /\ heldLease = [r \in Requests |-> {}]
    /\ heldGrant = [r \in Requests |-> FALSE]
    /\ pendLease = [r \in Requests |-> {}]
    /\ pendEst   = [r \in Requests |-> 0]
    /\ pendAct   = [r \in Requests |-> 0]
    /\ outcome   = [r \in Requests |-> "NONE"]
    /\ last      = [r \in Requests |-> NoResult]

-----------------------------------------------------------------------------
(* Helpers.                                                                *)

Cur(r)  == <<r, no[r]>>
Goto(r, stage) == pc' = [pc EXCEPT ![r] = stage]
InProgress(r)  == status[r] = "IN_PROGRESS"
Attempts(r)    == {n \in Nos : attempt[<<r, n>>] # "NONE"}
Lines(r)       == {n \in Nos : line[<<r, n>>] # "NONE"}
LinedSlots     == {s \in Slots : line[s] # "NONE"}
LeasesOn(res)  == {l \in leases : l[3] = res}

\* operating-bill-write-barrier.ts: the writer locks and touches the period row.
\* It waits while closeMonth holds the row and is refused once it is CLOSED.
MonthWritableNoLock == bill # "CLOSED"   \* bug: the period row is not locked
MonthWritable == bill = "OPEN"
MonthClosed   == bill = "CLOSED"

\* domain/quota-gate.ts
SettledQuotaSwapped(u, est, act) == u - act   \* bug: the actual is returned, no floor
SettledQuota(u, est, act) == IF u - est + act < 0 THEN 0 ELSE u - est + act
GateIgnoresEstimate == AllowOverage \/ used + reserved <= QuotaLimit   \* bug
GateIgnoresReserved == AllowOverage \/ used + Estimate <= QuotaLimit   \* bug
GateAllows == AllowOverage \/ used + reserved + Estimate <= QuotaLimit

\* Does an attempt on res reserve quota at all?
Reserves(res) == MonthlyQuota \/ res \in CodingPlan

\* The candidate is left behind and the attempt loop goes on.
SkipCandidate(r) ==
    /\ tried' = [tried EXCEPT ![r] = @ \cup {winner[r]}]
    /\ Goto(r, "select")
    /\ UNCHANGED <<no, winner, eligible, forced>>

\* settleEmployeeQuotaInTransaction on a RESERVED row; a reserved_value that
\* would go negative is an error (quota_reserved_invariant).
SettleRowByActual(s, state, actual) ==   \* bug: the actual, not the estimate, is returned
    /\ reserved >= actual
    /\ usageRow' = [usageRow EXCEPT ![s] = state]
    /\ reserved' = reserved - actual
    /\ used'     = used + actual
SettleRow(s, state, actual) ==
    /\ reserved >= Estimate
    /\ usageRow' = [usageRow EXCEPT ![s] = state]
    /\ reserved' = reserved - Estimate
    /\ used'     = used + actual

\* The same on a quota_counter: the reservations go, the consumption comes.
SettleCounter(est, act) ==
    /\ used' = SettledQuota(used, est, act)
    /\ UNCHANGED <<reserved, usageRow>>

\* settleRequestAccounting with the pending items and, if it holds one, the
\* reservation of a current attempt that never reached the upstream.  A pending
\* monthly item was settled with its evidence: its replay changes nothing.
SettleOnlyCurrent(r, current) ==   \* bug: the items of earlier attempts are lost
    IF current /\ ~MonthlyQuota THEN SettleCounter(Estimate, 0) ELSE UNCHANGED quotaVars
SettleQuotaItems(r, current) ==
    IF MonthlyQuota
    THEN IF current THEN SettleRow(Cur(r), "SETTLED", 0) ELSE UNCHANGED quotaVars
    ELSE SettleCounter(pendEst[r] + (IF current THEN Estimate ELSE 0), pendAct[r])

\* The ledger_transaction and the terminal status are one transaction; it is
\* refused unless the attempts are finished and every one has its line.
ReadyToFinalize(r) ==
    /\ InProgress(r)
    /\ \A n \in Attempts(r) : attempt[<<r, n>>] = "FINISHED" /\ line[<<r, n>>] # "NONE"

-----------------------------------------------------------------------------
(* Admission (pipeline-admission.ts).                                      *)

\* claimRequest inserts the row; any other caller with the same idempotency
\* key gets CONFLICT or REPLAY and never reaches the pipeline.
ClaimFailedAgain(r) ==   \* bug: a failed request is run again under its own row
    /\ pc[r] \in {"idle", "done"} /\ status[r] \in {"NONE", "FAILED"}
    /\ status' = [status EXCEPT ![r] = "IN_PROGRESS"]
    /\ Goto(r, "admit")
    /\ UNCHANGED <<factVars, txn, leases, quotaVars, billVars, routeVars,
                   heldLease, heldGrant, pendVars, outcome, last>>
Claim(r) ==
    /\ pc[r] = "idle" /\ status[r] = "NONE"
    /\ status' = [status EXCEPT ![r] = "IN_PROGRESS"]
    /\ Goto(r, "admit")
    /\ UNCHANGED <<factVars, txn, leases, quotaVars, billVars, routeVars,
                   heldLease, heldGrant, pendVars, outcome, last>>

\* updateUnsettledRequestStatus: only a request without settlement facts may
\* be failed without a ledger transaction.
FailUnsettled(r) ==
    /\ InProgress(r) /\ Attempts(r) = {} /\ ~txn[r].posted
    /\ status' = [status EXCEPT ![r] = "FAILED"]
    /\ Goto(r, "done")
    /\ UNCHANGED <<factVars, txn, leases, quotaVars, billVars, routeVars,
                   heldLease, heldGrant, pendVars, outcome, last>>

\* Not configured, no grant, no servable candidate, a Key limit: FAILED at once.
AdmitReject(r) == pc[r] = "admit" /\ FailUnsettled(r)

Admit(r) ==
    /\ pc[r] = "admit"
    /\ \E cs \in SUBSET Resources \ {{}} : eligible' = [eligible EXCEPT ![r] = cs]
    /\ Goto(r, "select")
    /\ UNCHANGED <<status, factVars, txn, leases, quotaVars, billVars, no, winner,
                   tried, forced, heldLease, heldGrant, pendVars, outcome, last>>

-----------------------------------------------------------------------------
(* The attempt loop (pipeline-attempts.ts).                                *)

\* The scored winner is any untried candidate; a target forced by the dispatch
\* recheck replaces it even if it was tried before.
Candidates(r) ==
    IF forced[r] \in eligible[r] THEN {forced[r]} ELSE eligible[r] \ tried[r]

SelectWinner(r) ==
    /\ pc[r] = "select" /\ no[r] < MaxAttempts
    /\ no' = [no EXCEPT ![r] = @ + 1]
    /\ \E res \in Candidates(r) : winner' = [winner EXCEPT ![r] = res]
    /\ forced' = [forced EXCEPT ![r] = None]
    /\ Goto(r, "preflight")
    /\ UNCHANGED <<status, factVars, txn, leases, quotaVars, billVars, eligible,
                   tried, heldLease, heldGrant, pendVars, outcome, last>>

\* The loop ends: attempts used up or nobody left to choose.
LeaveLoop(r) == Goto(r, IF outcome[r] = "NONE" THEN "publish" ELSE "settle")

EndLoop(r) ==
    /\ pc[r] = "select"
    /\ no[r] = MaxAttempts \/ Candidates(r) = {}
    /\ LeaveLoop(r)
    /\ UNCHANGED <<status, factVars, txn, leases, quotaVars, billVars, routeVars,
                   heldLease, heldGrant, pendVars, outcome, last>>

\* applyInitialDispatchDecision, first attempt only: REJECT and RATE_LIMIT end
\* the request, and so does a decision that cannot be written.
DispatchTerminates(r) ==
    /\ pc[r] = "preflight" /\ no[r] = 1
    /\ FailUnsettled(r)

\* prepareAttemptPreflight and the half-open probe: the grant is gone or the
\* probe is taken by another request.
PreflightSkips(r) ==
    /\ pc[r] = "preflight"
    /\ SkipCandidate(r)
    /\ UNCHANGED <<status, factVars, txn, leases, quotaVars, billVars,
                   heldLease, heldGrant, pendVars, outcome, last>>

\* A CODING_PLAN resource with an open quota block ends the loop, and so does an API
\* resource when the request may use plans only (PLAN_ONLY).
PreflightStops(r) ==
    /\ pc[r] = "preflight"
    /\ tried' = [tried EXCEPT ![r] = @ \cup {winner[r]}]
    /\ LeaveLoop(r)
    /\ UNCHANGED <<status, factVars, txn, leases, quotaVars, billVars, no, winner,
                   eligible, forced, heldLease, heldGrant, pendVars, outcome, last>>

PreflightPasses(r) ==
    /\ pc[r] = "preflight"
    /\ Goto(r, IF winner[r] \in CodingPlan THEN "lease" ELSE "quota")
    /\ UNCHANGED <<status, factVars, txn, leases, quotaVars, billVars, routeVars,
                   heldLease, heldGrant, pendVars, outcome, last>>

-----------------------------------------------------------------------------
(* Reservation (attempt-quota-reservation.ts, quota-gate-repository.ts).   *)

\* acquireLease counts the unreleased rows under the lock of the resource row.
LeaseFreeAtLimit(res) == LeaseLimit = 0 \/ Cardinality(LeasesOn(res)) <= LeaseLimit   \* bug
LeaseFree(res) == LeaseLimit = 0 \/ Cardinality(LeasesOn(res)) < LeaseLimit

AcquireLease(r) ==
    /\ pc[r] = "lease" /\ LeaseFree(winner[r])
    /\ leases' = leases \cup {<<r, no[r], winner[r]>>}
    /\ heldLease' = [heldLease EXCEPT ![r] = {<<r, no[r], winner[r]>>}]
    /\ Goto(r, "quota")
    /\ UNCHANGED <<status, factVars, txn, quotaVars, billVars, routeVars,
                   heldGrant, pendVars, outcome, last>>

\* acquireConcurrencyLeaseWithWait gives up at its deadline, or as soon as the
\* client has gone away.
LeaseWaitEndless(r) == FALSE   \* bug: no deadline
LeaseWaitEnds(r) ==
    /\ pc[r] = "lease"
    /\ SkipCandidate(r)
    /\ UNCHANGED <<status, factVars, txn, leases, quotaVars, billVars,
                   heldLease, heldGrant, pendVars, outcome, last>>

\* reserveQuota / reserveEmployeeQuota; a LEGACY API attempt reserves nothing.
ReserveQuota(r) ==
    /\ pc[r] = "quota"
    /\ IF Reserves(winner[r])
       THEN /\ GateAllows
            /\ heldGrant' = [heldGrant EXCEPT ![r] = TRUE]
            /\ used'     = IF MonthlyQuota THEN used ELSE used + Estimate
            /\ reserved' = IF MonthlyQuota THEN reserved + Estimate ELSE reserved
            /\ usageRow' = IF MonthlyQuota
                           THEN [usageRow EXCEPT ![Cur(r)] = "RESERVED"] ELSE usageRow
       ELSE UNCHANGED <<heldGrant, quotaVars>>
    /\ Goto(r, "create")
    /\ UNCHANGED <<status, factVars, txn, leases, billVars, routeVars,
                   heldLease, pendVars, outcome, last>>

\* REJECT_EXHAUSTED ends the loop, a missing grant goes on; the lease is returned.
QuotaRejects(r) ==
    /\ pc[r] = "quota" /\ Reserves(winner[r])
    /\ leases' = leases \ heldLease[r]
    /\ heldLease' = [heldLease EXCEPT ![r] = {}]
    /\ tried' = [tried EXCEPT ![r] = @ \cup {winner[r]}]
    /\ \/ ~GateAllows /\ LeaveLoop(r)
       \/ Goto(r, "select")
    /\ UNCHANGED <<status, factVars, txn, quotaVars, billVars, no, winner, eligible,
                   forced, heldGrant, pendVars, outcome, last>>

-----------------------------------------------------------------------------
(* The attempt row and the last checks before the upstream                 *)
(* (pipeline-attempt-preparation.ts, createGuardedUpstreamAttempt).        *)

CreateAttempt(r) ==
    /\ pc[r] = "create" /\ InProgress(r) /\ MonthWritable
    /\ attempt'  = [attempt EXCEPT ![Cur(r)] = "STARTED"]
    /\ resource' = [resource EXCEPT ![Cur(r)] = winner[r]]
    /\ Goto(r, "fence")
    /\ UNCHANGED <<status, committed, line, amount, txn, leases, quotaVars, billVars,
                   routeVars, heldLease, heldGrant, pendVars, outcome, last>>

\* releaseAttemptReservations gives the quota back ...
ReturnGrant(r) ==
    /\ IF heldGrant[r]
       THEN IF MonthlyQuota THEN SettleRow(Cur(r), "RELEASED", 0) ELSE SettleCounter(Estimate, 0)
       ELSE UNCHANGED quotaVars
    /\ heldGrant' = [heldGrant EXCEPT ![r] = FALSE]

\* ... when the month is closed (OperatingBillClosedError) ...
CreateRefused(r) ==
    /\ pc[r] = "create" /\ MonthClosed
    /\ ReturnGrant(r)
    /\ Goto(r, "undo")
    /\ UNCHANGED <<status, factVars, txn, leases, billVars, routeVars,
                   heldLease, pendVars, outcome, last>>

\* ... and when the statement throws, or bindEmployeeQuotaAttempt does after the
\* attempt was committed: this error is thrown on, past the pipeline.
CreateThrows(r) ==
    /\ MayCrash /\ pc[r] = "create"
    /\ \/ UNCHANGED <<attempt, resource>>
       \/ /\ MonthlyQuota /\ heldGrant[r] /\ InProgress(r) /\ MonthWritable
          /\ attempt'  = [attempt EXCEPT ![Cur(r)] = "STARTED"]
          /\ resource' = [resource EXCEPT ![Cur(r)] = winner[r]]
    /\ ReturnGrant(r)
    /\ Goto(r, "unwind")
    /\ UNCHANGED <<status, committed, line, amount, txn, leases, billVars, routeVars,
                   heldLease, pendVars, outcome, last>>

\* The lease follows, in a statement of its own.
UndoLease(r) ==
    /\ pc[r] \in {"undo", "unwind"}
    /\ leases' = leases \ heldLease[r]
    /\ heldLease' = [heldLease EXCEPT ![r] = {}]
    /\ Goto(r, IF pc[r] = "undo" THEN "publish" ELSE "crashed")
    /\ UNCHANGED <<status, factVars, txn, quotaVars, billVars, routeVars,
                   heldGrant, pendVars, outcome, last>>

\* The attempt is finished with the explicit fact that nothing was consumed.
RejectedEvidence(r) ==
    /\ InProgress(r) /\ MonthWritable
    /\ attempt' = [attempt EXCEPT ![Cur(r)] = "FINISHED"]
    /\ line'    = [line EXCEPT ![Cur(r)] = "UNKNOWN"]
    /\ UNCHANGED <<resource, committed, amount>>

\* releaseLeaseIds: the leases of the earlier attempts and of the current one.
ReleaseOnlyCurrent(r) == heldLease[r]   \* bug
ReleaseLeaseIds(r) == pendLease[r] \cup heldLease[r]

\* finalizeRejectedAttemptSettlementAtomically: Key or model revoked, candidate
\* revoked with nowhere to go, dispatch forbids, the dispatch check itself fails.
FenceRejects(r) ==
    /\ pc[r] = "fence"
    /\ RejectedEvidence(r)
    /\ SettleQuotaItems(r, heldGrant[r])
    /\ leases' = leases \ ReleaseLeaseIds(r)
    /\ txn'    = [txn EXCEPT ![r] = [posted |-> TRUE, attempts |-> Lines(r) \cup {no[r]}]]
    /\ status' = [status EXCEPT ![r] = "FAILED"]
    /\ Goto(r, "done")
    /\ UNCHANGED <<billVars, routeVars, heldLease, heldGrant, pendVars, outcome, last>>

\* persistAttemptUsageAccountingAtomically on a rejected attempt: the request
\* stays IN_PROGRESS, the attempt's own reservation and lease are settled now.
GiveUpAttempt(r) ==
    /\ RejectedEvidence(r)
    /\ IF heldGrant[r]
       THEN IF MonthlyQuota THEN SettleRow(Cur(r), "SETTLED", 0) ELSE SettleCounter(Estimate, 0)
       ELSE UNCHANGED quotaVars
    /\ leases' = leases \ heldLease[r]
    /\ heldLease' = [heldLease EXCEPT ![r] = {}]
    /\ heldGrant' = [heldGrant EXCEPT ![r] = FALSE]
    /\ Goto(r, "select")
    /\ UNCHANGED <<status, txn, billVars, no, winner, pendVars, outcome, last>>

\* settleRevokedAttempt FAILOVER: the revoked route leaves the candidates.
FenceFailsOver(r) ==
    /\ pc[r] = "fence" /\ no[r] < MaxAttempts
    /\ (eligible[r] \ {winner[r]}) \ tried[r] # {}
    /\ GiveUpAttempt(r)
    /\ eligible' = [eligible EXCEPT ![r] = @ \ {winner[r]}]
    /\ UNCHANGED <<tried, forced>>

\* attemptDispatchGuard answers SWITCH.
FenceReselects(r) ==
    /\ pc[r] = "fence" /\ no[r] < MaxAttempts
    /\ GiveUpAttempt(r)
    /\ \E target \in (eligible[r] \ tried[r]) \ {winner[r]} :
           forced' = [forced EXCEPT ![r] = target]
    /\ tried' = [tried EXCEPT ![r] = @ \cup {winner[r]}]
    /\ UNCHANGED eligible

FencePasses(r) ==
    /\ pc[r] = "fence"
    /\ Goto(r, "upstream")
    /\ UNCHANGED <<status, factVars, txn, leases, quotaVars, billVars, routeVars,
                   heldLease, heldGrant, pendVars, outcome, last>>

-----------------------------------------------------------------------------
(* The upstream call and its evidence (pipeline-attempt-execution.ts,      *)
(* attempt-usage-settlement.ts).                                           *)

UpstreamAnswers(r) ==
    /\ pc[r] = "upstream"
    /\ \E res \in Results : last' = [last EXCEPT ![r] = res]
    /\ Goto(r, "evidence")
    /\ UNCHANGED <<status, factVars, txn, leases, quotaVars, billVars, routeVars,
                   heldLease, heldGrant, pendVars, outcome>>

WasCommitted(res) == res.kind \in {"OK", "COMMITTED_ERROR"}

\* usage_event and ledger_line in one transaction.  A monthly attempt settles
\* its reservation, its result and its lease with them; UNKNOWN usage keeps the
\* reservation.
PersistEvidence(r) ==
    /\ pc[r] = "evidence" /\ InProgress(r) /\ MonthWritable
    /\ line'   = [line EXCEPT ![Cur(r)] = last[r].quality]
    /\ amount' = [amount EXCEPT ![Cur(r)] = last[r].amount]
    /\ IF MonthlyQuota
       THEN /\ attempt'   = [attempt EXCEPT ![Cur(r)] = "FINISHED"]
            /\ committed' = [committed EXCEPT ![Cur(r)] = WasCommitted(last[r])]
            /\ leases'    = leases \ heldLease[r]
            /\ IF last[r].quality = "UNKNOWN"
               THEN /\ usageRow' = [usageRow EXCEPT ![Cur(r)] = "UNKNOWN"]
                    /\ UNCHANGED <<used, reserved>>
               ELSE SettleRow(Cur(r), "SETTLED", last[r].amount)
       ELSE UNCHANGED <<attempt, committed, leases, quotaVars>>
    /\ Goto(r, "result")
    /\ UNCHANGED <<status, resource, txn, billVars, routeVars, heldLease, heldGrant,
                   pendVars, outcome, last>>

\* shouldAttemptUpstreamFailover; a plan whose billing is blocked counts as FATAL.
FailsOverAfterCommit(res) == res.kind \in {"SWITCHABLE", "COMMITTED_ERROR"}   \* bug
FailsOver(res) == res.kind = "SWITCHABLE"

\* updateAttemptResult, recordAttemptQuotaSettlement and the failover decision.
RecordResult(r) ==
    /\ pc[r] = "result" /\ InProgress(r)
    /\ attempt'   = [attempt EXCEPT ![Cur(r)] = "FINISHED"]
    /\ committed' = [committed EXCEPT ![Cur(r)] = WasCommitted(last[r])]
    /\ pendEst'   = [pendEst EXCEPT ![r] =
                        IF heldGrant[r] /\ ~MonthlyQuota THEN @ + Estimate ELSE @]
    /\ pendAct'   = [pendAct EXCEPT ![r] =
                        IF heldGrant[r] /\ ~MonthlyQuota THEN @ + last[r].amount ELSE @]
    /\ heldGrant' = [heldGrant EXCEPT ![r] = FALSE]
    /\ pendLease' = [pendLease EXCEPT ![r] = @ \cup heldLease[r]]
    /\ heldLease' = [heldLease EXCEPT ![r] = {}]
    /\ outcome'   = [outcome EXCEPT ![r] = last[r].kind]
    /\ IF FailsOver(last[r])
       THEN SkipCandidate(r)
       ELSE Goto(r, "settle") /\ UNCHANGED routeVars
    /\ last' = [last EXCEPT ![r] = NoResult]
    /\ UNCHANGED <<status, resource, line, amount, txn, leases, quotaVars, billVars>>

-----------------------------------------------------------------------------
(* Terminal settlement (pipeline-settlement.ts, pipeline-failure-          *)
(* settlement.ts, finalizeLedgerSettlementAtomically).                     *)

Finalize(r, terminal) ==
    /\ ReadyToFinalize(r)
    /\ SettleQuotaItems(r, FALSE)
    /\ leases' = leases \ ReleaseLeaseIds(r)
    /\ txn'    = [txn EXCEPT ![r] = [posted |-> TRUE, attempts |-> Lines(r)]]
    /\ status' = [status EXCEPT ![r] = terminal]
    /\ Goto(r, "done")
    /\ UNCHANGED <<factVars, billVars, routeVars, heldLease, heldGrant, pendVars,
                   outcome, last>>

SettleRequest(r) ==
    /\ pc[r] = "settle"
    /\ Finalize(r, IF outcome[r] = "OK" THEN "SUCCEEDED" ELSE "FAILED")

\* publishFailedRequest: with facts through the ledger, without them directly.
PublishBypassingLedger(r) ==   \* bug: FAILED is written past the ledger
    /\ pc[r] = "publish" /\ InProgress(r)
    /\ status' = [status EXCEPT ![r] = "FAILED"]
    /\ Goto(r, "done")
    /\ UNCHANGED <<factVars, txn, leases, quotaVars, billVars, routeVars,
                   heldLease, heldGrant, pendVars, outcome, last>>
PublishFailed(r) ==
    /\ pc[r] = "publish"
    /\ IF Lines(r) # {} THEN Finalize(r, "FAILED") ELSE FailUnsettled(r)

\* The process dies, or a handler throws: the memory is gone (the variables
\* only remember what it held), the rows stay and nobody resumes the request.
Crash(r) ==
    /\ MayCrash /\ pc[r] \notin {"idle", "done", "crashed"}
    /\ Goto(r, "crashed")
    /\ UNCHANGED <<status, factVars, txn, leases, quotaVars, billVars, routeVars,
                   heldLease, heldGrant, pendVars, outcome, last>>

-----------------------------------------------------------------------------
(* The operating bill (operating-bill-repository.ts).                      *)

\* hasPendingOperatingBillSettlement for the current month.
PendingSettlementStarted ==   \* bug: only attempts that are not finished hold up the close
    \E s \in Slots : attempt[s] = "STARTED"
PendingSettlement ==
    \/ \E r \in Requests : InProgress(r) /\ Attempts(r) # {}
    \/ \E r \in Requests : Lines(r) # {} /\ ~txn[r].posted
    \/ \E r \in Requests : txn[r].posted /\ txn[r].attempts # Attempts(r)
    \/ \E s \in Slots : status[s[1]] \in Terminal /\ attempt[s] = "STARTED"

processVars == <<pc, routeVars, heldLease, heldGrant, pendVars, outcome, last>>

\* The repeatable-read transaction has its snapshot and the period row; a
\* writer that touched the row before it makes it start again (40001).
BeginClose ==
    /\ bill = "OPEN" /\ closes < MaxCloses /\ ~PendingSettlement
    /\ bill' = "CLOSING" /\ frozen' = LinedSlots /\ closes' = closes + 1
    /\ UNCHANGED <<status, factVars, txn, leases, quotaVars, processVars>>

CommitClose ==
    /\ bill = "CLOSING"
    /\ bill' = "CLOSED"
    /\ UNCHANGED <<status, factVars, txn, leases, quotaVars, frozen, closes, processVars>>

\* The draft has gaps and the administrator did not allow them: roll back.
AbortClose ==
    /\ bill = "CLOSING"
    /\ bill' = "OPEN" /\ frozen' = {}
    /\ UNCHANGED <<status, factVars, txn, leases, quotaVars, closes, processVars>>

ReopenMonth ==
    /\ bill = "CLOSED"
    /\ bill' = "OPEN" /\ frozen' = {}
    /\ UNCHANGED <<status, factVars, txn, leases, quotaVars, closes, processVars>>

-----------------------------------------------------------------------------
Pipeline(r) ==
    \/ AdmitReject(r) \/ Admit(r)
    \/ SelectWinner(r) \/ EndLoop(r) \/ DispatchTerminates(r)
    \/ PreflightSkips(r) \/ PreflightStops(r) \/ PreflightPasses(r)
    \/ AcquireLease(r) \/ LeaseWaitEnds(r) \/ ReserveQuota(r) \/ QuotaRejects(r)
    \/ CreateAttempt(r) \/ CreateRefused(r) \/ CreateThrows(r) \/ UndoLease(r)
    \/ FenceRejects(r) \/ FenceFailsOver(r) \/ FenceReselects(r) \/ FencePasses(r)
    \/ UpstreamAnswers(r) \/ PersistEvidence(r) \/ RecordResult(r)
    \/ SettleRequest(r) \/ PublishFailed(r)

Billing == BeginClose \/ CommitClose \/ AbortClose \/ ReopenMonth

Next ==
    \/ \E r \in Requests : Claim(r) \/ Pipeline(r) \/ Crash(r)
    \/ Billing

Spec == Init /\ [][Next]_vars

\* Every await of a live handler returns (timeouts bound the upstream call and
\* the lease wait), and a transaction that holds the period row ends.
FairSpec ==
    /\ Spec
    /\ \A r \in Requests : WF_vars(Pipeline(r))
    /\ WF_vars(CommitClose \/ AbortClose)

-----------------------------------------------------------------------------
(* Properties.                                                             *)

\* A CODING_PLAN resource never serves more upstream calls at once than its
\* concurrency_limit: from acquireLease to the evidence every call is covered by
\* an unreleased lease of its own, whatever fails before or after it.
ProviderConcurrencyBounded ==
    LeaseLimit > 0 => \A res \in CodingPlan :
        Cardinality({r \in Requests : pc[r] = "upstream" /\ winner[r] = res}) <= LeaseLimit

\* When a request is terminal nothing of it is left behind: every lease of every
\* one of its attempts is released and no monthly reservation is still open,
\* on each of the paths that publish a terminal status.
TerminalReleasesAll ==
    \A r \in Requests : status[r] \in Terminal =>
        /\ \A l \in leases : l[1] # r
        /\ \A n \in Nos : usageRow[<<r, n>>] # "RESERVED"

\* The terminal status is the completion barrier of the ledger: all attempts are
\* finished, each has its ledger line, and the ledger transaction sums exactly
\* those; a request without attempts has no transaction.
TerminalIsComplete ==
    \A r \in Requests : status[r] \in Terminal =>
        /\ \A n \in Attempts(r) : attempt[<<r, n>>] = "FINISHED"
        /\ Lines(r) = Attempts(r)
        /\ txn[r].attempts = Attempts(r)
        /\ txn[r].posted <=> Attempts(r) # {}

\* What settleRequestAccounting charges for an attempt, and that as far as its own
\* estimate goes.
Due(s) == IF line[s] = "NONE" \/ ~Reserves(resource[s]) THEN 0 ELSE amount[s]
DueOfEstimate(s) == IF Due(s) < Estimate THEN Due(s) ELSE Estimate

\* The reservations of a request that nobody has settled yet.
Outstanding(r) == pendEst[r] + IF heldGrant[r] THEN Estimate ELSE 0

\* A monthly attempt is charged with its line, all others when their request ends.
IsCharged(r) == MonthlyQuota \/ status[r] \in Terminal
ChargeOf(r) == SumFunctionOnSet([n \in Nos |-> Due(<<r, n>>)], Nos)
TakenOf(r)  == SumFunctionOnSet([n \in Nos |-> DueOfEstimate(<<r, n>>)], Nos)
Share(r)           == IF IsCharged(r) THEN ChargeOf(r) ELSE Outstanding(r)
ShareOfEstimate(r) == IF IsCharged(r) THEN TakenOf(r) ELSE Outstanding(r)

\* The quota counter and the ledger never drift apart, even when a process dies:
\* what is used is what the ledger lines of settled work say, plus the estimates
\* of exactly the reservations nobody has settled yet.
OpenRows == {s \in Slots : usageRow[s] \in {"RESERVED", "UNKNOWN"}}
QuotaMatchesLedger ==
    /\ used = SumFunctionOnSet([r \in Requests |-> Share(r)], Requests)
    /\ reserved = Estimate * Cardinality(OpenRows)

\* Without overage, calls in parallel cannot take more than the quota: what is
\* reserved, together with what each settled attempt took of its own reservation,
\* fits the limit (a consumption above its estimate is only known afterwards).
NoConcurrentOverrun ==
    ~AllowOverage =>
        SumFunctionOnSet([r \in Requests |-> ShareOfEstimate(r)], Requests) + reserved
            <= QuotaLimit

\* While the month is being closed or is closed the bill holds every ledger line
\* there is, and no attempt is under way whose usage would be refused by the
\* closed month after the upstream has been paid for.
ClosedMonthIsFinal ==
    bill \in {"CLOSING", "CLOSED"} =>
        /\ frozen = LinedSlots
        /\ \A s \in Slots : attempt[s] # "NONE" => status[s[1]] \in Terminal

\* Once bytes of an answer have gone to the client no other upstream is tried,
\* and only an attempt that was committed makes the request succeed.
CommittedAttemptIsLast ==
    /\ \A s \in Slots : committed[s] =>
           \A m \in Nos : m > s[2] => attempt[<<s[1], m>>] = "NONE"
    /\ \A r \in Requests : status[r] = "SUCCEEDED" => \E n \in Nos : committed[<<r, n>>]

\* No late handler, retry or replay rewrites a request after its terminal status:
\* its status, attempts, lines and transaction stay as they were published.
KeepsTerminal ==
    \A r \in Requests : status[r] \in Terminal =>
        /\ status'[r] = status[r] /\ txn'[r] = txn[r]
        /\ \A n \in Nos : /\ attempt'[<<r, n>>] = attempt[<<r, n>>]
                          /\ line'[<<r, n>>] = line[<<r, n>>]
                          /\ amount'[<<r, n>>] = amount[<<r, n>>]
TerminalIsForever == [][KeepsTerminal]_vars

\* What was promised to those who pay: every attempt's usage is recorded once and
\* charged once, when its request ends and for all of its attempts together; a month is
\* closed only over what is charged, and its bill is final until the month is reopened.
Phase(s) == IF s = "NONE" THEN "none" ELSE IF s = "IN_PROGRESS" THEN "running" ELSE "ended"
Unrecorded == [line |-> "NONE", amount |-> 0]
UsageOf(s) == IF line[s] = "NONE" THEN Unrecorded ELSE [line |-> line[s], amount |-> amount[s]]
Phases  == [r \in Requests |-> Phase(status[r])]
Usage   == [s \in Slots |-> UsageOf(s)]
Charged == {s \in Slots : s[2] \in txn[s[1]].attempts}
Promise == INSTANCE SettleOnce WITH
    Usages <- [line : {"MEASURED", "UNKNOWN"}, amount : Nat], Nothing <- Unrecorded,
    phase <- Phases, usage <- Usage, charged <- Charged,
    closed <- (bill # "OPEN"), billed <- frozen
SettledOnce == Promise!Spec

\* Without crashes every claimed request reaches a terminal status: no wait for a
\* lease, for a closing month or for another candidate is endless.
EveryRequestEnds ==
    \A r \in Requests : InProgress(r) ~> status[r] \in Terminal

\* A process that dies leaves no orphan for ever: its lease is taken back ("called by
\* the worker on a schedule", comment on reclaimExpiredLeases) or its request recovered
\* ("timed-out requests are scanned and recovered by the worker", TRD 8.2).
OrphanIsRepaired ==
    \A r \in Requests :
        LET holdsLease == \E l \in leases : l[1] = r
        IN  (pc[r] = "crashed" /\ InProgress(r) /\ holdsLease) ~> ~(InProgress(r) /\ holdsLease)
=============================================================================
