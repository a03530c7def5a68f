----------------------------- MODULE KeyLimits -----------------------------
(***************************************************************************)
(* The limits of one downstream Key: how many requests may be in flight    *)
(* and how many tokens it may use up.  The gateway enforces both at the    *)
(* end of admission (pipeline-key-limits.ts) and corrects the tokens in    *)
(* the finally clause of the pipeline, in a transaction of its own after   *)
(* the request was settled.                                                *)
(*                                                                         *)
(* Between the two stands the attempt loop, here only as far as the        *)
(* correction reads it back: the line of an attempt and the                *)
(* response_committed of its row, written together (monthly quota) or in   *)
(* two statements.  RequestSettlement has the loop itself.                 *)
(*                                                                         *)
(* An operator marked "bug" is a plausible wrong version of the operator   *)
(* that follows it; no specification uses it.                              *)
(***************************************************************************)
EXTENDS Integers, FiniteSets, Functions

CONSTANTS
    Requests,      \* requests that present the Key
    KeyLimit,      \* principal_key.concurrency_limit, 0 forbids every call
    QuotaLimit,    \* principal_key.quota_limit
    Estimates,     \* what estimateRawTokens can answer
    Usages,        \* the tokens an upstream can report
    MaxAttempts,   \* deps.maxAttempts ?? 2
    MonthlyQuota,  \* TRUE: line and result of an attempt are one transaction
    MayCrash,      \* does a process die in this instance?
    MayThrow       \* can a statement of the pipeline fail in this instance?

ASSUME KeyAssumption ==
    /\ IsFiniteSet(Requests)
    /\ KeyLimit \in Nat /\ QuotaLimit \in Nat /\ MaxAttempts \in Nat \ {0}
    /\ Estimates \subseteq Nat /\ Usages \subseteq Nat
    /\ MonthlyQuota \in BOOLEAN /\ MayCrash \in BOOLEAN /\ MayThrow \in BOOLEAN

VARIABLES
    \* --- rows in PostgreSQL ---
    inProgress,  \* the ai_request rows that are IN_PROGRESS
    stale,       \* those of them whose started_at left the one-hour window
    usedTokens,  \* principal_key.used_tokens
    booked,      \* per request: the tokens of its lines, and whether a committed
                 \* attempt has a line that is not PROVIDER_REPORTED
    \* --- memory of the handlers ---
    pc,          \* where the handler of the request is
    estimate,    \* keyReservation.reservedEstimate, NotReserved without reservation
    outcome,     \* the answer of the upstream that is being persisted
    tries,       \* state.attemptNo
    \* --- history, read by properties only ---
    due          \* the same as booked, of what the upstream did

vars == <<inProgress, stale, usedTokens, booked, pc, estimate, outcome, tries, due>>

-----------------------------------------------------------------------------
NotReserved == -1
Stages  == {"new", "claimed", "counted", "running", "answered", "lined", "decided",
            "settling", "failing", "ended", "failed", "dead"}
Admitted == {"running", "answered", "lined", "decided"}   \* in the attempt loop
Over     == {"ended", "failed", "dead"}                   \* the handler is gone

Outcome == [tokens : Usages, reported : BOOLEAN, committed : BOOLEAN]
Books   == [tokens : Nat, unsure : BOOLEAN]
Blank   == [tokens |-> 0, unsure |-> FALSE]
NoOutcome == [tokens |-> 0, reported |-> FALSE, committed |-> FALSE]

TypeOK ==
    /\ inProgress \subseteq Requests /\ stale \subseteq inProgress
    /\ usedTokens \in Nat
    /\ booked \in [Requests -> Books] /\ due \in [Requests -> Books]
    /\ pc \in [Requests -> Stages]
    /\ estimate \in [Requests -> Estimates \cup {NotReserved}]
    /\ outcome \in [Requests -> Outcome \cup {NoOutcome}]
    /\ tries \in [Requests -> 0..MaxAttempts]

Init ==
    /\ inProgress = {} /\ stale = {} /\ usedTokens = 0
    /\ booked = [r \in Requests |-> Blank] /\ due = [r \in Requests |-> Blank]
    /\ pc = [r \in Requests |-> "new"]
    /\ estimate = [r \in Requests |-> NotReserved]
    /\ outcome = [r \in Requests |-> NoOutcome]
    /\ tries = [r \in Requests |-> 0]

-----------------------------------------------------------------------------
Goto(r, stage) == pc' = [pc EXCEPT ![r] = stage]

\* The handler leaves the attempt loop, and its variables go out of scope.
LeaveLoop(r, stage) == /\ Goto(r, stage)
                       /\ outcome' = [outcome EXCEPT ![r] = NoOutcome]

\* claimRequest: the row is committed before anything is counted.
Claim(r) ==
    /\ pc[r] = "new"
    /\ inProgress' = inProgress \cup {r}
    /\ Goto(r, "claimed")
    /\ UNCHANGED <<stale, usedTokens, booked, estimate, outcome, tries, due>>

\* countInFlightByPrincipalKey: the request's own row is among them.
WithinKeyLimitOffByOne(r) ==   \* bug: the request does not count itself
    Cardinality((inProgress \ stale) \ {r}) <= KeyLimit
WithinKeyLimit(r) == Cardinality(inProgress \ stale) <= KeyLimit

CountPasses(r) ==
    /\ pc[r] = "claimed" /\ WithinKeyLimit(r)
    /\ Goto(r, "counted")
    /\ UNCHANGED <<inProgress, stale, usedTokens, booked, estimate, outcome, tries, due>>

\* key_concurrency_limited, and every refusal of the admission before it.
Refuse(r) ==
    /\ pc[r] = "claimed"
    /\ inProgress' = inProgress \ {r}
    /\ Goto(r, "ended")
    /\ UNCHANGED <<stale, usedTokens, booked, estimate, outcome, tries, due>>

\* reservePrincipalKeyQuota: one conditional UPDATE.
FitsKeyQuotaUnreserved(cost) == usedTokens <= QuotaLimit   \* bug: the estimate is not added
FitsKeyQuota(cost) == usedTokens + cost <= QuotaLimit

ReserveKeyQuota(r) ==
    /\ pc[r] = "counted"
    /\ \E cost \in Estimates :
          /\ FitsKeyQuota(cost)
          /\ usedTokens' = usedTokens + cost
          /\ estimate' = [estimate EXCEPT ![r] = cost]
    /\ Goto(r, "running")
    /\ UNCHANGED <<inProgress, stale, booked, outcome, tries, due>>

KeyQuotaExhausted(r) ==
    /\ pc[r] = "counted"
    /\ \E cost \in Estimates : ~FitsKeyQuota(cost)
    /\ inProgress' = inProgress \ {r}
    /\ Goto(r, "ended")
    /\ UNCHANGED <<stale, usedTokens, booked, estimate, outcome, tries, due>>

-----------------------------------------------------------------------------
(* An attempt, as far as the correction reads it back.                     *)

Entered(books, tokens, unsure) ==
    [tokens |-> books.tokens + tokens, unsure |-> books.unsure \/ unsure]

\* adapter.invoke returns: what the upstream did is a fact from here on.
Answer(r) ==
    /\ pc[r] = "running" /\ tries[r] < MaxAttempts
    /\ tries' = [tries EXCEPT ![r] = @ + 1]
    /\ \E o \in Outcome :
          /\ outcome' = [outcome EXCEPT ![r] = o]
          /\ due' = [due EXCEPT ![r] = Entered(@, IF o.reported THEN o.tokens ELSE 0,
                                               o.committed /\ ~o.reported)]
    /\ Goto(r, "answered")
    /\ UNCHANGED <<inProgress, stale, usedTokens, booked, estimate>>

\* The row of a committed attempt gets a line that is not PROVIDER_REPORTED.
UnsureIgnored(r) == FALSE   \* bug: the quality of a committed line is not looked at
Unsure(r) == outcome[r].committed /\ ~outcome[r].reported

\* persistAttemptUsageEvidence; with the monthly quota it finishes the attempt too.
PersistLine(r) ==
    /\ pc[r] = "answered"
    /\ booked' = [booked EXCEPT ![r] =
                    Entered(@, outcome[r].tokens, MonthlyQuota /\ Unsure(r))]
    /\ Goto(r, "lined")
    /\ UNCHANGED <<inProgress, stale, usedTokens, estimate, outcome, tries, due>>

\* updateAttemptResult writes response_committed.
RecordResult(r) ==
    /\ pc[r] = "lined"
    /\ booked' = [booked EXCEPT ![r] = Entered(@, 0, Unsure(r))]
    /\ Goto(r, "decided")
    /\ UNCHANGED <<inProgress, stale, usedTokens, estimate, outcome, tries, due>>

FailOver(r) ==
    /\ pc[r] = "decided" /\ ~outcome[r].committed /\ tries[r] < MaxAttempts
    /\ Goto(r, "running")
    /\ UNCHANGED <<inProgress, stale, usedTokens, booked, estimate, outcome, tries, due>>

\* A terminal status is published, with or without an attempt that answered.
Publish(r) ==
    /\ pc[r] \in {"running", "decided"}
    /\ inProgress' = inProgress \ {r}
    /\ LeaveLoop(r, "settling")
    /\ UNCHANGED <<stale, usedTokens, booked, estimate, tries, due>>

\* A statement of the pipeline throws: the request stays IN_PROGRESS, the finally
\* clause runs all the same.
Throw(r) ==
    /\ MayThrow /\ pc[r] \in Admitted
    /\ LeaveLoop(r, "failing")
    /\ UNCHANGED <<inProgress, stale, usedTokens, booked, estimate, tries, due>>

-----------------------------------------------------------------------------
(* The correction.                                                         *)

\* actualUsage: an answer of unknown usage keeps the whole estimate.
ActualUsage(r) == IF booked[r].unsure THEN estimate[r] ELSE booked[r].tokens

CorrectedSwapped(r) ==   \* bug: the estimate and the usage are swapped
    usedTokens - ActualUsage(r) + estimate[r]
Corrected(r) ==
    LET next == usedTokens - estimate[r] + ActualUsage(r)
    IN  IF next < 0 THEN 0 ELSE next

\* settlePrincipalKeyReservation and settlePrincipalKeyQuota.
SettleKey(r) ==
    /\ pc[r] \in {"settling", "failing"}
    /\ usedTokens' = Corrected(r)
    /\ Goto(r, IF pc[r] = "settling" THEN "ended" ELSE "failed")
    /\ UNCHANGED <<inProgress, stale, booked, estimate, outcome, tries, due>>

\* Its failure is only logged.
SettleKeyFails(r) ==
    /\ MayThrow /\ pc[r] \in {"settling", "failing"}
    /\ Goto(r, "dead")
    /\ UNCHANGED <<inProgress, stale, usedTokens, booked, estimate, outcome, tries, due>>

Crash(r) ==
    /\ MayCrash /\ pc[r] \in Stages \ (Over \cup {"new"})
    /\ LeaveLoop(r, "dead")
    /\ UNCHANGED <<inProgress, stale, usedTokens, booked, estimate, tries, due>>

\* KEY_IN_FLIGHT_WINDOW_MS passes over the row of a request whose handler is gone.
AgeOut(r) ==
    /\ pc[r] \in Over /\ r \in inProgress \ stale
    /\ stale' = stale \cup {r}
    /\ UNCHANGED <<inProgress, usedTokens, booked, pc, estimate, outcome, tries, due>>

-----------------------------------------------------------------------------
Handle(r) ==
    \/ Claim(r) \/ CountPasses(r) \/ Refuse(r) \/ ReserveKeyQuota(r) \/ KeyQuotaExhausted(r)
    \/ Answer(r) \/ PersistLine(r) \/ RecordResult(r) \/ FailOver(r) \/ Publish(r)
    \/ Throw(r) \/ SettleKey(r) \/ SettleKeyFails(r) \/ Crash(r) \/ AgeOut(r)

Next == \E r \in Requests : Handle(r)

Spec == Init /\ [][Next]_vars

-----------------------------------------------------------------------------
(* Properties.                                                             *)

Reserved == {r \in Requests : estimate[r] # NotReserved}

\* What the request has to be charged by what its upstream calls did.
Charge(r) == IF due[r].unsure THEN estimate[r] ELSE due[r].tokens

\* What used_tokens holds for the request: its estimate until it is corrected, then what
\* its rows say.  This is the content of the counter, not what the request used: one that
\* died or whose correction failed stays at its estimate, however long its answer was,
\* and after a statement threw the rows may lack an answer (UnknownUsageKept).
Held(r) == CASE r \notin Reserved -> 0
             [] r \in Reserved /\ pc[r] \in {"ended", "failed"} -> ActualUsage(r)
             [] OTHER -> estimate[r]

\* The same up to the estimate of the request.
HeldOfEstimate(r) == IF r \in Reserved /\ Held(r) > estimate[r] THEN estimate[r] ELSE Held(r)

AllHeld == SumFunctionOnSet([r \in Requests |-> Held(r)], Requests)
AllHeldOfEstimates == SumFunctionOnSet([r \in Requests |-> HeldOfEstimate(r)], Requests)

\* At no time are more requests of the Key past the gate than its limit, whatever
\* the order in which the others insert their rows, count and die.
KeyConcurrencyBounded ==
    Cardinality({r \in Requests : pc[r] \in Admitted \cup {"counted"}}) <= KeyLimit

\* used_tokens is exactly what it holds for each request, so max(0, ...) never cuts
\* anything off; and a request whose status was published and whose correction succeeded
\* is in it with no less than its upstream calls used, unknown usage with the estimate.
\* Nothing is said of what a dead, uncorrected or thrown request used: pipeline-key-limits
\* calls such a residue too large (lines 8, 93 and 124), it may be too small as well.
UsedMatchesBooks ==
    /\ usedTokens = AllHeld
    /\ \A r \in Reserved : pc[r] = "ended" => ActualUsage(r) >= Charge(r)

\* What used_tokens holds for the requests, of each up to its own estimate, stays within
\* the quota: no two requests pass the gate on the same remaining tokens.
NoKeyOverrun == AllHeldOfEstimates <= QuotaLimit

\* An answer that was committed but whose usage the provider did not report keeps its
\* estimate when the reservation is corrected, as the comment there says.
UnknownUsageKept ==
    \A r \in Reserved : pc[r] \in {"ended", "failed"} /\ due[r].unsure => booked[r].unsure
=============================================================================
