----------------------------- MODULE QuotaBlock -----------------------------
(***************************************************************************)
(* The exhaustion block of one Coding Plan resource (quota-block.ts,       *)
(* quota-block-repository.ts, quota-block-query-token.ts, runner.ts,       *)
(* pipeline-settlement.ts, admin-write-repository.ts).  A call that the    *)
(* provider rejects because a window of the plan is spent leaves a block   *)
(* on the row; only a quota query that finds the windows filled again may  *)
(* lift it.  Queries, calls and administrators work at the same time, each *)
(* transaction under the row lock, and a query spends its network time     *)
(* outside any transaction: it captures a token, asks, and commits only if *)
(* the token still matches the row.                                        *)
(*                                                                         *)
(* A version is only ever compared with its own value at a capture, so it  *)
(* is modelled by what changed since: "stale" of a query or a call.  Time  *)
(* (cooldowns, the interval between queries) may go either way.  The       *)
(* provider's answers are arbitrary; the model picks each one where it is  *)
(* used.                                                                   *)
(***************************************************************************)
EXTENDS Naturals

CONSTANTS Queries,     \* quota queries under way at one time
          Automatic,   \* those of the worker; the others are an administrator's
          Calls,       \* requests of the gateway on this resource
          Unreadable   \* TRUE: the row may hold a block that does not parse

ASSUME QuotaAssumption == Automatic \subseteq Queries /\ Unreadable \in BOOLEAN

Providers == {"kimi", "zhipu"}
Windows == {"FIVE_HOUR", "WEEKLY"}
Statuses == {"ACTIVE", "DEGRADED", "RATE_LIMITED", "EXHAUSTED", "CREDENTIAL_INVALID"}
Versions == {"version", "credential"}
Token == {"version", "revision"}

(* What a rejection blames: windows, or the plan when no window is known.  *)
Attributions == (SUBSET Windows \ {{}}) \cup {{"PLAN"}}
Answers == [Windows -> {"left", "spent", "unknown"}]

VARIABLES provider,    \* provider.code
          status,      \* provider_resource.status
          block,       \* provider_resource.quota_block_state
          event,       \* an OPEN availability_event bound to an incident: the block's
                       \* ("current"), or one the block has no more ("dropped")
          query, call,
          unresolved,  \* what was reported spent and no answer asked for later refuted
          calm         \* from now on the windows are full, no call fails, no process
                       \* dies and no administrator acts; it may never come to that

vars == <<provider, status, block, event, query, call, unresolved, calm>>

None == [there |-> "none", windows |-> {}, unknown |-> FALSE]
Corrupt == [None EXCEPT !.there = "corrupt"]
BlockType == [there : {"none", "block", "corrupt"}, windows : SUBSET Windows, unknown : BOOLEAN]

NoQuery == [pc |-> "idle", stale |-> {}, blamed |-> {}]
NoCall == [pc |-> "idle", stale |-> {}]

Init ==
    /\ provider \in Providers
    /\ \/ status = "ACTIVE" /\ block = None
       \/ Unreadable /\ status = "EXHAUSTED" /\ block = Corrupt
    /\ event = [current |-> FALSE, dropped |-> FALSE]
    /\ query = [q \in Queries |-> NoQuery]
    /\ call = [c \in Calls |-> NoCall]
    /\ unresolved = {} /\ calm = FALSE

-----------------------------------------------------------------------------
(* The block and the windows (quota-block.ts).                             *)

MergedAsWindow(b, what) ==   \* bug: the plan's own exhaustion is pushed as a window
    [there |-> "block", windows |-> b.windows \cup what, unknown |-> b.unknown]

(* mergeQuotaExhaustion, over all observations of one fault. *)
Merged(b, what) ==
    [there |-> "block", windows |-> b.windows \cup (what \cap Windows),
     unknown |-> b.unknown \/ "PLAN" \in what]

Left(answer) == {w \in Windows : answer[w] = "left"}
Spent(answer) == {w \in Windows : answer[w] = "spent"}

(* quotaObservationConfirmsRecovery. *)
Confirms(answer) ==
    IF provider = "kimi" THEN Left(answer) = Windows
    ELSE "FIVE_HOUR" \in Left(answer) /\ Spent(answer) = {}

(* applyQuotaObservation: what stays of a block, and whether it is lifted. *)
Kept(b, answer) ==
    [b EXCEPT !.windows = @ \ Left(answer), !.unknown = @ /\ Left(answer) # Windows]
Lifts(b, answer) ==
    /\ b.there = "block" /\ Confirms(answer)
    /\ Kept(b, answer).windows = {} /\ ~Kept(b, answer).unknown

NothingWithoutBlock(answer) ==   \* bug: an isolation without a block is never lifted
    FALSE
(* legacyNoBlockRecovery. *)
LiftsWithoutBlock(answer) ==
    block = None /\ Confirms(answer) /\ status \in {"RATE_LIMITED", "EXHAUSTED"}

(* The block after an answer; one that does not parse reads as null. *)
Remains(answer) == IF block.there = "block" /\ ~Lifts(block, answer) THEN Kept(block, answer)
                   ELSE None
AfterAnswer(answer) ==
    IF Spent(answer) # {} THEN Merged(Remains(answer), Spent(answer)) ELSE Remains(answer)

-----------------------------------------------------------------------------
(* Who notices a change of the row.                                        *)

Blamed(q, changes, what) ==
    IF query[q].pc = "asked"
    THEN [query[q] EXCEPT !.stale = @ \cup changes, !.blamed = @ \cup what] ELSE query[q]
Told(changes, what) == [q \in Queries |-> Blamed(q, changes, what)]
Warned(changes) ==
    [c \in Calls |-> IF call[c].pc = "calling"
                     THEN [call[c] EXCEPT !.stale = @ \cup (changes \cap Versions)] ELSE call[c]]

(* The bound event: closed by this transaction, left behind by a block of  *)
(* another incident, or opened.                                            *)
EventAfter(closed, sameIncident, opened) ==
    [current |-> (event.current /\ ~closed /\ sameIncident) \/ opened,
     dropped |-> event.dropped \/ (event.current /\ ~closed /\ ~sameIncident)]

-----------------------------------------------------------------------------
(* Calls of the gateway.                                                   *)

(* listServableResources and the admission's choice. *)
Choose(c) ==
    /\ call[c].pc = "idle" /\ block = None
    /\ status \in {"ACTIVE", "DEGRADED", "RATE_LIMITED"}
    /\ call' = [call EXCEPT ![c].pc = "chosen"]
    /\ UNCHANGED <<provider, status, block, event, query, unresolved>>

(* prepareAttempt: the block is looked at again and the versions captured. *)
Begin(c) ==
    /\ call[c].pc = "chosen"
    /\ call' = [call EXCEPT ![c] = IF block = None THEN [pc |-> "calling", stale |-> {}]
                                   ELSE NoCall]
    /\ UNCHANGED <<provider, status, block, event, query, unresolved>>

(* recordCodingPlanExhaustionFault; whether an event is opened depends on  *)
(* the rules and the mode of runtime assurance.                            *)
RecordFault(c, what, opened) ==
    /\ call[c].pc = "calling" /\ call[c].stale = {}
    /\ block' = Merged(block, what)
    /\ status' = IF status = "CREDENTIAL_INVALID" THEN status ELSE "EXHAUSTED"
    /\ event' = EventAfter(FALSE, block.there = "block", opened)
    /\ query' = Told({"revision"}, what)
    /\ call' = [call EXCEPT ![c] = NoCall]
    /\ unresolved' = unresolved \cup what
    /\ UNCHANGED provider

(* deriveResourceTransition and deriveSuccessTransition on these statuses. *)
Terminal == {"EXHAUSTED", "CREDENTIAL_INVALID"}
AfterCall(result) ==
    CASE result = "401" -> "CREDENTIAL_INVALID"
      [] result = "billing" -> "EXHAUSTED"
      [] result = "429" /\ status \notin Terminal -> "RATE_LIMITED"
      [] result = "technical" /\ status \notin Terminal -> "DEGRADED"
      [] result = "success" /\ status = "RATE_LIMITED" -> "DEGRADED"
      [] result = "success" /\ status = "DEGRADED" -> "ACTIVE"
      [] OTHER -> status

(* recordFailure and recordSuccess: nothing is compared, the revision moves *)
(* on whatever becomes of the status.                                      *)
RecordResult(c, result) ==
    /\ call[c].pc = "calling"
    /\ status' = AfterCall(result)
    /\ query' = Told({"revision"}, {})
    /\ call' = [call EXCEPT ![c] = NoCall]
    /\ UNCHANGED <<provider, block, event, unresolved>>

(* A stale exhaustion is dropped, a result may be none of the above, the   *)
(* gateway may die and the settlement is best effort.                      *)
EndCall(c) ==
    /\ call[c].pc \in {"chosen", "calling"}
    /\ call' = [call EXCEPT ![c] = NoCall]
    /\ UNCHANGED <<provider, status, block, event, query, unresolved>>

-----------------------------------------------------------------------------
(* Quota queries of the worker's tick and of an administrator.             *)

Capture(q) ==
    /\ query[q].pc = "idle"
    /\ query' = [query EXCEPT ![q] = [NoQuery EXCEPT !.pc = "asked"]]
    /\ UNCHANGED <<provider, status, block, event, call, unresolved>>

(* verifyQuotaQueryTokenTx.  The credential and the incident, which it      *)
(* compares too, never change without the revision.                        *)
VerifiedByVersion(q) ==   \* bug: the revision is not compared
    "version" \notin query[q].stale
Verified(q) == query[q].stale = {}

Superseded(q) ==
    /\ query[q].pc = "asked" /\ ~Verified(q)
    /\ query' = [query EXCEPT ![q] = NoQuery]
    /\ UNCHANGED <<provider, status, block, event, call, unresolved>>

AfterQuery(recovered, next) ==
    CASE recovered /\ status \in {"RATE_LIMITED", "EXHAUSTED"} -> "DEGRADED"
      [] ~recovered /\ next # None /\ status \notin Terminal -> "EXHAUSTED"
      [] OTHER -> status

(* An answer refutes what it finds left, unless it was blamed after the    *)
(* query had begun; the plan itself needs both windows.                    *)
Refuted(q, answer) ==
    (Left(answer) \cup IF Left(answer) = Windows THEN {"PLAN"} ELSE {}) \ query[q].blamed

(* commitQuotaQueryResult and finalizeQuotaStateTx. *)
Commit(q, answer) ==
    /\ query[q].pc = "asked" /\ Verified(q)
    /\ LET next == AfterAnswer(answer)
           recovered == Lifts(block, answer) \/ LiftsWithoutBlock(answer)
           same == block.there = "block" /\ next.there = "block"
       IN  /\ block' = next
           /\ status' = AfterQuery(recovered, next)
           /\ event' = EventAfter(recovered /\ block.there = "block", same, FALSE)
           /\ query' = [Told({"revision"}, {}) EXCEPT ![q] = NoQuery]
    /\ unresolved' = (unresolved \ Refuted(q, answer)) \cup Spent(answer)
    /\ UNCHANGED <<provider, call>>

(* commitQuotaQueryFailure: the block stays, the revision moves on. *)
CommitFailure(q) ==
    /\ query[q].pc = "asked" /\ Verified(q)
    /\ query' = [Told({"revision"}, {}) EXCEPT ![q] = NoQuery]
    /\ UNCHANGED <<provider, status, block, event, call, unresolved>>

(* The worker or the API dies between the capture and the commit. *)
LoseQuery(q) ==
    /\ query[q].pc = "asked"
    /\ query' = [query EXCEPT ![q] = NoQuery]
    /\ UNCHANGED <<provider, status, block, event, call, unresolved>>

-----------------------------------------------------------------------------
(* Administrators.                                                         *)

(* adminRecoverResource without a new credential: the block is not touched. *)
Recover ==
    /\ status = "EXHAUSTED"
    /\ status' = "DEGRADED"
    /\ query' = Told({"revision"}, {})
    /\ UNCHANGED <<provider, block, event, call, unresolved>>

(* adminRecoverResource with a new credential: a block gives way to one    *)
(* that waits for the new credential's own confirmation, and the events of *)
(* its incident are cancelled.                                             *)
RotateForgets ==   \* bug: the events of the old incident stay open
    /\ status \in {"EXHAUSTED", "CREDENTIAL_INVALID"}
    /\ status' = "DEGRADED"
    /\ block' = IF block = None THEN None ELSE [there |-> "block", windows |-> {}, unknown |-> TRUE]
    /\ event' = EventAfter(FALSE, block = None, FALSE)
    /\ query' = Told({"revision"}, {})
    /\ call' = Warned({"credential"})
    /\ unresolved' = IF unresolved = {} THEN {} ELSE {"PLAN"}
    /\ UNCHANGED provider
Rotate ==
    /\ status \in {"EXHAUSTED", "CREDENTIAL_INVALID"}
    /\ status' = "DEGRADED"
    /\ block' = IF block = None THEN None ELSE [there |-> "block", windows |-> {}, unknown |-> TRUE]
    /\ event' = EventAfter(block # None, block = None, FALSE)
    /\ query' = Told({"revision"}, {})
    /\ call' = Warned({"credential"})
    /\ unresolved' = IF unresolved = {} THEN {} ELSE {"PLAN"}
    /\ UNCHANGED provider

(* updateResource. *)
Edit ==
    /\ query' = Told({"version", "revision"}, {})
    /\ call' = Warned({"version"})
    /\ UNCHANGED <<provider, status, block, event, unresolved>>

(* finish of a credential chat probe that succeeded. *)
ChatProbePassed ==
    /\ status = "CREDENTIAL_INVALID"
    /\ status' = "DEGRADED"
    /\ query' = Told({"version"}, {})
    /\ call' = Warned({"version"})
    /\ UNCHANGED <<provider, block, event, unresolved>>

(* recoverEvent by hand. *)
CloseEvent ==
    /\ event.current
    /\ event' = [event EXCEPT !.current = FALSE]
    /\ UNCHANGED <<provider, status, block, query, call, unresolved>>

-----------------------------------------------------------------------------
Failures == {"401", "billing", "429", "technical"}
Full == CHOOSE answer \in Answers : Left(answer) = Windows

(* What goes on when the windows are filled and nobody intervenes... *)
GatewayAtWork(c) == Choose(c) \/ Begin(c) \/ EndCall(c) \/ RecordResult(c, "success")
QueryAtWork(q) == Capture(q) \/ Superseded(q) \/ Commit(q, Full)
AtWork == (\E c \in Calls : GatewayAtWork(c)) \/ (\E q \in Queries : QueryAtWork(q))

(* ... and what else happens. *)
Disturbed ==
    \/ \E c \in Calls, what \in Attributions, opened \in BOOLEAN : RecordFault(c, what, opened)
    \/ \E c \in Calls, result \in Failures : RecordResult(c, result)
    \/ \E q \in Queries, answer \in Answers \ {Full} : Commit(q, answer)
    \/ \E q \in Queries : CommitFailure(q) \/ LoseQuery(q)
    \/ Recover \/ Rotate \/ Edit \/ ChatProbePassed \/ CloseEvent

Next ==
    \/ AtWork /\ UNCHANGED calm
    \/ ~calm /\ Disturbed /\ UNCHANGED calm
    \/ calm' = TRUE /\ UNCHANGED <<provider, status, block, event, query, call, unresolved>>

(* The worker's timer begins a query whenever the last one has ended, and  *)
(* the query's own timeout ends it.                                        *)
Ends(q) ==
    /\ \/ Superseded(q) \/ Commit(q, Full)
       \/ ~calm /\ ((\E answer \in Answers : Commit(q, answer)) \/ CommitFailure(q) \/ LoseQuery(q))
    /\ UNCHANGED calm
Fairness == \A q \in Automatic : WF_vars(Capture(q) /\ UNCHANGED calm) /\ WF_vars(Ends(q))

Spec == Init /\ [][Next]_vars
LiveSpec == Spec /\ Fairness

-----------------------------------------------------------------------------
(* Properties.                                                             *)

(* Every variable keeps to its values: the windows of a block are windows, *)
(* and an exhausted plan never becomes one (quota-block.ts:155).           *)
TypeOK ==
    /\ provider \in Providers /\ status \in Statuses /\ block \in BlockType
    /\ event \in [current : BOOLEAN, dropped : BOOLEAN]
    /\ query \in [Queries -> [pc : {"idle", "asked"}, stale : SUBSET Token,
                              blamed : SUBSET (Windows \cup {"PLAN"})]]
    /\ call \in [Calls -> [pc : {"idle", "chosen", "calling"}, stale : SUBSET Versions]]
    /\ unresolved \subseteq Windows \cup {"PLAN"} /\ calm \in BOOLEAN

(* What was reported spent stays blocked until an answer to a question     *)
(* asked later says otherwise: no older answer, no click of an             *)
(* administrator and no new credential lifts it (the spec's "Preserve      *)
(* every unresolved exhausted window" and "Recovery evidence cannot cross  *)
(* state generations").                                                    *)
FaultsStayBlocked ==
    unresolved \subseteq block.windows \cup (IF block.unknown THEN {"PLAN"} ELSE {})

(* An OPEN event of an incident always finds its block: nothing but the    *)
(* recovery of that very incident closes it, so an event whose block has   *)
(* gone would block calls for ever (admin-write-repository.ts:347).        *)
EventsFollowBlock == ~event.dropped /\ (event.current => block.there = "block")

(* When the windows are filled again, no call fails and nobody intervenes, *)
(* the worker alone reopens the resource: no block stays, and no isolation *)
(* for quota without one (the spec's "Confirm quota before reopening       *)
(* generation").                                                           *)
Reopened == block = None /\ status \notin {"RATE_LIMITED", "EXHAUSTED"}
CalmReopens == <>calm => <>[]Reopened
=============================================================================
