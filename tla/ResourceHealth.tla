--------------------------- MODULE ResourceHealth ---------------------------
(***************************************************************************)
(* The health of one provider resource: its row in provider_resource       *)
(* (status, cooldown_until, last_probe_at, auth_failure_id), the gateway   *)
(* requests that read it at admission and write it back after they are     *)
(* settled, the half-open probe lease that lets one of them through after  *)
(* a cooldown, and the chat probe by which an administrator lifts the      *)
(* isolation of a rejected credential.                                     *)
(*                                                                         *)
(* Time is relative: cooldown is the time left until cooldown_until, and a *)
(* probe lease is the time since its acquiredAt, so that two timestamps    *)
(* are equal exactly when their ages are.                                  *)
(*                                                                         *)
(* UNAVAILABLE and EXPIRED are left out: no transition of the code enters  *)
(* them any more.  consecutive_failures is left out: it decides nothing    *)
(* (ACTIVE has none, every other status may be left with any).             *)
(*                                                                         *)
(* An operator marked "bug" is a plausible wrong version of the operator   *)
(* that follows it; no specification uses it.                              *)
(***************************************************************************)
EXTENDS Integers, FiniteSets

CONSTANTS
    Requests,     \* handlers of the gateway processes; one serves many requests in turn
    Cooldowns,    \* the cooldowns a 429 can ask for (Retry-After, at least a second)
    LeaseLen,     \* halfOpenProbeLeaseMs: the upstream timeout and a safety margin
    MaxHold,      \* bound: a request settles, failover included, within this time
    FailureIds,   \* values of auth_failure_id
    NoFailure,    \* auth_failure_id IS NULL
    MayCrash      \* does a process die in this instance?

ASSUME TimeAssumption ==
    /\ Cooldowns \subseteq Nat \ {0}
    /\ LeaseLen \in Nat \ {0}
    /\ MaxHold \in Nat /\ LeaseLen <= MaxHold

ASSUME FailureAssumption == NoFailure \notin FailureIds

VARIABLES
    \* --- the provider_resource row ---
    status,       \* provider_resource.status
    cooldown,     \* time left until cooldown_until, 0 when over or NULL
    probeAge,     \* age of last_probe_at
    authFailure,  \* auth_failure_id
    \* --- memory of the gateway handlers ---
    phase,        \* how far the request is with this resource
    asProbe,      \* candidate.probe, as admission computed it
    token,        \* age of probeLease.acquiredAt
    result,       \* the classified outcome whose effects are deferred
    \* --- the administrator's chat probe and the quota worker ---
    chat,         \* failure_id of the RUNNING credential_chat_probe
    syncRead,     \* the worker has read CREDENTIAL_INVALID and will schedule a check
    \* --- history, read by properties only ---
    current,      \* no transition has happened since this probe was acquired
    rejected,     \* a 401 that no chat probe and no rotation has answered yet
    chatClean     \* no 401 was recorded since the running chat probe began, if one runs

rowVars  == <<status, cooldown, probeAge, authFailure>>
reqVars  == <<phase, asProbe, token, result>>
vars == <<rowVars, reqVars, chat, syncRead, current, rejected, chatClean>>

-----------------------------------------------------------------------------
Statuses == {"ACTIVE", "DEGRADED", "RATE_LIMITED", "EXHAUSTED", "CREDENTIAL_INVALID"}
Servable == {"ACTIVE", "DEGRADED"}
Terminal == {"EXHAUSTED", "CREDENTIAL_INVALID"}    \* terminallyIsolated
Phases   == {"idle", "admitted", "reserved", "calling", "settling", "releasing"}
Probing  == {"reserved", "calling"}

\* The outcomes the settlement tells apart; NEUTRAL is a client or local error.
Results  == {"SUCCESS", "RATE_LIMITED", "TEMPORARY", "BILLING", "CREDENTIAL", "NEUTRAL"}

NoLease == -1
MaxAge  == MaxHold + 1      \* older than the lease of any live request
Ages    == NoLease..MaxAge

TypeOK ==
    /\ status \in Statuses
    /\ cooldown \in Nat
    /\ probeAge \in Ages
    /\ authFailure \in FailureIds \cup {NoFailure}
    /\ phase   \in [Requests -> Phases]
    /\ asProbe \in [Requests -> BOOLEAN]
    /\ token   \in [Requests -> NoLease..MaxHold]
    /\ result  \in [Requests -> Results]
    /\ chat \in FailureIds \cup {NoFailure}
    /\ syncRead \in BOOLEAN
    /\ current \in [Requests -> BOOLEAN]
    /\ rejected \in BOOLEAN /\ chatClean \in BOOLEAN

Init ==
    /\ status = "ACTIVE" /\ cooldown = 0 /\ probeAge = NoLease /\ authFailure = NoFailure
    /\ phase   = [r \in Requests |-> "idle"]
    /\ asProbe = [r \in Requests |-> FALSE]
    /\ token   = [r \in Requests |-> NoLease]
    /\ result  = [r \in Requests |-> "NEUTRAL"]
    /\ chat = NoFailure /\ syncRead = FALSE
    /\ current = [r \in Requests |-> FALSE]
    /\ rejected = FALSE /\ chatClean = TRUE

-----------------------------------------------------------------------------
(* Helpers.                                                                *)

Step(r, next) == phase' = [phase EXCEPT ![r] = next]
Holds(r) == token[r] # NoLease

\* applyTransitionTx: the new status and its cooldown; every transition takes the
\* probe lease off the row.
Transition(to, wait) ==
    /\ status' = to /\ cooldown' = wait /\ probeAge' = NoLease
    /\ current' = [r \in Requests |-> FALSE]
NoTransition == UNCHANGED <<status, cooldown, probeAge, current>>

\* What a request gives back or forgets when it is through with the resource.
Forget(r) ==
    /\ Step(r, "idle")
    /\ asProbe' = [asProbe EXCEPT ![r] = FALSE]
    /\ token'   = [token EXCEPT ![r] = NoLease]
    /\ result'  = [result EXCEPT ![r] = "NEUTRAL"]

-----------------------------------------------------------------------------
(* One request of the gateway.                                             *)

\* evaluateAdmission, read once per request: the probe flag is stale from then on.
Admit(r) ==
    /\ phase[r] = "idle"
    /\ \/ status \in Servable /\ UNCHANGED asProbe
       \/ /\ status = "RATE_LIMITED" /\ cooldown = 0
          /\ asProbe' = [asProbe EXCEPT ![r] = TRUE]
    /\ Step(r, "admitted")
    /\ UNCHANGED <<rowVars, token, result, chat, syncRead, current, rejected, chatClean>>

\* The conditional UPDATE of acquireHalfOpenProbeLease.
ProbeFreeUnleased ==   \* bug: last_probe_at is not looked at
    status = "RATE_LIMITED" /\ cooldown = 0
ProbeFreeNoTakeover ==   \* bug: an expired lease is not taken over
    status = "RATE_LIMITED" /\ cooldown = 0 /\ probeAge = NoLease
ProbeFree ==
    /\ status = "RATE_LIMITED" /\ cooldown = 0
    /\ probeAge = NoLease \/ probeAge >= LeaseLen

AcquireProbe(r) ==
    /\ phase[r] = "admitted" /\ asProbe[r] /\ ProbeFree
    /\ probeAge' = 0
    /\ token'   = [token EXCEPT ![r] = 0]
    /\ current' = [current EXCEPT ![r] = TRUE]
    /\ Step(r, "reserved")
    /\ UNCHANGED <<status, cooldown, authFailure, asProbe, result, chat, syncRead,
                   rejected, chatClean>>

\* The probe is taken or pointless by now: the next candidate is tried.
ProbeBusy(r) ==
    /\ phase[r] = "admitted" /\ asProbe[r] /\ ~ProbeFree
    /\ Forget(r)
    /\ UNCHANGED <<rowVars, chat, syncRead, current, rejected, chatClean>>

NeedsNoProbe(r) ==
    /\ phase[r] = "admitted" /\ ~asProbe[r]
    /\ Step(r, "reserved")
    /\ UNCHANGED <<rowVars, asProbe, token, result, chat, syncRead, current, rejected, chatClean>>

\* No lease slot, no quota, no attempt row, authorization or route revoked, the
\* dispatch switches: the attempt ends before the upstream and frees its probe.
GiveUp(r) ==
    /\ phase[r] = "reserved"
    /\ Step(r, "releasing")
    /\ UNCHANGED <<rowVars, asProbe, token, result, chat, syncRead, current, rejected, chatClean>>

\* The last fence before the upstream: a resource that was isolated since the
\* admission is only called by the holder of a probe lease.
FencePasses(r) ==
    /\ phase[r] = "reserved"
    /\ \/ status \in Servable
       \/ Holds(r) /\ status = "RATE_LIMITED" /\ cooldown = 0
    /\ Step(r, "calling")
    /\ UNCHANGED <<rowVars, asProbe, token, result, chat, syncRead, current, rejected, chatClean>>

UpstreamAnswers(r) ==
    /\ phase[r] = "calling"
    /\ \E res \in Results : result' = [result EXCEPT ![r] = res]
    /\ Step(r, "settling")
    /\ UNCHANGED <<rowVars, asProbe, token, chat, syncRead, current, rejected, chatClean>>

\* deriveSuccessTransition.
RecordSuccess ==
    CASE status = "RATE_LIMITED" -> Transition("DEGRADED", 0)
      [] status = "DEGRADED"     -> Transition("ACTIVE", 0)
      [] OTHER                   -> NoTransition

\* deriveResourceTransition for a 429: one failure wave per cooldown.
StartsWave == status \in Servable \/ (status = "RATE_LIMITED" /\ cooldown = 0)
WaitAfterUnclamped == Cooldowns \cup {0}    \* bug: Retry-After: 0 is taken as it is
WaitAfterInPast    == Cooldowns \cup {-1}   \* bug: so is a date that has passed
WaitAfter == Cooldowns
RecordRateLimit ==
    IF StartsWave THEN \E wait \in WaitAfter : Transition("RATE_LIMITED", wait)
    ELSE NoTransition

RecordTemporary ==
    IF status \in Terminal THEN NoTransition ELSE Transition("DEGRADED", 0)

RecordBilling ==
    IF status = "EXHAUSTED" THEN NoTransition ELSE Transition("EXHAUSTED", 0)

\* Every 401 draws a new failure id, a repeated one included.
FailureIdKept ==   \* bug: a repeated 401 keeps the id of the first
    authFailure' \in IF status = "CREDENTIAL_INVALID" THEN {authFailure}
                     ELSE FailureIds \ {authFailure, chat}
NewFailureId == authFailure' \in FailureIds \ {authFailure, chat}
RecordCredential ==
    /\ NewFailureId
    /\ rejected' = TRUE /\ chatClean' = (chat = NoFailure)
    /\ IF status = "CREDENTIAL_INVALID" THEN NoTransition
       ELSE Transition("CREDENTIAL_INVALID", 0)

\* The deferred effect of a settled attempt, in the order of settlement.
ApplyEffect(r) ==
    /\ phase[r] = "settling"
    /\ CASE result[r] = "SUCCESS"      -> RecordSuccess
         [] result[r] = "RATE_LIMITED" -> RecordRateLimit
         [] result[r] = "TEMPORARY"    -> RecordTemporary
         [] result[r] = "BILLING"      -> RecordBilling
         [] result[r] = "CREDENTIAL"   -> RecordCredential
         [] OTHER                      -> NoTransition
    /\ result[r] # "CREDENTIAL" => UNCHANGED <<authFailure, rejected, chatClean>>
    /\ result' = [result EXCEPT ![r] = "NEUTRAL"]
    /\ Step(r, "releasing")
    /\ UNCHANGED <<asProbe, token, chat, syncRead>>

\* A RETURNED path of a later attempt, or a best-effort write that fails: the
\* effects are never applied.
EffectsLost(r) ==
    /\ phase[r] = "settling"
    /\ Forget(r)
    /\ UNCHANGED <<rowVars, chat, syncRead, current, rejected, chatClean>>

\* releaseHalfOpenProbe: only the lease whose acquiredAt is one's own.
ReleasedProbeUnfenced(r) == IF Holds(r) THEN NoLease ELSE probeAge   \* bug: any lease
ReleasedProbe(r) == IF Holds(r) /\ probeAge = token[r] THEN NoLease ELSE probeAge

ReleaseProbe(r) ==
    /\ phase[r] = "releasing"
    /\ probeAge' = ReleasedProbe(r)
    /\ Forget(r)
    /\ UNCHANGED <<status, cooldown, authFailure, chat, syncRead, current, rejected, chatClean>>

\* The process dies: the lease stays on the row until its age frees it.
Crash(r) ==
    /\ MayCrash /\ phase[r] # "idle"
    /\ Forget(r)
    /\ UNCHANGED <<rowVars, chat, syncRead, current, rejected, chatClean>>

-----------------------------------------------------------------------------
(* The administrator and the workers.                                      *)

\* CredentialChatProbeRepository.begin: one probe at a time, of the present failure.
BeginChat ==
    /\ status = "CREDENTIAL_INVALID" /\ chat = NoFailure /\ authFailure # NoFailure
    /\ chat' = authFailure
    /\ UNCHANGED <<rowVars, reqVars, syncRead, current, rejected, chatClean>>

\* finish: RECOVERED only if the chat succeeded and the failure is still the same.
FinishChat ==
    /\ chat # NoFailure
    /\ chat' = NoFailure /\ chatClean' = TRUE
    /\ \/ /\ status = "CREDENTIAL_INVALID" /\ authFailure = chat
          /\ status' = "DEGRADED" /\ cooldown' = 0 /\ rejected' = FALSE
          /\ UNCHANGED <<probeAge, current>>
       \/ UNCHANGED <<rejected, status, cooldown, probeAge, current>>
    /\ UNCHANGED <<authFailure, reqVars, syncRead>>

\* adminRecoverResource: a rejected credential must be rotated, exhaustion may be
\* lifted by hand, with or without a new credential.
AdminRecover ==
    /\ status \in Terminal
    /\ status' = "DEGRADED" /\ cooldown' = 0
    /\ \/ rejected' = FALSE
       \/ status = "EXHAUSTED" /\ UNCHANGED rejected
    /\ UNCHANGED <<probeAge, authFailure, reqVars, chat, syncRead, current, chatClean>>

\* The balance or the quota windows of the provider are positive again.
QuotaRecovers ==
    /\ status \in {"EXHAUSTED", "RATE_LIMITED"}
    /\ Transition("DEGRADED", 0)
    /\ UNCHANGED <<authFailure, reqVars, chat, syncRead, rejected, chatClean>>

\* The quota worker sees an empty window.
QuotaSeenEmpty ==
    /\ status \notin Terminal
    /\ Transition("EXHAUSTED", 0)
    /\ UNCHANGED <<authFailure, reqVars, chat, syncRead, rejected, chatClean>>

\* The worker lists an isolated resource and, after its query, schedules the next
\* one with scheduleQuotaSync: the status may have changed in between.
WorkerReads ==
    /\ status = "CREDENTIAL_INVALID" /\ ~syncRead
    /\ syncRead' = TRUE
    /\ UNCHANGED <<rowVars, reqVars, chat, current, rejected, chatClean>>

ScheduleQuotaSync ==
    /\ syncRead /\ syncRead' = FALSE
    /\ IF status \in Terminal \cup {"RATE_LIMITED"} THEN cooldown' \in Cooldowns
       ELSE UNCHANGED cooldown
    /\ UNCHANGED <<status, probeAge, authFailure, reqVars, chat, current, rejected, chatClean>>

\* Time passes, but not beyond the timeouts: the upstream call of a probe ends
\* before its lease does, and a request does not hold its lease for ever.
Older(age, limit) == IF age = NoLease \/ age = limit THEN age ELSE age + 1
Tick ==
    /\ \A r \in Requests : token[r] < MaxHold
    /\ \A r \in Requests : phase[r] \in Probing => token[r] < LeaseLen - 1
    /\ cooldown' = IF cooldown > 0 THEN cooldown - 1 ELSE 0
    /\ probeAge' = Older(probeAge, MaxAge)
    /\ token' = [r \in Requests |-> Older(token[r], MaxHold)]
    /\ UNCHANGED <<status, authFailure, phase, asProbe, result, chat, syncRead, current,
                   rejected, chatClean>>

-----------------------------------------------------------------------------
Handle(r) ==
    \/ AcquireProbe(r) \/ ProbeBusy(r) \/ NeedsNoProbe(r) \/ GiveUp(r) \/ FencePasses(r)
    \/ UpstreamAnswers(r) \/ ApplyEffect(r) \/ EffectsLost(r) \/ ReleaseProbe(r)

Others == BeginChat \/ FinishChat \/ AdminRecover \/ QuotaRecovers \/ QuotaSeenEmpty
          \/ WorkerReads \/ ScheduleQuotaSync

Next ==
    \/ \E r \in Requests : Admit(r) \/ Handle(r) \/ Crash(r)
    \/ Others \/ Tick

Spec == Init /\ [][Next]_vars

\* A live handler goes on (its awaits have timeouts) and time passes.
FairSpec == Spec /\ WF_vars(Tick) /\ \A r \in Requests : WF_vars(Handle(r))

-----------------------------------------------------------------------------
(* Properties.                                                             *)

\* While a probe is on its way and nothing has changed the resource since, the row
\* still carries its lease: no late release of an older probe and no takeover has
\* removed it.
ProbeOwnsSlot ==
    \A r \in Requests :
        phase[r] \in Probing /\ Holds(r) /\ current[r] => probeAge = token[r]

\* The fencing token works although it is only a timestamp: two requests that both
\* still hold a lease never hold the same one.
TokensDistinct ==
    \A r, s \in Requests : r # s /\ Holds(r) => token[r] # token[s]

\* In one wave, that is until the next status transition, at most one request is
\* let through as the probe of the resource.
OneProbePerWave ==
    \A r, s \in Requests :
        /\ phase[r] \in Probing /\ Holds(r) /\ current[r]
        /\ phase[s] \in Probing /\ Holds(s) /\ current[s]
        => r = s

\* A chat probe lifts the isolation only if no further 401 was recorded since it
\* began: its success says nothing about a rejection that came later.
StaleChatNeverRecovers ==
    [][ status = "CREDENTIAL_INVALID" /\ status' = "DEGRADED" /\ chat # chat'
        => chatClean ]_vars

\* A crashed or slow probe does not lock the resource: after every cooldown the
\* probe becomes free again, or the resource has left the rate limit.
ProbeComesFree == [](status = "RATE_LIMITED" => <>(ProbeFree \/ status # "RATE_LIMITED"))

\* At any time at most one request is the probe of an isolated resource, as the
\* comment on tryAcquireHalfOpenProbe says.
OneProbeAtATime ==
    \A r, s \in Requests :
        /\ phase[r] = "calling" /\ Holds(r)
        /\ phase[s] = "calling" /\ Holds(s)
        => r = s

\* A credential the provider rejected gets no traffic before a chat with it has
\* succeeded or it was replaced, as the comment on deriveQuotaSyncRecovery demands.
RejectedGetsNoTraffic == status \in Servable => ~rejected
=============================================================================
