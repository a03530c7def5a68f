------------------------ MODULE ResourceHealthProofs ------------------------
(***************************************************************************)
(* Proofs about ResourceHealth, for any number of requests, any cooldowns  *)
(* and any lease length: the half-open probe lease is fenced and admits    *)
(* one probe per wave, and a stale chat probe never lifts an isolation.    *)
(*                                                                         *)
(* The argument: a lease is drawn only when the row has none or an expired *)
(* one, and a call ends before its lease does, so while a probe is on its  *)
(* way and no transition has happened the row carries its lease.  Taking   *)
(* the lease off the row early needs a transition, and then either the     *)
(* resource is no longer rate limited or a cooldown of at least one tick   *)
(* begins; so no second lease is drawn at the same instant (FreshToken),   *)
(* all tokens differ, and a release can only hit the lease it drew.        *)
(***************************************************************************)
EXTENDS ResourceHealth, TLAPS

\* A request has a lease only between acquireHalfOpenProbeLease and its release.
IdleHoldsNothing ==
    \A r \in Requests : phase[r] \in {"idle", "admitted"} => token[r] = NoLease

\* The timeouts: a probe that is still under way is younger than its lease.
ProbingIsYoung ==
    \A r \in Requests : phase[r] \in Probing => token[r] < LeaseLen

\* At the instant a lease was drawn no other can be: the row carries it, or the
\* resource cannot be probed at this instant.
FreshToken ==
    \A r \in Requests :
        token[r] = 0 => probeAge = 0 \/ status # "RATE_LIMITED" \/ cooldown > 0

\* The failure id identifies the last 401.
ChatIsFresh == chat \in {NoFailure, authFailure} => chatClean

IInv ==
    /\ TypeOK /\ IdleHoldsNothing /\ ProbingIsYoung /\ FreshToken
    /\ TokensDistinct /\ ProbeOwnsSlot /\ ChatIsFresh

-----------------------------------------------------------------------------
LEMMA Initially == Init => IInv
<1>. SUFFICES ASSUME Init PROVE IInv
  OBVIOUS
<1>1. TypeOK
  <2>1. NoLease \in Ages /\ NoLease \in NoLease..MaxHold
    BY TimeAssumption DEF Ages, NoLease, MaxAge
  <2>2. status \in Statuses /\ cooldown \in Nat
    BY DEF Init, Statuses
  <2>3. "idle" \in Phases /\ "NEUTRAL" \in Results
    BY DEF Phases, Results
  <2>4. QED
    BY <2>1, <2>2, <2>3, Zenon DEF Init, TypeOK
<1>2. IdleHoldsNothing /\ ProbingIsYoung /\ FreshToken
  BY DEF Init, IdleHoldsNothing, ProbingIsYoung, FreshToken, Probing, NoLease
<1>3. TokensDistinct /\ ProbeOwnsSlot /\ ChatIsFresh
  BY DEF Init, TokensDistinct, ProbeOwnsSlot, ChatIsFresh, Holds
<1>4. QED
  BY <1>1, <1>2, <1>3 DEF IInv

\* What a transition leaves behind: no lease on the row, no current probe, and a
\* cooldown when the resource is rate limited.
Moved ==
    \/ NoTransition
    \/ \E to \in Statuses, wait \in Nat :
          (to = "RATE_LIMITED" => wait > 0) /\ Transition(to, wait)

\* Every deferred effect is such a transition or none.
LEMMA EffectMoves ==
    ASSUME TypeOK, NEW q \in Requests, ApplyEffect(q)
    PROVE  Moved
<1>. USE TimeAssumption DEF TypeOK, Statuses, Servable, Terminal, Results, Moved
<1>1. CASE result[q] = "SUCCESS"
  BY <1>1 DEF ApplyEffect, RecordSuccess
<1>2. CASE result[q] = "RATE_LIMITED"
  BY <1>2 DEF ApplyEffect, RecordRateLimit, StartsWave, WaitAfter
<1>3. CASE result[q] = "TEMPORARY"
  BY <1>3 DEF ApplyEffect, RecordTemporary
<1>4. CASE result[q] = "BILLING"
  BY <1>4 DEF ApplyEffect, RecordBilling
<1>5. CASE result[q] = "CREDENTIAL"
  BY <1>5 DEF ApplyEffect, RecordCredential
<1>6. CASE result[q] = "NEUTRAL"
  BY <1>6 DEF ApplyEffect
<1>7. QED
  BY <1>1, <1>2, <1>3, <1>4, <1>5, <1>6

\* The failure id is new whenever a 401 is recorded, and otherwise stays.
LEMMA EffectKeepsChatFresh ==
    ASSUME TypeOK, ChatIsFresh, NEW q \in Requests, ApplyEffect(q)
    PROVE  /\ ChatIsFresh'
           /\ authFailure' \in FailureIds \cup {NoFailure}
           /\ rejected' \in BOOLEAN /\ chatClean' \in BOOLEAN
<1>1. CASE result[q] = "CREDENTIAL"
  BY <1>1 DEF ApplyEffect, RecordCredential, NewFailureId, ChatIsFresh, TypeOK
<1>2. CASE result[q] # "CREDENTIAL"
  BY <1>2 DEF ApplyEffect, ChatIsFresh, TypeOK
<1>3. QED
  BY <1>1, <1>2

\* A transition keeps the rest of the invariant: the lease it takes off the row
\* belongs to a probe that is no longer current.
LEMMA MovedKeeps ==
    ASSUME IInv, Moved,
           UNCHANGED <<token, asProbe, chat, syncRead>>,
           NEW q \in Requests,
           phase' = phase \/ (phase[q] = "settling" /\ phase' = [phase EXCEPT ![q] = "releasing"])
    PROVE  /\ IdleHoldsNothing' /\ ProbingIsYoung' /\ FreshToken' /\ TokensDistinct'
           /\ ProbeOwnsSlot'
           /\ status' \in Statuses /\ cooldown' \in Nat /\ probeAge' \in Ages
           /\ phase' \in [Requests -> Phases] /\ current' \in [Requests -> BOOLEAN]
<1>. USE TimeAssumption
     DEF IInv, TypeOK, IdleHoldsNothing, ProbingIsYoung, FreshToken, TokensDistinct,
         ProbeOwnsSlot, Statuses, Phases, Ages, NoLease, MaxAge, Holds, Probing
<1>1. CASE NoTransition
  BY <1>1 DEF NoTransition
<1>2. CASE ~NoTransition
  <2>1. PICK to \in Statuses, wait \in Nat :
            (to = "RATE_LIMITED" => wait > 0) /\ Transition(to, wait)
    BY <1>2 DEF Moved
  <2>2. QED
    BY <2>1 DEF Transition
<1>3. QED
  BY <1>1, <1>2

\* The request's own steps.
LEMMA HandlerStep ==
    ASSUME IInv, NEW q \in Requests, Admit(q) \/ Handle(q) \/ Crash(q)
    PROVE  IInv'
<1>. USE TimeAssumption, FailureAssumption
     DEF IInv, TypeOK, IdleHoldsNothing, ProbingIsYoung, FreshToken, TokensDistinct,
         ProbeOwnsSlot, ChatIsFresh, Statuses, Servable, Terminal, Phases, Results, Ages,
         NoLease, MaxAge, Holds, Probing, rowVars, reqVars, Step
<1>1. CASE Admit(q)
  BY <1>1 DEF Admit
<1>2. CASE AcquireProbe(q)
  BY <1>2 DEF AcquireProbe, ProbeFree
<1>3. CASE ProbeBusy(q)
  BY <1>3 DEF ProbeBusy, Forget
<1>4. CASE NeedsNoProbe(q)
  BY <1>4 DEF NeedsNoProbe
<1>5. CASE GiveUp(q)
  BY <1>5 DEF GiveUp
<1>6. CASE FencePasses(q)
  BY <1>6 DEF FencePasses
<1>7. CASE UpstreamAnswers(q)
  BY <1>7 DEF UpstreamAnswers
<1>8. CASE ApplyEffect(q)
  <2>1. Moved
    BY <1>8, EffectMoves
  <2>2. /\ ChatIsFresh'
        /\ authFailure' \in FailureIds \cup {NoFailure}
        /\ rejected' \in BOOLEAN /\ chatClean' \in BOOLEAN
    BY <1>8, EffectKeepsChatFresh
  <2>3. /\ UNCHANGED <<token, asProbe, chat, syncRead>>
        /\ phase[q] = "settling" /\ phase' = [phase EXCEPT ![q] = "releasing"]
    BY <1>8 DEF ApplyEffect
  <2>4. result' \in [Requests -> Results]
    BY <1>8 DEF ApplyEffect
  <2>5. QED
    BY <2>1, <2>2, <2>3, <2>4, MovedKeeps
<1>9. CASE EffectsLost(q)
  BY <1>9 DEF EffectsLost, Forget
<1>10. CASE ReleaseProbe(q)
  BY <1>10 DEF ReleaseProbe, ReleasedProbe, Forget
<1>11. CASE Crash(q)
  BY <1>11 DEF Crash, Forget
<1>12. QED
  BY <1>1, <1>2, <1>3, <1>4, <1>5, <1>6, <1>7, <1>8, <1>9, <1>10, <1>11 DEF Handle

\* The administrator's and the workers' steps: those that lift or impose an
\* isolation leave it at a status that cannot be probed, or with its cooldown.
LEMMA OthersStep ==
    ASSUME IInv, Others
    PROVE  IInv'
<1>. USE TimeAssumption, FailureAssumption
     DEF IInv, TypeOK, IdleHoldsNothing, ProbingIsYoung, FreshToken, TokensDistinct,
         ProbeOwnsSlot, ChatIsFresh, Statuses, Servable, Terminal, Phases, Results, Ages,
         NoLease, MaxAge, Holds, Probing, rowVars, reqVars
<1>1. CASE BeginChat
  BY <1>1 DEF BeginChat
<1>2. CASE FinishChat
  <2>1. CASE status' = status
    BY <1>2, <2>1 DEF FinishChat
  <2>2. CASE status' = "DEGRADED" /\ cooldown' = 0
    BY <1>2, <2>2 DEF FinishChat
  <2>3. QED
    BY <1>2, <2>1, <2>2 DEF FinishChat
<1>3. CASE AdminRecover
  BY <1>3 DEF AdminRecover
<1>4. CASE QuotaRecovers
  BY <1>4 DEF QuotaRecovers, Transition
<1>5. CASE QuotaSeenEmpty
  BY <1>5 DEF QuotaSeenEmpty, Transition
<1>6. CASE WorkerReads
  BY <1>6 DEF WorkerReads
<1>7. CASE ScheduleQuotaSync
  <2>1. /\ cooldown' = cooldown \/ cooldown' \in Cooldowns
        /\ UNCHANGED <<probeAge, token, status>>
    BY <1>7 DEF ScheduleQuotaSync
  <2>2. cooldown' \in Nat /\ (cooldown' = cooldown \/ cooldown' > 0)
    <3>1. \A wait \in Cooldowns : wait \in Nat /\ wait > 0
      BY TimeAssumption
    <3>2. cooldown \in Nat
      OBVIOUS
    <3>3. QED
      BY <2>1, <3>1, <3>2
  <2>3. FreshToken'
    BY <2>1, <2>2
  <2>4. TypeOK'
    BY <1>7, <2>2 DEF ScheduleQuotaSync
  <2>5. IdleHoldsNothing' /\ ProbingIsYoung' /\ TokensDistinct' /\ ProbeOwnsSlot' /\ ChatIsFresh'
    BY <1>7 DEF ScheduleQuotaSync
  <2>6. QED
    BY <2>3, <2>4, <2>5
<1>8. QED
  BY <1>1, <1>2, <1>3, <1>4, <1>5, <1>6, <1>7 DEF Others

\* Time: the ages of distinct leases stay distinct because none reaches its cap
\* while it is held, and none is zero after a tick.
LEMMA TickStep ==
    ASSUME IInv, Tick
    PROVE  IInv'
<1>1. \A r \in Requests : token'[r] = IF token[r] = NoLease THEN NoLease ELSE token[r] + 1
  BY TimeAssumption DEF Tick, Older, IInv, TypeOK, NoLease
<1>2. \A r \in Requests :
        token[r] \in NoLease..(MaxHold - 1) /\ token'[r] \in NoLease..MaxHold
  BY <1>1, TimeAssumption DEF Tick, IInv, TypeOK, NoLease
<1>3. TypeOK'
  BY <1>2, TimeAssumption DEF Tick, Older, IInv, TypeOK, Ages, MaxAge, NoLease
<1>4. IdleHoldsNothing'
  BY <1>1 DEF Tick, IInv, IdleHoldsNothing
<1>5. ProbingIsYoung'
  BY <1>1, <1>2, TimeAssumption DEF Tick, IInv, ProbingIsYoung, NoLease
<1>6. FreshToken'
  BY <1>1, <1>2 DEF FreshToken, NoLease
<1>7. TokensDistinct'
  BY <1>1, <1>2 DEF IInv, TokensDistinct, Holds, NoLease
<1>8. ProbeOwnsSlot'
  <2>1. SUFFICES ASSUME NEW r \in Requests,
                        phase[r] \in Probing, Holds(r)', current[r]
                 PROVE  probeAge' = token'[r]
    BY DEF Tick, ProbeOwnsSlot
  <2>2. Holds(r) /\ probeAge = token[r]
    BY <1>1, <2>1 DEF IInv, ProbeOwnsSlot, Holds, NoLease
  <2>3. QED
    BY <1>1, <1>2, <2>2, TimeAssumption DEF Tick, Older, Holds, MaxAge, NoLease
<1>9. ChatIsFresh'
  BY DEF Tick, IInv, ChatIsFresh
<1>10. QED
  BY <1>3, <1>4, <1>5, <1>6, <1>7, <1>8, <1>9 DEF IInv

LEMMA StutterStep ==
    ASSUME IInv, UNCHANGED vars
    PROVE  IInv'
BY DEF IInv, TypeOK, IdleHoldsNothing, ProbingIsYoung, FreshToken, TokensDistinct,
       ProbeOwnsSlot, ChatIsFresh, Holds, vars, rowVars, reqVars

\* Every reachable state of the resource and its requests satisfies IInv.
THEOREM Invariance == Spec => []IInv
<1>1. IInv /\ [Next]_vars => IInv'
  BY HandlerStep, OthersStep, TickStep, StutterStep DEF Next
<1>2. QED
  BY Initially, <1>1, PTL DEF Spec

-----------------------------------------------------------------------------
\* Row, handlers and history keep their types; in particular a cooldown is never
\* negative, whatever the upstream asks for.
THEOREM TypeCorrect == Spec => []TypeOK
BY Invariance, PTL DEF IInv

\* The lease of a probe under way stays on the row until a transition takes it off:
\* no late release and no takeover removes it.
THEOREM ProbeSlot == Spec => []ProbeOwnsSlot
BY Invariance, PTL DEF IInv

\* acquiredAt identifies a lease among all that are still held.
THEOREM TokensDiffer == Spec => []TokensDistinct
BY Invariance, PTL DEF IInv

\* Between two transitions at most one request is let through as a probe: the row
\* carries the lease of each, and the leases differ.
THEOREM OnePerWave == Spec => []OneProbePerWave
<1>1. IInv => OneProbePerWave
  BY DEF IInv, ProbeOwnsSlot, TokensDistinct, OneProbePerWave
<1>2. QED
  BY Invariance, <1>1, PTL

\* A chat probe that began before the last 401 does not lift the isolation.
THEOREM StaleChat == Spec => StaleChatNeverRecovers
<1>. DEFINE Lifted == status = "CREDENTIAL_INVALID" /\ status' = "DEGRADED" /\ chat # chat'
                      => chatClean
<1>1. IInv /\ [Next]_vars => [Lifted]_vars
  <2>1. SUFFICES ASSUME IInv, Next, status = "CREDENTIAL_INVALID", status' = "DEGRADED",
                        chat # chat'
                 PROVE  chatClean
    OBVIOUS
  <2>2. ~\E r \in Requests : Admit(r) \/ Handle(r) \/ Crash(r)
    BY <2>1 DEF Handle, Admit, AcquireProbe, ProbeBusy, NeedsNoProbe, GiveUp, FencePasses,
                UpstreamAnswers, ApplyEffect, EffectsLost, ReleaseProbe, Crash
  <2>3. ~(BeginChat \/ AdminRecover \/ QuotaRecovers \/ QuotaSeenEmpty \/ WorkerReads)
    BY <2>1 DEF BeginChat, AdminRecover, QuotaRecovers, QuotaSeenEmpty, WorkerReads, rowVars
  <2>4. ~(ScheduleQuotaSync \/ Tick)
    BY <2>1 DEF ScheduleQuotaSync, Tick
  <2>5. FinishChat
    BY <2>1, <2>2, <2>3, <2>4 DEF Next, Others
  <2>6. QED
    BY <2>1, <2>5 DEF FinishChat, IInv, ChatIsFresh
<1>2. QED
  BY Invariance, <1>1, PTL DEF Spec, StaleChatNeverRecovers
=============================================================================
