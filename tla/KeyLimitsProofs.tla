-------------------------- MODULE KeyLimitsProofs --------------------------
(***************************************************************************)
(* KeyLimits for every number of requests, every limit and estimate, with  *)
(* crashes, failing statements and either form of evidence.                *)
(*                                                                         *)
(* countInFlightByPrincipalKey bounds the rows it counts, the property     *)
(* bounds the handlers past the gate.  RowCounted ties the two: the row of *)
(* a request at or past the gate is among the counted ones until its       *)
(* handler leaves the attempt loop.  NewHasNoRow starts it: a row is never *)
(* stale before its request was claimed.                                   *)
(*                                                                         *)
(* used_tokens is one number for all requests, the properties add up what  *)
(* it holds for each.  A step changes the share of its own request alone   *)
(* (HandleShare), and used_tokens by just that share (HandleUse): at the   *)
(* correction the estimate is part of the sum, so the difference is not    *)
(* negative and max(0, ...) takes nothing off.  That the share of a        *)
(* corrected request covers its upstream calls needs BooksAreDue: what the *)
(* rows say of a request is what its calls did, but for the answer being   *)
(* written down, and while no statement threw.                             *)
(***************************************************************************)
EXTENDS KeyLimits, FiniteSums

Past == {r \in Requests : pc[r] \in Admitted \cup {"counted"}}

RowCounted ==
    \A r \in Requests :
        pc[r] \in Admitted \cup {"counted", "claimed"} => r \in inProgress \ stale

NewHasNoRow == \A r \in inProgress : pc[r] # "new"

\* The estimate is there from the reservation on.
ReservedInLoop ==
    \A r \in Requests :
        /\ pc[r] \in {"new", "claimed", "counted"} => estimate[r] = NotReserved
        /\ pc[r] \in Admitted \cup {"settling", "failing", "failed"} => estimate[r] # NotReserved

\* The rows say of a request what its upstream calls did, while no statement threw.
BooksAreDue ==
    \A r \in Requests :
        /\ pc[r] = "answered" =>
              /\ booked[r].tokens + outcome[r].tokens >= due[r].tokens
              /\ due[r].unsure = (booked[r].unsure \/ Unsure(r))
        /\ pc[r] = "lined" =>
              /\ booked[r].tokens >= due[r].tokens
              /\ due[r].unsure = (booked[r].unsure \/ Unsure(r))
        /\ pc[r] \in {"new", "claimed", "counted", "running", "decided", "settling"} =>
              /\ booked[r].tokens >= due[r].tokens
              /\ due[r].unsure = booked[r].unsure

\* A corrected request whose status was published is booked with what it used.
EndedIsCovered == \A r \in Reserved : pc[r] = "ended" => ActualUsage(r) >= Charge(r)

RowInv == TypeOK /\ RowCounted /\ NewHasNoRow /\ KeyConcurrencyBounded
IInv   == RowInv /\ ReservedInLoop /\ BooksAreDue /\ UsedMatchesBooks /\ NoKeyOverrun

\* Adding a line of a natural number of tokens leaves the books of a request books.
LEMMA EnteredType ==
    ASSUME NEW books \in Books, NEW tokens \in Nat, NEW unsure \in BOOLEAN
    PROVE  Entered(books, tokens, unsure) \in Books
BY DEF Entered, Books

\* What a handler keeps of an answer: a number of tokens, and whether it has to be
\* entered as of unknown usage.
LEMMA OutcomeType ==
    ASSUME TypeOK, NEW r \in Requests
    PROVE  outcome[r].tokens \in Nat /\ Unsure(r) \in BOOLEAN
<1>1. outcome[r] \in Outcome \/ outcome[r] = NoOutcome
    BY DEF TypeOK
<1>2. \A o \in Outcome : o.tokens \in Nat
    BY KeyAssumption DEF Outcome, KeyAssumption
<1>3. NoOutcome.tokens \in Nat
    BY DEF NoOutcome
<1>4. Unsure(r) \in BOOLEAN
    BY DEF Unsure
<1>5. QED
    BY <1>1, <1>2, <1>3, <1>4

\* The rows the gate counts are finitely many.
LEMMA RowsFinite == TypeOK => IsFiniteSet(inProgress \ stale)
<1> SUFFICES ASSUME TypeOK PROVE IsFiniteSet(inProgress \ stale)
    OBVIOUS
<1>1. inProgress \ stale \subseteq Requests
    BY DEF TypeOK
<1>2. QED
    BY <1>1, KeyAssumption, FS_Subset DEF KeyAssumption

\* A step in which nobody passes the gate cannot break the bound.
LEMMA FewerPast ==
    ASSUME TypeOK, KeyConcurrencyBounded,
           \A r \in Requests : pc'[r] \in Admitted \cup {"counted"}
                                 => pc[r] \in Admitted \cup {"counted"}
    PROVE  KeyConcurrencyBounded'
<1>1. IsFiniteSet(Past)
    BY KeyAssumption, FS_Subset, Past \subseteq Requests DEF KeyAssumption, Past
<1>2. Past' \subseteq Past
    BY DEF Past
<1>3. /\ Cardinality(Past') \in Nat /\ Cardinality(Past) \in Nat
      /\ Cardinality(Past') <= Cardinality(Past)
    BY <1>1, <1>2, FS_Subset, FS_CardinalityType
<1>4. QED
    BY <1>3, KeyAssumption DEF KeyConcurrencyBounded, Past, KeyAssumption

\* The initial state has no row and nobody past the gate.
LEMMA InitRow == Init => RowInv
<1> SUFFICES ASSUME Init PROVE RowInv
    OBVIOUS
<1>1. TypeOK
    BY KeyAssumption
    DEF Init, TypeOK, Books, Blank, Stages, NotReserved, NoOutcome, KeyAssumption
<1>2. RowCounted /\ NewHasNoRow
    BY DEF Init, RowCounted, NewHasNoRow, Admitted
<1>3. Past = {}
    BY DEF Init, Past, Admitted
<1>4. Cardinality(Past) = 0
    BY <1>3, FS_EmptySet
<1>5. KeyConcurrencyBounded
    BY <1>4, KeyAssumption DEF KeyConcurrencyBounded, Past, KeyAssumption
<1>6. QED
    BY <1>1, <1>2, <1>5 DEF RowInv

\* Each step of a handler keeps the types.
LEMMA HandleType == ASSUME RowInv, NEW r \in Requests, Handle(r) PROVE TypeOK'
<1> USE DEF RowInv
<1>1. CASE Claim(r)
    BY <1>1 DEF Claim, Goto, TypeOK, Stages
<1>2. CASE CountPasses(r)
    BY <1>2 DEF CountPasses, Goto, TypeOK, Stages
<1>3. CASE Refuse(r)
    BY <1>3 DEF Refuse, Goto, TypeOK, Stages, RowCounted
<1>4. CASE ReserveKeyQuota(r)
    <2>1. PICK cost \in Estimates : /\ usedTokens' = usedTokens + cost
                                    /\ estimate' = [estimate EXCEPT ![r] = cost]
        BY <1>4 DEF ReserveKeyQuota
    <2>2. usedTokens' \in Nat
        BY <2>1, KeyAssumption DEF TypeOK, KeyAssumption
    <2>3. QED
        BY <1>4, <2>1, <2>2 DEF ReserveKeyQuota, Goto, TypeOK, Stages
<1>5. CASE KeyQuotaExhausted(r)
    BY <1>5 DEF KeyQuotaExhausted, Goto, TypeOK, Stages, RowCounted
<1>6. CASE Answer(r)
    <2>1. PICK o \in Outcome :
            /\ outcome' = [outcome EXCEPT ![r] = o]
            /\ due' = [due EXCEPT ![r] = Entered(due[r], IF o.reported THEN o.tokens ELSE 0,
                                                 o.committed /\ ~o.reported)]
        BY <1>6 DEF Answer
    <2>2. /\ (IF o.reported THEN o.tokens ELSE 0) \in Nat
          /\ (o.committed /\ ~o.reported) \in BOOLEAN
        BY KeyAssumption DEF Outcome, KeyAssumption
    <2>3. due[r] \in Books
        BY DEF TypeOK
    <2>4. Entered(due[r], IF o.reported THEN o.tokens ELSE 0, o.committed /\ ~o.reported)
            \in Books
        BY <2>2, <2>3, EnteredType
    <2>5. due' \in [Requests -> Books] /\ outcome' \in [Requests -> Outcome \cup {NoOutcome}]
        BY <2>1, <2>4 DEF TypeOK
    <2>6. tries' \in [Requests -> 0..MaxAttempts]
        BY <1>6, KeyAssumption DEF Answer, TypeOK, KeyAssumption
    <2>7. QED
        BY <1>6, <2>5, <2>6 DEF Answer, Goto, TypeOK, Stages
<1>7. CASE PersistLine(r)
    <2>1. outcome[r].tokens \in Nat /\ Unsure(r) \in BOOLEAN /\ booked[r] \in Books
        BY OutcomeType DEF TypeOK
    <2>2. (MonthlyQuota /\ Unsure(r)) \in BOOLEAN
        OBVIOUS
    <2>3. Entered(booked[r], outcome[r].tokens, MonthlyQuota /\ Unsure(r)) \in Books
        BY <2>1, <2>2, EnteredType
    <2>4. booked' \in [Requests -> Books]
        BY <1>7, <2>3 DEF PersistLine, TypeOK
    <2>5. QED
        BY <1>7, <2>4 DEF PersistLine, Goto, TypeOK, Stages
<1>8. CASE RecordResult(r)
    <2>1. Unsure(r) \in BOOLEAN /\ booked[r] \in Books
        BY OutcomeType DEF TypeOK
    <2>2. Entered(booked[r], 0, Unsure(r)) \in Books
        BY <2>1, EnteredType
    <2>3. booked' \in [Requests -> Books]
        BY <1>8, <2>2 DEF RecordResult, TypeOK
    <2>4. QED
        BY <1>8, <2>3 DEF RecordResult, Goto, TypeOK, Stages
<1>9. CASE FailOver(r)
    BY <1>9 DEF FailOver, Goto, TypeOK, Stages
<1>10. CASE Publish(r)
    BY <1>10 DEF Publish, LeaveLoop, Goto, TypeOK, Stages, RowCounted, Admitted
<1>11. CASE Throw(r)
    BY <1>11 DEF Throw, LeaveLoop, Goto, TypeOK, Stages
<1>12. CASE SettleKey(r)
    <2>1. usedTokens \in Nat /\ booked[r] \in Books
        BY DEF TypeOK
    <2>2. estimate[r] \in Int
        <3>1. estimate[r] \in Estimates \cup {NotReserved}
            BY DEF TypeOK
        <3>2. Estimates \subseteq Int
            BY KeyAssumption DEF KeyAssumption
        <3>3. NotReserved \in Int
            BY DEF NotReserved
        <3>4. QED
            BY <3>1, <3>2, <3>3
    <2>3. booked[r].tokens \in Nat
        BY <2>1 DEF Books
    <2>4. ActualUsage(r) \in Int
        BY <2>2, <2>3 DEF ActualUsage
    <2>5. Corrected(r) \in Nat
        BY <2>1, <2>2, <2>4 DEF Corrected
    <2>6. usedTokens' \in Nat
        BY <1>12, <2>5 DEF SettleKey
    <2>7. QED
        BY <1>12, <2>6 DEF SettleKey, Goto, TypeOK, Stages
<1>13. CASE SettleKeyFails(r)
    BY <1>13 DEF SettleKeyFails, Goto, TypeOK, Stages
<1>14. CASE Crash(r)
    BY <1>14 DEF Crash, LeaveLoop, Goto, TypeOK, Stages
<1>15. CASE AgeOut(r)
    BY <1>15 DEF AgeOut, TypeOK
<1>16. QED
    BY <1>1, <1>2, <1>3, <1>4, <1>5, <1>6, <1>7, <1>8, <1>9, <1>10, <1>11, <1>12,
       <1>13, <1>14, <1>15 DEF Handle

\* A row leaves the counted ones only with the handler's own terminal status, or by
\* age once the handler is gone.
LEMMA HandleCounted == ASSUME RowInv, NEW r \in Requests, Handle(r) PROVE RowCounted' /\ NewHasNoRow'
<1> USE DEF RowInv, TypeOK, RowCounted, NewHasNoRow, Goto, LeaveLoop, Admitted, Over
<1>1. CASE Claim(r)
    <2>1. r \notin stale
        BY <1>1 DEF Claim
    <2>2. QED
        BY <1>1, <2>1 DEF Claim
<1>2. CASE CountPasses(r)
    BY <1>2 DEF CountPasses
<1>3. CASE Refuse(r)
    BY <1>3 DEF Refuse
<1>4. CASE ReserveKeyQuota(r)
    BY <1>4 DEF ReserveKeyQuota
<1>5. CASE KeyQuotaExhausted(r)
    BY <1>5 DEF KeyQuotaExhausted
<1>6. CASE Answer(r)
    BY <1>6 DEF Answer
<1>7. CASE PersistLine(r)
    BY <1>7 DEF PersistLine
<1>8. CASE RecordResult(r)
    BY <1>8 DEF RecordResult
<1>9. CASE FailOver(r)
    BY <1>9 DEF FailOver
<1>10. CASE Publish(r)
    BY <1>10 DEF Publish
<1>11. CASE Throw(r)
    BY <1>11 DEF Throw
<1>12. CASE SettleKey(r)
    BY <1>12 DEF SettleKey
<1>13. CASE SettleKeyFails(r)
    BY <1>13 DEF SettleKeyFails
<1>14. CASE Crash(r)
    BY <1>14 DEF Crash
<1>15. CASE AgeOut(r)
    BY <1>15 DEF AgeOut
<1>16. QED
    BY <1>1, <1>2, <1>3, <1>4, <1>5, <1>6, <1>7, <1>8, <1>9, <1>10, <1>11, <1>12,
       <1>13, <1>14, <1>15 DEF Handle

\* Whoever passes the gate has counted a set of rows that holds those of all who
\* passed before; no other step lets anyone past.
LEMMA HandleBounded ==
    ASSUME RowInv, NEW r \in Requests, Handle(r) PROVE KeyConcurrencyBounded'
<1> USE DEF RowInv
<1>1. CASE CountPasses(r)
    <2>1. Past' \subseteq inProgress \ stale
        BY <1>1 DEF CountPasses, Past, RowCounted, Goto, TypeOK, Admitted
    <2>2. Cardinality(inProgress \ stale) <= KeyLimit
        BY <1>1 DEF CountPasses, WithinKeyLimit
    <2>3. /\ Cardinality(Past') \in Nat /\ Cardinality(inProgress \ stale) \in Nat
          /\ Cardinality(Past') <= Cardinality(inProgress \ stale)
        BY <2>1, RowsFinite, FS_Subset, FS_CardinalityType
    <2>4. QED
        BY <2>2, <2>3, KeyAssumption DEF KeyConcurrencyBounded, Past, KeyAssumption
<1>2. CASE ~CountPasses(r)
    <2>1. \A q \in Requests : pc'[q] \in Admitted \cup {"counted"}
                                => pc[q] \in Admitted \cup {"counted"}
        BY <1>2 DEF Handle, TypeOK, Goto, LeaveLoop, Admitted, Claim, Refuse,
            ReserveKeyQuota, KeyQuotaExhausted, Answer, PersistLine, RecordResult,
            FailOver, Publish, Throw, SettleKey, SettleKeyFails, Crash, AgeOut
    <2>2. QED
        BY <2>1, FewerPast
<1>3. QED
    BY <1>1, <1>2

-----------------------------------------------------------------------------
(* The token quota.                                                        *)

\* A request has an estimate from its reservation to its end.
LEMMA HandleReserved ==
    ASSUME RowInv, ReservedInLoop, NEW r \in Requests, Handle(r) PROVE ReservedInLoop'
<1> USE DEF RowInv, TypeOK, ReservedInLoop, Goto, LeaveLoop, Admitted
<1>1. CASE ReserveKeyQuota(r)
    <2>1. PICK cost \in Estimates : estimate' = [estimate EXCEPT ![r] = cost]
        BY <1>1 DEF ReserveKeyQuota
    <2>2. cost # NotReserved
        BY KeyAssumption DEF KeyAssumption, NotReserved
    <2>3. QED
        BY <1>1, <2>1, <2>2 DEF ReserveKeyQuota
<1>2. CASE ~ReserveKeyQuota(r)
    BY <1>2 DEF Handle, Claim, CountPasses, Refuse, KeyQuotaExhausted, Answer, PersistLine,
        RecordResult, FailOver, Publish, Throw, SettleKey, SettleKeyFails, Crash, AgeOut, Over
<1>3. QED
    BY <1>1, <1>2

\* Every attempt is written down before the next one or the end of the loop.
LEMMA HandleBooks ==
    ASSUME RowInv, BooksAreDue, NEW r \in Requests, Handle(r) PROVE BooksAreDue'
<1> DEFINE Due(q) ==
        /\ pc[q] = "answered" =>
              /\ booked[q].tokens + outcome[q].tokens >= due[q].tokens
              /\ due[q].unsure = (booked[q].unsure \/ Unsure(q))
        /\ pc[q] = "lined" =>
              /\ booked[q].tokens >= due[q].tokens
              /\ due[q].unsure = (booked[q].unsure \/ Unsure(q))
        /\ pc[q] \in {"new", "claimed", "counted", "running", "decided", "settling"} =>
              /\ booked[q].tokens >= due[q].tokens
              /\ due[q].unsure = booked[q].unsure
<1>1. ASSUME NEW q \in Requests, q # r PROVE Due(q)'
    <2>1. /\ pc'[q] = pc[q] /\ booked'[q] = booked[q] /\ due'[q] = due[q]
          /\ outcome'[q] = outcome[q]
        BY <1>1 DEF RowInv, TypeOK, Handle, Goto, LeaveLoop, Claim, CountPasses, Refuse,
            ReserveKeyQuota, KeyQuotaExhausted, Answer, PersistLine, RecordResult, FailOver,
            Publish, Throw, SettleKey, SettleKeyFails, Crash, AgeOut
    <2>2. Due(q)
        BY DEF BooksAreDue
    <2>3. QED
        BY <2>1, <2>2 DEF Unsure
<1>2. Due(r)'
    <2> DEFINE b == booked[r]
               d == due[r]
    <2>1. /\ b.tokens \in Nat /\ b.unsure \in BOOLEAN /\ d.tokens \in Nat /\ d.unsure \in BOOLEAN
          /\ booked[r] \in Books /\ due[r] \in Books
        BY DEF RowInv, TypeOK, Books
    <2>2. Due(r)
        BY DEF BooksAreDue
    <2>3. outcome[r].tokens \in Nat /\ Unsure(r) \in BOOLEAN
        BY OutcomeType DEF RowInv
    <2>4. CASE Answer(r)
        <3>1. PICK o \in Outcome :
                /\ outcome' = [outcome EXCEPT ![r] = o]
                /\ due' = [due EXCEPT ![r] = Entered(due[r], IF o.reported THEN o.tokens ELSE 0,
                                                     o.committed /\ ~o.reported)]
            BY <2>4 DEF Answer
        <3>2. /\ outcome'[r] = o
              /\ due'[r] = Entered(d, IF o.reported THEN o.tokens ELSE 0,
                                   o.committed /\ ~o.reported)
            BY <3>1 DEF RowInv, TypeOK
        <3>3. /\ due'[r].tokens = d.tokens + (IF o.reported THEN o.tokens ELSE 0)
              /\ due'[r].unsure = (d.unsure \/ (o.committed /\ ~o.reported))
            BY <3>2 DEF Entered
        <3>4. /\ pc'[r] = "answered" /\ booked'[r] = booked[r]
              /\ b.tokens >= d.tokens /\ d.unsure = b.unsure
            BY <2>2, <2>4 DEF Answer, Goto, RowInv, TypeOK
        <3>5. o.tokens \in Nat
            BY KeyAssumption DEF Outcome, KeyAssumption
        <3>6. Unsure(r)' = (o.committed /\ ~o.reported)
            BY <3>2 DEF Unsure
        <3>7. booked'[r].tokens + outcome'[r].tokens >= due'[r].tokens
            <4>1. b.tokens + o.tokens >= d.tokens + (IF o.reported THEN o.tokens ELSE 0)
                BY <2>1, <3>4, <3>5
            <4>2. QED
                BY <3>2, <3>3, <3>4, <4>1
        <3>8. due'[r].unsure = (booked'[r].unsure \/ Unsure(r)')
            BY <3>3, <3>4, <3>6
        <3>9. QED
            BY <3>4, <3>7, <3>8
    <2>5. CASE PersistLine(r)
        <3>1. /\ pc[r] = "answered" /\ pc'[r] = "lined" /\ due'[r] = due[r]
              /\ outcome'[r] = outcome[r]
              /\ booked'[r] = Entered(b, outcome[r].tokens, MonthlyQuota /\ Unsure(r))
            BY <2>5 DEF PersistLine, Goto, RowInv, TypeOK
        <3>2. /\ booked'[r].tokens = b.tokens + outcome[r].tokens
              /\ booked'[r].unsure = (b.unsure \/ (MonthlyQuota /\ Unsure(r)))
            BY <3>1 DEF Entered
        <3>3. Unsure(r)' = Unsure(r)
            BY <3>1 DEF Unsure
        <3>4. booked'[r].tokens >= due'[r].tokens
            BY <2>2, <3>1, <3>2
        <3>5. due'[r].unsure = (booked'[r].unsure \/ Unsure(r)')
            BY <2>1, <2>2, <2>3, <3>1, <3>2, <3>3
        <3>6. QED
            BY <3>1, <3>4, <3>5
    <2>6. CASE RecordResult(r)
        <3>1. /\ pc[r] = "lined" /\ pc'[r] = "decided" /\ due'[r] = due[r]
              /\ booked'[r] = Entered(b, 0, Unsure(r))
            BY <2>6 DEF RecordResult, Goto, RowInv, TypeOK
        <3>2. /\ booked'[r].tokens = b.tokens + 0
              /\ booked'[r].unsure = (b.unsure \/ Unsure(r))
            BY <3>1 DEF Entered
        <3>3. booked'[r].tokens >= due'[r].tokens
            BY <2>1, <2>2, <3>1, <3>2
        <3>4. due'[r].unsure = booked'[r].unsure
            BY <2>2, <3>1, <3>2
        <3>5. QED
            BY <3>1, <3>3, <3>4
    <2>7. CASE ~Answer(r) /\ ~PersistLine(r) /\ ~RecordResult(r)
        <3>1. /\ booked' = booked /\ due' = due
              /\ \/ pc'[r] = pc[r] /\ outcome' = outcome
                 \/ /\ pc[r] \in {"new", "claimed", "counted", "running", "decided"}
                    /\ pc'[r] \in {"claimed", "counted", "running", "settling"}
                 \/ pc'[r] \in {"ended", "failing", "failed", "dead"}
            BY <2>7 DEF RowInv, TypeOK, Handle, Goto, LeaveLoop, Claim, CountPasses, Refuse,
                ReserveKeyQuota, KeyQuotaExhausted, FailOver, Publish, Throw, SettleKey,
                SettleKeyFails, Crash, AgeOut
        <3>2. QED
            BY <2>2, <3>1 DEF Unsure
    <2>8. QED
        BY <2>4, <2>5, <2>6, <2>7
<1>3. QED
    BY <1>1, <1>2 DEF BooksAreDue

Shares         == [r \in Requests |-> Held(r)]
EstimateShares == [r \in Requests |-> HeldOfEstimate(r)]

\* An estimate is a natural number, or there is none.
LEMMA EstimateType ==
    ASSUME TypeOK, NEW r \in Requests
    PROVE  estimate[r] \in Int /\ (estimate[r] # NotReserved => estimate[r] \in Nat)
<1>1. estimate[r] \in Estimates \cup {NotReserved}
    BY DEF TypeOK
<1>2. \A cost \in Estimates : cost \in Nat
    BY KeyAssumption DEF KeyAssumption
<1>3. NotReserved \in Int
    BY DEF NotReserved
<1>4. QED
    BY <1>1, <1>2, <1>3

\* The share of a request is a natural number, and within its estimate when it has one.
LEMMA ShareType ==
    ASSUME TypeOK, NEW r \in Requests
    PROVE  /\ Held(r) \in Nat /\ HeldOfEstimate(r) \in Nat
           /\ HeldOfEstimate(r) <= Held(r)
<1>1. booked[r].tokens \in Nat
    BY DEF TypeOK, Books
<1>2. estimate[r] \in Int /\ (r \in Reserved => estimate[r] \in Nat)
    BY EstimateType DEF Reserved
<1>3. Held(r) \in Nat
    BY <1>1, <1>2 DEF Held, ActualUsage
<1>4. QED
    BY <1>2, <1>3 DEF HeldOfEstimate

\* The same in the state after a step.
LEMMA SharesType ==
    /\ TypeOK => \A q \in Requests : Held(q) \in Int /\ HeldOfEstimate(q) \in Int
    /\ TypeOK' => \A q \in Requests : Held(q)' \in Int /\ HeldOfEstimate(q)' \in Int
<1>1. TypeOK => \A q \in Requests : Held(q) \in Int /\ HeldOfEstimate(q) \in Int
    BY ShareType
<1>2. (TypeOK => \A q \in Requests : Held(q) \in Int /\ HeldOfEstimate(q) \in Int)'
    BY <1>1, PTL
<1>3. QED
    BY <1>1, <1>2

\* A step changes the share of its own request alone.
LEMMA HandleShare ==
    ASSUME TypeOK, TypeOK', NEW r \in Requests, Handle(r)
    PROVE  /\ AllHeld \in Int /\ AllHeldOfEstimates \in Int
           /\ AllHeld' = AllHeld + Held(r)' - Held(r)
           /\ AllHeldOfEstimates' =
                 AllHeldOfEstimates + HeldOfEstimate(r)' - HeldOfEstimate(r)
<1>1. IsFiniteSet(Requests)
    BY KeyAssumption DEF KeyAssumption
<1>2. ASSUME NEW q \in Requests, q # r
      PROVE  Held(q)' = Held(q) /\ HeldOfEstimate(q)' = HeldOfEstimate(q)
    <2>1. pc'[q] = pc[q] /\ estimate'[q] = estimate[q] /\ booked'[q] = booked[q]
        BY <1>2 DEF TypeOK, Handle, Goto, LeaveLoop, Claim, CountPasses, Refuse,
            ReserveKeyQuota, KeyQuotaExhausted, Answer, PersistLine, RecordResult, FailOver,
            Publish, Throw, SettleKey, SettleKeyFails, Crash, AgeOut
    <2>2. Held(q)' = Held(q)
        BY <2>1 DEF Held, ActualUsage, Reserved
    <2>3. QED
        BY <2>1, <2>2 DEF HeldOfEstimate, Reserved
<1>3. /\ \A q \in Requests : Shares[q] \in Int /\ EstimateShares[q] \in Int
      /\ \A q \in Requests : (Shares')[q] \in Int /\ (EstimateShares')[q] \in Int
    BY SharesType DEF Shares, EstimateShares
<1>4. \A q \in Requests : q # r => /\ Shares[q] = (Shares')[q]
                                   /\ EstimateShares[q] = (EstimateShares')[q]
    BY <1>2 DEF Shares, EstimateShares
<1>5. SumFunctionOnSet(Shares', Requests)
        = SumFunctionOnSet(Shares, Requests) + (Shares')[r] - Shares[r]
    BY <1>1, <1>3, <1>4, SumChangeOne
<1>6. SumFunctionOnSet(EstimateShares', Requests)
        = SumFunctionOnSet(EstimateShares, Requests) + (EstimateShares')[r] - EstimateShares[r]
    BY <1>1, <1>3, <1>4, SumChangeOne
<1>7. /\ SumFunctionOnSet(Shares, Requests) \in Int
      /\ SumFunctionOnSet(EstimateShares, Requests) \in Int
    BY <1>1, <1>3, SumInt
<1>8. QED
    BY <1>5, <1>6, <1>7 DEF Shares, EstimateShares, AllHeld, AllHeldOfEstimates

\* The estimate of an open request is part of the sum, so the correction replaces it by
\* what the rows say and max(0, ...) does nothing; and when the status of the request was
\* published the rows say no less than its upstream calls used.
LEMMA CorrectionExact ==
    ASSUME TypeOK, BooksAreDue, ReservedInLoop, UsedMatchesBooks, NEW r \in Requests,
           pc[r] \in {"settling", "failing"}
    PROVE  /\ Held(r) = estimate[r] /\ ActualUsage(r) \in Nat
           /\ Corrected(r) = usedTokens - estimate[r] + ActualUsage(r)
           /\ pc[r] = "settling" => ActualUsage(r) >= Charge(r)
<1>1. /\ booked[r].tokens \in Nat /\ booked[r].unsure \in BOOLEAN
      /\ due[r].tokens \in Nat /\ usedTokens \in Nat
    BY DEF TypeOK, Books
<1>2. estimate[r] \in Nat /\ estimate[r] # NotReserved
    BY EstimateType DEF ReservedInLoop
<1>3. ActualUsage(r) \in Nat
    BY <1>1, <1>2 DEF ActualUsage
<1>4. Held(r) = estimate[r]
    BY <1>2 DEF Held, Reserved
<1>5. estimate[r] <= usedTokens
    <2>1. IsFiniteSet(Requests)
        BY KeyAssumption DEF KeyAssumption
    <2>2. \A q \in Requests : Shares[q] \in Nat
        BY ShareType DEF Shares
    <2>3. Shares[r] <= SumFunctionOnSet(Shares, Requests)
        BY <2>1, <2>2, SumCovers
    <2>4. QED
        BY <1>4, <2>3 DEF Shares, AllHeld, UsedMatchesBooks
<1>6. Corrected(r) = usedTokens - estimate[r] + ActualUsage(r)
    BY <1>1, <1>2, <1>3, <1>5 DEF Corrected
<1>7. ASSUME pc[r] = "settling" PROVE ActualUsage(r) >= Charge(r)
    <2>1. booked[r].tokens >= due[r].tokens /\ due[r].unsure = booked[r].unsure
        BY <1>7 DEF BooksAreDue
    <2>2. QED
        BY <1>1, <1>2, <2>1 DEF ActualUsage, Charge
<1>8. QED
    BY <1>3, <1>4, <1>6, <1>7

\* Whatever the step is, used_tokens changes by the share of the request, and the share
\* within its estimate grows with the reservation only.
LEMMA HandleUse ==
    ASSUME RowInv, RowInv', ReservedInLoop, BooksAreDue, UsedMatchesBooks,
           NEW r \in Requests, Handle(r)
    PROVE  /\ usedTokens' - usedTokens = Held(r)' - Held(r)
           /\ \/ HeldOfEstimate(r)' <= HeldOfEstimate(r)
              \/ /\ usedTokens' <= QuotaLimit
                 /\ usedTokens' - usedTokens = HeldOfEstimate(r)' - HeldOfEstimate(r)
<1>1. usedTokens \in Nat /\ usedTokens' \in Nat /\ TypeOK
    BY DEF RowInv, TypeOK
<1>2. Held(r) \in Nat /\ HeldOfEstimate(r) \in Nat
    BY <1>1, ShareType
<1>3. estimate[r] \in Int /\ (estimate[r] # NotReserved => estimate[r] \in Nat)
    BY <1>1, EstimateType
<1>4. CASE ReserveKeyQuota(r)
    <2>1. PICK cost \in Estimates :
            /\ FitsKeyQuota(cost) /\ usedTokens' = usedTokens + cost
            /\ estimate' = [estimate EXCEPT ![r] = cost]
        BY <1>4 DEF ReserveKeyQuota
    <2>2. cost \in Nat
        BY KeyAssumption DEF KeyAssumption
    <2>3. estimate[r] = NotReserved /\ estimate'[r] = cost /\ cost # NotReserved
        BY <1>4, <2>1, <2>2 DEF ReservedInLoop, ReserveKeyQuota, RowInv, TypeOK, NotReserved
    <2>4. pc'[r] = "running"
        BY <1>4 DEF ReserveKeyQuota, Goto, RowInv, TypeOK
    <2>5. Held(r) = 0 /\ HeldOfEstimate(r) = 0
        BY <2>3 DEF Held, HeldOfEstimate, Reserved
    <2>6. Held(r)' = cost
        BY <2>3, <2>4 DEF Held, Reserved
    <2>7. HeldOfEstimate(r)' = cost
        BY <2>3, <2>6 DEF HeldOfEstimate, Reserved
    <2>8. QED
        BY <1>1, <2>1, <2>2, <2>5, <2>6, <2>7, KeyAssumption DEF FitsKeyQuota, KeyAssumption
<1>5. CASE SettleKey(r)
    <2>1. /\ usedTokens' = Corrected(r) /\ estimate' = estimate /\ booked' = booked
          /\ pc[r] \in {"settling", "failing"} /\ pc'[r] \in {"ended", "failed"}
        BY <1>5 DEF SettleKey, Goto, RowInv, TypeOK
    <2>2. estimate[r] # NotReserved /\ estimate[r] \in Nat
        BY <1>3, <2>1 DEF ReservedInLoop
    <2>3. /\ Held(r) = estimate[r] /\ ActualUsage(r) \in Nat
          /\ usedTokens' = usedTokens - estimate[r] + ActualUsage(r)
        BY <1>1, <2>1, CorrectionExact
    <2>4. Held(r)' = ActualUsage(r)
        BY <2>1, <2>2 DEF Held, ActualUsage, Reserved
    <2>5. HeldOfEstimate(r) = estimate[r]
        BY <2>2, <2>3 DEF HeldOfEstimate, Reserved
    <2>6. HeldOfEstimate(r)' <= estimate[r]
        BY <2>1, <2>2, <2>3, <2>4 DEF HeldOfEstimate, Reserved
    <2>7. usedTokens' - usedTokens = Held(r)' - Held(r)
        BY <1>1, <2>2, <2>3, <2>4
    <2>8. QED
        BY <2>5, <2>6, <2>7
<1>6. CASE ~ReserveKeyQuota(r) /\ ~SettleKey(r)
    <2>1. usedTokens' = usedTokens /\ estimate' = estimate
        BY <1>6 DEF Handle, Claim, CountPasses, Refuse, KeyQuotaExhausted, Answer, PersistLine,
            RecordResult, FailOver, Publish, Throw, SettleKeyFails, Crash, AgeOut
    <2>2. \/ estimate[r] = NotReserved
          \/ pc'[r] = pc[r] /\ booked' = booked
          \/ pc'[r] \notin {"ended", "failed"} /\ pc[r] \notin {"ended", "failed"}
        <3>1. CASE Refuse(r) \/ KeyQuotaExhausted(r)
            BY <3>1 DEF ReservedInLoop, Refuse, KeyQuotaExhausted
        <3>2. CASE ~Refuse(r) /\ ~KeyQuotaExhausted(r)
            BY <1>6, <3>2 DEF RowInv, TypeOK, Handle, Goto, LeaveLoop, Claim, CountPasses,
                Answer, PersistLine, RecordResult, FailOver, Publish, Throw, SettleKeyFails,
                Crash, AgeOut, Over, Admitted
        <3>3. QED
            BY <3>1, <3>2
    <2>3. Held(r)' = Held(r)
        BY <2>1, <2>2 DEF Held, ActualUsage, Reserved
    <2>4. HeldOfEstimate(r)' = HeldOfEstimate(r)
        BY <2>1, <2>3 DEF HeldOfEstimate, Reserved
    <2>5. QED
        BY <1>1, <1>2, <2>1, <2>3, <2>4
<1>7. QED
    BY <1>4, <1>5, <1>6

\* The books of a corrected request stay as the correction found them.
LEMMA HandleEnded ==
    ASSUME RowInv, ReservedInLoop, BooksAreDue, UsedMatchesBooks, NEW r \in Requests, Handle(r)
    PROVE  EndedIsCovered'
<1> SUFFICES ASSUME NEW q \in Reserved', pc'[q] = "ended"
             PROVE  ActualUsage(q)' >= Charge(q)'
    BY DEF EndedIsCovered
<1>1. q \in Requests /\ TypeOK /\ estimate'[q] # NotReserved
    BY DEF Reserved, RowInv
<1>2. CASE pc[q] = "ended"
    <2>1. booked'[q] = booked[q] /\ due'[q] = due[q] /\ estimate'[q] = estimate[q]
        BY <1>1, <1>2 DEF TypeOK, Handle, Goto, LeaveLoop, Claim, CountPasses, Refuse,
            ReserveKeyQuota, KeyQuotaExhausted, Answer, PersistLine, RecordResult, FailOver,
            Publish, Throw, SettleKey, SettleKeyFails, Crash, AgeOut, Admitted, Over
    <2>2. ActualUsage(q) >= Charge(q)
        BY <1>1, <1>2, <2>1 DEF UsedMatchesBooks, Reserved
    <2>3. QED
        BY <2>1, <2>2 DEF ActualUsage, Charge
<1>3. CASE pc[q] # "ended"
    <2>1. /\ q = r /\ pc[r] = "settling"
          /\ booked' = booked /\ due' = due /\ estimate' = estimate
        <3>1. q = r
            BY <1>1, <1>3 DEF TypeOK, Handle, Goto, LeaveLoop, Claim, CountPasses, Refuse,
                ReserveKeyQuota, KeyQuotaExhausted, Answer, PersistLine, RecordResult,
                FailOver, Publish, Throw, SettleKey, SettleKeyFails, Crash, AgeOut
        <3>2. Refuse(r) \/ KeyQuotaExhausted(r) \/ SettleKey(r)
            BY <1>1, <1>3, <3>1 DEF TypeOK, Handle, Goto, LeaveLoop, Claim, CountPasses,
                ReserveKeyQuota, Answer, PersistLine, RecordResult, FailOver, Publish, Throw,
                SettleKeyFails, Crash, AgeOut
        <3>3. ~Refuse(r) /\ ~KeyQuotaExhausted(r)
            BY <1>1, <3>1 DEF Refuse, KeyQuotaExhausted, ReservedInLoop
        <3>4. QED
            BY <1>1, <3>1, <3>2, <3>3 DEF SettleKey, Goto, TypeOK
    <2>2. ActualUsage(r) >= Charge(r)
        BY <1>1, <2>1, CorrectionExact
    <2>3. QED
        BY <2>1, <2>2 DEF ActualUsage, Charge
<1>4. QED
    BY <1>2, <1>3

-----------------------------------------------------------------------------
\* Nothing is reserved and nothing used when the Key is new.
LEMMA InitInv == Init => IInv
<1> SUFFICES ASSUME Init PROVE IInv
    OBVIOUS
<1>1. RowInv
    BY InitRow
<1>2. ReservedInLoop /\ BooksAreDue
    BY DEF Init, ReservedInLoop, BooksAreDue, Blank, Admitted, NotReserved
<1>3. \A r \in Requests : Held(r) = 0 /\ HeldOfEstimate(r) = 0
    BY DEF Init, Held, HeldOfEstimate, Reserved
<1>4. IsFiniteSet(Requests)
    BY KeyAssumption DEF KeyAssumption
<1>5. AllHeld = 0 /\ AllHeldOfEstimates = 0
    <2>1. \A r \in Requests : Shares[r] = 0 /\ EstimateShares[r] = 0
        BY <1>3 DEF Shares, EstimateShares
    <2>2. /\ SumFunctionOnSet(Shares, Requests) = 0
          /\ SumFunctionOnSet(EstimateShares, Requests) = 0
        BY <1>4, <2>1, SumZero
    <2>3. QED
        BY <2>2 DEF Shares, EstimateShares, AllHeld, AllHeldOfEstimates
<1>6. Reserved = {}
    BY DEF Init, Reserved
<1>7. UsedMatchesBooks /\ NoKeyOverrun
    BY <1>5, <1>6, KeyAssumption DEF Init, UsedMatchesBooks, NoKeyOverrun, KeyAssumption
<1>8. QED
    BY <1>1, <1>2, <1>7 DEF IInv

\* The share within the estimates is part of what used_tokens holds.
LEMMA EstimatesWithin == TypeOK => AllHeldOfEstimates <= AllHeld
<1> SUFFICES ASSUME TypeOK PROVE AllHeldOfEstimates <= AllHeld
    OBVIOUS
<1>1. IsFiniteSet(Requests)
    BY KeyAssumption DEF KeyAssumption
<1>2. \A q \in Requests : /\ EstimateShares[q] \in Int /\ Shares[q] \in Int
                          /\ EstimateShares[q] <= Shares[q]
    BY ShareType DEF Shares, EstimateShares
<1>3. SumFunctionOnSet(EstimateShares, Requests) <= SumFunctionOnSet(Shares, Requests)
    BY <1>1, <1>2, SumMonotone
<1>4. QED
    BY <1>3 DEF Shares, EstimateShares, AllHeld, AllHeldOfEstimates

\* The invariant is inductive.
LEMMA NextInv == IInv /\ [Next]_vars => IInv'
<1> SUFFICES ASSUME IInv, [Next]_vars PROVE IInv'
    OBVIOUS
<1>1. CASE Next
    <2>1. PICK r \in Requests : Handle(r)
        BY <1>1 DEF Next
    <2>2. RowInv /\ ReservedInLoop /\ BooksAreDue /\ UsedMatchesBooks
        BY DEF IInv
    <2>3. RowInv'
        BY <2>1, <2>2, HandleType, HandleCounted, HandleBounded DEF RowInv
    <2>4. ReservedInLoop' /\ BooksAreDue'
        BY <2>1, <2>2, HandleReserved, HandleBooks
    <2>5. TypeOK /\ TypeOK'
        BY <2>2, <2>3 DEF RowInv
    <2>6. /\ AllHeld \in Int /\ AllHeldOfEstimates \in Int
          /\ AllHeld' = AllHeld + Held(r)' - Held(r)
          /\ AllHeldOfEstimates' = AllHeldOfEstimates + HeldOfEstimate(r)' - HeldOfEstimate(r)
        BY <2>1, <2>5, HandleShare
    <2>7. /\ usedTokens' - usedTokens = Held(r)' - Held(r)
          /\ \/ HeldOfEstimate(r)' <= HeldOfEstimate(r)
             \/ /\ usedTokens' <= QuotaLimit
                /\ usedTokens' - usedTokens = HeldOfEstimate(r)' - HeldOfEstimate(r)
        BY <2>1, <2>2, <2>3, HandleUse
    <2>8. /\ usedTokens \in Int /\ usedTokens' \in Int /\ QuotaLimit \in Int
          /\ Held(r) \in Int /\ HeldOfEstimate(r) \in Int
          /\ Held(r)' \in Int /\ HeldOfEstimate(r)' \in Int
        BY <2>5, SharesType, KeyAssumption DEF TypeOK, KeyAssumption
    <2>9. usedTokens = AllHeld /\ AllHeldOfEstimates <= QuotaLimit
        BY DEF IInv, UsedMatchesBooks, NoKeyOverrun
    <2>10. AllHeldOfEstimates <= AllHeld
        BY <2>5, EstimatesWithin
    <2>11. usedTokens' = AllHeld'
        BY <2>6, <2>7, <2>8, <2>9
    <2>12. AllHeldOfEstimates' <= QuotaLimit
        BY <2>6, <2>7, <2>8, <2>9, <2>10
    <2>13. UsedMatchesBooks' /\ NoKeyOverrun'
        BY <2>1, <2>2, <2>11, <2>12, HandleEnded DEF UsedMatchesBooks, NoKeyOverrun,
            EndedIsCovered
    <2>14. QED
        BY <2>3, <2>4, <2>13 DEF IInv
<1>2. CASE UNCHANGED vars
    <2>1. \A r \in Requests : Held(r)' = Held(r) /\ HeldOfEstimate(r)' = HeldOfEstimate(r)
        BY <1>2 DEF vars, Held, HeldOfEstimate, ActualUsage, Reserved
    <2>2. AllHeld' = AllHeld /\ AllHeldOfEstimates' = AllHeldOfEstimates
        BY <2>1 DEF AllHeld, AllHeldOfEstimates
    <2>3. RowInv'
        BY <1>2 DEF vars, IInv, RowInv, TypeOK, RowCounted, NewHasNoRow, KeyConcurrencyBounded
    <2>4. ReservedInLoop' /\ BooksAreDue'
        BY <1>2 DEF vars, IInv, ReservedInLoop, BooksAreDue, Unsure
    <2>5. UsedMatchesBooks' /\ NoKeyOverrun'
        BY <1>2, <2>2 DEF vars, IInv, UsedMatchesBooks, NoKeyOverrun, ActualUsage, Charge,
            Reserved
    <2>6. QED
        BY <2>3, <2>4, <2>5 DEF IInv
<1>3. QED
    BY <1>1, <1>2

\* The types, the tie between rows and handlers, the bound, the books and the two
\* promises of the quota hold in every state.
THEOREM Invariance == Spec => []IInv
<1>1. QED
    BY InitInv, NextInv, PTL DEF Spec

\* used_tokens and the books of every request stay natural numbers.
THEOREM TypeCorrect == Spec => []TypeOK
<1>1. IInv => TypeOK
    BY DEF IInv, RowInv
<1>2. QED
    BY <1>1, Invariance, PTL

\* However requests of one Key insert their rows, count, fail and die, no more than
\* the limit of them are past the gate.
THEOREM KeyConcurrency == Spec => []KeyConcurrencyBounded
<1>1. IInv => KeyConcurrencyBounded
    BY DEF IInv, RowInv
<1>2. QED
    BY <1>1, Invariance, PTL

\* However requests reserve, end, fail and die, used_tokens is exactly the estimates of
\* those not corrected and what the rows say of those that were; a request that was
\* corrected after its status was published is in it with all it used.  A request that
\* died, or whose correction or a statement before it failed, is not claimed to be.
THEOREM KeyBooksExact == Spec => []UsedMatchesBooks
<1>1. IInv => UsedMatchesBooks
    BY DEF IInv
<1>2. QED
    BY <1>1, Invariance, PTL

\* No two requests pass the gate on the same remaining tokens: up to what single
\* requests use beyond their own estimates the quota of the Key holds.
THEOREM KeyQuotaHolds == Spec => []NoKeyOverrun
<1>1. IInv => NoKeyOverrun
    BY DEF IInv
<1>2. QED
    BY <1>1, Invariance, PTL
=============================================================================
