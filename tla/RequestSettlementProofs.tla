---------------------- MODULE RequestSettlementProofs ----------------------
(***************************************************************************)
(* Theorems about RequestSettlement for every number of requests,          *)
(* resources, attempts, leases and consumptions.                           *)
(*                                                                         *)
(* The first part: each safety property is a consequence of the invariant  *)
(* IInv, whose parts say, stage by stage, which rows a request can have    *)
(* written and what its process still holds.  The second part: the steps   *)
(* of RequestSettlement are steps of SettleOnce.  The third part: the      *)
(* quota counters are the sum of what each request accounts for.           *)
(***************************************************************************)
EXTENDS RequestSettlement, FiniteSums

\* Where the status stands at each stage of the process.
StageInv == \A r \in Requests :
    /\ pc[r] = "idle" <=> status[r] = "NONE"
    /\ pc[r] = "done" <=> status[r] \in Terminal

\* An attempt that has been selected has a number and a resource.
Attempting == {"preflight", "lease", "quota", "create", "undo", "unwind", "fence",
               "upstream", "evidence", "result"}
RouteInv == \A r \in Requests :
    /\ pc[r] \in {"idle", "admit"} => no[r] = 0
    /\ pc[r] \in Attempting => no[r] \in Nos /\ winner[r] \in Resources
    /\ pc[r] \in {"evidence", "result"} => last[r].kind \in Kinds

\* Every unreleased lease is in the hands of the request it was given to, and a
\* plan is called under a lease of its own.
LeaseOK(r) ==
    /\ \A l \in ReleaseLeaseIds(r) : l[1] = r
    /\ pc[r] \in {"idle", "admit", "select", "preflight", "lease", "publish"}
          => heldLease[r] = {}
    /\ pc[r] \in {"quota", "create", "fence", "upstream"} /\ winner[r] \in CodingPlan
          => <<r, no[r], winner[r]>> \in leases
    /\ \A l \in leases : l[1] = r => pc[r] # "done" /\ l \in ReleaseLeaseIds(r)
LeaseInv == \A r \in Requests : LeaseOK(r)

\* The leases of a limited plan never exceed the limit.
LimitInv ==
    /\ IsFiniteSet(leases)
    /\ LeaseLimit > 0 =>
          \A res \in CodingPlan : Cardinality(LeasesOn(res)) <= LeaseLimit

\* An attempt that is behind its request: it never was, or it is complete.
Behind(s) ==
    /\ attempt[s] # "STARTED"
    /\ attempt[s] = "NONE" <=> line[s] = "NONE"
Untouched(s) == attempt[s] = "NONE" /\ line[s] = "NONE"

\* What the rows of an attempt say at each stage of its request.
SlotOK(r, n) ==
    /\ n > no[r] => Untouched(<<r, n>>)
    /\ n < no[r] => Behind(<<r, n>>)
    /\ n = no[r] =>
        /\ pc[r] \in {"preflight", "lease", "quota", "create", "undo"} => Untouched(<<r, n>>)
        /\ pc[r] \in {"fence", "upstream", "evidence"} =>
              attempt[<<r, n>>] = "STARTED" /\ line[<<r, n>>] = "NONE"
        /\ pc[r] = "result" => attempt[<<r, n>>] # "NONE" /\ line[<<r, n>>] # "NONE"
        /\ pc[r] \in {"select", "settle", "publish", "done"} => Behind(<<r, n>>)
        /\ pc[r] \in {"unwind", "crashed"} /\ attempt[<<r, n>>] = "NONE" => line[<<r, n>>] = "NONE"
SlotInv == \A r \in Requests : \A n \in Nos : SlotOK(r, n)

\* A request with an outcome or a pending lease has a line to settle; the
\* transaction is written with the terminal status and sums the lines there are.
LedgerOK(r) ==
    /\ outcome[r] # "NONE" \/ pendLease[r] # {} => Lines(r) # {}
    /\ pc[r] = "settle" => outcome[r] # "NONE"
    /\ pc[r] # "done" => txn[r] = NoTxn
    /\ pc[r] = "done" =>
          txn[r].attempts = Lines(r) /\ (txn[r].posted <=> Lines(r) # {})
LedgerInv == \A r \in Requests : LedgerOK(r)

\* Only the current attempt can hold a reservation.
ReservationOK(r) == \A n \in Nos :
    usageRow[<<r, n>>] = "RESERVED" =>
        /\ MonthlyQuota /\ n = no[r] /\ heldGrant[r]
        /\ pc[r] \in {"create", "fence", "upstream", "evidence", "crashed"}
ReservationInv == \A r \in Requests : ReservationOK(r)

\* The committed attempt is the last one, and success means there is one.
CommitOK(r) ==
    /\ \A n \in Nos : committed[<<r, n>>] =>
        /\ n = no[r] /\ pc[r] \in {"result", "settle", "done", "crashed"}
        /\ pc[r] = "result" => WasCommitted(last[r])
    /\ outcome[r] = "OK" => pc[r] \in {"settle", "done", "crashed"}
    /\ outcome[r] = "OK" \/ status[r] = "SUCCEEDED" =>
           no[r] \in Nos /\ committed[<<r, no[r]>>]
CommitInv == \A r \in Requests : CommitOK(r)

IInv ==
    /\ TypeOK /\ StageInv /\ RouteInv /\ LeaseInv /\ LimitInv
    /\ SlotInv /\ LedgerInv /\ ReservationInv /\ CommitInv /\ ClosedMonthIsFinal

-----------------------------------------------------------------------------
(* Types.                                                                  *)

\* The quota columns keep their types when a reservation is settled ...
LEMMA SettleRowType ==
    ASSUME QuotaType, NEW s, NEW state \in RowStates, NEW actual \in Nat,
           SettleRow(s, state, actual)
    PROVE  QuotaType'
<1>1. used' \in Nat
  BY DEF QuotaType, SettleRow
<1>2. reserved' \in Nat
  BY NumberAssumption DEF NumberAssumption, QuotaType, SettleRow
<1>3. usageRow' \in [Slots -> RowStates]
  BY DEF QuotaType, SettleRow
<1> QED
  BY <1>1, <1>2, <1>3 DEF QuotaType, Slots, Nos, RowStates

\* The same for the quota counter.
LEMMA SettleCounterType ==
    ASSUME QuotaType, NEW est \in Nat, NEW act \in Nat, SettleCounter(est, act)
    PROVE  QuotaType'
  BY DEF QuotaType, SettleCounter, SettledQuota

\* ... and when all items of a request are.
LEMMA SettleQuotaItemsType ==
    ASSUME TypeOK, NEW r \in Requests, NEW current \in BOOLEAN,
           SettleQuotaItems(r, current)
    PROVE  QuotaType'
<1>1. QuotaType /\ pendEst[r] \in Nat /\ pendAct[r] \in Nat /\ Estimate \in Nat
  BY NumberAssumption DEF NumberAssumption, TypeOK, HoldType
<1>2. CASE MonthlyQuota /\ current
  BY <1>1, <1>2, SettleRowType DEF SettleQuotaItems, RowStates
<1>3. CASE MonthlyQuota /\ ~current
  BY <1>1, <1>3 DEF SettleQuotaItems, QuotaType, quotaVars
<1>4. CASE ~MonthlyQuota
  <2> DEFINE est == pendEst[r] + (IF current THEN Estimate ELSE 0)
  <2>1. est \in Nat
    BY <1>1
  <2>2. SettleCounter(est, pendAct[r])
    BY <1>4 DEF SettleQuotaItems
  <2> QED
    BY <1>1, <2>1, <2>2, SettleCounterType
<1> QED
  BY <1>2, <1>3, <1>4

\* The reservation of the current attempt is given back.
LEMMA ReturnGrantType ==
    ASSUME QuotaType, NEW r \in Requests, NEW state \in RowStates,
           IF heldGrant[r]
           THEN IF MonthlyQuota THEN SettleRow(Cur(r), state,
              0) ELSE SettleCounter(Estimate, 0)
           ELSE UNCHANGED quotaVars
    PROVE  QuotaType'
<1>1. CASE heldGrant[r] /\ MonthlyQuota
  BY <1>1, SettleRowType
<1>2. CASE heldGrant[r] /\ ~MonthlyQuota
  BY <1>2, NumberAssumption, SettleCounterType DEF NumberAssumption
<1>3. CASE ~heldGrant[r]
  BY <1>3 DEF QuotaType, quotaVars
<1> QED
  BY <1>1, <1>2, <1>3

\* A flag that is written with the result of a test stays a flag.
LEMMA CommittedType ==
    ASSUME NEW f \in [Slots -> BOOLEAN], NEW s, NEW res
    PROVE  [f EXCEPT ![s] = WasCommitted(res)] \in [Slots -> BOOLEAN]
<1>1. WasCommitted(res) \in BOOLEAN
  BY DEF WasCommitted
<1> QED
  BY <1>1, Zenon

\* Every step keeps every variable in its type.
LEMMA TypeStep ==
    ASSUME TypeOK, RouteInv, [Next]_vars
    PROVE  TypeOK'
<1> USE NumberAssumption, ResourceAssumption
    DEF NumberAssumption, ResourceAssumption, TypeOK, Slots, Nos, Stages, Statuses,
        Lease, NoResult, Kinds, Terminal, Goto,
        factVars, quotaVars, billVars, pendVars, routeVars, processVars
<1>1. ASSUME NEW r \in Requests, Claim(r) PROVE TypeOK'
  BY <1>1 DEF Claim, FactType, QuotaType, BillType, RouteType, HoldType
<1>2. ASSUME NEW r \in Requests, AdmitReject(r) PROVE TypeOK'
  BY <1>2 DEF AdmitReject, FailUnsettled, FactType, QuotaType, BillType, RouteType, HoldType
<1>3. ASSUME NEW r \in Requests, Admit(r) PROVE TypeOK'
  BY <1>3 DEF Admit, FactType, QuotaType, BillType, RouteType, HoldType
<1>4. ASSUME NEW r \in Requests, SelectWinner(r) PROVE TypeOK'
  BY <1>4 DEF SelectWinner, Candidates, FactType, QuotaType, BillType, RouteType, HoldType
<1>5. ASSUME NEW r \in Requests, EndLoop(r) PROVE TypeOK'
  BY <1>5 DEF EndLoop, LeaveLoop, FactType, QuotaType, BillType, RouteType, HoldType
<1>6. ASSUME NEW r \in Requests, DispatchTerminates(r) PROVE TypeOK'
  BY <1>6
     DEF DispatchTerminates, FailUnsettled, FactType, QuotaType, BillType, RouteType,
         HoldType
<1>7. ASSUME NEW r \in Requests, PreflightSkips(r) PROVE TypeOK'
  BY <1>7
     DEF PreflightSkips, SkipCandidate, RouteInv, Attempting, FactType, QuotaType,
         BillType, RouteType, HoldType
<1>8. ASSUME NEW r \in Requests, PreflightStops(r) PROVE TypeOK'
  BY <1>8
     DEF PreflightStops, LeaveLoop, RouteInv, Attempting, FactType, QuotaType, BillType,
         RouteType, HoldType
<1>9. ASSUME NEW r \in Requests, PreflightPasses(r) PROVE TypeOK'
  BY <1>9 DEF PreflightPasses, FactType, QuotaType, BillType, RouteType, HoldType
<1>10. ASSUME NEW r \in Requests, AcquireLease(r) PROVE TypeOK'
  <2>1. QuotaType'
    BY <1>10 DEF QuotaType, AcquireLease
  <2>2. FactType'
    BY <1>10 DEF FactType, AcquireLease, RouteInv, Attempting
  <2>3. BillType' /\ leases' \subseteq Lease
    BY <1>10 DEF BillType, RouteType, AcquireLease, RouteInv, Attempting
  <2>4. RouteType'
    BY <1>10 DEF RouteType, AcquireLease, RouteInv, Attempting
  <2>5. HoldType'
    BY <1>10 DEF HoldType, RouteType, AcquireLease, RouteInv, Attempting
  <2> QED
    BY <2>1, <2>2, <2>3, <2>4, <2>5
<1>11. ASSUME NEW r \in Requests, LeaseWaitEnds(r) PROVE TypeOK'
  BY <1>11
     DEF LeaseWaitEnds, SkipCandidate, RouteInv, Attempting, FactType, QuotaType,
         BillType, RouteType, HoldType
<1>12. ASSUME NEW r \in Requests, ReserveQuota(r) PROVE TypeOK'
  <2>1. QuotaType'
    BY <1>12 DEF QuotaType, RowStates, ReserveQuota
  <2>2. FactType'
    BY <1>12 DEF FactType, ReserveQuota
  <2>3. BillType' /\ leases' \subseteq Lease
    BY <1>12 DEF BillType, RouteType, ReserveQuota
  <2>4. RouteType'
    BY <1>12 DEF RouteType, ReserveQuota
  <2>5. HoldType'
    BY <1>12 DEF HoldType, RouteType, ReserveQuota
  <2> QED
    BY <2>1, <2>2, <2>3, <2>4, <2>5
<1>13. ASSUME NEW r \in Requests, QuotaRejects(r) PROVE TypeOK'
  <2>1. QuotaType'
    BY <1>13 DEF QuotaType, QuotaRejects
  <2>2. FactType'
    BY <1>13 DEF FactType, QuotaRejects, LeaveLoop, RouteInv, Attempting
  <2>3. BillType' /\ leases' \subseteq Lease
    BY <1>13 DEF BillType, RouteType, QuotaRejects, LeaveLoop, RouteInv, Attempting
  <2>4. RouteType'
    BY <1>13 DEF RouteType, QuotaRejects, LeaveLoop, RouteInv, Attempting
  <2>5. HoldType'
    BY <1>13 DEF HoldType, RouteType, QuotaRejects, LeaveLoop, RouteInv, Attempting
  <2> QED
    BY <2>1, <2>2, <2>3, <2>4, <2>5
<1>14. ASSUME NEW r \in Requests, CreateAttempt(r) PROVE TypeOK'
  BY <1>14
     DEF CreateAttempt, RouteInv, Attempting, FactType, QuotaType, BillType, RouteType,
         HoldType
<1>15. ASSUME NEW r \in Requests, CreateRefused(r) PROVE TypeOK'
  <2>1. QuotaType'
    BY <1>15, ReturnGrantType DEF RowStates, CreateRefused, ReturnGrant
  <2>2. FactType'
    BY <1>15 DEF FactType, CreateRefused, ReturnGrant
  <2>3. BillType' /\ leases' \subseteq Lease
    BY <1>15 DEF BillType, RouteType, CreateRefused, ReturnGrant
  <2>4. RouteType'
    BY <1>15 DEF RouteType, CreateRefused, ReturnGrant
  <2>5. HoldType'
    BY <1>15 DEF HoldType, RouteType, CreateRefused, ReturnGrant
  <2> QED
    BY <2>1, <2>2, <2>3, <2>4, <2>5
<1>15a. ASSUME NEW r \in Requests, CreateThrows(r) PROVE TypeOK'
  <2>1. QuotaType'
    BY <1>15a, ReturnGrantType DEF RowStates, CreateThrows, ReturnGrant
  <2>2. FactType'
    BY <1>15a DEF FactType, CreateThrows, RouteInv, Attempting, RouteType
  <2>3. BillType' /\ leases' \subseteq Lease
    BY <1>15a DEF BillType, RouteType, CreateThrows, ReturnGrant
  <2>4. RouteType'
    BY <1>15a DEF RouteType, CreateThrows, ReturnGrant
  <2>5. HoldType'
    BY <1>15a DEF HoldType, RouteType, CreateThrows, ReturnGrant
  <2> QED
    BY <2>1, <2>2, <2>3, <2>4, <2>5
<1>16. ASSUME NEW r \in Requests, UndoLease(r) PROVE TypeOK'
  BY <1>16 DEF UndoLease, FactType, QuotaType, BillType, RouteType, HoldType
<1>17. ASSUME NEW r \in Requests, FenceRejects(r) PROVE TypeOK'
  <2>1. QuotaType'
    BY <1>17, SettleQuotaItemsType DEF HoldType, FenceRejects
  <2>2. FactType'
    <3>1. attempt' \in [Slots -> {"NONE", "STARTED", "FINISHED"}]
      BY <1>17 DEF FactType, FenceRejects, RejectedEvidence
    <3>2. line' \in [Slots -> {"NONE", "MEASURED", "UNKNOWN"}]
      BY <1>17 DEF FactType, FenceRejects, RejectedEvidence
    <3>3. txn' \in [Requests -> [posted : BOOLEAN, attempts : SUBSET Nos]]
      <4>1. Lines(r) \cup {no[r]} \subseteq Nos
        BY <1>17 DEF FenceRejects, Lines, RouteInv, Attempting
      <4> QED
        BY <1>17, <4>1 DEF FactType, FenceRejects
    <3> QED
      BY <1>17, <3>1, <3>2, <3>3 DEF FactType, FenceRejects, RejectedEvidence
  <2>3. BillType' /\ leases' \subseteq Lease
    BY <1>17 DEF BillType, RouteType, FenceRejects, RejectedEvidence, Lines
  <2>4. RouteType'
    BY <1>17 DEF RouteType, FenceRejects, RejectedEvidence, Lines
  <2>5. HoldType'
    BY <1>17 DEF HoldType, RouteType, FenceRejects, RejectedEvidence, Lines
  <2> QED
    BY <2>1, <2>2, <2>3, <2>4, <2>5
<1>18. ASSUME NEW r \in Requests, FenceFailsOver(r) PROVE TypeOK'
  <2>1. QuotaType'
    BY <1>18, ReturnGrantType DEF RowStates, FenceFailsOver, GiveUpAttempt
  <2>2. FactType'
    BY <1>18
       DEF FactType, FenceFailsOver, GiveUpAttempt, RejectedEvidence, RouteInv, Attempting
  <2>3. BillType' /\ leases' \subseteq Lease
    BY <1>18
       DEF BillType, RouteType, FenceFailsOver, GiveUpAttempt, RejectedEvidence,
           RouteInv, Attempting
  <2>4. RouteType'
    BY <1>18
       DEF RouteType, FenceFailsOver, GiveUpAttempt, RejectedEvidence, RouteInv, Attempting
  <2>5. HoldType'
    BY <1>18
       DEF HoldType, RouteType, FenceFailsOver, GiveUpAttempt, RejectedEvidence,
           RouteInv, Attempting
  <2> QED
    BY <2>1, <2>2, <2>3, <2>4, <2>5
<1>19. ASSUME NEW r \in Requests, FenceReselects(r) PROVE TypeOK'
  <2>1. QuotaType'
    BY <1>19, ReturnGrantType DEF RowStates, FenceReselects, GiveUpAttempt
  <2>2. FactType'
    BY <1>19
       DEF FactType, FenceReselects, GiveUpAttempt, RejectedEvidence, RouteInv, Attempting
  <2>3. BillType' /\ leases' \subseteq Lease
    BY <1>19
       DEF BillType, RouteType, FenceReselects, GiveUpAttempt, RejectedEvidence,
           RouteInv, Attempting
  <2>4. RouteType'
    BY <1>19
       DEF RouteType, FenceReselects, GiveUpAttempt, RejectedEvidence, RouteInv, Attempting
  <2>5. HoldType'
    BY <1>19
       DEF HoldType, RouteType, FenceReselects, GiveUpAttempt, RejectedEvidence,
           RouteInv, Attempting
  <2> QED
    BY <2>1, <2>2, <2>3, <2>4, <2>5
<1>20. ASSUME NEW r \in Requests, FencePasses(r) PROVE TypeOK'
  BY <1>20 DEF FencePasses, FactType, QuotaType, BillType, RouteType, HoldType
<1>21. ASSUME NEW r \in Requests, UpstreamAnswers(r) PROVE TypeOK'
  BY <1>21 DEF UpstreamAnswers, Results, FactType, QuotaType, BillType, RouteType, HoldType
<1>22. ASSUME NEW r \in Requests, PersistEvidence(r) PROVE TypeOK'
  <2>1. QuotaType'
    <3>1. CASE UNCHANGED quotaVars
      BY <3>1 DEF QuotaType
    <3>2. CASE usageRow' = [usageRow EXCEPT ![Cur(r)] = "UNKNOWN"] /\ UNCHANGED <<used, reserved>>
      BY <3>2 DEF QuotaType, RowStates
    <3>3. CASE SettleRow(Cur(r), "SETTLED", last[r].amount)
      BY <3>3, SettleRowType DEF RowStates, HoldType
    <3> QED
      BY <1>22, <3>1, <3>2, <3>3 DEF PersistEvidence
  <2>2. FactType'
    <3>1. attempt' \in [Slots -> {"NONE", "STARTED", "FINISHED"}]
      BY <1>22 DEF FactType, PersistEvidence
    <3>2. committed' \in [Slots -> BOOLEAN]
      <4>1. CASE MonthlyQuota
        <5>1. committed' = [committed EXCEPT ![Cur(r)] = WasCommitted(last[r])]
          BY <1>22, <4>1 DEF PersistEvidence
        <5> QED
          BY <5>1, CommittedType DEF FactType
      <4>2. CASE ~MonthlyQuota
        BY <1>22, <4>2 DEF FactType, PersistEvidence
      <4> QED
        BY <4>1, <4>2
    <3>3. line' \in [Slots -> {"NONE", "MEASURED", "UNKNOWN"}] /\ amount' \in [Slots -> Nat]
      BY <1>22 DEF FactType, HoldType, PersistEvidence
    <3> QED
      BY <1>22, <3>1, <3>2, <3>3 DEF FactType, PersistEvidence
  <2>3. BillType' /\ leases' \subseteq Lease
    BY <1>22 DEF BillType, RouteType, PersistEvidence
  <2>4. RouteType'
    BY <1>22 DEF RouteType, PersistEvidence
  <2>5. HoldType'
    BY <1>22 DEF HoldType, RouteType, PersistEvidence
  <2> QED
    BY <2>1, <2>2, <2>3, <2>4, <2>5
<1>23. ASSUME NEW r \in Requests, RecordResult(r) PROVE TypeOK'
  <2>1. QuotaType'
    BY <1>23 DEF QuotaType, RecordResult
  <2>2. FactType'
    <3>1. attempt' \in [Slots -> {"NONE", "STARTED", "FINISHED"}]
      BY <1>23 DEF FactType, RecordResult
    <3>2. committed' \in [Slots -> BOOLEAN]
      BY <1>23, CommittedType DEF FactType, RecordResult
    <3> QED
      BY <1>23, <3>1, <3>2 DEF FactType, RecordResult
  <2>3. BillType' /\ leases' \subseteq Lease
    BY <1>23 DEF BillType, RouteType, RecordResult, SkipCandidate, RouteInv, Attempting
  <2>4. RouteType'
    BY <1>23 DEF RouteType, RecordResult, SkipCandidate, RouteInv, Attempting
  <2>5. HoldType'
    BY <1>23 DEF HoldType, RouteType, RecordResult, SkipCandidate, RouteInv, Attempting
  <2> QED
    BY <2>1, <2>2, <2>3, <2>4, <2>5
<1>24. ASSUME NEW r \in Requests, SettleRequest(r) PROVE TypeOK'
  <2>1. QuotaType'
    BY <1>24, SettleQuotaItemsType DEF SettleRequest, Finalize
  <2>2. FactType'
    BY <1>24 DEF FactType, SettleRequest, Finalize, Lines
  <2>3. BillType' /\ leases' \subseteq Lease
    BY <1>24 DEF BillType, RouteType, SettleRequest, Finalize, Lines
  <2>4. RouteType'
    BY <1>24 DEF RouteType, SettleRequest, Finalize, Lines
  <2>5. HoldType'
    BY <1>24 DEF HoldType, RouteType, SettleRequest, Finalize, Lines
  <2> QED
    BY <2>1, <2>2, <2>3, <2>4, <2>5
<1>25. ASSUME NEW r \in Requests, PublishFailed(r) PROVE TypeOK'
  <2>1. CASE FailUnsettled(r)
    BY <2>1 DEF FailUnsettled, FactType, QuotaType, BillType, RouteType, HoldType
  <2>2. CASE Finalize(r, "FAILED")
    <3>1. QuotaType'
      BY <2>2, SettleQuotaItemsType DEF Finalize
    <3>2. FactType'
      BY <2>2 DEF FactType, Finalize, Lines
    <3> QED
      BY <2>2, <3>1, <3>2 DEF Finalize, BillType, RouteType, HoldType
  <2> QED
    BY <1>25, <2>1, <2>2 DEF PublishFailed
<1>26. ASSUME NEW r \in Requests, Crash(r) PROVE TypeOK'
  BY <1>26 DEF Crash, FactType, QuotaType, BillType, RouteType, HoldType
<1>27. ASSUME Billing PROVE TypeOK'
  BY <1>27
     DEF Billing, BeginClose, CommitClose, AbortClose, ReopenMonth, LinedSlots, FactType,
         QuotaType, BillType, RouteType, HoldType
<1>28. ASSUME UNCHANGED vars PROVE TypeOK'
  BY <1>28 DEF vars, FactType, QuotaType, BillType, RouteType, HoldType
<1> QED
  BY <1>1, <1>2, <1>3, <1>4, <1>5, <1>6, <1>7, <1>8, <1>9, <1>10, <1>11, <1>12, <1>13,
     <1>14, <1>15, <1>15a, <1>16, <1>17, <1>18, <1>19, <1>20, <1>21, <1>22, <1>23, <1>24, <1>25,
        <1>26, <1>27, <1>28
     DEF Next, Pipeline

-----------------------------------------------------------------------------
(* The invariant, part by part.                                            *)

\* A terminal status is where the process stops, and only there.
LEMMA StageStep ==
    ASSUME TypeOK, StageInv, [Next]_vars
    PROVE  StageInv'
<1> USE DEF TypeOK, FactType, RouteType, StageInv, Stages, Statuses, Terminal, InProgress,
        Goto, factVars, routeVars, processVars
<1>1. ASSUME NEW r \in Requests, Claim(r) PROVE StageInv'
  BY <1>1 DEF Claim
<1>2. ASSUME NEW r \in Requests, AdmitReject(r) PROVE StageInv'
  BY <1>2 DEF AdmitReject, FailUnsettled
<1>3. ASSUME NEW r \in Requests, Admit(r) PROVE StageInv'
  BY <1>3 DEF Admit
<1>4. ASSUME NEW r \in Requests, SelectWinner(r) PROVE StageInv'
  BY <1>4 DEF SelectWinner, Candidates
<1>5. ASSUME NEW r \in Requests, EndLoop(r) PROVE StageInv'
  BY <1>5 DEF EndLoop, LeaveLoop
<1>6. ASSUME NEW r \in Requests, DispatchTerminates(r) PROVE StageInv'
  BY <1>6 DEF DispatchTerminates, FailUnsettled
<1>7. ASSUME NEW r \in Requests, PreflightSkips(r) PROVE StageInv'
  BY <1>7 DEF PreflightSkips, SkipCandidate
<1>8. ASSUME NEW r \in Requests, PreflightStops(r) PROVE StageInv'
  BY <1>8 DEF PreflightStops, LeaveLoop
<1>9. ASSUME NEW r \in Requests, PreflightPasses(r) PROVE StageInv'
  BY <1>9 DEF PreflightPasses
<1>10. ASSUME NEW r \in Requests, AcquireLease(r) PROVE StageInv'
  BY <1>10 DEF AcquireLease
<1>11. ASSUME NEW r \in Requests, LeaseWaitEnds(r) PROVE StageInv'
  BY <1>11 DEF LeaseWaitEnds, SkipCandidate
<1>12. ASSUME NEW r \in Requests, ReserveQuota(r) PROVE StageInv'
  BY <1>12 DEF ReserveQuota
<1>13. ASSUME NEW r \in Requests, QuotaRejects(r) PROVE StageInv'
  BY <1>13 DEF QuotaRejects, LeaveLoop
<1>14. ASSUME NEW r \in Requests, CreateAttempt(r) PROVE StageInv'
  BY <1>14 DEF CreateAttempt
<1>15. ASSUME NEW r \in Requests, CreateRefused(r) PROVE StageInv'
  BY <1>15 DEF CreateRefused, ReturnGrant
<1>15a. ASSUME NEW r \in Requests, CreateThrows(r) PROVE StageInv'
  BY <1>15a DEF CreateThrows, ReturnGrant
<1>16. ASSUME NEW r \in Requests, UndoLease(r) PROVE StageInv'
  BY <1>16 DEF UndoLease
<1>17. ASSUME NEW r \in Requests, FenceRejects(r) PROVE StageInv'
  BY <1>17 DEF FenceRejects, RejectedEvidence
<1>18. ASSUME NEW r \in Requests, FenceFailsOver(r) PROVE StageInv'
  BY <1>18 DEF FenceFailsOver, GiveUpAttempt, RejectedEvidence
<1>19. ASSUME NEW r \in Requests, FenceReselects(r) PROVE StageInv'
  BY <1>19 DEF FenceReselects, GiveUpAttempt, RejectedEvidence
<1>20. ASSUME NEW r \in Requests, FencePasses(r) PROVE StageInv'
  BY <1>20 DEF FencePasses
<1>21. ASSUME NEW r \in Requests, UpstreamAnswers(r) PROVE StageInv'
  BY <1>21 DEF UpstreamAnswers, Results, Kinds
<1>22. ASSUME NEW r \in Requests, PersistEvidence(r) PROVE StageInv'
  BY <1>22 DEF PersistEvidence
<1>23. ASSUME NEW r \in Requests, RecordResult(r) PROVE StageInv'
  BY <1>23 DEF RecordResult, SkipCandidate
<1>24. ASSUME NEW r \in Requests, SettleRequest(r) PROVE StageInv'
  BY <1>24 DEF SettleRequest, Finalize, ReadyToFinalize
<1>25. ASSUME NEW r \in Requests, PublishFailed(r) PROVE StageInv'
  <2>1. CASE FailUnsettled(r)
    BY <1>25, <2>1 DEF PublishFailed, FailUnsettled
  <2>2. CASE Finalize(r, "FAILED")
    BY <1>25, <2>2 DEF PublishFailed, Finalize, ReadyToFinalize
  <2> QED
    BY <1>25, <2>1, <2>2 DEF PublishFailed
<1>26. ASSUME NEW r \in Requests, Crash(r) PROVE StageInv'
  BY <1>26 DEF Crash
<1>27. ASSUME Billing PROVE StageInv'
  BY <1>27 DEF Billing, BeginClose, CommitClose, AbortClose, ReopenMonth
<1>28. ASSUME UNCHANGED vars PROVE StageInv'
  BY <1>28 DEF vars
<1> QED
  BY <1>1, <1>2, <1>3, <1>4, <1>5, <1>6, <1>7, <1>8, <1>9, <1>10, <1>11, <1>12, <1>13,
     <1>14, <1>15, <1>15a, <1>16, <1>17, <1>18, <1>19, <1>20, <1>21, <1>22, <1>23, <1>24, <1>25,
        <1>26, <1>27, <1>28
     DEF Next, Pipeline

\* The number and the resource of an attempt are known while it is under way.
LEMMA RouteStep ==
    ASSUME TypeOK, RouteInv, [Next]_vars
    PROVE  RouteInv'
<1> USE NumberAssumption, ResourceAssumption
    DEF NumberAssumption, ResourceAssumption, TypeOK, RouteType, HoldType, RouteInv,
        Attempting, Stages, Nos, Kinds, Goto, routeVars, processVars
<1>1. ASSUME NEW r \in Requests, Claim(r) PROVE RouteInv'
  BY <1>1 DEF Claim
<1>2. ASSUME NEW r \in Requests, AdmitReject(r) PROVE RouteInv'
  BY <1>2 DEF AdmitReject, FailUnsettled
<1>3. ASSUME NEW r \in Requests, Admit(r) PROVE RouteInv'
  BY <1>3 DEF Admit
<1>4. ASSUME NEW r \in Requests, SelectWinner(r) PROVE RouteInv'
  BY <1>4 DEF SelectWinner, Candidates
<1>5. ASSUME NEW r \in Requests, EndLoop(r) PROVE RouteInv'
  BY <1>5 DEF EndLoop, LeaveLoop
<1>6. ASSUME NEW r \in Requests, DispatchTerminates(r) PROVE RouteInv'
  BY <1>6 DEF DispatchTerminates, FailUnsettled
<1>7. ASSUME NEW r \in Requests, PreflightSkips(r) PROVE RouteInv'
  BY <1>7 DEF PreflightSkips, SkipCandidate
<1>8. ASSUME NEW r \in Requests, PreflightStops(r) PROVE RouteInv'
  BY <1>8 DEF PreflightStops, LeaveLoop
<1>9. ASSUME NEW r \in Requests, PreflightPasses(r) PROVE RouteInv'
  BY <1>9 DEF PreflightPasses
<1>10. ASSUME NEW r \in Requests, AcquireLease(r) PROVE RouteInv'
  BY <1>10 DEF AcquireLease
<1>11. ASSUME NEW r \in Requests, LeaseWaitEnds(r) PROVE RouteInv'
  BY <1>11 DEF LeaseWaitEnds, SkipCandidate
<1>12. ASSUME NEW r \in Requests, ReserveQuota(r) PROVE RouteInv'
  BY <1>12 DEF ReserveQuota
<1>13. ASSUME NEW r \in Requests, QuotaRejects(r) PROVE RouteInv'
  BY <1>13 DEF QuotaRejects, LeaveLoop
<1>14. ASSUME NEW r \in Requests, CreateAttempt(r) PROVE RouteInv'
  BY <1>14 DEF CreateAttempt
<1>15. ASSUME NEW r \in Requests, CreateRefused(r) PROVE RouteInv'
  BY <1>15 DEF CreateRefused, ReturnGrant
<1>15a. ASSUME NEW r \in Requests, CreateThrows(r) PROVE RouteInv'
  BY <1>15a DEF CreateThrows, ReturnGrant
<1>16. ASSUME NEW r \in Requests, UndoLease(r) PROVE RouteInv'
  BY <1>16 DEF UndoLease
<1>17. ASSUME NEW r \in Requests, FenceRejects(r) PROVE RouteInv'
  BY <1>17 DEF FenceRejects
<1>18. ASSUME NEW r \in Requests, FenceFailsOver(r) PROVE RouteInv'
  BY <1>18 DEF FenceFailsOver, GiveUpAttempt
<1>19. ASSUME NEW r \in Requests, FenceReselects(r) PROVE RouteInv'
  BY <1>19 DEF FenceReselects, GiveUpAttempt
<1>20. ASSUME NEW r \in Requests, FencePasses(r) PROVE RouteInv'
  BY <1>20 DEF FencePasses
<1>21. ASSUME NEW r \in Requests, UpstreamAnswers(r) PROVE RouteInv'
  BY <1>21 DEF UpstreamAnswers, Results
<1>22. ASSUME NEW r \in Requests, PersistEvidence(r) PROVE RouteInv'
  BY <1>22 DEF PersistEvidence
<1>23. ASSUME NEW r \in Requests, RecordResult(r) PROVE RouteInv'
  BY <1>23 DEF RecordResult, SkipCandidate
<1>24. ASSUME NEW r \in Requests, SettleRequest(r) PROVE RouteInv'
  BY <1>24 DEF SettleRequest, Finalize
<1>25. ASSUME NEW r \in Requests, PublishFailed(r) PROVE RouteInv'
  BY <1>25 DEF PublishFailed, FailUnsettled, Finalize
<1>26. ASSUME NEW r \in Requests, Crash(r) PROVE RouteInv'
  BY <1>26 DEF Crash
<1>27. ASSUME Billing PROVE RouteInv'
  BY <1>27 DEF Billing, BeginClose, CommitClose, AbortClose, ReopenMonth
<1>28. ASSUME UNCHANGED vars PROVE RouteInv'
  BY <1>28 DEF vars
<1> QED
  BY <1>1, <1>2, <1>3, <1>4, <1>5, <1>6, <1>7, <1>8, <1>9, <1>10, <1>11, <1>12, <1>13,
     <1>14, <1>15, <1>15a, <1>16, <1>17, <1>18, <1>19, <1>20, <1>21, <1>22, <1>23, <1>24, <1>25,
        <1>26, <1>27, <1>28
     DEF Next, Pipeline

\* A step of one request writes only its own variables and, of its attempts, only
\* the current one.
RowsKept(r) == \A s \in Slots : s # Cur(r) =>
    /\ attempt'[s] = attempt[s] /\ line'[s] = line[s] /\ amount'[s] = amount[s]
    /\ committed'[s] = committed[s] /\ usageRow'[s] = usageRow[s]
    /\ resource'[s] = resource[s]
OthersKept(r) == \A q \in Requests : q # r =>
    /\ pc'[q] = pc[q] /\ no'[q] = no[q] /\ winner'[q] = winner[q]
    /\ heldLease'[q] = heldLease[q] /\ heldGrant'[q] = heldGrant[q]
    /\ pendLease'[q] = pendLease[q] /\ outcome'[q] = outcome[q] /\ last'[q] = last[q]
    /\ status'[q] = status[q] /\ txn'[q] = txn[q]
    /\ pendEst'[q] = pendEst[q] /\ pendAct'[q] = pendAct[q]
OwnStep(r) == Claim(r) \/ Pipeline(r) \/ Crash(r)

\* ... as all of its actions show.
LEMMA Frame ==
    ASSUME TypeOK, NEW r \in Requests, OwnStep(r)
    PROVE  RowsKept(r) /\ OthersKept(r)
<1> USE DEF TypeOK, FactType, QuotaType, RouteType, HoldType, RowsKept, OthersKept, Goto,
        factVars, quotaVars, pendVars, routeVars
<1>1. CASE Claim(r)
  BY <1>1 DEF Claim
<1>2. CASE AdmitReject(r)
  BY <1>2 DEF AdmitReject, FailUnsettled
<1>3. CASE Admit(r)
  BY <1>3 DEF Admit
<1>4. CASE SelectWinner(r)
  BY <1>4 DEF SelectWinner, Candidates
<1>5. CASE EndLoop(r)
  BY <1>5 DEF EndLoop, LeaveLoop
<1>6. CASE DispatchTerminates(r)
  BY <1>6 DEF DispatchTerminates, FailUnsettled
<1>7. CASE PreflightSkips(r)
  BY <1>7 DEF PreflightSkips, SkipCandidate
<1>8. CASE PreflightStops(r)
  BY <1>8 DEF PreflightStops, LeaveLoop
<1>9. CASE PreflightPasses(r)
  BY <1>9 DEF PreflightPasses
<1>10. CASE AcquireLease(r)
  BY <1>10 DEF AcquireLease
<1>11. CASE LeaseWaitEnds(r)
  BY <1>11 DEF LeaseWaitEnds, SkipCandidate
<1>12. CASE ReserveQuota(r)
  BY <1>12 DEF ReserveQuota
<1>13. CASE QuotaRejects(r)
  BY <1>13 DEF QuotaRejects, LeaveLoop
<1>14. CASE CreateAttempt(r)
  BY <1>14 DEF CreateAttempt
<1>15. CASE CreateRefused(r)
  BY <1>15 DEF CreateRefused, ReturnGrant, SettleRow, SettleCounter
<1>15a. CASE CreateThrows(r)
  BY <1>15a DEF CreateThrows, ReturnGrant, SettleRow, SettleCounter
<1>16. CASE UndoLease(r)
  BY <1>16 DEF UndoLease
<1>17. CASE FenceRejects(r)
  BY <1>17 DEF FenceRejects, RejectedEvidence, SettleQuotaItems, SettleRow, SettleCounter
<1>18. CASE FenceFailsOver(r)
  BY <1>18 DEF FenceFailsOver, GiveUpAttempt, RejectedEvidence, SettleRow, SettleCounter
<1>19. CASE FenceReselects(r)
  BY <1>19 DEF FenceReselects, GiveUpAttempt, RejectedEvidence, SettleRow, SettleCounter
<1>20. CASE FencePasses(r)
  BY <1>20 DEF FencePasses
<1>21. CASE UpstreamAnswers(r)
  BY <1>21 DEF UpstreamAnswers, Results, Kinds
<1>22. CASE PersistEvidence(r)
  BY <1>22 DEF PersistEvidence, SettleRow
<1>23. CASE RecordResult(r)
  BY <1>23 DEF RecordResult, SkipCandidate
<1>24. CASE SettleRequest(r)
  BY <1>24 DEF SettleRequest, Finalize, SettleQuotaItems, SettleCounter
<1>25. CASE PublishFailed(r)
  <2>1. CASE FailUnsettled(r)
    BY <1>25, <2>1 DEF PublishFailed, FailUnsettled
  <2>2. CASE Finalize(r, "FAILED")
    BY <1>25, <2>2 DEF PublishFailed, Finalize, SettleQuotaItems, SettleCounter
  <2> QED
    BY <1>25, <2>1, <2>2 DEF PublishFailed
<1>26. CASE Crash(r)
  BY <1>26 DEF Crash
<1> QED
  BY <1>1, <1>2, <1>3, <1>4, <1>5, <1>6, <1>7, <1>8, <1>9, <1>10, <1>11, <1>12, <1>13,
     <1>14, <1>15, <1>15a, <1>16, <1>17, <1>18, <1>19, <1>20, <1>21, <1>22, <1>23, <1>24, <1>25,
        <1>26
     DEF OwnStep, Pipeline

\* The rows of an attempt follow the stages of its request.
LEMMA SlotStep ==
    ASSUME TypeOK, RouteInv, SlotInv, NEW r \in Requests, OwnStep(r)
    PROVE  SlotInv'
<1>a. RowsKept(r) /\ OthersKept(r)
  BY Frame
<1>b. ASSUME NEW q \in Requests, q # r, NEW n \in Nos
      PROVE  SlotOK(q, n)'
  <2>1. <<q, n>> \in Slots /\ <<q, n>> # Cur(r)
    BY <1>b DEF Slots, Cur
  <2>2. pc'[q] = pc[q] /\ no'[q] = no[q]
    BY <1>a, <1>b DEF OthersKept
  <2>3. attempt'[<<q, n>>] = attempt[<<q, n>>] /\ line'[<<q, n>>] = line[<<q, n>>]
    BY <1>a, <2>1 DEF RowsKept
  <2>4. SlotOK(q, n)
    BY DEF SlotInv
  <2> QED
    BY <2>2, <2>3, <2>4 DEF SlotOK, Behind, Untouched
<1>c. ASSUME NEW n \in Nos, n # no[r]
      PROVE  attempt'[<<r, n>>] = attempt[<<r, n>>] /\ line'[<<r, n>>] = line[<<r, n>>]
  BY <1>a, <1>c DEF RowsKept, Slots, Cur
<1>d. no[r] \in Nat /\ Nos \subseteq Nat
  BY NumberAssumption DEF NumberAssumption, TypeOK, RouteType, Nos
<1>e. ASSUME no'[r] = no[r], no[r] \in Nos => SlotOK(r, no[r])'
      PROVE  SlotInv'
  <2>1. ASSUME NEW n \in Nos PROVE SlotOK(r, n)'
    <3>1. CASE n = no[r]
      BY <1>e, <3>1
    <3>2. CASE n # no[r]
      <4>1. SlotOK(r, n)
        BY DEF SlotInv
      <4>2. attempt'[<<r, n>>] = attempt[<<r, n>>] /\ line'[<<r, n>>] = line[<<r, n>>]
        BY <1>c, <3>2
      <4> QED
        BY <1>e, <3>2, <4>1, <4>2 DEF SlotOK, Behind, Untouched
    <3> QED
      BY <3>1, <3>2
  <2> QED
    BY <1>b, <2>1 DEF SlotInv, Nos
<1>f. no[r] \in Nos => SlotOK(r, no[r])
  BY DEF SlotInv
<1>g. no[r] \in Nos => Cur(r) \in Slots
  BY DEF Cur, Slots
<1>1. CASE Claim(r)
  BY <1>e, <1>f, <1>1 DEF TypeOK, RouteType, Stages, SlotOK, Behind, Untouched, Goto,
     factVars, routeVars, Claim
<1>2. CASE AdmitReject(r)
  BY NumberAssumption, <1>e, <1>f, <1>2 DEF NumberAssumption, RouteInv, Nos, TypeOK,
     RouteType, Stages, SlotOK, Behind, Untouched, Goto,
     factVars, routeVars, AdmitReject, FailUnsettled
<1>3. CASE Admit(r)
  BY NumberAssumption, <1>e, <1>f, <1>3 DEF NumberAssumption, RouteInv, Nos, TypeOK,
     RouteType, Stages, SlotOK, Behind, Untouched, Goto,
     factVars, routeVars, Admit
<1>4. CASE SelectWinner(r)
  <2>1. pc[r] = "select" /\ pc'[r] = "preflight" /\ no'[r] = no[r] + 1
        /\ attempt' = attempt /\ line' = line
    BY <1>4 DEF TypeOK, RouteType, SelectWinner, Goto, factVars
  <2>2. ASSUME NEW n \in Nos PROVE SlotOK(r, n)'
    <3>1. SlotOK(r, n)
      BY DEF SlotInv
    <3> QED
      BY <1>d, <2>1, <3>1 DEF SlotOK, Behind, Untouched
  <2> QED
    BY <1>b, <2>2 DEF SlotInv, Nos
<1>5. CASE EndLoop(r)
  BY <1>e, <1>f, <1>5 DEF TypeOK, RouteType, Stages, SlotOK, Behind, Untouched, Goto,
     factVars, routeVars, EndLoop, LeaveLoop
<1>6. CASE DispatchTerminates(r)
  BY <1>e, <1>f, <1>6 DEF TypeOK, RouteType, Stages, SlotOK, Behind, Untouched, Goto,
     factVars, routeVars, DispatchTerminates, FailUnsettled
<1>7. CASE PreflightSkips(r)
  BY <1>e, <1>f, <1>7 DEF TypeOK, RouteType, Stages, SlotOK, Behind, Untouched, Goto,
     factVars, routeVars, PreflightSkips, SkipCandidate
<1>8. CASE PreflightStops(r)
  BY <1>e, <1>f, <1>8 DEF TypeOK, RouteType, Stages, SlotOK, Behind, Untouched, Goto,
     factVars, routeVars, PreflightStops, LeaveLoop
<1>9. CASE PreflightPasses(r)
  BY <1>e, <1>f, <1>9 DEF TypeOK, RouteType, Stages, SlotOK, Behind, Untouched, Goto,
     factVars, routeVars, PreflightPasses
<1>10. CASE AcquireLease(r)
  BY <1>e, <1>f, <1>10 DEF TypeOK, RouteType, Stages, SlotOK, Behind, Untouched, Goto,
     factVars, routeVars, AcquireLease
<1>11. CASE LeaseWaitEnds(r)
  BY <1>e, <1>f, <1>11 DEF TypeOK, RouteType, Stages, SlotOK, Behind, Untouched, Goto,
     factVars, routeVars, LeaseWaitEnds, SkipCandidate
<1>12. CASE ReserveQuota(r)
  BY <1>e, <1>f, <1>12 DEF TypeOK, RouteType, Stages, SlotOK, Behind, Untouched, Goto,
     factVars, routeVars, ReserveQuota
<1>13. CASE QuotaRejects(r)
  BY <1>e, <1>f, <1>13 DEF TypeOK, RouteType, Stages, SlotOK, Behind, Untouched, Goto,
     factVars, routeVars, QuotaRejects, LeaveLoop
<1>14. CASE CreateAttempt(r)
  <2>1. no'[r] = no[r]
    BY <1>14 DEF TypeOK, RouteType, routeVars, CreateAttempt
  <2>2. no[r] \in Nos => SlotOK(r, no[r])'
    BY <1>14, <1>d, <1>f, <1>g, <2>1
       DEF TypeOK, FactType, RouteType, HoldType, Stages, SlotOK,
       Behind, Untouched, Cur, Goto, CreateAttempt
  <2> QED
    BY <1>e, <2>1, <2>2
<1>15. CASE CreateRefused(r)
  BY <1>e, <1>f, <1>15 DEF TypeOK, RouteType, Stages, SlotOK, Behind, Untouched, Goto,
     factVars, routeVars, CreateRefused, ReturnGrant
<1>15a. CASE CreateThrows(r)
  <2>1. no'[r] = no[r]
    BY <1>15a DEF TypeOK, RouteType, routeVars, CreateThrows
  <2>2. no[r] \in Nos => SlotOK(r, no[r])'
    BY <1>15a, <1>d, <1>f, <1>g, <2>1
       DEF TypeOK, FactType, RouteType, HoldType, Stages, SlotOK,
       Behind, Untouched, Cur, Goto, CreateThrows
  <2> QED
    BY <1>e, <2>1, <2>2
<1>16. CASE UndoLease(r)
  BY <1>e, <1>f, <1>16 DEF TypeOK, RouteType, Stages, SlotOK, Behind, Untouched, Goto,
     factVars, routeVars, UndoLease
<1>17. CASE FenceRejects(r)
  <2>1. no'[r] = no[r]
    BY <1>17 DEF TypeOK, RouteType, routeVars, FenceRejects, RejectedEvidence
  <2>2. no[r] \in Nos => SlotOK(r, no[r])'
    BY <1>17, <1>d, <1>f, <1>g, <2>1
       DEF TypeOK, FactType, RouteType, HoldType, Stages, SlotOK,
       Behind, Untouched, Cur, Goto, FenceRejects, RejectedEvidence
  <2> QED
    BY <1>e, <2>1, <2>2
<1>18. CASE FenceFailsOver(r)
  <2>1. no'[r] = no[r]
    BY <1>18
       DEF TypeOK, RouteType, routeVars, FenceFailsOver, GiveUpAttempt, RejectedEvidence
  <2>2. no[r] \in Nos => SlotOK(r, no[r])'
    BY <1>18, <1>d, <1>f, <1>g, <2>1
       DEF TypeOK, FactType, RouteType, HoldType, Stages, SlotOK,
       Behind, Untouched, Cur, Goto, FenceFailsOver, GiveUpAttempt, RejectedEvidence
  <2> QED
    BY <1>e, <2>1, <2>2
<1>19. CASE FenceReselects(r)
  <2>1. no'[r] = no[r]
    BY <1>19
       DEF TypeOK, RouteType, routeVars, FenceReselects, GiveUpAttempt, RejectedEvidence
  <2>2. no[r] \in Nos => SlotOK(r, no[r])'
    BY <1>19, <1>d, <1>f, <1>g, <2>1
       DEF TypeOK, FactType, RouteType, HoldType, Stages, SlotOK,
       Behind, Untouched, Cur, Goto, FenceReselects, GiveUpAttempt, RejectedEvidence
  <2> QED
    BY <1>e, <2>1, <2>2
<1>20. CASE FencePasses(r)
  BY <1>e, <1>f, <1>20 DEF TypeOK, RouteType, Stages, SlotOK, Behind, Untouched, Goto,
     factVars, routeVars, FencePasses
<1>21. CASE UpstreamAnswers(r)
  BY <1>e, <1>f, <1>21 DEF TypeOK, RouteType, Stages, SlotOK, Behind, Untouched, Goto,
     factVars, routeVars, UpstreamAnswers, Results, Kinds
<1>22. CASE PersistEvidence(r)
  <2>1. no'[r] = no[r]
    BY <1>22 DEF TypeOK, RouteType, routeVars, PersistEvidence
  <2>2. no[r] \in Nos => SlotOK(r, no[r])'
    BY <1>22, <1>d, <1>f, <1>g, <2>1
       DEF TypeOK, FactType, RouteType, HoldType, Stages, SlotOK,
       Behind, Untouched, Cur, Goto, PersistEvidence
  <2> QED
    BY <1>e, <2>1, <2>2
<1>23. CASE RecordResult(r)
  <2>1. no'[r] = no[r]
    BY <1>23 DEF TypeOK, RouteType, routeVars, RecordResult, SkipCandidate, routeVars
  <2>2. no[r] \in Nos => SlotOK(r, no[r])'
    BY <1>23, <1>d, <1>f, <1>g, <2>1
       DEF TypeOK, FactType, RouteType, HoldType, Stages, SlotOK,
       Behind, Untouched, Cur, Goto, RecordResult, SkipCandidate, routeVars
  <2> QED
    BY <1>e, <2>1, <2>2
<1>24. CASE SettleRequest(r)
  BY <1>e, <1>f, <1>24 DEF TypeOK, RouteType, Stages, SlotOK, Behind, Untouched, Goto,
     factVars, routeVars, SettleRequest, Finalize
<1>25. CASE PublishFailed(r)
  <2>1. CASE FailUnsettled(r)
    BY <1>e, <1>f, <1>25, <2>1 DEF PublishFailed, TypeOK, RouteType, Stages, SlotOK, Behind,
       Untouched, Goto, factVars, routeVars, FailUnsettled
  <2>2. CASE Finalize(r, "FAILED")
    BY <1>e, <1>f, <1>25, <2>2 DEF PublishFailed, TypeOK, RouteType, Stages, SlotOK, Behind,
       Untouched, Goto, factVars, routeVars, ReadyToFinalize, Attempts, Finalize
  <2> QED
    BY <1>25, <2>1, <2>2 DEF PublishFailed
<1>26. CASE Crash(r)
  BY NumberAssumption, <1>e, <1>f, <1>26 DEF NumberAssumption, RouteInv, Nos, TypeOK,
     RouteType, Stages, SlotOK, Behind, Untouched, Goto,
     factVars, routeVars, Crash
<1> QED
  BY <1>1, <1>2, <1>3, <1>4, <1>5, <1>6, <1>7, <1>8, <1>9, <1>10, <1>11, <1>12, <1>13,
     <1>14, <1>15, <1>15a, <1>16, <1>17, <1>18, <1>19, <1>20, <1>21, <1>22, <1>23, <1>24, <1>25,
        <1>26
     DEF OwnStep, Pipeline

\* The lines of a request while one of its steps is taken.
LEMMA LinesOfOthers ==
    ASSUME NEW r \in Requests, NEW q \in Requests, q # r, RowsKept(r)
    PROVE  Lines(q)' = Lines(q) /\ Attempts(q)' = Attempts(q)
<1>1. \A n \in Nos : <<q, n>> \in Slots /\ <<q, n>> # Cur(r)
  BY DEF Slots, Cur
<1>2. \A n \in Nos : line'[<<q, n>>] = line[<<q, n>>] /\ attempt'[<<q, n>>] = attempt[<<q, n>>]
  BY <1>1 DEF RowsKept
<1> QED
  BY <1>2 DEF Lines, Attempts, Nos

\* A step that writes the current line adds it to the lines of its request.
LEMMA LinesGrow ==
    ASSUME NEW r \in Requests, no[r] \in Nos, RowsKept(r), line'[Cur(r)] # "NONE"
    PROVE  Lines(r)' = Lines(r) \cup {no[r]}
<1>1. \A n \in Nos : n # no[r] => line'[<<r, n>>] = line[<<r, n>>]
  BY DEF RowsKept, Slots, Cur
<1> QED
  BY <1>1 DEF Lines, Cur, Nos

\* Without attempts there are no lines.
LEMMA NoFacts ==
    ASSUME TypeOK, RouteInv, SlotInv, NEW r \in Requests
    PROVE  Lines(r) \subseteq Attempts(r)
<1>1. ASSUME NEW n \in Nos, attempt[<<r, n>>] = "NONE" PROVE line[<<r, n>>] = "NONE"
  <2>1. SlotOK(r, n) /\ n \in Nat /\ no[r] \in Nat /\ pc[r] \in Stages
    BY NumberAssumption DEF NumberAssumption, SlotInv, TypeOK, RouteType, Nos
  <2>2. n = no[r] => pc[r] \notin {"idle", "admit"}
    BY NumberAssumption DEF NumberAssumption, RouteInv, Nos
  <2> QED
    BY <1>1, <2>1, <2>2 DEF SlotOK, Behind, Untouched, Stages
<1> QED
  BY <1>1 DEF Lines, Attempts

\* The transaction comes with the terminal status, for the lines there are.
LEMMA LedgerStep ==
    ASSUME TypeOK, RouteInv, SlotInv, LedgerInv, NEW r \in Requests, OwnStep(r)
    PROVE  LedgerInv'
<1>a. RowsKept(r) /\ OthersKept(r)
  BY Frame
<1>b. ASSUME NEW q \in Requests, q # r PROVE LedgerOK(q)'
  <2>1. Lines(q)' = Lines(q)
    BY <1>a, <1>b, LinesOfOthers
  <2>2. LedgerOK(q)
    BY DEF LedgerInv
  <2> QED
    BY <1>a, <1>b, <2>1, <2>2 DEF OthersKept, LedgerOK, NoTxn
<1> SUFFICES LedgerOK(r)'
  BY <1>b DEF LedgerInv
<1>c. LedgerOK(r)
  BY DEF LedgerInv
<1>d. line' = line => Lines(r)' = Lines(r)
  BY DEF Lines, Nos
<1>f. Attempts(r) = {} => Lines(r) = {}
  BY NoFacts
<1>g. ASSUME FailUnsettled(r), pc[r] # "done" PROVE LedgerOK(r)'
  <2>1. Lines(r) = {} /\ Lines(r)' = Lines(r)
    BY <1>d, <1>f, <1>g DEF FailUnsettled, factVars
  <2>2. txn'[r].attempts = {} /\ txn'[r].posted = FALSE
    BY <1>c, <1>g DEF LedgerOK, NoTxn, FailUnsettled
  <2>3. pc'[r] = "done"
    BY <1>g DEF TypeOK, RouteType, Goto, FailUnsettled
  <2> QED
    BY <1>c, <1>g, <2>1, <2>2, <2>3 DEF LedgerOK, FailUnsettled, pendVars
<1>1. CASE Claim(r)
  BY <1>c, <1>d, <1>1
     DEF TypeOK, RouteType, LedgerOK, Goto, factVars, routeVars, pendVars, Claim
<1>2. CASE AdmitReject(r)
  BY <1>g, <1>2 DEF AdmitReject
<1>3. CASE Admit(r)
  BY <1>c, <1>d, <1>3
     DEF TypeOK, RouteType, LedgerOK, Goto, factVars, routeVars, pendVars, Admit
<1>4. CASE SelectWinner(r)
  BY <1>c, <1>d, <1>4
     DEF TypeOK, RouteType, LedgerOK, Goto, factVars, routeVars, pendVars, SelectWinner,
         Candidates
<1>5. CASE EndLoop(r)
  BY <1>c, <1>d, <1>5
     DEF TypeOK, RouteType, LedgerOK, Goto, factVars, routeVars, pendVars, EndLoop,
         LeaveLoop
<1>6. CASE DispatchTerminates(r)
  BY <1>g, <1>6 DEF DispatchTerminates
<1>7. CASE PreflightSkips(r)
  BY <1>c, <1>d, <1>7
     DEF TypeOK, RouteType, LedgerOK, Goto, factVars, routeVars, pendVars,
         PreflightSkips, SkipCandidate
<1>8. CASE PreflightStops(r)
  BY <1>c, <1>d, <1>8
     DEF TypeOK, RouteType, LedgerOK, Goto, factVars, routeVars, pendVars,
         PreflightStops, LeaveLoop
<1>9. CASE PreflightPasses(r)
  BY <1>c, <1>d, <1>9
     DEF TypeOK, RouteType, LedgerOK, Goto, factVars, routeVars, pendVars, PreflightPasses
<1>10. CASE AcquireLease(r)
  BY <1>c, <1>d, <1>10
     DEF TypeOK, RouteType, LedgerOK, Goto, factVars, routeVars, pendVars, AcquireLease
<1>11. CASE LeaseWaitEnds(r)
  BY <1>c, <1>d, <1>11
     DEF TypeOK, RouteType, LedgerOK, Goto, factVars, routeVars, pendVars, LeaseWaitEnds,
         SkipCandidate
<1>12. CASE ReserveQuota(r)
  BY <1>c, <1>d, <1>12
     DEF TypeOK, RouteType, LedgerOK, Goto, factVars, routeVars, pendVars, ReserveQuota
<1>13. CASE QuotaRejects(r)
  BY <1>c, <1>d, <1>13
     DEF TypeOK, RouteType, LedgerOK, Goto, factVars, routeVars, pendVars, QuotaRejects,
         LeaveLoop
<1>14. CASE CreateAttempt(r)
  BY <1>c, <1>d, <1>14
     DEF TypeOK, RouteType, LedgerOK, Goto, factVars, routeVars, pendVars, CreateAttempt
<1>15. CASE CreateRefused(r)
  BY <1>c, <1>d, <1>15
     DEF TypeOK, RouteType, LedgerOK, Goto, factVars, routeVars, pendVars, CreateRefused,
         ReturnGrant
<1>15a. CASE CreateThrows(r)
  BY <1>c, <1>d, <1>15a
     DEF TypeOK, RouteType, LedgerOK, Goto, factVars, routeVars, pendVars, CreateThrows
<1>16. CASE UndoLease(r)
  BY <1>c, <1>d, <1>16
     DEF TypeOK, RouteType, LedgerOK, Goto, factVars, routeVars, pendVars, UndoLease
<1>17. CASE FenceRejects(r)
  <2>1. no[r] \in Nos /\ line'[Cur(r)] # "NONE" /\ pc[r] # "done"
    BY <1>17
       DEF TypeOK, FactType, RouteType, HoldType, RouteInv, Attempting, Slots, Cur,
           FenceRejects, RejectedEvidence
  <2>2. Lines(r)' = Lines(r) \cup {no[r]}
    BY <1>a, <2>1, LinesGrow
  <2> QED
    BY <1>c, <1>17, <2>1, <2>2
       DEF TypeOK, FactType, RouteType, LedgerOK, Goto, pendVars, FenceRejects
<1>18. CASE FenceFailsOver(r)
  <2>1. no[r] \in Nos /\ line'[Cur(r)] # "NONE" /\ pc[r] # "done"
    BY <1>18
       DEF TypeOK, FactType, RouteType, HoldType, RouteInv, Attempting, Slots, Cur,
           FenceFailsOver, GiveUpAttempt, RejectedEvidence
  <2>2. Lines(r)' = Lines(r) \cup {no[r]}
    BY <1>a, <2>1, LinesGrow
  <2> QED
    BY <1>c, <1>18, <2>1, <2>2
       DEF TypeOK, FactType, RouteType, LedgerOK, Goto, pendVars, FenceFailsOver,
           GiveUpAttempt
<1>19. CASE FenceReselects(r)
  <2>1. no[r] \in Nos /\ line'[Cur(r)] # "NONE" /\ pc[r] # "done"
    BY <1>19
       DEF TypeOK, FactType, RouteType, HoldType, RouteInv, Attempting, Slots, Cur,
           FenceReselects, GiveUpAttempt, RejectedEvidence
  <2>2. Lines(r)' = Lines(r) \cup {no[r]}
    BY <1>a, <2>1, LinesGrow
  <2> QED
    BY <1>c, <1>19, <2>1, <2>2
       DEF TypeOK, FactType, RouteType, LedgerOK, Goto, pendVars, FenceReselects,
           GiveUpAttempt
<1>20. CASE FencePasses(r)
  BY <1>c, <1>d, <1>20
     DEF TypeOK, RouteType, LedgerOK, Goto, factVars, routeVars, pendVars, FencePasses
<1>21. CASE UpstreamAnswers(r)
  BY <1>c, <1>d, <1>21
     DEF TypeOK, RouteType, LedgerOK, Goto, factVars, routeVars, pendVars,
         UpstreamAnswers, Results, Kinds
<1>22. CASE PersistEvidence(r)
  <2>1. no[r] \in Nos /\ line'[Cur(r)] # "NONE" /\ pc[r] # "done"
    BY <1>22
       DEF TypeOK, FactType, RouteType, HoldType, RouteInv, Attempting, Slots, Cur,
           PersistEvidence
  <2>2. Lines(r)' = Lines(r) \cup {no[r]}
    BY <1>a, <2>1, LinesGrow
  <2> QED
    BY <1>c, <1>22, <2>1, <2>2
       DEF TypeOK, FactType, RouteType, LedgerOK, Goto, pendVars, PersistEvidence
<1>23. CASE RecordResult(r)
  <2>1. no[r] \in Nos /\ last[r].kind \in Kinds
    BY <1>23 DEF RouteInv, Attempting, RecordResult
  <2>2. SlotOK(r, no[r])
    BY <2>1 DEF SlotInv
  <2>3. Lines(r)' = Lines(r) /\ no[r] \in Lines(r)
    BY <1>23, <1>d, <2>1, <2>2 DEF SlotOK, Lines, RecordResult
  <2>4. outcome'[r] # "NONE"
    BY <1>23, <2>1 DEF TypeOK, HoldType, Kinds, RecordResult
  <2>5. pc[r] # "done" /\ pc'[r] # "done" /\ txn' = txn
    BY <1>23 DEF TypeOK, RouteType, Goto, RecordResult, SkipCandidate
  <2> QED
    BY <1>c, <2>3, <2>4, <2>5 DEF LedgerOK
<1>24. CASE SettleRequest(r)
  <2>1. Lines(r) # {}
    BY <1>24, <1>c DEF LedgerOK, SettleRequest
  <2> QED
    BY <1>24, <1>c, <1>d, <2>1
       DEF TypeOK, FactType, RouteType, LedgerOK, Goto, factVars, pendVars,
       SettleRequest, Finalize
<1>25. CASE PublishFailed(r)
  <2>1. CASE Lines(r) # {}
    BY <1>25, <1>c, <1>d, <2>1
       DEF TypeOK, FactType, RouteType, LedgerOK, Goto, factVars, pendVars,
       PublishFailed, Finalize
  <2>2. CASE Lines(r) = {}
    BY <1>25, <1>g, <2>2 DEF PublishFailed
  <2> QED
    BY <2>1, <2>2
<1>26. CASE Crash(r)
  BY <1>c, <1>d, <1>26
     DEF TypeOK, RouteType, LedgerOK, Goto, factVars, routeVars, pendVars, Crash
<1> QED
  BY <1>1, <1>2, <1>3, <1>4, <1>5, <1>6, <1>7, <1>8, <1>9, <1>10, <1>11, <1>12, <1>13,
     <1>14, <1>15, <1>15a, <1>16, <1>17, <1>18, <1>19, <1>20, <1>21, <1>22, <1>23, <1>24, <1>25,
        <1>26
     DEF OwnStep, Pipeline

\* A lease is given back by the request that took it, and only then.
Kept(r) == \A l \in Lease : l[1] # r => (l \in leases' <=> l \in leases)

\* Every step of a request keeps the leases accounted for.
LEMMA LeaseStep ==
    ASSUME TypeOK, RouteInv, SlotInv, LedgerInv, LeaseInv, NEW r \in Requests, OwnStep(r)
    PROVE  LeaseInv' /\ Kept(r)
<1>a. RowsKept(r) /\ OthersKept(r)
  BY Frame
<1>b. ASSUME Kept(r), leases' \subseteq Lease, NEW q \in Requests, q # r PROVE LeaseOK(q)'
  <2>1. LeaseOK(q)
    BY DEF LeaseInv
  <2>2. ReleaseLeaseIds(q)' = ReleaseLeaseIds(q)
    BY <1>a, <1>b DEF OthersKept, ReleaseLeaseIds
  <2>3. pc'[q] = pc[q] /\ no'[q] = no[q] /\ winner'[q] = winner[q] /\ heldLease'[q] = heldLease[q]
    BY <1>a, <1>b DEF OthersKept
  <2>4. <<q, no[q], winner[q]>> \in leases => <<q, no[q], winner[q]>> \in leases'
    BY <1>b DEF TypeOK, Kept
  <2>5. \A l \in leases' : l[1] = q => l \in leases
    BY <1>b DEF Kept
  <2> QED
    BY <2>1, <2>2, <2>3, <2>4, <2>5 DEF LeaseOK
<1>c. LeaseOK(r)
  BY DEF LeaseInv
<1>d. leases' \subseteq Lease
  BY TypeStep DEF TypeOK, OwnStep, Next, Lease, Nos
<1> SUFFICES LeaseOK(r)' /\ Kept(r)
  BY <1>b, <1>d DEF LeaseInv
<1>f. ASSUME FailUnsettled(r), pc[r] \in {"admit", "preflight", "publish"}
      PROVE  LeaseOK(r)' /\ Kept(r)
  <2>1. LedgerOK(r) /\ Lines(r) = {}
    BY <1>f, NoFacts DEF LedgerInv, FailUnsettled
  <2>2. pendLease[r] = {} /\ heldLease[r] = {}
    BY <1>c, <1>f, <2>1 DEF LedgerOK, LeaseOK
  <2>3. pc'[r] = "done" /\ pendLease' = pendLease /\ heldLease' = heldLease /\ leases' = leases
    BY <1>f DEF TypeOK, RouteType, Goto, FailUnsettled, pendVars
  <2>4. \A l \in leases : l[1] # r
    BY <1>c, <2>2 DEF LeaseOK, ReleaseLeaseIds
  <2> QED
    BY <2>2, <2>3, <2>4 DEF LeaseOK, Kept, ReleaseLeaseIds
<1>1. CASE Claim(r)
  BY <1>c, <1>1 DEF TypeOK, RouteType, HoldType, LeaseOK, Kept, ReleaseLeaseIds,
     Stages, Goto, pendVars, routeVars, Claim
<1>2. CASE AdmitReject(r)
  <2>1. FailUnsettled(r) /\ pc[r] \in {"admit", "preflight"}
    BY <1>2 DEF AdmitReject
  <2> QED
    BY <1>f, <2>1
<1>3. CASE Admit(r)
  BY <1>c, <1>3 DEF TypeOK, RouteType, HoldType, LeaseOK, Kept, ReleaseLeaseIds,
     Stages, Goto, pendVars, routeVars, Admit
<1>4. CASE SelectWinner(r)
  BY <1>c, <1>4 DEF TypeOK, RouteType, HoldType, LeaseOK, Kept, ReleaseLeaseIds,
     Stages, Goto, pendVars, routeVars, SelectWinner, Candidates
<1>5. CASE EndLoop(r)
  BY <1>c, <1>5 DEF TypeOK, RouteType, HoldType, LeaseOK, Kept, ReleaseLeaseIds,
     Stages, Goto, pendVars, routeVars, EndLoop, LeaveLoop
<1>6. CASE DispatchTerminates(r)
  <2>1. FailUnsettled(r) /\ pc[r] \in {"admit", "preflight"}
    BY <1>6 DEF DispatchTerminates
  <2> QED
    BY <1>f, <2>1
<1>7. CASE PreflightSkips(r)
  BY <1>c, <1>7 DEF TypeOK, RouteType, HoldType, LeaseOK, Kept, ReleaseLeaseIds,
     Stages, Goto, pendVars, routeVars, PreflightSkips, SkipCandidate
<1>8. CASE PreflightStops(r)
  BY <1>c, <1>8 DEF TypeOK, RouteType, HoldType, LeaseOK, Kept, ReleaseLeaseIds,
     Stages, Goto, pendVars, routeVars, PreflightStops, LeaveLoop
<1>9. CASE PreflightPasses(r)
  BY <1>c, <1>9 DEF TypeOK, RouteType, HoldType, LeaseOK, Kept, ReleaseLeaseIds,
     Stages, Goto, pendVars, routeVars, PreflightPasses
<1>10. CASE AcquireLease(r)
  BY <1>c, <1>10 DEF TypeOK, RouteType, HoldType, LeaseOK, Kept, ReleaseLeaseIds,
     Stages, Goto, pendVars, routeVars, AcquireLease
<1>11. CASE LeaseWaitEnds(r)
  BY <1>c, <1>11 DEF TypeOK, RouteType, HoldType, LeaseOK, Kept, ReleaseLeaseIds,
     Stages, Goto, pendVars, routeVars, LeaseWaitEnds, SkipCandidate
<1>12. CASE ReserveQuota(r)
  BY <1>c, <1>12 DEF TypeOK, RouteType, HoldType, LeaseOK, Kept, ReleaseLeaseIds,
     Stages, Goto, pendVars, routeVars, ReserveQuota
<1>13. CASE QuotaRejects(r)
  BY <1>c, <1>13 DEF TypeOK, RouteType, HoldType, LeaseOK, Kept, ReleaseLeaseIds,
     Stages, Goto, pendVars, routeVars, QuotaRejects, LeaveLoop
<1>14. CASE CreateAttempt(r)
  BY <1>c, <1>14 DEF TypeOK, RouteType, HoldType, LeaseOK, Kept, ReleaseLeaseIds,
     Stages, Goto, pendVars, routeVars, CreateAttempt
<1>15. CASE CreateRefused(r)
  BY <1>c, <1>15 DEF TypeOK, RouteType, HoldType, LeaseOK, Kept, ReleaseLeaseIds,
     Stages, Goto, pendVars, routeVars, CreateRefused, ReturnGrant
<1>15a. CASE CreateThrows(r)
  BY <1>c, <1>15a DEF TypeOK, RouteType, HoldType, LeaseOK, Kept, ReleaseLeaseIds,
     Stages, Goto, pendVars, routeVars, CreateThrows, ReturnGrant
<1>16. CASE UndoLease(r)
  BY <1>c, <1>16 DEF TypeOK, RouteType, HoldType, LeaseOK, Kept, ReleaseLeaseIds,
     Stages, Goto, pendVars, routeVars, UndoLease
<1>17. CASE FenceRejects(r)
  BY <1>c, <1>17 DEF TypeOK, RouteType, HoldType, LeaseOK, Kept, ReleaseLeaseIds,
     Stages, Goto, pendVars, routeVars, FenceRejects
<1>18. CASE FenceFailsOver(r)
  BY <1>c, <1>18 DEF TypeOK, RouteType, HoldType, LeaseOK, Kept, ReleaseLeaseIds,
     Stages, Goto, pendVars, routeVars, FenceFailsOver, GiveUpAttempt
<1>19. CASE FenceReselects(r)
  BY <1>c, <1>19 DEF TypeOK, RouteType, HoldType, LeaseOK, Kept, ReleaseLeaseIds,
     Stages, Goto, pendVars, routeVars, FenceReselects, GiveUpAttempt
<1>20. CASE FencePasses(r)
  BY <1>c, <1>20 DEF TypeOK, RouteType, HoldType, LeaseOK, Kept, ReleaseLeaseIds,
     Stages, Goto, pendVars, routeVars, FencePasses
<1>21. CASE UpstreamAnswers(r)
  BY <1>c, <1>21 DEF TypeOK, RouteType, HoldType, LeaseOK, Kept, ReleaseLeaseIds,
     Stages, Goto, pendVars, routeVars, UpstreamAnswers, Results, Kinds
<1>22. CASE PersistEvidence(r)
  BY <1>c, <1>22 DEF TypeOK, RouteType, HoldType, LeaseOK, Kept, ReleaseLeaseIds,
     Stages, Goto, pendVars, routeVars, PersistEvidence
<1>23. CASE RecordResult(r)
  BY <1>c, <1>23 DEF TypeOK, RouteType, HoldType, LeaseOK, Kept, ReleaseLeaseIds,
     Stages, Goto, pendVars, routeVars, RecordResult, SkipCandidate
<1>24. CASE SettleRequest(r)
  BY <1>c, <1>24 DEF TypeOK, RouteType, HoldType, LeaseOK, Kept, ReleaseLeaseIds,
     Stages, Goto, pendVars, routeVars, SettleRequest, Finalize
<1>25. CASE PublishFailed(r)
  <2>1. CASE FailUnsettled(r)
    BY <1>25, <1>f, <2>1 DEF PublishFailed
  <2>2. CASE Finalize(r, "FAILED")
    BY <1>c, <1>25, <2>2 DEF TypeOK, RouteType, HoldType, LeaseOK, Kept, ReleaseLeaseIds,
     Stages, Goto, pendVars, routeVars, PublishFailed,
       Finalize
  <2> QED
    BY <1>25, <2>1, <2>2 DEF PublishFailed
<1>26. CASE Crash(r)
  BY <1>c, <1>26 DEF TypeOK, RouteType, HoldType, LeaseOK, Kept, ReleaseLeaseIds,
     Stages, Goto, pendVars, routeVars, Crash
<1> QED
  BY <1>1, <1>2, <1>3, <1>4, <1>5, <1>6, <1>7, <1>8, <1>9, <1>10, <1>11, <1>12, <1>13,
     <1>14, <1>15, <1>15a, <1>16, <1>17, <1>18, <1>19, <1>20, <1>21, <1>22, <1>23, <1>24, <1>25,
        <1>26
     DEF OwnStep, Pipeline

\* acquireLease counts under the row lock: the leases of a plan stay within the
\* limit.
LEMMA LeasesShrink ==
    ASSUME NEW r \in Requests, OwnStep(r), ~AcquireLease(r)
    PROVE  leases' \subseteq leases
<1>1. CASE Claim(r)
  BY <1>1, <1>1 DEF Claim
<1>2. CASE AdmitReject(r)
  BY <1>1, <1>2 DEF AdmitReject, FailUnsettled
<1>3. CASE Admit(r)
  BY <1>1, <1>3 DEF Admit
<1>4. CASE SelectWinner(r)
  BY <1>1, <1>4 DEF SelectWinner, Candidates
<1>5. CASE EndLoop(r)
  BY <1>1, <1>5 DEF EndLoop, LeaveLoop
<1>6. CASE DispatchTerminates(r)
  BY <1>1, <1>6 DEF DispatchTerminates, FailUnsettled
<1>7. CASE PreflightSkips(r)
  BY <1>1, <1>7 DEF PreflightSkips, SkipCandidate
<1>8. CASE PreflightStops(r)
  BY <1>1, <1>8 DEF PreflightStops, LeaveLoop
<1>9. CASE PreflightPasses(r)
  BY <1>1, <1>9 DEF PreflightPasses
<1>10. CASE AcquireLease(r)
  BY <1>1, <1>10
<1>11. CASE LeaseWaitEnds(r)
  BY <1>1, <1>11 DEF LeaseWaitEnds, SkipCandidate
<1>12. CASE ReserveQuota(r)
  BY <1>1, <1>12 DEF ReserveQuota
<1>13. CASE QuotaRejects(r)
  BY <1>1, <1>13 DEF QuotaRejects, LeaveLoop
<1>14. CASE CreateAttempt(r)
  BY <1>1, <1>14 DEF CreateAttempt
<1>15. CASE CreateRefused(r)
  BY <1>1, <1>15 DEF CreateRefused, ReturnGrant
<1>15a. CASE CreateThrows(r)
  BY <1>1, <1>15a DEF CreateThrows, ReturnGrant
<1>16. CASE UndoLease(r)
  BY <1>1, <1>16 DEF UndoLease
<1>17. CASE FenceRejects(r)
  BY <1>1, <1>17 DEF FenceRejects
<1>18. CASE FenceFailsOver(r)
  BY <1>1, <1>18 DEF FenceFailsOver, GiveUpAttempt
<1>19. CASE FenceReselects(r)
  BY <1>1, <1>19 DEF FenceReselects, GiveUpAttempt
<1>20. CASE FencePasses(r)
  BY <1>1, <1>20 DEF FencePasses
<1>21. CASE UpstreamAnswers(r)
  BY <1>1, <1>21 DEF UpstreamAnswers, Results, Kinds
<1>22. CASE PersistEvidence(r)
  BY <1>1, <1>22 DEF PersistEvidence
<1>23. CASE RecordResult(r)
  BY <1>1, <1>23 DEF RecordResult, SkipCandidate
<1>24. CASE SettleRequest(r)
  BY <1>1, <1>24 DEF SettleRequest, Finalize
<1>25. CASE PublishFailed(r)
  BY <1>1, <1>25 DEF PublishFailed, FailUnsettled, Finalize
<1>26. CASE Crash(r)
  BY <1>1, <1>26 DEF Crash
<1> QED
  BY <1>1, <1>2, <1>3, <1>4, <1>5, <1>6, <1>7, <1>8, <1>9, <1>10, <1>11, <1>12, <1>13,
     <1>14, <1>15, <1>15a, <1>16, <1>17, <1>18, <1>19, <1>20, <1>21, <1>22, <1>23, <1>24, <1>25,
        <1>26
     DEF OwnStep, Pipeline

\* Only an acquisition below the limit adds a lease.
LEMMA LimitStep ==
    ASSUME TypeOK, LimitInv, NEW r \in Requests, OwnStep(r)
    PROVE  LimitInv'
<1>1. \A res : IsFiniteSet(LeasesOn(res)) /\ Cardinality(LeasesOn(res)) \in Nat
  <2> SUFFICES ASSUME NEW res
               PROVE  IsFiniteSet(LeasesOn(res)) /\ Cardinality(LeasesOn(res)) \in Nat
    OBVIOUS
  <2>1. LeasesOn(res) \in SUBSET leases
    BY DEF LeasesOn
  <2> QED
    BY <2>1, FS_Subset, FS_CardinalityType DEF LimitInv
<1>2. CASE leases' \subseteq leases
  <2>1. IsFiniteSet(leases')
    BY <1>2, FS_Subset DEF LimitInv
  <2>2. ASSUME NEW res PROVE Cardinality(LeasesOn(res)') <= Cardinality(LeasesOn(res))
    <3>1. LeasesOn(res)' \in SUBSET LeasesOn(res)
      BY <1>2 DEF LeasesOn
    <3> QED
      BY <1>1, <3>1, FS_Subset
  <2>3. ASSUME NEW res PROVE Cardinality(LeasesOn(res)') \in Nat
    <3>1. LeasesOn(res)' \in SUBSET leases'
      BY DEF LeasesOn
    <3> QED
      BY <2>1, <3>1, FS_Subset, FS_CardinalityType
  <2>4. ASSUME LeaseLimit > 0, NEW res \in CodingPlan
        PROVE  Cardinality(LeasesOn(res)') <= LeaseLimit
    BY <1>1, <2>2, <2>3, <2>4, NumberAssumption DEF NumberAssumption, LimitInv
  <2> QED
    BY <2>1, <2>4 DEF LimitInv
<1>3. CASE AcquireLease(r)
  <2> DEFINE new == <<r, no[r], winner[r]>>
  <2>1. leases' = leases \cup {new} /\ LeaseFree(winner[r])
    BY <1>3 DEF AcquireLease
  <2>2. IsFiniteSet(leases')
    BY <2>1, FS_AddElement DEF LimitInv
  <2>3. ASSUME LeaseLimit > 0, NEW res \in CodingPlan
        PROVE  Cardinality(LeasesOn(res)') <= LeaseLimit
    <3>1. CASE res = winner[r]
      <4>1. LeasesOn(res)' = LeasesOn(res) \cup {new}
        BY <2>1, <3>1 DEF LeasesOn
      <4>2. Cardinality(LeasesOn(res)) < LeaseLimit
        BY <2>1, <2>3, <3>1, NumberAssumption DEF NumberAssumption, LeaseFree
      <4>3. Cardinality(LeasesOn(res) \cup {new}) <= Cardinality(LeasesOn(res)) + 1
        <5>1. Cardinality(LeasesOn(res) \cup {new}) =
                 IF new \in LeasesOn(res) THEN Cardinality(LeasesOn(res))
                 ELSE Cardinality(LeasesOn(res)) + 1
          BY <1>1, FS_AddElement
        <5> HIDE DEF new
        <5> QED
          BY <1>1, <5>1
      <4>4. Cardinality(LeasesOn(res) \cup {new}) \in Nat
        BY <1>1, FS_AddElement, FS_CardinalityType
      <4> QED
        BY <1>1, <4>1, <4>2, <4>3, <4>4, NumberAssumption DEF NumberAssumption
    <3>2. CASE res # winner[r]
      <4>1. LeasesOn(res)' = LeasesOn(res)
        BY <2>1, <3>2 DEF LeasesOn
      <4> QED
        BY <2>3, <4>1 DEF LimitInv
    <3> QED
      BY <3>1, <3>2
  <2> QED
    BY <2>2, <2>3 DEF LimitInv
<1> QED
  BY <1>2, <1>3, LeasesShrink

\* A reservation is open only while its attempt is under way.
LEMMA ReservationStep ==
    ASSUME TypeOK, RouteInv, ReservationInv, NEW r \in Requests, OwnStep(r)
    PROVE  ReservationInv'
<1>a. RowsKept(r) /\ OthersKept(r)
  BY Frame
<1>b. ASSUME NEW q \in Requests, q # r PROVE ReservationOK(q)'
  <2>1. \A n \in Nos : <<q, n>> \in Slots /\ <<q, n>> # Cur(r)
    BY <1>b DEF Slots, Cur
  <2>2. \A n \in Nos : usageRow'[<<q, n>>] = usageRow[<<q, n>>]
    BY <1>a, <2>1 DEF RowsKept
  <2>3. ReservationOK(q)
    BY DEF ReservationInv
  <2> QED
    BY <1>a, <1>b, <2>2, <2>3 DEF OthersKept, ReservationOK, Nos
<1> SUFFICES ReservationOK(r)'
  BY <1>b DEF ReservationInv
<1>c. ReservationOK(r)
  BY DEF ReservationInv
<1>d. ASSUME NEW n \in Nos, n # no[r] PROVE usageRow'[<<r, n>>] # "RESERVED"
  <2>1. <<r, n>> \in Slots /\ <<r, n>> # Cur(r)
    BY <1>d DEF Slots, Cur
  <2> QED
    BY <1>a, <1>c, <1>d, <2>1 DEF RowsKept, ReservationOK
<1>e. ASSUME no'[r] = no[r],
             no[r] \in Nos /\ usageRow'[Cur(r)] = "RESERVED" =>
                /\ MonthlyQuota /\ heldGrant'[r]
                /\ pc'[r] \in {"create", "fence", "upstream", "evidence", "crashed"}
      PROVE  ReservationOK(r)'
  BY <1>d, <1>e DEF ReservationOK, Cur, Nos
<1>f. no[r] \in Nos /\ usageRow[Cur(r)] = "RESERVED" =>
         /\ MonthlyQuota /\ heldGrant[r]
         /\ pc[r] \in {"create", "fence", "upstream", "evidence", "crashed"}
  BY <1>c DEF ReservationOK, Cur
<1>g. no[r] \in Nos => Cur(r) \in Slots
  BY DEF Cur, Slots
<1>1. CASE Claim(r)
  BY <1>e, <1>f, <1>1 DEF TypeOK, RouteType, HoldType, Stages, Goto, routeVars, quotaVars,
     Claim
<1>2. CASE AdmitReject(r)
  BY <1>e, <1>f, <1>2 DEF TypeOK, RouteType, HoldType, Stages, Goto, routeVars, quotaVars,
     AdmitReject, FailUnsettled
<1>3. CASE Admit(r)
  BY <1>e, <1>f, <1>3 DEF TypeOK, RouteType, HoldType, Stages, Goto, routeVars, quotaVars,
     Admit
<1>4. CASE SelectWinner(r)
  <2>1. \A n \in Nos : usageRow'[<<r, n>>] # "RESERVED"
    BY <1>c, <1>4 DEF ReservationOK, SelectWinner, quotaVars
  <2> QED
    BY <2>1 DEF ReservationOK, Nos
<1>5. CASE EndLoop(r)
  BY <1>e, <1>f, <1>5 DEF TypeOK, RouteType, HoldType, Stages, Goto, routeVars, quotaVars,
     EndLoop, LeaveLoop
<1>6. CASE DispatchTerminates(r)
  BY <1>e, <1>f, <1>6 DEF TypeOK, RouteType, HoldType, Stages, Goto, routeVars, quotaVars,
     DispatchTerminates, FailUnsettled
<1>7. CASE PreflightSkips(r)
  BY <1>e, <1>f, <1>7 DEF TypeOK, RouteType, HoldType, Stages, Goto, routeVars, quotaVars,
     PreflightSkips, SkipCandidate
<1>8. CASE PreflightStops(r)
  BY <1>e, <1>f, <1>8 DEF TypeOK, RouteType, HoldType, Stages, Goto, routeVars, quotaVars,
     PreflightStops, LeaveLoop
<1>9. CASE PreflightPasses(r)
  BY <1>e, <1>f, <1>9 DEF TypeOK, RouteType, HoldType, Stages, Goto, routeVars, quotaVars,
     PreflightPasses
<1>10. CASE AcquireLease(r)
  BY <1>e, <1>f, <1>10 DEF TypeOK, RouteType, HoldType, Stages, Goto, routeVars, quotaVars,
     AcquireLease
<1>11. CASE LeaseWaitEnds(r)
  BY <1>e, <1>f, <1>11 DEF TypeOK, RouteType, HoldType, Stages, Goto, routeVars, quotaVars,
     LeaseWaitEnds, SkipCandidate
<1>12. CASE ReserveQuota(r)
  BY <1>e, <1>f, <1>g, <1>12
     DEF TypeOK, RouteType, HoldType, Stages, Goto, routeVars, quotaVars, QuotaType,
     RowStates, ReserveQuota
<1>13. CASE QuotaRejects(r)
  BY <1>e, <1>f, <1>13 DEF TypeOK, RouteType, HoldType, Stages, Goto, routeVars, quotaVars,
     QuotaRejects, LeaveLoop
<1>14. CASE CreateAttempt(r)
  BY <1>e, <1>f, <1>14 DEF TypeOK, RouteType, HoldType, Stages, Goto, routeVars, quotaVars,
     CreateAttempt
<1>15. CASE CreateRefused(r)
  BY <1>e, <1>f, <1>g, <1>15
     DEF TypeOK, RouteType, HoldType, Stages, Goto, routeVars, quotaVars, QuotaType,
     RowStates, CreateRefused, ReturnGrant, SettleRow, SettleCounter
<1>15a. CASE CreateThrows(r)
  BY <1>e, <1>f, <1>g, <1>15a
     DEF TypeOK, RouteType, HoldType, Stages, Goto, routeVars, quotaVars, QuotaType,
     RowStates, CreateThrows, ReturnGrant, SettleRow, SettleCounter
<1>16. CASE UndoLease(r)
  BY <1>e, <1>f, <1>16 DEF TypeOK, RouteType, HoldType, Stages, Goto, routeVars, quotaVars,
     UndoLease
<1>17. CASE FenceRejects(r)
  BY <1>e, <1>f, <1>g, <1>17
     DEF TypeOK, RouteType, HoldType, Stages, Goto, routeVars, quotaVars, QuotaType,
     RowStates, FenceRejects, SettleQuotaItems, SettleRow,
     SettleCounter
<1>18. CASE FenceFailsOver(r)
  BY <1>e, <1>f, <1>g, <1>18
     DEF TypeOK, RouteType, HoldType, Stages, Goto, routeVars, quotaVars, QuotaType,
     RowStates, FenceFailsOver, GiveUpAttempt,
     SettleRow, SettleCounter
<1>19. CASE FenceReselects(r)
  BY <1>e, <1>f, <1>g, <1>19
     DEF TypeOK, RouteType, HoldType, Stages, Goto, routeVars, quotaVars, QuotaType,
     RowStates, FenceReselects, GiveUpAttempt,
     SettleRow, SettleCounter
<1>20. CASE FencePasses(r)
  BY <1>e, <1>f, <1>20 DEF TypeOK, RouteType, HoldType, Stages, Goto, routeVars, quotaVars,
     FencePasses
<1>21. CASE UpstreamAnswers(r)
  BY <1>e, <1>f, <1>21 DEF TypeOK, RouteType, HoldType, Stages, Goto, routeVars, quotaVars,
     UpstreamAnswers, Results, Kinds
<1>22. CASE PersistEvidence(r)
  BY <1>e, <1>f, <1>g, <1>22
     DEF TypeOK, RouteType, HoldType, Stages, Goto, routeVars, quotaVars, QuotaType,
     RowStates, PersistEvidence, SettleRow
<1>23. CASE RecordResult(r)
  BY <1>e, <1>f, <1>23 DEF TypeOK, RouteType, HoldType, Stages, Goto, routeVars, quotaVars,
     RecordResult, SkipCandidate
<1>24. CASE SettleRequest(r)
  BY <1>e, <1>f, <1>24 DEF TypeOK, RouteType, HoldType, Stages, Goto, routeVars, quotaVars,
     SettleRequest, Finalize, SettleQuotaItems, SettleCounter
<1>25. CASE PublishFailed(r)
  BY <1>e, <1>f, <1>25 DEF TypeOK, RouteType, HoldType, Stages, Goto, routeVars, quotaVars,
     PublishFailed, FailUnsettled, Finalize, SettleQuotaItems, SettleCounter
<1>26. CASE Crash(r)
  BY <1>e, <1>f, <1>26 DEF TypeOK, RouteType, HoldType, Stages, Goto, routeVars, quotaVars,
     Crash
<1> QED
  BY <1>1, <1>2, <1>3, <1>4, <1>5, <1>6, <1>7, <1>8, <1>9, <1>10, <1>11, <1>12, <1>13,
     <1>14, <1>15, <1>15a, <1>16, <1>17, <1>18, <1>19, <1>20, <1>21, <1>22, <1>23, <1>24, <1>25,
        <1>26
     DEF OwnStep, Pipeline

\* The committed attempt stays the last one.
LEMMA CommitStep ==
    ASSUME TypeOK, RouteInv, StageInv, CommitInv, NEW r \in Requests, OwnStep(r)
    PROVE  CommitInv'
<1>a. RowsKept(r) /\ OthersKept(r)
  BY Frame
<1>b. ASSUME NEW q \in Requests, q # r PROVE CommitOK(q)'
  <2>1. \A n \in Nos : <<q, n>> \in Slots /\ <<q, n>> # Cur(r)
    BY <1>b DEF Slots, Cur
  <2>2. \A n \in Nos : committed'[<<q, n>>] = committed[<<q, n>>]
    BY <1>a, <2>1 DEF RowsKept
  <2>3. CommitOK(q)
    BY DEF CommitInv
  <2> QED
    BY <1>a, <1>b, <2>2, <2>3 DEF OthersKept, CommitOK, WasCommitted, Nos
<1> SUFFICES CommitOK(r)'
  BY <1>b DEF CommitInv
<1>c. CommitOK(r)
  BY DEF CommitInv
<1>d. ASSUME NEW n \in Nos, n # no[r] PROVE ~committed'[<<r, n>>]
  <2>1. <<r, n>> \in Slots /\ <<r, n>> # Cur(r)
    BY <1>d DEF Slots, Cur
  <2> QED
    BY <1>a, <1>c, <1>d, <2>1 DEF RowsKept, CommitOK
<1>e. ASSUME no'[r] = no[r],
             no[r] \in Nos /\ committed'[Cur(r)] =>
                /\ pc'[r] \in {"result", "settle", "done", "crashed"}
                /\ pc'[r] = "result" => WasCommitted(last'[r]),
             outcome'[r] = "OK" => pc'[r] \in {"settle", "done", "crashed"},
             outcome'[r] = "OK" \/ status'[r] = "SUCCEEDED" =>
                no[r] \in Nos /\ committed'[Cur(r)]
      PROVE  CommitOK(r)'
  BY <1>d, <1>e DEF CommitOK, Cur, Nos, WasCommitted
<1>f. /\ no[r] \in Nos /\ committed[Cur(r)] =>
            /\ pc[r] \in {"result", "settle", "done", "crashed"}
            /\ pc[r] = "result" => WasCommitted(last[r])
      /\ outcome[r] = "OK" => pc[r] \in {"settle", "done", "crashed"}
      /\ outcome[r] = "OK" \/ status[r] = "SUCCEEDED" =>
            no[r] \in Nos /\ committed[Cur(r)]
  BY <1>c DEF CommitOK, Cur
<1>g. no[r] \in Nos => Cur(r) \in Slots
  BY DEF Cur, Slots
<1>1. CASE Claim(r)
  BY <1>e, <1>f, <1>1 DEF TypeOK, RouteType, HoldType, Stages, Goto, factVars, routeVars,
     Claim
<1>2. CASE AdmitReject(r)
  BY <1>e, <1>f, <1>2
     DEF TypeOK, RouteType, HoldType, Stages, Goto, factVars, routeVars, FactType,
         Terminal, InProgress,
     AdmitReject, FailUnsettled
<1>3. CASE Admit(r)
  BY <1>e, <1>f, <1>3 DEF TypeOK, RouteType, HoldType, Stages, Goto, factVars, routeVars,
     Admit
<1>4. CASE SelectWinner(r)
  <2>1. \A n \in Nos : committed'[<<r, n>>] = FALSE
    BY <1>c, <1>4 DEF TypeOK, FactType, Slots, CommitOK, SelectWinner, factVars
  <2>2. outcome'[r] # "OK" /\ status'[r] # "SUCCEEDED"
    BY <1>c, <1>4 DEF StageInv, Terminal, CommitOK, SelectWinner
  <2> QED
    BY <2>1, <2>2 DEF CommitOK, Nos
<1>5. CASE EndLoop(r)
  BY <1>e, <1>f, <1>5 DEF TypeOK, RouteType, HoldType, Stages, Goto, factVars, routeVars,
     EndLoop, LeaveLoop
<1>6. CASE DispatchTerminates(r)
  BY <1>e, <1>f, <1>6
     DEF TypeOK, RouteType, HoldType, Stages, Goto, factVars, routeVars, FactType,
         Terminal, InProgress,
     DispatchTerminates, FailUnsettled
<1>7. CASE PreflightSkips(r)
  BY <1>e, <1>f, <1>7 DEF TypeOK, RouteType, HoldType, Stages, Goto, factVars, routeVars,
     PreflightSkips, SkipCandidate
<1>8. CASE PreflightStops(r)
  BY <1>e, <1>f, <1>8 DEF TypeOK, RouteType, HoldType, Stages, Goto, factVars, routeVars,
     PreflightStops, LeaveLoop
<1>9. CASE PreflightPasses(r)
  BY <1>e, <1>f, <1>9 DEF TypeOK, RouteType, HoldType, Stages, Goto, factVars, routeVars,
     PreflightPasses
<1>10. CASE AcquireLease(r)
  BY <1>e, <1>f, <1>10 DEF TypeOK, RouteType, HoldType, Stages, Goto, factVars, routeVars,
     AcquireLease
<1>11. CASE LeaseWaitEnds(r)
  BY <1>e, <1>f, <1>11 DEF TypeOK, RouteType, HoldType, Stages, Goto, factVars, routeVars,
     LeaseWaitEnds, SkipCandidate
<1>12. CASE ReserveQuota(r)
  BY <1>e, <1>f, <1>12 DEF TypeOK, RouteType, HoldType, Stages, Goto, factVars, routeVars,
     ReserveQuota
<1>13. CASE QuotaRejects(r)
  BY <1>e, <1>f, <1>13 DEF TypeOK, RouteType, HoldType, Stages, Goto, factVars, routeVars,
     QuotaRejects, LeaveLoop
<1>14. CASE CreateAttempt(r)
  BY <1>e, <1>f, <1>14 DEF TypeOK, RouteType, HoldType, Stages, Goto, factVars, routeVars,
     CreateAttempt
<1>15. CASE CreateRefused(r)
  BY <1>e, <1>f, <1>15 DEF TypeOK, RouteType, HoldType, Stages, Goto, factVars, routeVars,
     CreateRefused, ReturnGrant
<1>15a. CASE CreateThrows(r)
  BY <1>e, <1>f, <1>15a DEF TypeOK, RouteType, HoldType, Stages, Goto, factVars, routeVars,
     CreateThrows, ReturnGrant
<1>16. CASE UndoLease(r)
  BY <1>e, <1>f, <1>16 DEF TypeOK, RouteType, HoldType, Stages, Goto, factVars, routeVars,
     UndoLease
<1>17. CASE FenceRejects(r)
  BY <1>e, <1>f, <1>17
     DEF TypeOK, RouteType, HoldType, Stages, Goto, factVars, routeVars, FactType,
         Terminal, InProgress,
     FenceRejects, RejectedEvidence
<1>18. CASE FenceFailsOver(r)
  BY <1>e, <1>f, <1>18
     DEF TypeOK, RouteType, HoldType, Stages, Goto, factVars, routeVars, FactType,
         Terminal, InProgress,
     FenceFailsOver, GiveUpAttempt, RejectedEvidence
<1>19. CASE FenceReselects(r)
  BY <1>e, <1>f, <1>19
     DEF TypeOK, RouteType, HoldType, Stages, Goto, factVars, routeVars, FactType,
         Terminal, InProgress,
     FenceReselects, GiveUpAttempt, RejectedEvidence
<1>20. CASE FencePasses(r)
  BY <1>e, <1>f, <1>20 DEF TypeOK, RouteType, HoldType, Stages, Goto, factVars, routeVars,
     FencePasses
<1>21. CASE UpstreamAnswers(r)
  BY <1>e, <1>f, <1>21 DEF TypeOK, RouteType, HoldType, Stages, Goto, factVars, routeVars,
     UpstreamAnswers, Results, Kinds
<1>22. CASE PersistEvidence(r)
  <2>1. no'[r] = no[r] /\ pc[r] = "evidence" /\ pc'[r] = "result"
        /\ outcome' = outcome /\ status' = status /\ last' = last
    BY <1>22 DEF TypeOK, RouteType, Goto, routeVars, PersistEvidence
  <2>2. no[r] \in Nos /\ committed'[Cur(r)] => WasCommitted(last[r])
    BY <1>f, <1>g, <1>22 DEF TypeOK, FactType, PersistEvidence
  <2> QED
    BY <1>e, <1>f, <2>1, <2>2 DEF WasCommitted
<1>23. CASE RecordResult(r)
  <2>1. no'[r] = no[r] /\ pc[r] = "result" /\ status' = status /\ no[r] \in Nos
        /\ outcome'[r] = last[r].kind
    BY <1>23
       DEF TypeOK, RouteType, HoldType, RouteInv, Attempting, Goto, routeVars,
           SkipCandidate,
       RecordResult
  <2>2. committed'[Cur(r)] = WasCommitted(last[r])
    BY <1>g, <2>1, <1>23 DEF TypeOK, FactType, RecordResult
  <2>3. pc'[r] = IF FailsOver(last[r]) THEN "select" ELSE "settle"
    BY <1>23 DEF TypeOK, RouteType, Goto, SkipCandidate, RecordResult
  <2> QED
    BY <1>e, <1>f, <2>1, <2>2, <2>3 DEF WasCommitted, FailsOver
<1>24. CASE SettleRequest(r)
  BY <1>e, <1>f, <1>24
     DEF TypeOK, RouteType, HoldType, Stages, Goto, factVars, routeVars, FactType,
         Terminal, InProgress,
     SettleRequest, Finalize
<1>25. CASE PublishFailed(r)
  BY <1>e, <1>f, <1>25
     DEF TypeOK, RouteType, HoldType, Stages, Goto, factVars, routeVars, FactType,
         Terminal, InProgress,
     PublishFailed, FailUnsettled, Finalize
<1>26. CASE Crash(r)
  BY <1>e, <1>f, <1>26 DEF TypeOK, RouteType, HoldType, Stages, Goto, factVars, routeVars,
     Crash
<1> QED
  BY <1>1, <1>2, <1>3, <1>4, <1>5, <1>6, <1>7, <1>8, <1>9, <1>10, <1>11, <1>12, <1>13,
     <1>14, <1>15, <1>15a, <1>16, <1>17, <1>18, <1>19, <1>20, <1>21, <1>22, <1>23, <1>24, <1>25,
        <1>26
     DEF OwnStep, Pipeline

\* Only the administrator moves the bill.
LEMMA OwnStepKeepsBill ==
    ASSUME NEW r \in Requests, OwnStep(r)
    PROVE  bill' = bill
<1>1. CASE Claim(r)
  BY <1>1 DEF billVars, Claim
<1>2. CASE AdmitReject(r)
  BY <1>2 DEF billVars, AdmitReject, FailUnsettled
<1>3. CASE Admit(r)
  BY <1>3 DEF billVars, Admit
<1>4. CASE SelectWinner(r)
  BY <1>4 DEF billVars, SelectWinner, Candidates
<1>5. CASE EndLoop(r)
  BY <1>5 DEF billVars, EndLoop, LeaveLoop
<1>6. CASE DispatchTerminates(r)
  BY <1>6 DEF billVars, DispatchTerminates, FailUnsettled
<1>7. CASE PreflightSkips(r)
  BY <1>7 DEF billVars, PreflightSkips, SkipCandidate
<1>8. CASE PreflightStops(r)
  BY <1>8 DEF billVars, PreflightStops, LeaveLoop
<1>9. CASE PreflightPasses(r)
  BY <1>9 DEF billVars, PreflightPasses
<1>10. CASE AcquireLease(r)
  BY <1>10 DEF billVars, AcquireLease
<1>11. CASE LeaseWaitEnds(r)
  BY <1>11 DEF billVars, LeaseWaitEnds, SkipCandidate
<1>12. CASE ReserveQuota(r)
  BY <1>12 DEF billVars, ReserveQuota
<1>13. CASE QuotaRejects(r)
  BY <1>13 DEF billVars, QuotaRejects, LeaveLoop
<1>14. CASE CreateAttempt(r)
  BY <1>14 DEF billVars, CreateAttempt
<1>15. CASE CreateRefused(r)
  BY <1>15 DEF billVars, CreateRefused, ReturnGrant
<1>15a. CASE CreateThrows(r)
  BY <1>15a DEF billVars, CreateThrows, ReturnGrant
<1>16. CASE UndoLease(r)
  BY <1>16 DEF billVars, UndoLease
<1>17. CASE FenceRejects(r)
  BY <1>17 DEF billVars, FenceRejects
<1>18. CASE FenceFailsOver(r)
  BY <1>18 DEF billVars, FenceFailsOver, GiveUpAttempt
<1>19. CASE FenceReselects(r)
  BY <1>19 DEF billVars, FenceReselects, GiveUpAttempt
<1>20. CASE FencePasses(r)
  BY <1>20 DEF billVars, FencePasses
<1>21. CASE UpstreamAnswers(r)
  BY <1>21 DEF billVars, UpstreamAnswers, Results, Kinds
<1>22. CASE PersistEvidence(r)
  BY <1>22 DEF billVars, PersistEvidence
<1>23. CASE RecordResult(r)
  BY <1>23 DEF billVars, RecordResult, SkipCandidate
<1>24. CASE SettleRequest(r)
  BY <1>24 DEF billVars, SettleRequest, Finalize
<1>25. CASE PublishFailed(r)
  BY <1>25 DEF billVars, PublishFailed, FailUnsettled, Finalize
<1>26. CASE Crash(r)
  BY <1>26 DEF billVars, Crash
<1> QED
  BY <1>1, <1>2, <1>3, <1>4, <1>5, <1>6, <1>7, <1>8, <1>9, <1>10, <1>11, <1>12, <1>13,
     <1>14, <1>15, <1>15a, <1>16, <1>17, <1>18, <1>19, <1>20, <1>21, <1>22, <1>23, <1>24, <1>25,
        <1>26
     DEF OwnStep, Pipeline

\* While the period row is locked or closed no step writes a line or starts an
\* attempt ...
LEMMA MonthIsFenced ==
    ASSUME TypeOK, RouteInv, SlotInv, bill # "OPEN", NEW r \in Requests, OwnStep(r)
    PROVE  /\ bill' = bill /\ frozen' = frozen /\ line' = line
           /\ \A s \in Slots : attempt'[s] # "NONE" => attempt[s] # "NONE"
<1>. USE Frame
<1>1. CASE Claim(r)
  BY <1>1 DEF factVars, billVars,
     Claim
<1>2. CASE AdmitReject(r)
  BY <1>2 DEF factVars, billVars,
     AdmitReject, FailUnsettled
<1>3. CASE Admit(r)
  BY <1>3 DEF factVars, billVars,
     Admit
<1>4. CASE SelectWinner(r)
  BY <1>4 DEF factVars, billVars,
     SelectWinner, Candidates
<1>5. CASE EndLoop(r)
  BY <1>5 DEF factVars, billVars,
     EndLoop, LeaveLoop
<1>6. CASE DispatchTerminates(r)
  BY <1>6 DEF factVars, billVars,
     DispatchTerminates, FailUnsettled
<1>7. CASE PreflightSkips(r)
  BY <1>7 DEF factVars, billVars,
     PreflightSkips, SkipCandidate
<1>8. CASE PreflightStops(r)
  BY <1>8 DEF factVars, billVars,
     PreflightStops, LeaveLoop
<1>9. CASE PreflightPasses(r)
  BY <1>9 DEF factVars, billVars,
     PreflightPasses
<1>10. CASE AcquireLease(r)
  BY <1>10 DEF factVars, billVars,
     AcquireLease
<1>11. CASE LeaseWaitEnds(r)
  BY <1>11 DEF factVars, billVars,
     LeaseWaitEnds, SkipCandidate
<1>12. CASE ReserveQuota(r)
  BY <1>12 DEF factVars, billVars,
     ReserveQuota
<1>13. CASE QuotaRejects(r)
  BY <1>13 DEF factVars, billVars,
     QuotaRejects, LeaveLoop
<1>14. CASE CreateAttempt(r)
  BY <1>1, <1>14 DEF MonthWritable, CreateAttempt
<1>15. CASE CreateRefused(r)
  BY <1>15 DEF factVars, billVars,
     CreateRefused, ReturnGrant
<1>15a. CASE CreateThrows(r)
  <2>1. CASE UNCHANGED attempt
    BY <1>15a, <2>1 DEF factVars, billVars, CreateThrows
  <2>2. CASE MonthWritable
    BY <1>1, <1>15a, <2>2 DEF MonthWritable, CreateThrows
  <2> QED
    BY <1>15a, <2>1, <2>2 DEF CreateThrows
<1>16. CASE UndoLease(r)
  BY <1>16 DEF factVars, billVars,
     UndoLease
<1>17. CASE FenceRejects(r)
  BY <1>1, <1>17 DEF MonthWritable, FenceRejects, RejectedEvidence
<1>18. CASE FenceFailsOver(r)
  BY <1>1, <1>18 DEF MonthWritable, FenceFailsOver, GiveUpAttempt, RejectedEvidence
<1>19. CASE FenceReselects(r)
  BY <1>1, <1>19 DEF MonthWritable, FenceReselects, GiveUpAttempt, RejectedEvidence
<1>20. CASE FencePasses(r)
  BY <1>20 DEF factVars, billVars,
     FencePasses
<1>21. CASE UpstreamAnswers(r)
  BY <1>21 DEF factVars, billVars,
     UpstreamAnswers, Results, Kinds
<1>22. CASE PersistEvidence(r)
  BY <1>1, <1>22 DEF MonthWritable, PersistEvidence
<1>23. CASE RecordResult(r)
  <2>1. SlotOK(r, no[r]) /\ no[r] \in Nos
    BY <1>23 DEF SlotInv, RouteInv, Attempting, RecordResult
  <2>2. attempt[Cur(r)] # "NONE"
    BY <1>23, <2>1 DEF SlotOK, Cur, RecordResult
  <2> QED
    BY <1>23, <1>2, <2>2 DEF TypeOK, FactType, RecordResult, billVars
<1>24. CASE SettleRequest(r)
  BY <1>24 DEF factVars, billVars,
     SettleRequest, Finalize
<1>25. CASE PublishFailed(r)
  BY <1>25 DEF factVars, billVars,
     PublishFailed, FailUnsettled, Finalize
<1>26. CASE Crash(r)
  BY <1>26 DEF factVars, billVars,
     Crash
<1> QED
  BY <1>1, <1>2, <1>3, <1>4, <1>5, <1>6, <1>7, <1>8, <1>9, <1>10, <1>11, <1>12, <1>13,
     <1>14, <1>15, <1>15a, <1>16, <1>17, <1>18, <1>19, <1>20, <1>21, <1>22, <1>23, <1>24, <1>25,
        <1>26
     DEF OwnStep, Pipeline

\* A request that has its terminal status takes no further step.
LEMMA TerminalKept ==
    ASSUME TypeOK, StageInv, NEW r \in Requests, OwnStep(r),
           NEW q \in Requests, status[q] \in Terminal
    PROVE  q # r /\ status'[q] = status[q]
<1>1. pc[r] # "done"
  <2>1. CASE Claim(r)
    BY <2>1 DEF Claim
  <2>2. CASE AdmitReject(r)
    BY <2>2 DEF AdmitReject
  <2>3. CASE Admit(r)
    BY <2>3 DEF Admit
  <2>4. CASE SelectWinner(r)
    BY <2>4 DEF SelectWinner
  <2>5. CASE EndLoop(r)
    BY <2>5 DEF EndLoop
  <2>6. CASE DispatchTerminates(r)
    BY <2>6 DEF DispatchTerminates
  <2>7. CASE PreflightSkips(r)
    BY <2>7 DEF PreflightSkips
  <2>8. CASE PreflightStops(r)
    BY <2>8 DEF PreflightStops
  <2>9. CASE PreflightPasses(r)
    BY <2>9 DEF PreflightPasses
  <2>10. CASE AcquireLease(r)
    BY <2>10 DEF AcquireLease
  <2>11. CASE LeaseWaitEnds(r)
    BY <2>11 DEF LeaseWaitEnds
  <2>12. CASE ReserveQuota(r)
    BY <2>12 DEF ReserveQuota
  <2>13. CASE QuotaRejects(r)
    BY <2>13 DEF QuotaRejects
  <2>14. CASE CreateAttempt(r)
    BY <2>14 DEF CreateAttempt
  <2>15. CASE CreateRefused(r)
    BY <2>15 DEF CreateRefused, ReturnGrant
  <2>15a. CASE CreateThrows(r)
    BY <2>15a DEF CreateThrows, ReturnGrant
  <2>16. CASE UndoLease(r)
    BY <2>16 DEF UndoLease
  <2>17. CASE FenceRejects(r)
    BY <2>17 DEF FenceRejects
  <2>18. CASE FenceFailsOver(r)
    BY <2>18 DEF FenceFailsOver
  <2>19. CASE FenceReselects(r)
    BY <2>19 DEF FenceReselects
  <2>20. CASE FencePasses(r)
    BY <2>20 DEF FencePasses
  <2>21. CASE UpstreamAnswers(r)
    BY <2>21 DEF UpstreamAnswers
  <2>22. CASE PersistEvidence(r)
    BY <2>22 DEF PersistEvidence
  <2>23. CASE RecordResult(r)
    BY <2>23 DEF RecordResult
  <2>24. CASE SettleRequest(r)
    BY <2>24 DEF SettleRequest
  <2>25. CASE PublishFailed(r)
    BY <2>25 DEF PublishFailed
  <2>26. CASE Crash(r)
    BY <2>26 DEF Crash
  <2> QED
    BY <2>1, <2>2, <2>3, <2>4, <2>5, <2>6, <2>7, <2>8, <2>9, <2>10, <2>11, <2>12, <2>13,
       <2>14, <2>15, <2>15a, <2>16, <2>17, <2>18, <2>19, <2>20, <2>21, <2>22, <2>23, <2>24,
          <2>25, <2>26
       DEF OwnStep, Pipeline
<1>2. pc[q] = "done"
  BY DEF StageInv
<1> QED
  BY <1>1, <1>2, Frame DEF OthersKept

\* ... and a month is only closed when nothing is under way.
LEMMA BillStep ==
    ASSUME TypeOK, StageInv, RouteInv, SlotInv, ClosedMonthIsFinal, [Next]_vars
    PROVE  ClosedMonthIsFinal'
<1>1. ASSUME NEW r \in Requests, OwnStep(r) PROVE ClosedMonthIsFinal'
  <2>1. CASE bill = "OPEN"
    <3>1. bill' = bill
      BY <1>1, OwnStepKeepsBill
    <3> QED
      BY <2>1, <3>1 DEF ClosedMonthIsFinal
  <2>2. CASE bill # "OPEN"
    <3>1. bill' = bill /\ frozen' = frozen /\ line' = line
          /\ \A s \in Slots : attempt'[s] # "NONE" => attempt[s] # "NONE"
      BY <1>1, <2>2, MonthIsFenced
    <3>2. LinedSlots' = LinedSlots
      BY <3>1 DEF LinedSlots, Slots, Nos
    <3>3. \A q \in Requests : status[q] \in Terminal => status'[q] \in Terminal
      BY <1>1, TerminalKept
    <3>4. \A s \in Slots : s[1] \in Requests
      BY DEF Slots
    <3>5. bill \in {"CLOSING", "CLOSED"}
      BY <2>2 DEF TypeOK, BillType
    <3>6. frozen' = LinedSlots' /\ \A s \in Slots : attempt'[s] # "NONE" => status'[s[1]] \in Terminal
      BY <3>1, <3>2, <3>3, <3>4, <3>5 DEF ClosedMonthIsFinal
    <3> QED
      BY <3>6 DEF ClosedMonthIsFinal, Slots, Nos, Terminal
  <2> QED
    BY <2>1, <2>2
<1>2. CASE BeginClose
  <2>1. \A s \in Slots : attempt[s] # "NONE" => status[s[1]] \in Terminal
    <3> SUFFICES ASSUME NEW r \in Requests, NEW n \in Nos, attempt[<<r, n>>] # "NONE"
                 PROVE  status[r] \in Terminal
      BY DEF Slots
    <3>1. ~InProgress(r)
      BY <1>2 DEF BeginClose, PendingSettlement, Attempts
    <3>2. status[r] # "NONE"
      <4>1. SlotOK(r, n) /\ n \in Nat \ {0}
        BY NumberAssumption DEF NumberAssumption, SlotInv, Nos
      <4>2. no[r] # 0
        BY <4>1 DEF SlotOK, Untouched
      <4> QED
        BY <4>2 DEF StageInv, RouteInv
    <3> QED
      BY <3>1, <3>2 DEF TypeOK, FactType, Statuses, Terminal, InProgress
  <2> QED
    BY <1>2, <2>1 DEF BeginClose, ClosedMonthIsFinal, LinedSlots, factVars
<1>3. CASE CommitClose
  BY <1>3 DEF CommitClose, ClosedMonthIsFinal, LinedSlots, factVars
<1>4. CASE AbortClose \/ ReopenMonth
  BY <1>4 DEF AbortClose, ReopenMonth, ClosedMonthIsFinal
<1>5. CASE UNCHANGED vars
  BY <1>5 DEF vars, billVars, factVars, ClosedMonthIsFinal, LinedSlots
<1> QED
  BY <1>1, <1>2, <1>3, <1>4, <1>5 DEF Next, OwnStep, Billing

-----------------------------------------------------------------------------
(* The inductive invariant.                                                *)

\* The initial state satisfies every part.
LEMMA InitIInv == Init => IInv
<1> SUFFICES ASSUME Init PROVE IInv
  OBVIOUS
<1> USE NumberAssumption, ResourceAssumption DEF NumberAssumption, ResourceAssumption, Init
<1>1. TypeOK
  <2>1. FactType
    BY DEF FactType, Statuses, NoTxn
  <2>2. QuotaType /\ BillType /\ leases \subseteq Lease
    BY DEF QuotaType, BillType, RowStates
  <2>3. RouteType
    BY DEF RouteType, Stages
  <2>4. HoldType
    BY DEF HoldType, NoResult
  <2> QED
    BY <2>1, <2>2, <2>3, <2>4 DEF TypeOK
<1>2. StageInv /\ RouteInv
  BY DEF StageInv, RouteInv, Terminal, Attempting
<1>3. LeaseInv
  BY DEF LeaseInv, LeaseOK, ReleaseLeaseIds
<1>4. LimitInv
  <2>1. \A res : LeasesOn(res) = {}
    BY DEF LeasesOn
  <2>2. IsFiniteSet(leases) /\ \A res : Cardinality(LeasesOn(res)) = 0
    BY <2>1, FS_EmptySet, Zenon
  <2>3. LeaseLimit \in Nat
    OBVIOUS
  <2> QED
    BY ONLY <2>2, <2>3 DEF LimitInv
<1>5. \A r \in Requests : \A n \in Nos : <<r, n>> \in Slots
  BY DEF Slots
<1>6. SlotInv
  BY <1>5 DEF SlotInv, SlotOK, Behind, Untouched, Nos
<1>7. LedgerInv
  BY <1>5 DEF LedgerInv, LedgerOK, Lines
<1>8. ReservationInv
  BY <1>5 DEF ReservationInv, ReservationOK
<1>9. CommitInv
  BY <1>5 DEF CommitInv, CommitOK
<1>10. ClosedMonthIsFinal
  BY DEF ClosedMonthIsFinal
<1> QED
  BY <1>1, <1>2, <1>3, <1>4, <1>6, <1>7, <1>8, <1>9, <1>10 DEF IInv

\* Every step, of a request or of the bill, preserves all parts together.
LEMMA NextIInv == IInv /\ [Next]_vars => IInv'
<1> SUFFICES ASSUME IInv, [Next]_vars PROVE IInv'
  OBVIOUS
<1>1. TypeOK' /\ StageInv' /\ RouteInv' /\ ClosedMonthIsFinal'
  BY TypeStep, StageStep, RouteStep, BillStep DEF IInv
<1>2. LeaseInv' /\ LimitInv' /\ SlotInv' /\ LedgerInv' /\ ReservationInv' /\ CommitInv'
  <2>1. ASSUME NEW r \in Requests, OwnStep(r)
        PROVE  /\ LeaseInv' /\ LimitInv' /\ SlotInv' /\ LedgerInv'
               /\ ReservationInv' /\ CommitInv'
    BY <2>1, LeaseStep, LimitStep, SlotStep, LedgerStep, ReservationStep, CommitStep
       DEF IInv
  <2>2. ASSUME Billing \/ UNCHANGED vars
        PROVE  /\ LeaseInv' /\ LimitInv' /\ SlotInv' /\ LedgerInv'
               /\ ReservationInv' /\ CommitInv'
    <3>1. UNCHANGED <<status, factVars, txn, leases, quotaVars, processVars>>
      BY <2>2
         DEF Billing, BeginClose, CommitClose, AbortClose, ReopenMonth, vars, processVars
    <3> USE <3>1 DEF IInv, factVars, quotaVars, processVars, routeVars, pendVars
    <3>2. LeaseInv' /\ LimitInv'
      BY DEF LeaseInv, LeaseOK, ReleaseLeaseIds, LimitInv, LeasesOn
    <3>3. SlotInv'
      <4>1. ASSUME NEW r \in Requests, NEW n \in Nos PROVE SlotOK(r, n)'
        BY DEF SlotInv, SlotOK, Behind, Untouched
      <4> QED
        BY <4>1 DEF SlotInv, Nos
    <3>4. LedgerInv'
      <4>1. \A r \in Requests : Lines(r)' = Lines(r)
        BY DEF Lines, Nos
      <4> QED
        BY <4>1 DEF LedgerInv, LedgerOK, NoTxn
    <3>5. ReservationInv'
      BY DEF ReservationInv, ReservationOK, Nos
    <3>6. CommitInv'
      BY DEF CommitInv, CommitOK, WasCommitted, Nos
    <3> QED
      BY <3>2, <3>3, <3>4, <3>5, <3>6
  <2> QED
    BY <2>1, <2>2 DEF Next, OwnStep
<1> QED
  BY <1>1, <1>2 DEF IInv

\* The invariant holds in every reachable state.
THEOREM Invariance == Spec => []IInv
  BY InitIInv, NextIInv, PTL DEF Spec

-----------------------------------------------------------------------------
(* The properties.                                                         *)

\* Every row and process variable keeps its type; in particular neither quota
\* column goes negative, whatever the upstream reports.
THEOREM TypeCorrect == Spec => []TypeOK
<1>1. IInv => TypeOK
  BY DEF IInv
<1> QED
  BY <1>1, Invariance, PTL

\* However many requests compete, fail over, are rejected or crash, a plan is
\* never called more often at once than its concurrency_limit: the calls map
\* one to one into the unreleased leases acquireLease has counted.
THEOREM ConcurrencyBound == Spec => []ProviderConcurrencyBounded
<1>1. IInv => ProviderConcurrencyBounded
  <2> SUFFICES ASSUME IInv, LeaseLimit > 0, NEW res \in CodingPlan
               PROVE  Cardinality({r \in Requests : pc[r] = "upstream" /\ winner[r] = res})
                         <= LeaseLimit
    BY DEF ProviderConcurrencyBounded
  <2> DEFINE Calls == {r \in Requests : pc[r] = "upstream" /\ winner[r] = res}
             lease == [r \in Calls |-> <<r, no[r], winner[r]>>]
  <2>1. IsFiniteSet(LeasesOn(res)) /\ Cardinality(LeasesOn(res)) \in Nat
    <3>1. LeasesOn(res) \in SUBSET leases
      BY DEF LeasesOn
    <3> QED
      BY <3>1, FS_Subset, FS_CardinalityType DEF IInv, LimitInv
  <2>2. lease \in Injection(Calls, LeasesOn(res))
    <3>1. \A r \in Calls : <<r, no[r], winner[r]>> \in LeasesOn(res)
      BY DEF IInv, LeaseInv, LeaseOK, LeasesOn
    <3> QED
      BY <3>1 DEF Injection, IsInjective
  <2>3. Cardinality(LeasesOn(res)) <= LeaseLimit
    BY DEF IInv, LimitInv
  <2>4. IsFiniteSet(Calls) /\ Cardinality(Calls) <= Cardinality(LeasesOn(res))
    BY <2>1, <2>2, FS_Injection
  <2>5. Cardinality(Calls) \in Nat
    BY <2>4, FS_CardinalityType
  <2> QED
    BY <2>1, <2>3, <2>4, <2>5, NumberAssumption DEF NumberAssumption
<1> QED
  BY <1>1, Invariance, PTL

\* Each of the paths that publish a terminal status has given back every lease
\* and reservation of every attempt of the request.
THEOREM TerminalReleased == Spec => []TerminalReleasesAll
<1>1. IInv => TerminalReleasesAll
  <2> SUFFICES ASSUME IInv, NEW r \in Requests, status[r] \in Terminal
               PROVE  /\ \A l \in leases : l[1] # r
                      /\ \A n \in Nos : usageRow[<<r, n>>] # "RESERVED"
    BY DEF TerminalReleasesAll
  <2>1. pc[r] = "done"
    BY DEF IInv, StageInv
  <2> QED
    BY <2>1 DEF IInv, LeaseInv, LeaseOK, ReservationInv, ReservationOK
<1> QED
  BY <1>1, Invariance, PTL

\* A terminal request is complete: all its attempts are finished, each has its
\* ledger line and the transaction sums exactly those.
THEOREM TerminalComplete == Spec => []TerminalIsComplete
<1>1. IInv => TerminalIsComplete
  <2> SUFFICES ASSUME IInv, NEW r \in Requests, status[r] \in Terminal
               PROVE  /\ \A n \in Attempts(r) : attempt[<<r, n>>] = "FINISHED"
                      /\ Lines(r) = Attempts(r)
                      /\ txn[r].attempts = Attempts(r)
                      /\ txn[r].posted <=> Attempts(r) # {}
    BY DEF TerminalIsComplete
  <2>1. pc[r] = "done"
    BY DEF IInv, StageInv
  <2>2. ASSUME NEW n \in Nos PROVE Behind(<<r, n>>)
    <3>1. n \in Nat /\ no[r] \in Nat /\ SlotOK(r, n)
      BY NumberAssumption DEF NumberAssumption, IInv, TypeOK, RouteType, SlotInv, Nos
    <3> QED
      BY <2>1, <3>1 DEF SlotOK, Behind, Untouched
  <2>3. \A n \in Nos : attempt[<<r, n>>] \in {"NONE", "STARTED", "FINISHED"}
    BY DEF IInv, TypeOK, FactType, Slots
  <2>4. Lines(r) = Attempts(r)
    BY <2>2 DEF Behind, Lines, Attempts
  <2>5. LedgerOK(r)
    BY DEF IInv, LedgerInv
  <2> QED
    BY <2>1, <2>2, <2>3, <2>4, <2>5 DEF Behind, LedgerOK, Attempts
<1> QED
  BY <1>1, Invariance, PTL

\* A bill that is being closed or is closed holds every ledger line, and no
\* request is left whose usage the closed month would refuse.
THEOREM ClosedMonth == Spec => []ClosedMonthIsFinal
<1>1. IInv => ClosedMonthIsFinal
  BY DEF IInv
<1> QED
  BY <1>1, Invariance, PTL

\* After the first byte of an answer no other upstream is tried, and success
\* means that an attempt was committed.
THEOREM CommittedLast == Spec => []CommittedAttemptIsLast
<1>1. IInv => CommittedAttemptIsLast
  <2> SUFFICES ASSUME IInv PROVE CommittedAttemptIsLast
    OBVIOUS
  <2>1. ASSUME NEW r \in Requests, NEW n \in Nos, committed[<<r, n>>], NEW m \in Nos, m > n
        PROVE  attempt[<<r, m>>] = "NONE"
    <3>1. n = no[r]
      BY <2>1 DEF IInv, CommitInv, CommitOK
    <3>2. SlotOK(r, m)
      BY DEF IInv, SlotInv
    <3> QED
      BY <2>1, <3>1, <3>2 DEF SlotOK, Untouched
  <2>2. ASSUME NEW r \in Requests, status[r] = "SUCCEEDED"
        PROVE  \E n \in Nos : committed[<<r, n>>]
    BY <2>2 DEF IInv, CommitInv, CommitOK
  <2> QED
    BY <2>1, <2>2 DEF CommittedAttemptIsLast, Slots
<1> QED
  BY <1>1, Invariance, PTL

\* No step of any request, nor of the bill, rewrites a terminal request.
THEOREM TerminalForever == Spec => TerminalIsForever
<1>1. IInv /\ [Next]_vars => [KeepsTerminal]_vars
  <2> SUFFICES ASSUME IInv, Next PROVE KeepsTerminal
    OBVIOUS
  <2>1. ASSUME NEW r \in Requests, OwnStep(r) PROVE KeepsTerminal
    <3> SUFFICES ASSUME NEW q \in Requests, status[q] \in Terminal
                 PROVE  /\ status'[q] = status[q] /\ txn'[q] = txn[q]
                        /\ \A n \in Nos : /\ attempt'[<<q, n>>] = attempt[<<q, n>>]
                                          /\ line'[<<q, n>>] = line[<<q, n>>]
                                          /\ amount'[<<q, n>>] = amount[<<q, n>>]
      BY DEF KeepsTerminal
    <3>1. q # r /\ RowsKept(r) /\ OthersKept(r)
      BY <2>1, Frame, TerminalKept DEF IInv
    <3>2. \A n \in Nos : <<q, n>> \in Slots /\ <<q, n>> # Cur(r)
      BY <3>1 DEF Slots, Cur
    <3> QED
      BY <3>1, <3>2 DEF RowsKept, OthersKept
  <2>2. ASSUME Billing PROVE KeepsTerminal
    BY <2>2
       DEF Billing, BeginClose, CommitClose, AbortClose, ReopenMonth, factVars,
           KeepsTerminal
  <2> QED
    BY <2>1, <2>2 DEF Next, OwnStep
<1> QED
  BY <1>1, Invariance, PTL DEF Spec, TerminalIsForever

-----------------------------------------------------------------------------
(* RequestSettlement implements SettleOnce: each of its steps begins,      *)
(* records, ends, closes or reopens in the sense of SettleOnce, or is      *)
(* invisible there.                                                        *)

Mapped == <<Phases, Usage, Charged, bill # "OPEN", frozen>>

\* The four ways in which a step of a request moves its books.
BillKept == bill' = bill /\ frozen' = frozen
Writes(r) ==
    /\ bill = "OPEN" /\ no[r] \in Nos
    /\ line[Cur(r)] = "NONE" /\ line'[Cur(r)] # "NONE"
Quiet == UNCHANGED <<status, line, amount, txn>>
Begins(r) ==
    /\ status[r] = "NONE" /\ status' = [status EXCEPT ![r] = "IN_PROGRESS"]
    /\ UNCHANGED <<line, amount, txn>>
Records(r) == InProgress(r) /\ Writes(r) /\ UNCHANGED <<status, txn>>
Ends(r) ==
    /\ InProgress(r) /\ status'[r] \in Terminal
    /\ Writes(r) \/ UNCHANGED <<line, amount>>

\* At the fence and with the answer in hand the current attempt has no line yet.
LEMMA NoLineYet ==
    ASSUME IInv, NEW r \in Requests, pc[r] \in {"fence", "evidence"}
    PROVE  no[r] \in Nos /\ line[Cur(r)] = "NONE"
<1>1. no[r] \in Nos
  BY DEF IInv, RouteInv, Attempting
<1>2. SlotOK(r, no[r])
  BY <1>1 DEF IInv, SlotInv
<1> QED
  BY <1>1, <1>2 DEF SlotOK, Cur

\* Every action of a request moves its books in one of these ways.
LEMMA BooksOf ==
    ASSUME IInv, NEW r \in Requests, OwnStep(r)
    PROVE  BillKept /\ (Quiet \/ Begins(r) \/ Records(r) \/ Ends(r))
<1>t. /\ status \in [Requests -> Statuses] /\ line \in [Slots -> {"NONE", "MEASURED", "UNKNOWN"}]
      /\ (no[r] \in Nos => Cur(r) \in Slots)
  BY DEF IInv, TypeOK, FactType, Cur, Slots
<1> USE <1>t DEF BillKept, billVars, factVars, InProgress, Terminal, MonthWritable
<1>1. CASE Claim(r)
  BY <1>1 DEF Claim, Begins
<1>2. CASE AdmitReject(r)
  BY <1>2 DEF AdmitReject, FailUnsettled, Ends
<1>3. CASE Admit(r)
  BY <1>3 DEF Admit, Quiet
<1>4. CASE SelectWinner(r)
  BY <1>4 DEF SelectWinner, Quiet
<1>5. CASE EndLoop(r)
  BY <1>5 DEF EndLoop, Quiet
<1>6. CASE DispatchTerminates(r)
  BY <1>6 DEF DispatchTerminates, FailUnsettled, Ends
<1>7. CASE PreflightSkips(r)
  BY <1>7 DEF PreflightSkips, Quiet
<1>8. CASE PreflightStops(r)
  BY <1>8 DEF PreflightStops, Quiet
<1>9. CASE PreflightPasses(r)
  BY <1>9 DEF PreflightPasses, Quiet
<1>10. CASE AcquireLease(r)
  BY <1>10 DEF AcquireLease, Quiet
<1>11. CASE LeaseWaitEnds(r)
  BY <1>11 DEF LeaseWaitEnds, Quiet
<1>12. CASE ReserveQuota(r)
  BY <1>12 DEF ReserveQuota, Quiet
<1>13. CASE QuotaRejects(r)
  BY <1>13 DEF QuotaRejects, Quiet
<1>14. CASE CreateAttempt(r)
  BY <1>14 DEF CreateAttempt, Quiet
<1>15. CASE CreateRefused(r)
  BY <1>15 DEF CreateRefused, Quiet
<1>16. CASE CreateThrows(r)
  BY <1>16 DEF CreateThrows, Quiet
<1>17. CASE UndoLease(r)
  BY <1>17 DEF UndoLease, Quiet
<1>18. CASE FenceRejects(r)
  <2>1. no[r] \in Nos /\ line[Cur(r)] = "NONE"
    BY <1>18, NoLineYet DEF FenceRejects
  <2> QED
    BY <1>18, <2>1 DEF FenceRejects, RejectedEvidence, Ends, Writes
<1>19. CASE FenceFailsOver(r)
  <2>1. no[r] \in Nos /\ line[Cur(r)] = "NONE"
    BY <1>19, NoLineYet DEF FenceFailsOver
  <2> QED
    BY <1>19, <2>1 DEF FenceFailsOver, GiveUpAttempt, RejectedEvidence, Records, Writes
<1>20. CASE FenceReselects(r)
  <2>1. no[r] \in Nos /\ line[Cur(r)] = "NONE"
    BY <1>20, NoLineYet DEF FenceReselects
  <2> QED
    BY <1>20, <2>1 DEF FenceReselects, GiveUpAttempt, RejectedEvidence, Records, Writes
<1>21. CASE FencePasses(r)
  BY <1>21 DEF FencePasses, Quiet
<1>22. CASE UpstreamAnswers(r)
  BY <1>22 DEF UpstreamAnswers, Quiet
<1>23. CASE PersistEvidence(r)
  <2>1. no[r] \in Nos /\ line[Cur(r)] = "NONE"
    BY <1>23, NoLineYet DEF PersistEvidence
  <2>2. last[r].quality \in {"MEASURED", "UNKNOWN"}
    BY DEF IInv, TypeOK, HoldType
  <2> QED
    BY <1>23, <2>1, <2>2 DEF PersistEvidence, Records, Writes
<1>24. CASE RecordResult(r)
  BY <1>24 DEF RecordResult, Quiet
<1>25. CASE SettleRequest(r)
  BY <1>25 DEF SettleRequest, Finalize, ReadyToFinalize, Ends
<1>26. CASE PublishFailed(r)
  BY <1>26 DEF PublishFailed, FailUnsettled, Finalize, ReadyToFinalize, Ends
<1>27. CASE Crash(r)
  BY <1>27 DEF Crash, Quiet
<1> QED
  BY <1>1, <1>2, <1>3, <1>4, <1>5, <1>6, <1>7, <1>8, <1>9, <1>10, <1>11, <1>12,
     <1>13, <1>14, <1>15, <1>16, <1>17, <1>18, <1>19, <1>20, <1>21, <1>22, <1>23,
     <1>24, <1>25, <1>26, <1>27
     DEF OwnStep, Pipeline

\* What the mapped books are after a step of one request.
LEMMA UsageOfOthers ==
    ASSUME NEW r \in Requests, RowsKept(r), NEW s \in Slots, s # Cur(r)
    PROVE  Usage'[s] = Usage[s]
  BY DEF Usage, UsageOf, RowsKept, Slots

\* A line written for the current attempt is one attempt's usage, recorded for the
\* first time.
LEMMA WritesRecordOne ==
    ASSUME IInv, IInv', NEW r \in Requests, OwnStep(r), InProgress(r), Writes(r)
    PROVE  Promise!RecordsOne(r)
<1> DEFINE s == Cur(r)
<1>1. s \in Slots /\ s \in Promise!Of(r)
  BY DEF Writes, Cur, Slots, Promise!Of
<1>2. RowsKept(r)
  BY Frame DEF IInv
<1>3. Phases[r] = "running"
  BY DEF Phases, Phase, InProgress
<1>4. Usage[s] = Unrecorded
  BY <1>1 DEF Usage, UsageOf, Writes
<1>5. Usage'[s] \in [line : {"MEASURED", "UNKNOWN"}, amount : Nat]
  <2>1. line'[s] \in {"MEASURED", "UNKNOWN"} /\ amount'[s] \in Nat
    BY <1>1 DEF IInv, TypeOK, FactType, Writes
  <2>2. Usage'[s] = [line |-> line'[s], amount |-> amount'[s]]
    BY <1>1 DEF Usage, UsageOf, Writes
  <2> QED
    BY <2>1, <2>2
<1>6. Usage' = [Usage EXCEPT ![s] = Usage'[s]]
  <2>1. \A t \in Slots : t # s => Usage'[t] = Usage[t]
    BY <1>2, UsageOfOthers
  <2>2. Usage' = [t \in Slots |-> Usage'[t]] /\ Usage = [t \in Slots |-> Usage[t]]
    BY DEF Usage
  <2> HIDE DEF s
  <2> QED
    BY <1>1, <2>1, <2>2
<1> HIDE DEF s
<1> QED
  BY <1>1, <1>3, <1>4, <1>5, <1>6 DEF Promise!RecordsOne, Writes

\* The statuses of the other requests stay.
LEMMA PhasesMove ==
    ASSUME NEW r \in Requests, OthersKept(r)
    PROVE  Phases' = [Phases EXCEPT ![r] = Phase(status'[r])]
  BY DEF Phases, OthersKept

\* What is recorded is what has a line.
LEMMA RecordedIsLined ==
    Promise!Recorded(Usage) = LinedSlots
<1>1. \A s \in Slots : Usage[s] # Unrecorded <=> line[s] # "NONE"
  BY DEF Usage, UsageOf, Unrecorded
<1> QED
  BY <1>1 DEF Promise!Recorded, LinedSlots, Slots

\* Only a request that has ended is charged, for the lines it has.
LEMMA ChargedIs ==
    ASSUME IInv, NEW r \in Requests, NEW n \in Nos
    PROVE  <<r, n>> \in Charged <=> pc[r] = "done" /\ line[<<r, n>>] # "NONE"
<1>1. LedgerOK(r) /\ <<r, n>> \in Slots
  BY DEF IInv, LedgerInv, Slots
<1>2. CASE pc[r] = "done"
  BY <1>1, <1>2 DEF LedgerOK, Charged, Lines
<1>3. CASE pc[r] # "done"
  BY <1>1, <1>3 DEF LedgerOK, Charged, NoTxn
<1> QED
  BY <1>2, <1>3

\* A request that ends is charged for all it has recorded, and nobody else is.
LEMMA EndsCharge ==
    ASSUME IInv, IInv', NEW r \in Requests, OwnStep(r), InProgress(r), Ends(r), BillKept
    PROVE  Promise!End(r)
<1>1. RowsKept(r) /\ OthersKept(r)
  BY Frame DEF IInv
<1>2. Phases[r] = "running" /\ Phase(status'[r]) = "ended"
  BY DEF Phases, Phase, InProgress, Ends, Terminal
<1>3. Promise!RecordsOne(r) \/ UNCHANGED Usage
  BY WritesRecordOne DEF Ends, Usage, UsageOf
<1>4. Charged' = Charged \cup (Promise!Of(r) \cap Promise!Recorded(Usage)')
  <2>1. pc[r] # "done" /\ pc'[r] = "done"
    BY DEF IInv, StageInv, InProgress, Ends, Terminal
  <2>2. Promise!Recorded(Usage)' = LinedSlots'
    <3>1. \A s \in Slots : Usage'[s] # Unrecorded <=> line'[s] # "NONE"
      BY DEF Usage, UsageOf, Unrecorded
    <3> QED
      BY <3>1 DEF Promise!Recorded, LinedSlots, Slots
  <2>3. ASSUME NEW s \in Slots
        PROVE  s \in Charged' <=> s \in Charged \cup (Promise!Of(r) \cap LinedSlots')
    <3>1. PICK q \in Requests, n \in Nos : s = <<q, n>>
      BY <2>3 DEF Slots
    <3>2. <<q, n>> \in Charged <=> pc[q] = "done" /\ line[<<q, n>>] # "NONE"
      BY ChargedIs
    <3>3. <<q, n>> \in Charged' <=> pc'[q] = "done" /\ line'[<<q, n>>] # "NONE"
      <4>1. LedgerOK(q)' /\ <<q, n>> \in Slots
        BY DEF IInv, LedgerInv, Slots
      <4> QED
        BY <4>1 DEF LedgerOK, Charged, Lines, NoTxn
    <3>4. CASE q = r
      BY <2>1, <3>1, <3>2, <3>3, <3>4 DEF Promise!Of, LinedSlots, Slots
    <3>5. CASE q # r
      <4>1. pc'[q] = pc[q] /\ line'[<<q, n>>] = line[<<q, n>>]
        BY <1>1, <3>5 DEF OthersKept, RowsKept, Slots, Cur
      <4> QED
        BY <3>1, <3>2, <3>3, <3>5, <4>1 DEF Promise!Of
    <3> QED
      BY <3>4, <3>5
  <2>4. Charged \subseteq Slots /\ Charged' \subseteq Slots /\ Promise!Of(r) \subseteq Slots
    BY DEF Charged, Promise!Of, Slots
  <2> QED
    BY <2>2, <2>3, <2>4
<1>5. UNCHANGED <<bill # "OPEN", frozen>>
  BY DEF BillKept
<1> QED
  BY <1>1, <1>2, <1>3, <1>4, <1>5, PhasesMove DEF Promise!End

\* A close finds everything charged.
LEMMA AllIsCharged ==
    ASSUME IInv, ~PendingSettlement
    PROVE  Charged = LinedSlots
<1>1. ASSUME NEW r \in Requests, NEW n \in Nos
      PROVE  <<r, n>> \in Charged <=> line[<<r, n>>] # "NONE"
  <2>1. ASSUME line[<<r, n>>] # "NONE" PROVE pc[r] = "done"
    <3>1. txn[r].posted
      BY <2>1 DEF PendingSettlement, Lines
    <3> QED
      BY <3>1 DEF IInv, LedgerInv, LedgerOK, NoTxn
  <2> QED
    BY <2>1, ChargedIs
<1> QED
  BY <1>1 DEF Charged, LinedSlots, Slots

\* Every step maps to a step of the promise or to none.
LEMMA SettleStep ==
    ASSUME IInv, IInv', Next
    PROVE  Promise!Next \/ UNCHANGED Mapped
<1>1. ASSUME NEW r \in Requests, OwnStep(r) PROVE Promise!Next \/ UNCHANGED Mapped
  <2>0. BillKept /\ (Quiet \/ Begins(r) \/ Records(r) \/ Ends(r)) /\ RowsKept(r) /\ OthersKept(r)
    BY <1>1, BooksOf, Frame DEF IInv
  <2>1. CASE Quiet
    BY <2>0, <2>1 DEF Quiet, BillKept, Mapped, Phases, Usage, UsageOf, Charged
  <2>2. CASE Begins(r)
    <3>1. Phases[r] = "none" /\ Phase(status'[r]) = "running"
      BY <2>2 DEF Begins, Phases, Phase, IInv, TypeOK, FactType
    <3>2. UNCHANGED <<Usage, Charged>>
      BY <2>2 DEF Begins, Usage, UsageOf, Charged
    <3> QED
      BY <2>0, <3>1, <3>2, PhasesMove DEF BillKept, Promise!Next, Promise!Begin
  <2>3. CASE Records(r)
    <3>1. Promise!RecordsOne(r)
      BY <1>1, <2>3, WritesRecordOne DEF Records
    <3>2. UNCHANGED <<Phases, Charged>>
      BY <2>3 DEF Records, Phases, Charged
    <3> QED
      BY <2>0, <3>1, <3>2 DEF BillKept, Promise!Next, Promise!Record
  <2>4. CASE Ends(r)
    BY <1>1, <2>0, <2>4, EndsCharge DEF Ends, Promise!Next
  <2> QED
    BY <2>0, <2>1, <2>2, <2>3, <2>4
<1>2. ASSUME Billing PROVE Promise!Next \/ UNCHANGED Mapped
  <2>0. UNCHANGED <<Phases, Usage, Charged>>
    BY <1>2 DEF Billing, BeginClose, CommitClose, AbortClose, ReopenMonth, factVars,
       Phases, Usage, UsageOf, Charged
  <2>1. CASE BeginClose
    <3>1. Charged = LinedSlots
      BY <2>1, AllIsCharged DEF BeginClose
    <3> QED
      BY <2>0, <2>1, <3>1, RecordedIsLined DEF BeginClose, Promise!Next, Promise!Close
  <2>2. CASE CommitClose
    BY <2>0, <2>2 DEF CommitClose, Mapped
  <2>3. CASE AbortClose \/ ReopenMonth
    BY <2>0, <2>3 DEF AbortClose, ReopenMonth, Promise!Next, Promise!Reopen
  <2> QED
    BY <1>2, <2>1, <2>2, <2>3 DEF Billing
<1> QED
  BY <1>1, <1>2 DEF Next, OwnStep

\* Usage is recorded once, charged once, when the request ends, and on the bill of a
\* month that is closed: the gateway's transactions and closeMonth keep this promise in
\* every interleaving, with crashes and throws.
THEOREM PromiseIsKept == Spec => SettledOnce
<1>1. Init => Promise!Init
  <2> SUFFICES ASSUME Init PROVE Promise!Init
    OBVIOUS
  <2>1. Phases = [r \in Requests |-> "none"]
    BY DEF Init, Phases, Phase
  <2>2. Usage = [s \in Requests \X Nos |-> Unrecorded] /\ Charged = {}
    BY DEF Init, Usage, UsageOf, Charged, NoTxn, Slots
  <2> QED
    BY <2>1, <2>2 DEF Init, Promise!Init
<1>2. ASSUME IInv, IInv', [Next]_vars PROVE [Promise!Next]_Mapped
  <2>1. CASE UNCHANGED vars
    BY <2>1 DEF vars, factVars, billVars, Mapped, Phases, Usage, UsageOf, Charged
  <2> QED
    BY <1>2, <2>1, SettleStep
<1> QED
  BY <1>1, <1>2, Invariance, PTL DEF Spec, SettledOnce, Promise!Spec, Promise!books, Mapped

-----------------------------------------------------------------------------
(* The quota.  One counter serves all requests; the properties add up what *)
(* it holds for each.  A step changes the share of its own request alone,  *)
(* so the proof follows one request: what it holds (GrantInv), what its    *)
(* lines say (AmountInv) and that what its process will settle is what its *)
(* lines will charge (PendInv).                                            *)

\* From the reservation to its settlement the current attempt holds one where its
\* resource reserves at all, and the monthly row says so.
Holding == {"create", "fence", "upstream", "evidence", "result"}
GrantOK(r) ==
    /\ heldGrant[r] => pc[r] \in Holding \cup {"done", "crashed"}
    /\ pc[r] \in Holding => (heldGrant[r] <=> Reserves(winner[r]))
    /\ pc[r] \in Holding \ {"create"} => resource[Cur(r)] = winner[r]
    /\ MonthlyQuota /\ pc[r] \in Holding \ {"result"} => usageRow[Cur(r)] = "RESERVED"
    /\ pc[r] \in {"preflight", "lease", "quota"} => usageRow[Cur(r)] = "NONE"
    /\ \A n \in Nos : n > no[r] => usageRow[<<r, n>>] = "NONE"
GrantInv == \A r \in Requests : GrantOK(r)

\* Nothing is charged without a line, and an answer of unknown usage charges nothing.
AmountOK(r) ==
    /\ \A n \in Nos : line[<<r, n>>] = "NONE" => amount[<<r, n>>] = 0
    /\ pc[r] \in {"evidence", "result"} /\ last[r].quality = "UNKNOWN" => last[r].amount = 0
AmountInv == \A r \in Requests : AmountOK(r)

\* While a live process settles by the counter, its pending items are what the lines of
\* its attempts charge, but for the line of an attempt whose result is not recorded yet.
ResultOpen(r) == pc[r] = "result" /\ heldGrant[r]
PendOK(r) ==
    /\ outcome[r] = "NONE" => pendEst[r] = 0 /\ pendAct[r] = 0
    /\ ~MonthlyQuota /\ pc[r] \notin {"done", "crashed"} =>
          /\ ChargeOf(r) = pendAct[r] + (IF ResultOpen(r) THEN last[r].amount ELSE 0)
          /\ TakenOf(r) <= pendEst[r] + (IF ResultOpen(r) THEN Estimate ELSE 0)
PendInv == \A r \in Requests : PendOK(r)

RequestInv == GrantInv /\ AmountInv /\ PendInv
QuotaInv   == RequestInv /\ QuotaMatchesLedger /\ NoConcurrentOverrun

\* What a request holds follows the stages of its current attempt.
LEMMA GrantStep ==
    ASSUME TypeOK, RouteInv, GrantInv, NEW r \in Requests, OwnStep(r)
    PROVE  GrantInv'
<1>a. RowsKept(r) /\ OthersKept(r)
  BY Frame
<1>b. ASSUME NEW q \in Requests, q # r PROVE GrantOK(q)'
  <2>1. \A n \in Nos : <<q, n>> \in Slots /\ <<q, n>> # Cur(r)
    BY <1>b DEF Slots, Cur
  <2>2. \A n \in Nos : /\ usageRow'[<<q, n>>] = usageRow[<<q, n>>]
                       /\ resource'[<<q, n>>] = resource[<<q, n>>]
    BY <1>a, <2>1 DEF RowsKept
  <2>3. GrantOK(q)
    BY DEF GrantInv
  <2>4. pc[q] \in Holding \cup {"preflight", "lease", "quota"} => no[q] \in Nos
    BY DEF RouteInv, Attempting, Holding
  <2>5. /\ pc'[q] = pc[q] /\ no'[q] = no[q] /\ winner'[q] = winner[q]
        /\ heldGrant'[q] = heldGrant[q]
    BY <1>a, <1>b DEF OthersKept
  <2> QED
    BY <2>2, <2>3, <2>4, <2>5 DEF GrantOK, Cur, Nos, Holding, Reserves
<1> SUFFICES GrantOK(r)'
  BY <1>b DEF GrantInv
<1>c. GrantOK(r)
  BY DEF GrantInv
<1>d. ASSUME NEW n \in Nos, n > no[r] PROVE usageRow'[<<r, n>>] = "NONE"
  <2>1. no[r] \in 0..MaxAttempts
    BY DEF TypeOK, RouteType
  <2>2. <<r, n>> \in Slots /\ n # no[r]
    BY <1>d, <2>1, NumberAssumption DEF Slots, Nos, NumberAssumption
  <2>3. <<r, n>> # Cur(r)
    BY <2>2 DEF Cur
  <2> QED
    BY <1>a, <1>c, <1>d, <2>2, <2>3 DEF RowsKept, GrantOK
\* The parts that speak of the current attempt, in a step that keeps its number.
<1> DEFINE Current ==
        /\ heldGrant[r] => pc[r] \in Holding \cup {"done", "crashed"}
        /\ pc[r] \in Holding => (heldGrant[r] <=> Reserves(winner[r]))
        /\ pc[r] \in Holding \ {"create"} => resource[Cur(r)] = winner[r]
        /\ MonthlyQuota /\ pc[r] \in Holding \ {"result"} => usageRow[Cur(r)] = "RESERVED"
        /\ pc[r] \in {"preflight", "lease", "quota"} => usageRow[Cur(r)] = "NONE"
<1>e. ASSUME no'[r] = no[r], Current' PROVE GrantOK(r)'
  BY <1>d, <1>e DEF GrantOK, Nos
<1>f. Current
  BY <1>c DEF GrantOK
<1>g. pc[r] \in Attempting => no[r] \in Nos /\ Cur(r) \in Slots /\ winner[r] \in Resources
  BY DEF Cur, Slots, RouteInv
<1>h. /\ MonthlyQuota \in BOOLEAN
      /\ \A res : Reserves(res) \in BOOLEAN
  BY NumberAssumption DEF NumberAssumption, Reserves
<1>i. no'[r] = no[r] => Cur(r)' = Cur(r)
  BY DEF Cur
<1> USE <1>f, <1>g, <1>h DEF Attempting, Holding, TypeOK, FactType, QuotaType, RouteType,
        HoldType, Goto, routeVars, quotaVars, factVars
<1>1. CASE Claim(r)
  BY <1>e, <1>i, <1>1 DEF Claim
<1>2. CASE AdmitReject(r)
  BY <1>e, <1>i, <1>2 DEF AdmitReject, FailUnsettled
<1>3. CASE Admit(r)
  BY <1>e, <1>i, <1>3 DEF Admit
<1>4. CASE SelectWinner(r)
  <2>1. /\ no'[r] = no[r] + 1 /\ no'[r] \in Nos /\ pc'[r] = "preflight"
        /\ usageRow' = usageRow /\ heldGrant' = heldGrant /\ ~heldGrant[r]
    BY <1>4, NumberAssumption DEF SelectWinner, NumberAssumption, Nos
  <2>2. no[r] \in Int
    OBVIOUS
  <2>3. \A n \in Nos : n > no'[r] => n > no[r]
    BY <2>1, <2>2 DEF Nos
  <2>4. \A n \in Nos : n > no'[r] => usageRow'[<<r, n>>] = "NONE"
    BY <1>d, <2>3
  <2>5. usageRow'[Cur(r)'] = "NONE"
    BY <1>d, <2>1, <2>2 DEF Cur
  <2> QED
    BY <2>1, <2>4, <2>5 DEF GrantOK, Nos
<1>5. CASE EndLoop(r)
  BY <1>e, <1>i, <1>5 DEF EndLoop, LeaveLoop
<1>6. CASE DispatchTerminates(r)
  BY <1>e, <1>i, <1>6 DEF DispatchTerminates, FailUnsettled
<1>7. CASE PreflightSkips(r)
  BY <1>e, <1>i, <1>7 DEF PreflightSkips, SkipCandidate
<1>8. CASE PreflightStops(r)
  BY <1>e, <1>i, <1>8 DEF PreflightStops, LeaveLoop
<1>9. CASE PreflightPasses(r)
  BY <1>e, <1>i, <1>9 DEF PreflightPasses
<1>10. CASE AcquireLease(r)
  BY <1>e, <1>i, <1>10 DEF AcquireLease
<1>11. CASE LeaseWaitEnds(r)
  BY <1>e, <1>i, <1>11 DEF LeaseWaitEnds, SkipCandidate
<1>12. CASE ReserveQuota(r)
  <2>1. /\ pc[r] = "quota" /\ pc'[r] = "create" /\ no'[r] = no[r] /\ winner'[r] = winner[r]
        /\ ~heldGrant[r]
    BY <1>12 DEF ReserveQuota
  <2>2. heldGrant'[r] <=> Reserves(winner[r])
    BY <1>12, <2>1 DEF ReserveQuota
  <2>3. MonthlyQuota => usageRow'[Cur(r)] = "RESERVED"
    BY <1>12, <2>1 DEF ReserveQuota, RowStates, Reserves
  <2>4. Current'
    BY <1>i, <2>1, <2>2, <2>3 DEF Reserves
  <2> QED
    BY <1>e, <2>1, <2>4
<1>13. CASE QuotaRejects(r)
  BY <1>e, <1>i, <1>13 DEF QuotaRejects, LeaveLoop
<1>14. CASE CreateAttempt(r)
  BY <1>e, <1>i, <1>14 DEF CreateAttempt
<1>15. CASE CreateRefused(r)
  BY <1>e, <1>i, <1>15 DEF CreateRefused, ReturnGrant, SettleRow, SettleCounter
<1>15a. CASE CreateThrows(r)
  BY <1>e, <1>i, <1>15a DEF CreateThrows, ReturnGrant, SettleRow, SettleCounter
<1>16. CASE UndoLease(r)
  BY <1>e, <1>i, <1>16 DEF UndoLease
<1>17. CASE FenceRejects(r)
  BY <1>e, <1>i, <1>17 DEF FenceRejects, RejectedEvidence, SettleQuotaItems, SettleRow, SettleCounter
<1>18. CASE FenceFailsOver(r)
  BY <1>e, <1>i, <1>18 DEF FenceFailsOver, GiveUpAttempt, RejectedEvidence, SettleRow, SettleCounter
<1>19. CASE FenceReselects(r)
  BY <1>e, <1>i, <1>19 DEF FenceReselects, GiveUpAttempt, RejectedEvidence, SettleRow, SettleCounter
<1>20. CASE FencePasses(r)
  BY <1>e, <1>i, <1>20 DEF FencePasses
<1>21. CASE UpstreamAnswers(r)
  BY <1>e, <1>i, <1>21 DEF UpstreamAnswers
<1>22. CASE PersistEvidence(r)
  BY <1>e, <1>i, <1>22 DEF PersistEvidence, SettleRow
<1>23. CASE RecordResult(r)
  BY <1>e, <1>i, <1>23 DEF RecordResult, SkipCandidate
<1>24. CASE SettleRequest(r)
  BY <1>e, <1>i, <1>24 DEF SettleRequest, Finalize, SettleQuotaItems, SettleCounter
<1>25. CASE PublishFailed(r)
  BY <1>e, <1>i, <1>25 DEF PublishFailed, FailUnsettled, Finalize, SettleQuotaItems, SettleCounter
<1>26. CASE Crash(r)
  BY <1>e, <1>i, <1>26 DEF Crash
<1> QED
  BY <1>1, <1>2, <1>3, <1>4, <1>5, <1>6, <1>7, <1>8, <1>9, <1>10, <1>11, <1>12, <1>13,
     <1>14, <1>15, <1>15a, <1>16, <1>17, <1>18, <1>19, <1>20, <1>21, <1>22, <1>23, <1>24, <1>25,
        <1>26
     DEF OwnStep, Pipeline

\* What a line charges follows the answer it was written from.
LEMMA AmountStep ==
    ASSUME TypeOK, RouteInv, SlotInv, AmountInv, NEW r \in Requests, OwnStep(r)
    PROVE  AmountInv'
<1>a. RowsKept(r) /\ OthersKept(r)
  BY Frame
<1>b. ASSUME NEW q \in Requests, q # r PROVE AmountOK(q)'
  <2>1. \A n \in Nos : <<q, n>> \in Slots /\ <<q, n>> # Cur(r)
    BY <1>b DEF Slots, Cur
  <2>2. \A n \in Nos : line'[<<q, n>>] = line[<<q, n>>] /\ amount'[<<q, n>>] = amount[<<q, n>>]
    BY <1>a, <2>1 DEF RowsKept
  <2>3. AmountOK(q)
    BY DEF AmountInv
  <2>4. pc'[q] = pc[q] /\ last'[q] = last[q]
    BY <1>a, <1>b DEF OthersKept
  <2> QED
    BY <2>2, <2>3, <2>4 DEF AmountOK, Nos
<1> SUFFICES AmountOK(r)'
  BY <1>b DEF AmountInv
<1>c. AmountOK(r)
  BY DEF AmountInv
<1>d. ASSUME NEW n \in Nos, n # no[r], line'[<<r, n>>] = "NONE" PROVE amount'[<<r, n>>] = 0
  <2>1. <<r, n>> \in Slots /\ <<r, n>> # Cur(r)
    BY <1>d DEF Slots, Cur
  <2> QED
    BY <1>a, <1>c, <1>d, <2>1 DEF RowsKept, AmountOK
<1>e. ASSUME no[r] \in Nos /\ line'[Cur(r)] = "NONE" => amount'[Cur(r)] = 0,
             pc'[r] \in {"evidence", "result"} /\ last'[r].quality = "UNKNOWN"
                => last'[r].amount = 0
      PROVE  AmountOK(r)'
  <2>1. \A n \in Nos : line'[<<r, n>>] = "NONE" => amount'[<<r, n>>] = 0
    <3>1. ASSUME NEW n \in Nos, n = no[r], line'[<<r, n>>] = "NONE" PROVE amount'[<<r, n>>] = 0
      BY <1>e, <3>1 DEF Cur
    <3> QED
      BY <1>d, <3>1
  <2> QED
    BY <1>e, <2>1 DEF AmountOK, Nos
<1>f. /\ no[r] \in Nos /\ line[Cur(r)] = "NONE" => amount[Cur(r)] = 0
      /\ pc[r] \in {"evidence", "result"} /\ last[r].quality = "UNKNOWN" => last[r].amount = 0
  BY <1>c DEF AmountOK, Cur
<1>g. pc[r] \in Attempting => no[r] \in Nos
  BY DEF RouteInv
<1>h. no[r] \in Nos => Cur(r) \in Slots
  BY DEF Cur, Slots
<1> USE <1>f, <1>g, <1>h DEF Attempting, TypeOK, FactType, RouteType,
        HoldType, Goto, routeVars, quotaVars, factVars
<1>1. CASE Claim(r)
  BY <1>e, <1>1 DEF Claim
<1>2. CASE AdmitReject(r)
  BY <1>e, <1>2 DEF AdmitReject, FailUnsettled
<1>3. CASE Admit(r)
  BY <1>e, <1>3 DEF Admit
<1>4. CASE SelectWinner(r)
  BY <1>e, <1>4 DEF SelectWinner
<1>5. CASE EndLoop(r)
  BY <1>e, <1>5 DEF EndLoop, LeaveLoop
<1>6. CASE DispatchTerminates(r)
  BY <1>e, <1>6 DEF DispatchTerminates, FailUnsettled
<1>7. CASE PreflightSkips(r)
  BY <1>e, <1>7 DEF PreflightSkips, SkipCandidate
<1>8. CASE PreflightStops(r)
  BY <1>e, <1>8 DEF PreflightStops, LeaveLoop
<1>9. CASE PreflightPasses(r)
  BY <1>e, <1>9 DEF PreflightPasses
<1>10. CASE AcquireLease(r)
  BY <1>e, <1>10 DEF AcquireLease
<1>11. CASE LeaseWaitEnds(r)
  BY <1>e, <1>11 DEF LeaseWaitEnds, SkipCandidate
<1>12. CASE ReserveQuota(r)
  BY <1>e, <1>12 DEF ReserveQuota
<1>13. CASE QuotaRejects(r)
  BY <1>e, <1>13 DEF QuotaRejects, LeaveLoop
<1>14. CASE CreateAttempt(r)
  BY <1>e, <1>14 DEF CreateAttempt
<1>15. CASE CreateRefused(r)
  BY <1>e, <1>15 DEF CreateRefused, ReturnGrant
<1>15a. CASE CreateThrows(r)
  BY <1>e, <1>15a DEF CreateThrows, ReturnGrant
<1>16. CASE UndoLease(r)
  BY <1>e, <1>16 DEF UndoLease
<1>17. CASE FenceRejects(r)
  BY <1>e, <1>17 DEF FenceRejects, RejectedEvidence
<1>18. CASE FenceFailsOver(r)
  BY <1>e, <1>18 DEF FenceFailsOver, GiveUpAttempt, RejectedEvidence
<1>19. CASE FenceReselects(r)
  BY <1>e, <1>19 DEF FenceReselects, GiveUpAttempt, RejectedEvidence
<1>20. CASE FencePasses(r)
  BY <1>e, <1>20 DEF FencePasses
<1>21. CASE UpstreamAnswers(r)
  BY <1>e, <1>21 DEF UpstreamAnswers, Results
<1>22. CASE PersistEvidence(r)
  BY <1>e, <1>22 DEF PersistEvidence
<1>23. CASE RecordResult(r)
  BY <1>e, <1>23 DEF RecordResult, SkipCandidate
<1>24. CASE SettleRequest(r)
  BY <1>e, <1>24 DEF SettleRequest, Finalize
<1>25. CASE PublishFailed(r)
  BY <1>e, <1>25 DEF PublishFailed, FailUnsettled, Finalize
<1>26. CASE Crash(r)
  BY <1>e, <1>26 DEF Crash
<1> QED
  BY <1>1, <1>2, <1>3, <1>4, <1>5, <1>6, <1>7, <1>8, <1>9, <1>10, <1>11, <1>12, <1>13,
     <1>14, <1>15, <1>15a, <1>16, <1>17, <1>18, <1>19, <1>20, <1>21, <1>22, <1>23, <1>24, <1>25,
        <1>26
     DEF OwnStep, Pipeline

\* What an attempt is charged is a natural number, and so is its part within the estimate.
LEMMA DueType ==
    ASSUME TypeOK, NEW s \in Slots
    PROVE  /\ Due(s) \in Nat /\ DueOfEstimate(s) \in Nat
           /\ DueOfEstimate(s) <= Due(s) /\ DueOfEstimate(s) <= Estimate
<1>1. amount[s] \in Nat /\ Estimate \in Nat
  BY NumberAssumption DEF TypeOK, FactType, NumberAssumption
<1>2. Due(s) \in Nat
  BY <1>1 DEF Due
<1> QED
  BY <1>1, <1>2 DEF DueOfEstimate

Dues(r)           == [n \in Nos |-> Due(<<r, n>>)]
DuesOfEstimate(r) == [n \in Nos |-> DueOfEstimate(<<r, n>>)]

\* A request has finitely many attempts.
LEMMA NosFinite == IsFiniteSet(Nos)
  BY NumberAssumption, FS_Interval DEF Nos, NumberAssumption

\* What a request is charged is the sum of what its attempts are.
LEMMA ChargeType ==
    ASSUME TypeOK, NEW r \in Requests
    PROVE  /\ ChargeOf(r) \in Nat /\ TakenOf(r) \in Nat /\ TakenOf(r) <= ChargeOf(r)
<1>1. \A n \in Nos : /\ Dues(r)[n] \in Nat /\ DuesOfEstimate(r)[n] \in Nat
                     /\ Dues(r)[n] \in Int /\ DuesOfEstimate(r)[n] \in Int
                     /\ DuesOfEstimate(r)[n] <= Dues(r)[n]
  BY DueType DEF Dues, DuesOfEstimate, Slots
<1>2. /\ SumFunctionOnSet(Dues(r), Nos) \in Nat
      /\ SumFunctionOnSet(DuesOfEstimate(r), Nos) \in Nat
  BY <1>1, NosFinite, SumNat
<1>3. SumFunctionOnSet(DuesOfEstimate(r), Nos) <= SumFunctionOnSet(Dues(r), Nos)
  BY <1>1, NosFinite, SumMonotone
<1> QED
  BY <1>2, <1>3 DEF ChargeOf, TakenOf, Dues, DuesOfEstimate

\* The same before and after a step.
LEMMA ChargesType ==
    /\ TypeOK => \A r \in Requests : /\ ChargeOf(r) \in Nat /\ TakenOf(r) \in Nat
                                     /\ TakenOf(r) <= ChargeOf(r)
    /\ TypeOK' => \A r \in Requests : /\ ChargeOf(r)' \in Nat /\ TakenOf(r)' \in Nat
                                      /\ TakenOf(r)' <= ChargeOf(r)'
<1>1. TypeOK => \A r \in Requests : /\ ChargeOf(r) \in Nat /\ TakenOf(r) \in Nat
                                    /\ TakenOf(r) <= ChargeOf(r)
  BY ChargeType
<1>2. (TypeOK => \A r \in Requests : /\ ChargeOf(r) \in Nat /\ TakenOf(r) \in Nat
                                     /\ TakenOf(r) <= ChargeOf(r))'
  BY <1>1, PTL
<1> QED
  BY <1>1, <1>2

\* What an attempt is charged changes with its evidence only.
LEMMA DueKept ==
    ASSUME TypeOK, RouteInv, SlotInv, AmountInv, NEW r \in Requests, OwnStep(r),
           ~PersistEvidence(r), NEW s \in Slots
    PROVE  Due(s)' = Due(s)
<1>1. CASE s # Cur(r)
  BY <1>1, Frame DEF RowsKept, Due, Reserves
<1>2. CASE s = Cur(r)
  <2>1. s = <<r, no[r]>> /\ no[r] \in Nos
    BY <1>2 DEF Cur, Slots
  <2>2. line[s] = "NONE" => amount[s] = 0
    BY <2>1 DEF AmountInv, AmountOK
  <2>3. pc[r] \in {"create", "fence"} => line[s] = "NONE"
    BY <2>1 DEF SlotInv, SlotOK, Untouched
  <2>4. CASE CreateAttempt(r) \/ CreateThrows(r)
    <3>1. pc[r] = "create" /\ line' = line
      BY <2>4 DEF CreateAttempt, CreateThrows
    <3> QED
      BY <2>3, <3>1 DEF Due
  <2>5. CASE FenceRejects(r) \/ FenceFailsOver(r) \/ FenceReselects(r)
    <3>1. pc[r] = "fence" /\ amount' = amount
      BY <2>5 DEF FenceRejects, FenceFailsOver, FenceReselects, GiveUpAttempt, RejectedEvidence
    <3> QED
      BY <2>2, <2>3, <3>1 DEF Due
  <2>6. CASE ~(CreateAttempt(r) \/ CreateThrows(r)
                 \/ FenceRejects(r) \/ FenceFailsOver(r) \/ FenceReselects(r))
    <3>1. line' = line /\ amount' = amount /\ resource' = resource
      BY <2>6 DEF OwnStep, Pipeline, factVars, Claim, AdmitReject, FailUnsettled, Admit,
         SelectWinner, EndLoop, DispatchTerminates, PreflightSkips, PreflightStops,
         PreflightPasses, AcquireLease, LeaseWaitEnds, ReserveQuota, QuotaRejects,
         CreateRefused, UndoLease, FencePasses, UpstreamAnswers, RecordResult,
         SettleRequest, PublishFailed, Finalize, Crash
    <3> QED
      BY <3>1 DEF Due, Reserves
  <2> QED
    BY <2>4, <2>5, <2>6
<1> QED
  BY <1>1, <1>2

\* A step charges only its own request, and only where it writes evidence: for a
\* reservation what the answer says, for an attempt without one nothing.
LEMMA ChargeStep ==
    ASSUME TypeOK, TypeOK', RouteInv, SlotInv, GrantInv, AmountInv,
           NEW r \in Requests, OwnStep(r)
    PROVE  /\ \A q \in Requests : q # r \/ ~PersistEvidence(r) =>
                 ChargeOf(q)' = ChargeOf(q) /\ TakenOf(q)' = TakenOf(q)
           /\ PersistEvidence(r) /\ heldGrant[r] =>
                 /\ ChargeOf(r)' = ChargeOf(r) + last[r].amount
                 /\ TakenOf(r)' <= TakenOf(r) + Estimate
                 /\ TakenOf(r)' <= TakenOf(r) + last[r].amount
           /\ PersistEvidence(r) /\ ~heldGrant[r] =>
                 ChargeOf(r)' = ChargeOf(r) /\ TakenOf(r)' = TakenOf(r)
<1>1. ASSUME NEW q \in Requests, q # r \/ ~PersistEvidence(r)
      PROVE  ChargeOf(q)' = ChargeOf(q) /\ TakenOf(q)' = TakenOf(q)
  <2>1. ASSUME NEW n \in Nos PROVE Due(<<q, n>>)' = Due(<<q, n>>)
    <3>1. <<q, n>> \in Slots
      BY DEF Slots
    <3>2. CASE ~PersistEvidence(r)
      BY <3>1, <3>2, DueKept
    <3>3. CASE q # r
      <4>1. <<q, n>> # Cur(r)
        BY <3>3 DEF Cur
      <4> QED
        BY <3>1, <4>1, Frame DEF RowsKept, Due, Reserves
    <3> QED
      BY <1>1, <3>2, <3>3
  <2>2. \A n \in Nos : DueOfEstimate(<<q, n>>)' = DueOfEstimate(<<q, n>>)
    BY <2>1 DEF DueOfEstimate
  <2>3. Dues(q)' = Dues(q) /\ DuesOfEstimate(q)' = DuesOfEstimate(q)
    BY <2>1, <2>2 DEF Dues, DuesOfEstimate, Nos
  <2> QED
    BY <2>3 DEF ChargeOf, TakenOf, Dues, DuesOfEstimate, Nos
<1>2. ASSUME PersistEvidence(r),
             NEW a \in Nat, a = IF heldGrant[r] THEN last[r].amount ELSE 0,
             NEW e \in Nat, e = IF a < Estimate THEN a ELSE Estimate
      PROVE  ChargeOf(r)' = ChargeOf(r) + a /\ TakenOf(r)' = TakenOf(r) + e
  <2>1. PICK n \in Nos : n = no[r]
    BY <1>2 DEF PersistEvidence, RouteInv, Attempting
  <2> DEFINE s == <<r, n>>
  <2>2. s \in Slots /\ s = Cur(r) /\ pc[r] = "evidence"
    BY <1>2, <2>1 DEF PersistEvidence, Slots, Cur
  <2>3. line[s] = "NONE" /\ resource[s] = winner[r] /\ (heldGrant[r] <=> Reserves(winner[r]))
    BY <2>1, <2>2 DEF SlotInv, SlotOK, GrantInv, GrantOK, Holding
  <2>4. last[r].quality \in {"MEASURED", "UNKNOWN"} /\ last[r].amount \in Nat /\ Estimate \in Nat
    BY NumberAssumption DEF TypeOK, HoldType, NumberAssumption
  <2>5. line'[s] = last[r].quality /\ amount'[s] = last[r].amount /\ resource' = resource
    BY <1>2, <2>2 DEF PersistEvidence, TypeOK, FactType
  <2>6. Due(s) = 0 /\ DueOfEstimate(s) = 0
    BY <2>3, <2>4 DEF Due, DueOfEstimate
  <2>7. Due(s)' = a
    BY <1>2, <2>3, <2>4, <2>5 DEF Due, Reserves
  <2>8. DueOfEstimate(s)' = e
    BY <1>2, <2>7 DEF DueOfEstimate
  <2>9. \A m \in Nos : m # n => /\ Due(<<r, m>>)' = Due(<<r, m>>)
                                /\ DueOfEstimate(<<r, m>>)' = DueOfEstimate(<<r, m>>)
    <3>1. ASSUME NEW m \in Nos, m # n PROVE Due(<<r, m>>)' = Due(<<r, m>>)
      <4>1. <<r, m>> \in Slots /\ <<r, m>> # Cur(r)
        BY <2>1, <3>1 DEF Slots, Cur
      <4> QED
        BY <4>1, Frame DEF RowsKept, Due, Reserves
    <3> QED
      BY <3>1 DEF DueOfEstimate
  <2> DEFINE F == Dues(r)
             G == DuesOfEstimate(r)
  <2>10. \A m \in Nos : /\ F[m] = Due(<<r, m>>) /\ (F')[m] = Due(<<r, m>>)'
                        /\ G[m] = DueOfEstimate(<<r, m>>) /\ (G')[m] = DueOfEstimate(<<r, m>>)'
    BY DEF Dues, DuesOfEstimate, Nos
  <2>11. /\ \A m \in Nos : Due(<<r, m>>) \in Int /\ DueOfEstimate(<<r, m>>) \in Int
    BY DueType DEF Slots
  <2>11a. /\ F[n] = 0 /\ G[n] = 0 /\ (F')[n] = a /\ (G')[n] = e
    <3>1. /\ F[n] = Due(s) /\ (F')[n] = Due(s)'
          /\ G[n] = DueOfEstimate(s) /\ (G')[n] = DueOfEstimate(s)'
      BY <2>10
    <3> QED
      BY <3>1, <2>6, <2>7, <2>8
  <2>11b. \A m \in Nos : m # n => F[m] = (F')[m] /\ G[m] = (G')[m]
    BY <2>9, <2>10
  <2>11c. \A m \in Nos : F[m] \in Int /\ G[m] \in Int
    BY <2>10, <2>11
  <2> HIDE DEF F, G, s
  <2>12. /\ \A m \in Nos : F[m] \in Int /\ (F')[m] \in Int /\ G[m] \in Int /\ (G')[m] \in Int
         /\ \A m \in Nos : m # n => F[m] = (F')[m] /\ G[m] = (G')[m]
         /\ F[n] = 0 /\ G[n] = 0 /\ (F')[n] = a /\ (G')[n] = e
    BY <2>11a, <2>11b, <2>11c
  <2>13. /\ SumFunctionOnSet(F', Nos) = SumFunctionOnSet(F, Nos) + (F')[n] - F[n]
         /\ SumFunctionOnSet(G', Nos) = SumFunctionOnSet(G, Nos) + (G')[n] - G[n]
    BY <2>12, NosFinite, SumChangeOne
  <2>14. SumFunctionOnSet(F, Nos) \in Int /\ SumFunctionOnSet(G, Nos) \in Int
    BY <2>12, NosFinite, SumInt
  <2>15. /\ SumFunctionOnSet(F', Nos) = SumFunctionOnSet(F, Nos) + a
         /\ SumFunctionOnSet(G', Nos) = SumFunctionOnSet(G, Nos) + e
    BY <2>12, <2>13, <2>14
  <2> QED
    BY <2>15 DEF F, G, Dues, DuesOfEstimate, ChargeOf, TakenOf, Nos
<1>3. last[r].amount \in Nat /\ Estimate \in Nat /\ ChargeOf(r) \in Nat /\ TakenOf(r) \in Nat
  BY NumberAssumption, ChargeType DEF TypeOK, HoldType, NumberAssumption
<1>4. ASSUME PersistEvidence(r), heldGrant[r]
      PROVE  /\ ChargeOf(r)' = ChargeOf(r) + last[r].amount
             /\ TakenOf(r)' <= TakenOf(r) + Estimate
             /\ TakenOf(r)' <= TakenOf(r) + last[r].amount
  <2> DEFINE a == last[r].amount
             e == IF a < Estimate THEN a ELSE Estimate
  <2>1. a \in Nat /\ e \in Nat /\ e <= a /\ e <= Estimate
    BY <1>3
  <2>2. ChargeOf(r)' = ChargeOf(r) + a /\ TakenOf(r)' = TakenOf(r) + e
    <3>1. /\ a = IF heldGrant[r] THEN last[r].amount ELSE 0
          /\ e = IF a < Estimate THEN a ELSE Estimate
      BY <1>4
    <3> HIDE DEF a, e
    <3> QED
      BY <1>2, <1>4, <2>1, <3>1
  <2> HIDE DEF e
  <2> QED
    BY <1>3, <2>1, <2>2
<1>5. ASSUME PersistEvidence(r), ~heldGrant[r]
      PROVE  ChargeOf(r)' = ChargeOf(r) /\ TakenOf(r)' = TakenOf(r)
  <2>1. /\ 0 = IF heldGrant[r] THEN last[r].amount ELSE 0
        /\ 0 = IF 0 < Estimate THEN 0 ELSE Estimate
    BY <1>3, <1>5
  <2>2. ChargeOf(r)' = ChargeOf(r) + 0 /\ TakenOf(r)' = TakenOf(r) + 0
    BY <1>2, <1>5, <2>1
  <2> QED
    BY <1>3, <2>2
<1> QED
  BY <1>1, <1>4, <1>5

\* The ways in which a step of a request moves its reservations.
Waits(r) ==
    /\ UNCHANGED quotaVars /\ status'[r] \notin Terminal
    /\ heldGrant'[r] = heldGrant[r] /\ outcome'[r] = outcome[r]
    /\ pendEst'[r] = pendEst[r] /\ pendAct'[r] = pendAct[r]
    /\ pc'[r] # "result" /\ (pc[r] \in {"result", "crashed"} => pc'[r] = "crashed")
Takes(r) ==
    /\ GateAllows /\ pc[r] = "quota" /\ pc'[r] = "create" /\ ~heldGrant[r] /\ heldGrant'[r]
    /\ status'[r] \notin Terminal /\ outcome'[r] = outcome[r]
    /\ pendEst'[r] = pendEst[r] /\ pendAct'[r] = pendAct[r]
    /\ IF MonthlyQuota
       THEN /\ used' = used /\ reserved' = reserved + Estimate
            /\ usageRow' = [usageRow EXCEPT ![Cur(r)] = "RESERVED"]
       ELSE used' = used + Estimate /\ reserved' = reserved /\ usageRow' = usageRow
GivesBack(r) ==
    /\ pc[r] \in {"create", "fence"} /\ pc'[r] \in {"undo", "unwind", "select"}
    /\ heldGrant[r] /\ ~heldGrant'[r]
    /\ status'[r] \notin Terminal /\ outcome'[r] = outcome[r]
    /\ pendEst'[r] = pendEst[r] /\ pendAct'[r] = pendAct[r]
    /\ IF MonthlyQuota
       THEN \E state \in {"RELEASED", "SETTLED"} : SettleRow(Cur(r), state, 0)
       ELSE SettleCounter(Estimate, 0)
Finishes(r) ==
    /\ pc[r] \in {"fence", "settle", "publish"} /\ pc'[r] = "done"
    /\ status'[r] \in Terminal /\ outcome'[r] = outcome[r]
    /\ pendEst'[r] = pendEst[r] /\ pendAct'[r] = pendAct[r]
    /\ SettleQuotaItems(r, heldGrant[r])
FailsUnsettled(r) == pc[r] \in {"admit", "preflight", "publish"} /\ FailUnsettled(r)

\* Every action of a request but the evidence moves them in one of these ways.
LEMMA QuotaMoves ==
    ASSUME TypeOK, StageInv, GrantInv, NEW r \in Requests, OwnStep(r)
    PROVE  /\ status[r] \notin Terminal
           /\ \/ PersistEvidence(r)
              \/ /\ ~PersistEvidence(r)
                 /\ \/ Waits(r) \/ Takes(r) \/ GivesBack(r)
                    \/ RecordResult(r) \/ Finishes(r) \/ FailsUnsettled(r)
<1>s. /\ pc[r] = "idle" <=> status[r] = "NONE"
      /\ pc[r] = "done" <=> status[r] \in Terminal
  BY DEF StageInv
<1>h. /\ heldGrant[r] => pc[r] \in Holding \cup {"done", "crashed"}
      /\ pc[r] \in Holding => (heldGrant[r] <=> Reserves(winner[r]))
  BY DEF GrantInv, GrantOK
<1>n. status[r] \notin Terminal
  BY <1>s DEF OwnStep, Pipeline, Claim, AdmitReject, Admit, SelectWinner, EndLoop,
     DispatchTerminates, PreflightSkips, PreflightStops, PreflightPasses, AcquireLease,
     LeaseWaitEnds, ReserveQuota, QuotaRejects, CreateAttempt, CreateRefused, CreateThrows,
     UndoLease, FenceRejects, FenceFailsOver, FenceReselects, FencePasses, UpstreamAnswers,
     PersistEvidence, RecordResult, SettleRequest, PublishFailed, Crash
<1> SUFFICES ASSUME ~PersistEvidence(r)
             PROVE  Waits(r) \/ Takes(r) \/ GivesBack(r)
                      \/ RecordResult(r) \/ Finishes(r) \/ FailsUnsettled(r)
  BY <1>n
<1>t. /\ heldGrant[r] \in BOOLEAN /\ MonthlyQuota \in BOOLEAN
      /\ heldGrant \in [Requests -> BOOLEAN] /\ pc \in [Requests -> Stages]
      /\ status \in [Requests -> Statuses] /\ outcome \in [Requests -> {"NONE"} \cup Kinds]
  BY NumberAssumption DEF TypeOK, HoldType, RouteType, FactType, NumberAssumption
<1> USE <1>n, <1>t DEF Goto, quotaVars, pendVars, Terminal, Holding
<1>1. CASE Claim(r)
  BY <1>1 DEF Claim, Waits
<1>2. CASE AdmitReject(r)
  BY <1>2 DEF AdmitReject, FailsUnsettled
<1>3. CASE Admit(r)
  BY <1>3 DEF Admit, Waits
<1>4. CASE SelectWinner(r)
  BY <1>4 DEF SelectWinner, Waits
<1>5. CASE EndLoop(r)
  BY <1>5 DEF EndLoop, LeaveLoop, Waits
<1>6. CASE DispatchTerminates(r)
  BY <1>6 DEF DispatchTerminates, FailsUnsettled
<1>7. CASE PreflightSkips(r)
  BY <1>7 DEF PreflightSkips, SkipCandidate, Waits
<1>8. CASE PreflightStops(r)
  BY <1>8 DEF PreflightStops, LeaveLoop, Waits
<1>9. CASE PreflightPasses(r)
  BY <1>9 DEF PreflightPasses, Waits
<1>10. CASE AcquireLease(r)
  BY <1>10 DEF AcquireLease, Waits
<1>11. CASE LeaseWaitEnds(r)
  BY <1>11 DEF LeaseWaitEnds, SkipCandidate, Waits
<1>12. CASE ReserveQuota(r)
  <2>1. CASE Reserves(winner[r])
    BY <1>12, <1>h, <2>1 DEF ReserveQuota, Takes
  <2>2. CASE ~Reserves(winner[r])
    BY <1>12, <2>2 DEF ReserveQuota, Waits
  <2> QED
    BY <2>1, <2>2
<1>13. CASE QuotaRejects(r)
  BY <1>13 DEF QuotaRejects, LeaveLoop, Waits
<1>14. CASE CreateAttempt(r)
  BY <1>14 DEF CreateAttempt, Waits
<1>15. CASE CreateRefused(r)
  <2>1. CASE heldGrant[r]
    BY <1>15, <2>1 DEF CreateRefused, ReturnGrant, GivesBack
  <2>2. CASE ~heldGrant[r]
    BY <1>15, <2>2 DEF CreateRefused, ReturnGrant, Waits
  <2> QED
    BY <2>1, <2>2
<1>15a. CASE CreateThrows(r)
  <2>1. CASE heldGrant[r]
    BY <1>15a, <2>1 DEF CreateThrows, ReturnGrant, GivesBack
  <2>2. CASE ~heldGrant[r]
    BY <1>15a, <2>2 DEF CreateThrows, ReturnGrant, Waits
  <2> QED
    BY <2>1, <2>2
<1>16. CASE UndoLease(r)
  BY <1>16 DEF UndoLease, Waits
<1>17. CASE FenceRejects(r)
  BY <1>17 DEF FenceRejects, Finishes
<1>18. CASE FenceFailsOver(r)
  <2>1. CASE heldGrant[r]
    BY <1>18, <2>1 DEF FenceFailsOver, GiveUpAttempt, GivesBack
  <2>2. CASE ~heldGrant[r]
    BY <1>18, <2>2 DEF FenceFailsOver, GiveUpAttempt, Waits
  <2> QED
    BY <2>1, <2>2
<1>19. CASE FenceReselects(r)
  <2>1. CASE heldGrant[r]
    BY <1>19, <2>1 DEF FenceReselects, GiveUpAttempt, GivesBack
  <2>2. CASE ~heldGrant[r]
    BY <1>19, <2>2 DEF FenceReselects, GiveUpAttempt, Waits
  <2> QED
    BY <2>1, <2>2
<1>20. CASE FencePasses(r)
  BY <1>20 DEF FencePasses, Waits
<1>21. CASE UpstreamAnswers(r)
  BY <1>21 DEF UpstreamAnswers, Waits
<1>23. CASE RecordResult(r)
  BY <1>23
<1>24. CASE SettleRequest(r)
  <2>1. heldGrant[r] = FALSE /\ pc[r] = "settle"
    BY <1>24, <1>h DEF SettleRequest
  <2> QED
    BY <1>24, <2>1 DEF SettleRequest, Finalize, Finishes
<1>25. CASE PublishFailed(r)
  <2>1. heldGrant[r] = FALSE /\ pc[r] = "publish"
    BY <1>25, <1>h DEF PublishFailed
  <2>2. CASE Finalize(r, "FAILED")
    BY <2>1, <2>2 DEF Finalize, Finishes
  <2>3. CASE FailUnsettled(r)
    BY <2>1, <2>3 DEF FailsUnsettled
  <2> QED
    BY <1>25, <2>2, <2>3 DEF PublishFailed
<1>26. CASE Crash(r)
  BY <1>26 DEF Crash, Waits
<1> QED
  BY <1>1, <1>2, <1>3, <1>4, <1>5, <1>6, <1>7, <1>8, <1>9, <1>10, <1>11, <1>12, <1>13,
     <1>14, <1>15, <1>15a, <1>16, <1>17, <1>18, <1>19, <1>20, <1>21, <1>23, <1>24, <1>25,
        <1>26
     DEF OwnStep, Pipeline

\* A request that ends without attempts has nothing pending.
LEMMA NothingPending ==
    ASSUME TypeOK, RouteInv, SlotInv, LedgerInv, PendInv, NEW r \in Requests,
           FailsUnsettled(r)
    PROVE  pendEst[r] = 0 /\ pendAct[r] = 0
<1>1. Lines(r) = {}
  BY NoFacts DEF FailsUnsettled, FailUnsettled
<1>2. outcome[r] = "NONE"
  BY <1>1 DEF LedgerInv, LedgerOK
<1> QED
  BY <1>2 DEF PendInv, PendOK

\* What a live process has pending stays what the lines of its request charge.
LEMMA PendStep ==
    ASSUME TypeOK, TypeOK', StageInv, RouteInv, SlotInv, LedgerInv, RequestInv,
           NEW r \in Requests, OwnStep(r)
    PROVE  PendInv'
<1>a. OthersKept(r)
  BY Frame
<1>b. ASSUME NEW q \in Requests, q # r PROVE PendOK(q)'
  <2>1. ChargeOf(q)' = ChargeOf(q) /\ TakenOf(q)' = TakenOf(q)
    BY <1>b, ChargeStep DEF RequestInv
  <2>2. PendOK(q)
    BY DEF RequestInv, PendInv
  <2>3. /\ pc'[q] = pc[q] /\ outcome'[q] = outcome[q] /\ last'[q] = last[q]
        /\ heldGrant'[q] = heldGrant[q] /\ pendEst'[q] = pendEst[q] /\ pendAct'[q] = pendAct[q]
    BY <1>a, <1>b DEF OthersKept
  <2> QED
    BY <2>1, <2>2, <2>3 DEF PendOK, ResultOpen
<1> SUFFICES PendOK(r)'
  BY <1>b DEF PendInv
<1>c. PendOK(r)
  BY DEF RequestInv, PendInv
<1>t. /\ ChargeOf(r) \in Nat /\ TakenOf(r) \in Nat /\ Estimate \in Nat
      /\ pendEst[r] \in Nat /\ pendAct[r] \in Nat /\ last[r].amount \in Nat
      /\ heldGrant[r] \in BOOLEAN
  BY ChargeType, NumberAssumption DEF TypeOK, HoldType, NumberAssumption
<1>1. CASE PersistEvidence(r)
  <2>1. /\ pc[r] = "evidence" /\ pc'[r] = "result"
        /\ UNCHANGED <<heldGrant, pendEst, pendAct, outcome, last>>
    BY <1>1 DEF PersistEvidence, Goto, TypeOK, RouteType, pendVars
  <2>2. CASE heldGrant[r]
    <3>1. /\ ChargeOf(r)' = ChargeOf(r) + last[r].amount
          /\ TakenOf(r)' <= TakenOf(r) + Estimate
      BY <1>1, <2>2, ChargeStep DEF RequestInv
    <3>2. TakenOf(r)' \in Nat
      BY ChargesType
    <3> QED
      BY <1>c, <1>t, <2>1, <2>2, <3>1, <3>2 DEF PendOK, ResultOpen
  <2>3. CASE ~heldGrant[r]
    <3>1. ChargeOf(r)' = ChargeOf(r) /\ TakenOf(r)' = TakenOf(r)
      BY <1>1, <2>3, ChargeStep DEF RequestInv
    <3> QED
      BY <1>c, <1>t, <2>1, <2>3, <3>1 DEF PendOK, ResultOpen
  <2> QED
    BY <2>2, <2>3
<1>2. CASE ~PersistEvidence(r)
  <2>1. ChargeOf(r)' = ChargeOf(r) /\ TakenOf(r)' = TakenOf(r)
    BY <1>2, ChargeStep DEF RequestInv
  <2>2. CASE Waits(r)
    <3>1. pc[r] # "done"
      BY QuotaMoves DEF RequestInv, StageInv
    <3>2. pc'[r] # "crashed" => pc[r] \notin {"result", "crashed"} /\ pc'[r] # "result"
      BY <2>2 DEF Waits
    <3> QED
      BY <1>c, <2>1, <2>2, <3>1, <3>2 DEF Waits, PendOK, ResultOpen
  <2>3. CASE Takes(r)
    BY <1>c, <1>t, <2>1, <2>3 DEF Takes, PendOK, ResultOpen
  <2>4. CASE GivesBack(r)
    BY <1>c, <1>t, <2>1, <2>4 DEF GivesBack, PendOK, ResultOpen
  <2>5. CASE RecordResult(r)
    <3>1. /\ pc[r] = "result" /\ pc'[r] \in {"select", "settle"} /\ ~heldGrant'[r]
          /\ outcome'[r] = last[r].kind
          /\ pendEst'[r] = IF heldGrant[r] /\ ~MonthlyQuota THEN pendEst[r] + Estimate
                           ELSE pendEst[r]
          /\ pendAct'[r] = IF heldGrant[r] /\ ~MonthlyQuota THEN pendAct[r] + last[r].amount
                           ELSE pendAct[r]
      BY <2>5 DEF RecordResult, SkipCandidate, Goto, TypeOK, RouteType, HoldType
    <3>2. outcome'[r] # "NONE"
      BY <3>1 DEF RouteInv, Kinds
    <3> QED
      BY <1>c, <1>t, <2>1, <3>1, <3>2 DEF PendOK, ResultOpen
  <2>6. CASE Finishes(r)
    BY <1>c, <2>6 DEF Finishes, PendOK
  <2>7. CASE FailsUnsettled(r)
    <3>1. pc'[r] = "done" /\ UNCHANGED <<outcome, pendEst, pendAct>>
      BY <2>7 DEF FailsUnsettled, FailUnsettled, Goto, TypeOK, RouteType, pendVars
    <3> QED
      BY <1>c, <3>1 DEF PendOK
  <2> QED
    BY <1>2, <2>2, <2>3, <2>4, <2>5, <2>6, <2>7, QuotaMoves DEF RequestInv
<1> QED
  BY <1>1, <1>2

\* The rows that are open are finitely many.
LEMMA OpenRowsFinite == IsFiniteSet(OpenRows) /\ Cardinality(OpenRows) \in Nat
<1>1. IsFiniteSet(Slots)
  BY NosFinite, ResourceAssumption, FS_Product DEF Slots, ResourceAssumption
<1> QED
  BY <1>1, FS_Subset, FS_CardinalityType DEF OpenRows

\* What is reserved by the month follows the open rows: one more where a row is
\* reserved, one less where it is settled.
LEMMA ReservedFollowsRows ==
    ASSUME TypeOK, reserved = Estimate * Cardinality(OpenRows), NEW s \in Slots
    PROVE  /\ UNCHANGED <<reserved, usageRow>> => reserved' = Estimate * Cardinality(OpenRows)'
           /\ /\ usageRow[s] = "NONE" /\ reserved' = reserved + Estimate
              /\ usageRow' = [usageRow EXCEPT ![s] = "RESERVED"]
              => reserved' = Estimate * Cardinality(OpenRows)'
           /\ \A state \in {"SETTLED", "RELEASED"}, a \in Nat :
                 usageRow[s] = "RESERVED" /\ SettleRow(s, state, a)
                    => reserved' = Estimate * Cardinality(OpenRows)'
           /\ /\ usageRow[s] = "RESERVED" /\ reserved' = reserved
              /\ usageRow' = [usageRow EXCEPT ![s] = "UNKNOWN"]
              => reserved' = Estimate * Cardinality(OpenRows)'
<1>t. usageRow \in [Slots -> RowStates] /\ Estimate \in Nat
  BY NumberAssumption DEF TypeOK, QuotaType, NumberAssumption
<1>f. IsFiniteSet(OpenRows) /\ Cardinality(OpenRows) \in Nat
  BY OpenRowsFinite
<1>m. \A c \in Nat : Estimate * (c + 1) = Estimate * c + Estimate
  BY <1>t
<1>1. ASSUME usageRow' = usageRow PROVE OpenRows' = OpenRows
  BY <1>1 DEF OpenRows
<1>2. ASSUME usageRow[s] = "NONE", usageRow' = [usageRow EXCEPT ![s] = "RESERVED"]
      PROVE  Cardinality(OpenRows)' = Cardinality(OpenRows) + 1
  <2>1. OpenRows' = OpenRows \cup {s} /\ s \notin OpenRows
    BY <1>2, <1>t DEF OpenRows
  <2> QED
    BY <2>1, <1>f, FS_AddElement
<1>3. ASSUME NEW state \in {"SETTLED", "RELEASED"}, usageRow[s] = "RESERVED",
             usageRow' = [usageRow EXCEPT ![s] = state]
      PROVE  /\ Cardinality(OpenRows)' \in Nat
             /\ Cardinality(OpenRows) = Cardinality(OpenRows)' + 1
  <2>1. OpenRows' = OpenRows \ {s} /\ s \in OpenRows
    BY <1>3, <1>t DEF OpenRows
  <2>2. IsFiniteSet(OpenRows \ {s}) /\ Cardinality(OpenRows \ {s}) = Cardinality(OpenRows) - 1
    BY <2>1, <1>f, FS_RemoveElement
  <2>3. Cardinality(OpenRows \ {s}) \in Nat
    BY <2>2, FS_CardinalityType
  <2> QED
    BY <2>1, <2>2, <2>3, <1>f
<1>4. ASSUME usageRow[s] = "RESERVED", usageRow' = [usageRow EXCEPT ![s] = "UNKNOWN"]
      PROVE  OpenRows' = OpenRows
  BY <1>4, <1>t DEF OpenRows
<1>5. ASSUME NEW state \in {"SETTLED", "RELEASED"}, NEW a \in Nat,
             usageRow[s] = "RESERVED", SettleRow(s, state, a)
      PROVE  reserved' = Estimate * Cardinality(OpenRows)'
  <2>1. /\ Cardinality(OpenRows)' \in Nat
        /\ Cardinality(OpenRows) = Cardinality(OpenRows)' + 1
    BY <1>3, <1>5 DEF SettleRow
  <2>2. reserved' = reserved - Estimate
    BY <1>5 DEF SettleRow
  <2>3. Estimate * Cardinality(OpenRows) = Estimate * Cardinality(OpenRows)' + Estimate
    BY <1>m, <2>1
  <2>4. Estimate * Cardinality(OpenRows)' \in Nat
    BY <1>t, <2>1
  <2> QED
    BY <1>t, <2>2, <2>3, <2>4
<1> QED
  BY <1>1, <1>2, <1>4, <1>5, <1>f, <1>m

\* How a step of a request has to move the counters for the books to stay right.
ShareMoves(r) ==
    /\ used' = used + Share(r)' - Share(r)
    /\ reserved' = Estimate * Cardinality(OpenRows)'
    /\ \/ ShareOfEstimate(r)' + reserved' <= ShareOfEstimate(r) + reserved
       \/ /\ GateAllows
          /\ ShareOfEstimate(r)' + reserved' <= ShareOfEstimate(r) + reserved + Estimate

\* What a request accounts for is a natural number; within the estimates it is less.
LEMMA ShareType ==
    /\ TypeOK => \A q \in Requests : /\ Share(q) \in Nat /\ ShareOfEstimate(q) \in Nat
                                     /\ ShareOfEstimate(q) <= Share(q)
                                     /\ Outstanding(q) \in Nat
    /\ TypeOK' => \A q \in Requests : /\ Share(q)' \in Nat /\ ShareOfEstimate(q)' \in Nat
                                      /\ ShareOfEstimate(q)' <= Share(q)'
<1>1. ASSUME TypeOK, NEW q \in Requests
      PROVE  /\ Share(q) \in Nat /\ ShareOfEstimate(q) \in Nat
             /\ ShareOfEstimate(q) <= Share(q) /\ Outstanding(q) \in Nat
  <2>1. Outstanding(q) \in Nat
    BY <1>1, NumberAssumption DEF Outstanding, TypeOK, HoldType, NumberAssumption
  <2> QED
    BY <1>1, <2>1, ChargeType DEF Share, ShareOfEstimate
<1>2. TypeOK => \A q \in Requests : /\ Share(q) \in Nat /\ ShareOfEstimate(q) \in Nat
                                    /\ ShareOfEstimate(q) <= Share(q)
  BY <1>1
<1>3. (TypeOK => \A q \in Requests : /\ Share(q) \in Nat /\ ShareOfEstimate(q) \in Nat
                                     /\ ShareOfEstimate(q) <= Share(q))'
  BY <1>2, PTL
<1> QED
  BY <1>1, <1>3

\* A monthly attempt is charged with its evidence, in the statement that settles its
\* reservation; a legacy one stays reserved.
LEMMA EvidenceMoves ==
    ASSUME TypeOK, TypeOK', StageInv, RouteInv, SlotInv, RequestInv, QuotaMatchesLedger,
           NEW r \in Requests, PersistEvidence(r)
    PROVE  ShareMoves(r)
<1>t. /\ used \in Nat /\ reserved \in Nat /\ Estimate \in Nat /\ last[r].amount \in Nat
      /\ MonthlyQuota \in BOOLEAN
      /\ ChargeOf(r) \in Nat /\ TakenOf(r) \in Nat /\ ChargeOf(r)' \in Nat /\ TakenOf(r)' \in Nat
      /\ last[r].quality \in {"MEASURED", "UNKNOWN"}
  BY NumberAssumption, ChargesType DEF TypeOK, QuotaType, HoldType, NumberAssumption
<1>o. OwnStep(r)
  BY DEF OwnStep, Pipeline
<1>1. /\ pc[r] = "evidence" /\ Cur(r) \in Slots /\ winner[r] \in Resources
      /\ status[r] = "IN_PROGRESS" /\ status' = status
      /\ UNCHANGED <<heldGrant, pendEst, pendAct>>
  BY DEF PersistEvidence, RouteInv, Attempting, Cur, Slots, pendVars, InProgress
<1>2. reserved = Estimate * Cardinality(OpenRows)
  BY DEF QuotaMatchesLedger
<1>3. CASE MonthlyQuota
  <2>1. heldGrant[r] /\ usageRow[Cur(r)] = "RESERVED"
    BY <1>1, <1>3 DEF RequestInv, GrantInv, GrantOK, Holding, Reserves
  <2>2. /\ ChargeOf(r)' = ChargeOf(r) + last[r].amount
        /\ TakenOf(r)' <= TakenOf(r) + Estimate
        /\ TakenOf(r)' <= TakenOf(r) + last[r].amount
    BY <1>o, <2>1, ChargeStep DEF RequestInv
  <2>3. /\ Share(r) = ChargeOf(r) /\ ShareOfEstimate(r) = TakenOf(r)
        /\ Share(r)' = ChargeOf(r)' /\ ShareOfEstimate(r)' = TakenOf(r)'
    BY <1>3 DEF Share, ShareOfEstimate, IsCharged
  <2>4. CASE last[r].quality = "UNKNOWN"
    <3>1. last[r].amount = 0
      BY <1>1, <2>4 DEF RequestInv, AmountInv, AmountOK
    <3>2. used' = used /\ reserved' = reserved
          /\ usageRow' = [usageRow EXCEPT ![Cur(r)] = "UNKNOWN"]
      BY <1>3, <2>4 DEF PersistEvidence
    <3>3. reserved' = Estimate * Cardinality(OpenRows)'
      BY <1>1, <1>2, <2>1, <3>2, ReservedFollowsRows
    <3> QED
      BY <1>t, <2>2, <2>3, <3>1, <3>2, <3>3 DEF ShareMoves
  <2>5. CASE last[r].quality # "UNKNOWN"
    <3>1. SettleRow(Cur(r), "SETTLED", last[r].amount)
      BY <1>3, <2>5 DEF PersistEvidence
    <3>2. reserved' = Estimate * Cardinality(OpenRows)'
      BY <1>t, <1>1, <1>2, <2>1, <3>1, ReservedFollowsRows
    <3>3. /\ used' = used + last[r].amount /\ reserved >= Estimate
          /\ reserved' = reserved - Estimate
      BY <3>1 DEF SettleRow
    <3> QED
      BY <1>t, <2>2, <2>3, <3>2, <3>3 DEF ShareMoves
  <2> QED
    BY <2>4, <2>5
<1>4. CASE ~MonthlyQuota
  <2>1. used' = used /\ reserved' = reserved /\ usageRow' = usageRow
    BY <1>4 DEF PersistEvidence, quotaVars
  <2>2. reserved' = Estimate * Cardinality(OpenRows)'
    BY <1>1, <1>2, <2>1, ReservedFollowsRows
  <2>3. /\ Share(r) = Outstanding(r) /\ Share(r)' = Outstanding(r)
        /\ ShareOfEstimate(r) = Outstanding(r) /\ ShareOfEstimate(r)' = Outstanding(r)
    BY <1>1, <1>4 DEF Share, ShareOfEstimate, IsCharged, Outstanding, Terminal
  <2>4. Outstanding(r) \in Nat
    BY ShareType
  <2> QED
    BY <1>t, <2>1, <2>2, <2>3, <2>4 DEF ShareMoves
<1> QED
  BY <1>3, <1>4

\* Every other step moves the counters by what it changes of its own request.
LEMMA OtherMoves ==
    ASSUME TypeOK, TypeOK', StageInv, RouteInv, SlotInv, LedgerInv, RequestInv,
           QuotaMatchesLedger, NEW r \in Requests, OwnStep(r), ~PersistEvidence(r),
           Outstanding(r) <= used \/ MonthlyQuota
    PROVE  ShareMoves(r)
<1>t. /\ used \in Nat /\ reserved \in Nat /\ Estimate \in Nat /\ last[r].amount \in Nat
      /\ MonthlyQuota \in BOOLEAN /\ heldGrant[r] \in BOOLEAN
      /\ pendEst[r] \in Nat /\ pendAct[r] \in Nat
      /\ used' \in Nat /\ reserved' \in Nat
  BY NumberAssumption DEF TypeOK, QuotaType, HoldType, NumberAssumption
<1>n. /\ ChargeOf(r) \in Nat /\ TakenOf(r) \in Nat
      /\ ChargeOf(r)' = ChargeOf(r) /\ TakenOf(r)' = TakenOf(r)
  BY ChargeType, ChargeStep DEF RequestInv
<1>s. Cur(r) \in Slots \/ pc[r] \notin Holding \cup {"quota"}
  BY DEF RouteInv, Attempting, Cur, Slots, Holding
<1>r. reserved = Estimate * Cardinality(OpenRows)
  BY DEF QuotaMatchesLedger
<1>g. GrantOK(r) /\ PendOK(r)
  BY DEF RequestInv, GrantInv, PendInv
<1>d. /\ status[r] \notin Terminal
      /\ Waits(r) \/ Takes(r) \/ GivesBack(r) \/ RecordResult(r) \/ Finishes(r) \/ FailsUnsettled(r)
  BY QuotaMoves DEF RequestInv
<1>e. /\ Share(r) = IF MonthlyQuota THEN ChargeOf(r) ELSE Outstanding(r)
      /\ ShareOfEstimate(r) = IF MonthlyQuota THEN TakenOf(r) ELSE Outstanding(r)
      /\ Share(r)' = IF MonthlyQuota \/ status'[r] \in Terminal
                     THEN ChargeOf(r) ELSE Outstanding(r)'
      /\ ShareOfEstimate(r)' = IF MonthlyQuota \/ status'[r] \in Terminal
                               THEN TakenOf(r) ELSE Outstanding(r)'
      /\ Outstanding(r) = pendEst[r] + IF heldGrant[r] THEN Estimate ELSE 0
      /\ Outstanding(r)' = pendEst'[r] + IF heldGrant'[r] THEN Estimate ELSE 0
  BY <1>d, <1>n, <1>t DEF Share, ShareOfEstimate, IsCharged, Outstanding, Terminal
<1>u. UNCHANGED <<reserved, usageRow>> => reserved' = Estimate * Cardinality(OpenRows)'
  BY <1>r DEF OpenRows
<1>1. CASE Waits(r)
  BY <1>1, <1>t, <1>n, <1>e, <1>u DEF Waits, ShareMoves, quotaVars
<1>2. CASE Takes(r)
  <2>1. pc[r] = "quota" /\ Cur(r) \in Slots /\ usageRow[Cur(r)] = "NONE"
    BY <1>2, <1>s, <1>g DEF Takes, GrantOK
  <2>2. reserved' = Estimate * Cardinality(OpenRows)'
    BY <1>2, <1>r, <1>u, <2>1, ReservedFollowsRows DEF Takes
  <2>3. /\ GateAllows /\ ~heldGrant[r] /\ heldGrant'[r] /\ status'[r] \notin Terminal
        /\ pendEst'[r] = pendEst[r]
        /\ used' = IF MonthlyQuota THEN used ELSE used + Estimate
        /\ reserved' = IF MonthlyQuota THEN reserved + Estimate ELSE reserved
    BY <1>2 DEF Takes
  <2>4. CASE MonthlyQuota
    BY <1>t, <1>n, <1>e, <2>2, <2>3, <2>4 DEF ShareMoves
  <2>5. CASE ~MonthlyQuota
    BY <1>t, <1>n, <1>e, <2>2, <2>3, <2>5 DEF ShareMoves
  <2> QED
    BY <1>t, <2>4, <2>5
<1>3. CASE GivesBack(r)
  <2>1. CASE MonthlyQuota
    <3>1. Cur(r) \in Slots /\ usageRow[Cur(r)] = "RESERVED"
      BY <1>3, <1>s, <1>g, <2>1 DEF GivesBack, GrantOK, Holding
    <3>2. PICK state \in {"RELEASED", "SETTLED"} : SettleRow(Cur(r), state, 0)
      BY <1>3, <2>1 DEF GivesBack
    <3>3. reserved' = Estimate * Cardinality(OpenRows)'
      BY <1>r, <3>1, <3>2, ReservedFollowsRows
    <3>4. used' = used /\ reserved' = reserved - Estimate
      BY <1>t, <3>2 DEF SettleRow
    <3> QED
      BY <1>t, <1>n, <1>e, <2>1, <3>3, <3>4 DEF ShareMoves
  <2>2. CASE ~MonthlyQuota
    <3>1. /\ used' = SettledQuota(used, Estimate, 0) /\ UNCHANGED <<reserved, usageRow>>
          /\ heldGrant[r] /\ ~heldGrant'[r] /\ status'[r] \notin Terminal
          /\ pendEst'[r] = pendEst[r]
      BY <1>3, <2>2 DEF GivesBack, SettleCounter
    <3>2. used >= Estimate /\ used' = used - Estimate
      BY <1>t, <1>e, <2>2, <3>1 DEF SettledQuota
    <3> QED
      BY <1>t, <1>n, <1>e, <1>u, <2>2, <3>1, <3>2 DEF ShareMoves
  <2> QED
    BY <1>t, <2>1, <2>2
<1>4. CASE RecordResult(r)
  <2>1. /\ UNCHANGED <<used, reserved, usageRow>> /\ ~heldGrant'[r] /\ status'[r] \notin Terminal
        /\ pendEst'[r] = IF heldGrant[r] /\ ~MonthlyQuota THEN pendEst[r] + Estimate
                         ELSE pendEst[r]
    BY <1>4, <1>d DEF RecordResult, quotaVars, TypeOK, HoldType
  <2> QED
    BY <1>t, <1>n, <1>e, <1>u, <2>1 DEF ShareMoves
<1>5. CASE Finishes(r)
  <2>1. /\ pc[r] \in {"fence", "settle", "publish"} /\ status'[r] \in Terminal
        /\ SettleQuotaItems(r, heldGrant[r])
    BY <1>5 DEF Finishes
  <2>2. CASE MonthlyQuota /\ heldGrant[r]
    <3>1. Cur(r) \in Slots /\ usageRow[Cur(r)] = "RESERVED"
      BY <1>s, <1>g, <2>1, <2>2 DEF GrantOK, Holding
    <3>2. SettleRow(Cur(r), "SETTLED", 0)
      BY <2>1, <2>2 DEF SettleQuotaItems
    <3>3. reserved' = Estimate * Cardinality(OpenRows)'
      BY <1>r, <3>1, <3>2, ReservedFollowsRows
    <3>4. used' = used /\ reserved' = reserved - Estimate
      BY <1>t, <3>2 DEF SettleRow
    <3> QED
      BY <1>t, <1>n, <1>e, <2>2, <3>3, <3>4 DEF ShareMoves
  <2>3. CASE MonthlyQuota /\ ~heldGrant[r]
    <3>1. UNCHANGED <<used, reserved, usageRow>>
      BY <2>1, <2>3 DEF SettleQuotaItems, quotaVars
    <3> QED
      BY <1>t, <1>n, <1>e, <1>u, <2>3, <3>1 DEF ShareMoves
  <2>4. CASE ~MonthlyQuota
    <3>1. /\ used' = SettledQuota(used, Outstanding(r), pendAct[r])
          /\ UNCHANGED <<reserved, usageRow>>
      BY <2>1, <2>4 DEF SettleQuotaItems, SettleCounter, Outstanding
    <3>2. ChargeOf(r) = pendAct[r] /\ TakenOf(r) <= pendEst[r]
      BY <1>g, <1>t, <2>1, <2>4 DEF PendOK, ResultOpen
    <3>3. /\ Outstanding(r) \in Nat /\ Outstanding(r) <= used
          /\ pendEst[r] <= Outstanding(r)
      BY <1>t, <1>e, <2>4
    <3>5. used' = used - Outstanding(r) + ChargeOf(r) /\ TakenOf(r) <= Outstanding(r)
      BY <1>t, <1>n, <3>1, <3>2, <3>3 DEF SettledQuota
    <3>4. /\ Share(r) = Outstanding(r) /\ ShareOfEstimate(r) = Outstanding(r)
          /\ Share(r)' = ChargeOf(r) /\ ShareOfEstimate(r)' = TakenOf(r)
      BY <1>e, <2>1, <2>4
    <3> QED
      BY <1>t, <1>n, <1>u, <3>1, <3>3, <3>4, <3>5 DEF ShareMoves
  <2> QED
    BY <1>t, <2>2, <2>3, <2>4
<1>6. CASE FailsUnsettled(r)
  <2>1. pendEst[r] = 0 /\ pendAct[r] = 0
    BY <1>6, NothingPending DEF RequestInv
  <2>2. /\ UNCHANGED <<used, reserved, usageRow>> /\ status'[r] \in Terminal
        /\ pc[r] \in {"admit", "preflight", "publish"}
    BY <1>6 DEF FailsUnsettled, FailUnsettled, quotaVars, TypeOK, FactType, Terminal
  <2>3. ~heldGrant[r]
    BY <1>g, <2>2 DEF GrantOK, Holding
  <2>4. ~MonthlyQuota => ChargeOf(r) = 0 /\ TakenOf(r) <= 0
    BY <1>g, <1>t, <2>1, <2>2 DEF PendOK, ResultOpen
  <2> QED
    BY <1>t, <1>n, <1>e, <1>u, <2>1, <2>2, <2>3, <2>4 DEF ShareMoves
<1> QED
  BY <1>d, <1>1, <1>2, <1>3, <1>4, <1>5, <1>6

Shares           == [q \in Requests |-> Share(q)]
SharesOfEstimate == [q \in Requests |-> ShareOfEstimate(q)]

\* A step changes the share of its own request alone.
LEMMA SharesChange ==
    ASSUME TypeOK, TypeOK', RouteInv, SlotInv, RequestInv, NEW r \in Requests, OwnStep(r)
    PROVE  /\ SumFunctionOnSet(Shares', Requests)
                = SumFunctionOnSet(Shares, Requests) + Share(r)' - Share(r)
           /\ SumFunctionOnSet(SharesOfEstimate', Requests)
                = SumFunctionOnSet(SharesOfEstimate, Requests)
                    + ShareOfEstimate(r)' - ShareOfEstimate(r)
<1>1. ASSUME NEW q \in Requests, q # r
      PROVE  Share(q)' = Share(q) /\ ShareOfEstimate(q)' = ShareOfEstimate(q)
  <2>1. ChargeOf(q)' = ChargeOf(q) /\ TakenOf(q)' = TakenOf(q)
    BY <1>1, ChargeStep DEF RequestInv
  <2>2. /\ status'[q] = status[q] /\ heldGrant'[q] = heldGrant[q] /\ pendEst'[q] = pendEst[q]
    BY <1>1, Frame DEF OthersKept
  <2>3. IsCharged(q)' = IsCharged(q) /\ Outstanding(q)' = Outstanding(q)
    BY <2>2 DEF IsCharged, Outstanding, Terminal
  <2> QED
    BY <2>1, <2>3 DEF Share, ShareOfEstimate
<1>2. \A q \in Requests : /\ Share(q) \in Int /\ Share(q)' \in Int
                          /\ ShareOfEstimate(q) \in Int /\ ShareOfEstimate(q)' \in Int
  BY ShareType
<1>3. \A q \in Requests :
         /\ Shares[q] = Share(q) /\ (Shares')[q] = Share(q)'
         /\ SharesOfEstimate[q] = ShareOfEstimate(q)
         /\ (SharesOfEstimate')[q] = ShareOfEstimate(q)'
  BY DEF Shares, SharesOfEstimate
<1> DEFINE F == Shares
           G == SharesOfEstimate
<1>4. /\ \A q \in Requests : /\ F[q] \in Int /\ (F')[q] \in Int
                             /\ G[q] \in Int /\ (G')[q] \in Int
      /\ \A q \in Requests : q # r => F[q] = (F')[q] /\ G[q] = (G')[q]
      /\ IsFiniteSet(Requests)
  BY <1>1, <1>2, <1>3, ResourceAssumption DEF ResourceAssumption
<1> HIDE DEF F, G
<1>5. /\ SumFunctionOnSet(F', Requests) = SumFunctionOnSet(F, Requests) + (F')[r] - F[r]
      /\ SumFunctionOnSet(G', Requests) = SumFunctionOnSet(G, Requests) + (G')[r] - G[r]
  BY <1>4, SumChangeOne
<1> QED
  BY <1>3, <1>5 DEF F, G

\* The books before a step: what a request still holds is in them, and what was taken
\* within the estimates is at most what is used.
LEMMA SharesTotal ==
    ASSUME TypeOK, QuotaMatchesLedger
    PROVE  /\ used = SumFunctionOnSet(Shares, Requests)
           /\ SumFunctionOnSet(SharesOfEstimate, Requests) \in Nat
           /\ SumFunctionOnSet(SharesOfEstimate, Requests) <= used
           /\ \A r \in Requests : Share(r) <= used
<1>1. used = SumFunctionOnSet(Shares, Requests)
  BY DEF QuotaMatchesLedger, Shares
<1>2. /\ IsFiniteSet(Requests)
      /\ \A q \in Requests : /\ Shares[q] \in Nat /\ Shares[q] \in Int
                             /\ SharesOfEstimate[q] \in Nat /\ SharesOfEstimate[q] \in Int
                             /\ SharesOfEstimate[q] <= Shares[q]
                             /\ Shares[q] = Share(q)
  BY ShareType, ResourceAssumption DEF Shares, SharesOfEstimate, ResourceAssumption
<1>3. SumFunctionOnSet(SharesOfEstimate, Requests) \in Nat
  BY <1>2, SumNat
<1>4. SumFunctionOnSet(SharesOfEstimate, Requests) <= SumFunctionOnSet(Shares, Requests)
  BY <1>2, SumMonotone
<1>5. \A r \in Requests : Shares[r] <= SumFunctionOnSet(Shares, Requests)
  BY <1>2, SumCovers
<1> QED
  BY <1>1, <1>2, <1>3, <1>4, <1>5

\* A step of a request keeps both counters right and within the limit.
LEMMA BooksStep ==
    ASSUME TypeOK, TypeOK', StageInv, RouteInv, SlotInv, LedgerInv, QuotaInv,
           NEW r \in Requests, OwnStep(r)
    PROVE  QuotaMatchesLedger' /\ NoConcurrentOverrun'
<1> DEFINE S == SumFunctionOnSet(Shares, Requests)
           E == SumFunctionOnSet(SharesOfEstimate, Requests)
<1>t. /\ reserved \in Nat /\ reserved' \in Nat /\ used \in Nat /\ used' \in Nat
      /\ Estimate \in Nat /\ QuotaLimit \in Nat /\ AllowOverage \in BOOLEAN
      /\ Share(r) \in Nat /\ Share(r)' \in Nat
      /\ ShareOfEstimate(r) \in Nat /\ ShareOfEstimate(r)' \in Nat
  BY NumberAssumption, ShareType DEF TypeOK, QuotaType, NumberAssumption
<1>1. used = S /\ E \in Nat /\ E <= used /\ Share(r) <= used
  BY SharesTotal DEF QuotaInv
<1>2. Outstanding(r) <= used \/ MonthlyQuota
  <2>1. status[r] \notin Terminal
    BY QuotaMoves DEF QuotaInv, RequestInv
  <2> QED
    BY <1>1, <2>1 DEF Share, IsCharged
<1>3. ShareMoves(r)
  BY <1>2, EvidenceMoves, OtherMoves DEF QuotaInv
<1>4. S' = S + Share(r)' - Share(r) /\ E' = E + ShareOfEstimate(r)' - ShareOfEstimate(r)
  BY SharesChange DEF QuotaInv
<1>5. QuotaMatchesLedger'
  <2>1. used' = S' /\ reserved' = Estimate * Cardinality(OpenRows)'
    BY <1>1, <1>3, <1>4 DEF ShareMoves
  <2> QED
    BY <2>1 DEF QuotaMatchesLedger, Shares
<1>6. ~AllowOverage => E + reserved <= QuotaLimit
  BY DEF QuotaInv, NoConcurrentOverrun, SharesOfEstimate
<1> HIDE DEF S, E
<1>7. ASSUME ~AllowOverage PROVE E' + reserved' <= QuotaLimit
  <2>1. CASE ShareOfEstimate(r)' + reserved' <= ShareOfEstimate(r) + reserved
    BY <1>t, <1>1, <1>4, <1>6, <1>7, <2>1
  <2>2. CASE /\ GateAllows
             /\ ShareOfEstimate(r)' + reserved' <= ShareOfEstimate(r) + reserved + Estimate
    <3>1. used + reserved + Estimate <= QuotaLimit
      BY <1>7, <2>2 DEF GateAllows
    <3> QED
      BY <1>t, <1>1, <1>4, <2>2, <3>1
  <2> QED
    BY <1>3, <2>1, <2>2 DEF ShareMoves
<1> QED
  BY <1>5, <1>7 DEF E, NoConcurrentOverrun, SharesOfEstimate

\* At the start nothing is used and nothing is reserved.
LEMMA InitQuota == Init => QuotaInv
<1> SUFFICES ASSUME Init PROVE QuotaInv
  OBVIOUS
<1>1. TypeOK
  BY InitIInv DEF IInv
<1>2. \A s \in Slots : Due(s) = 0 /\ DueOfEstimate(s) = 0
  BY NumberAssumption DEF Init, Due, DueOfEstimate, NumberAssumption
<1>3. \A r \in Requests : ChargeOf(r) = 0 /\ TakenOf(r) = 0
  <2> SUFFICES ASSUME NEW r \in Requests PROVE ChargeOf(r) = 0 /\ TakenOf(r) = 0
    OBVIOUS
  <2>1. \A n \in Nos : Dues(r)[n] = 0 /\ DuesOfEstimate(r)[n] = 0
    BY <1>2 DEF Slots, Dues, DuesOfEstimate
  <2>2. SumFunctionOnSet(Dues(r), Nos) = 0 /\ SumFunctionOnSet(DuesOfEstimate(r), Nos) = 0
    BY <2>1, NosFinite, SumZero
  <2> QED
    BY <2>2 DEF ChargeOf, TakenOf, Dues, DuesOfEstimate
<1>4. GrantInv
  <2>1. \A r \in Requests : \A n \in Nos : <<r, n>> \in Slots
    BY DEF Slots
  <2> QED
    BY <2>1 DEF Init, GrantInv, GrantOK, Holding
<1>5. AmountInv
  BY DEF Init, AmountInv, AmountOK, Slots
<1>6. PendInv
  BY <1>3, NumberAssumption DEF Init, PendInv, PendOK, ResultOpen, NumberAssumption
<1>7. \A r \in Requests : Share(r) = 0 /\ ShareOfEstimate(r) = 0
  BY <1>3 DEF Init, Share, ShareOfEstimate, Outstanding
<1>8. /\ SumFunctionOnSet(Shares, Requests) = 0
      /\ SumFunctionOnSet(SharesOfEstimate, Requests) = 0
  <2>1. \A r \in Requests : Shares[r] = 0 /\ SharesOfEstimate[r] = 0
    BY <1>7 DEF Shares, SharesOfEstimate
  <2> QED
    BY <2>1, SumZero, ResourceAssumption DEF ResourceAssumption
<1>9. OpenRows = {}
  BY DEF Init, OpenRows
<1>10. QuotaMatchesLedger
  BY <1>8, <1>9, FS_EmptySet, NumberAssumption
     DEF Init, QuotaMatchesLedger, Shares, NumberAssumption
<1>11. NoConcurrentOverrun
  BY <1>8, NumberAssumption DEF Init, NoConcurrentOverrun, SharesOfEstimate, NumberAssumption
<1> QED
  BY <1>4, <1>5, <1>6, <1>10, <1>11 DEF QuotaInv, RequestInv

\* Every step keeps the books.
LEMMA NextQuota == IInv /\ IInv' /\ QuotaInv /\ [Next]_vars => QuotaInv'
<1> SUFFICES ASSUME IInv, IInv', QuotaInv, [Next]_vars PROVE QuotaInv'
  OBVIOUS
<1> USE DEF IInv
<1>1. ASSUME NEW r \in Requests, OwnStep(r) PROVE QuotaInv'
  <2>1. RequestInv
    BY DEF QuotaInv
  <2>2. GrantInv' /\ AmountInv'
    BY <1>1, <2>1, GrantStep, AmountStep DEF RequestInv
  <2>3. PendInv'
    BY <1>1, <2>1, PendStep
  <2>4. QuotaMatchesLedger' /\ NoConcurrentOverrun'
    BY <1>1, BooksStep
  <2> QED
    BY <2>2, <2>3, <2>4 DEF QuotaInv, RequestInv
<1>2. ASSUME UNCHANGED <<status, factVars, quotaVars, processVars>> PROVE QuotaInv'
  <2>1. \A s : Due(s)' = Due(s) /\ DueOfEstimate(s)' = DueOfEstimate(s)
    BY <1>2 DEF Due, DueOfEstimate, Reserves, factVars
  <2>2. \A r : ChargeOf(r)' = ChargeOf(r) /\ TakenOf(r)' = TakenOf(r)
    BY <2>1 DEF ChargeOf, TakenOf, Nos
  <2>3. \A r : Share(r)' = Share(r) /\ ShareOfEstimate(r)' = ShareOfEstimate(r)
    BY <1>2, <2>2 DEF Share, ShareOfEstimate, IsCharged, Outstanding, processVars, pendVars
  <2>4. OpenRows' = OpenRows
    BY <1>2 DEF OpenRows, quotaVars
  <2>5. QuotaMatchesLedger' /\ NoConcurrentOverrun'
    BY <1>2, <2>3, <2>4 DEF QuotaInv, QuotaMatchesLedger, NoConcurrentOverrun, quotaVars
  <2>6. GrantInv' /\ AmountInv'
    BY <1>2 DEF QuotaInv, RequestInv, GrantInv, GrantOK, AmountInv, AmountOK, Cur, Nos,
       Holding, Reserves, factVars, quotaVars, processVars, routeVars
  <2>7. PendInv'
    BY <1>2, <2>2 DEF QuotaInv, RequestInv, PendInv, PendOK, ResultOpen, processVars, pendVars
  <2> QED
    BY <2>5, <2>6, <2>7 DEF QuotaInv, RequestInv
<1>3. CASE Billing
  BY <1>2, <1>3 DEF Billing, BeginClose, CommitClose, AbortClose, ReopenMonth
<1>4. CASE UNCHANGED vars
  BY <1>2, <1>4 DEF vars, processVars
<1> QED
  BY <1>1, <1>3, <1>4 DEF Next, OwnStep

LEMMA QuotaInvariance == Spec => []QuotaInv
<1>1. Spec => []IInv
  BY Invariance
<1> QED
  BY <1>1, InitQuota, NextQuota, PTL DEF Spec

\* The counter and the ledger never drift apart: what is used is at every moment what
\* the lines of settled work charge and the estimates nobody has settled, and what the
\* month reserves is one estimate for each open row.
THEOREM QuotaFollowsLedger == Spec => []QuotaMatchesLedger
<1>1. QuotaInv => QuotaMatchesLedger
  BY DEF QuotaInv
<1> QED
  BY <1>1, QuotaInvariance, PTL

\* However many calls run at once, without overage the reservations and what the
\* settled attempts took of theirs stay within the limit.
THEOREM QuotaHolds == Spec => []NoConcurrentOverrun
<1>1. QuotaInv => NoConcurrentOverrun
  BY DEF QuotaInv
<1> QED
  BY <1>1, QuotaInvariance, PTL
=============================================================================
