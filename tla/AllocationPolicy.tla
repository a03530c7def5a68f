-------------------------- MODULE AllocationPolicy --------------------------
(***************************************************************************)
(* The rules by which one employee's cost is allocated to projects         *)
(* (employee-allocation-policy-repository.ts, project-membership-*.ts,     *)
(* project-accounting-lifecycle-repository.ts, project-allocation/ of the  *)
(* domain package, triggers of migration 0079).  A membership, a weight    *)
(* and a project's accounting window are intervals of months.  Whoever     *)
(* changes memberships or rules does so under the employee's advisory      *)
(* lock, publishes the whole rule set as a new version and marks months    *)
(* dirty, all in one transaction; the lifecycle of a project has a lock of  *)
(* its own and takes the employee's only when it finds rules to cut.       *)
(*                                                                         *)
(* One employee: the locks make employees independent.  Every boundary is  *)
(* the start of a month, an intent has one segment, idempotency keys are   *)
(* left out (a replay changes nothing).  The months of the model have      *)
(* begun: later ones are not marked, an enabled month marks itself.        *)
(***************************************************************************)
EXTENDS Integers, FiniteSets, Functions

CONSTANTS LastProject,  \* projects are 1 .. LastProject, in the order of their ids
          MaxStints,    \* bound: stints of the employee in one project
          Writers,      \* transactions that may be under way at the same time
          Weights,      \* the weight_bps that are asked for
          Limit,        \* 10000 basis points
          Horizon,      \* months 0 .. Horizon - 1; as an end: no end (null)
          Amounts,      \* amounts of one ledger line, in its smallest unit
          MaxBegun      \* bound: transactions begun

ASSUME PolicyAssumption ==
    /\ LastProject \in Nat /\ MaxStints \in Nat /\ Weights \subseteq Nat
    /\ Limit \in Nat \ {0} /\ Horizon \in Nat \ {0} /\ Amounts \subseteq Int /\ MaxBegun \in Nat

Projects == 1..LastProject
Stints == Projects \X (1..MaxStints)
Months == 0..(Horizon - 1)

Interval == [from : Months, until : 1..Horizon]
Intervals == {i \in Interval : i.from < i.until}
Rule == [stint : Stints, weight : Nat, from : Months, until : 1..Horizon]

VARIABLES members,      \* the ACTIVE revision of each stint; Absent: no such stint yet
          window,       \* project_accounting_profile_version; stage 1 started, 2 ended
          version,      \* of the current employee_project_allocation_policy; 0: none
          rules,        \* employee_project_allocation_rule of that version
          tx,           \* the transactions under way: what they have read and will write
          marked,       \* history: the months that the last transaction has marked dirty
          begun         \* history: transactions begun

rows == <<members, window, rules>>
policyVars == <<members, window, version, rules, tx, marked, begun>>

Absent == [from |-> 0, until |-> 0]
Unlimited == [stage |-> 0, from |-> 0, until |-> Horizon]

\* pc "read": has read without the employee's lock; "resolved": so has an intent its
\* membership; "locked": holds the lock, its result is ready; "unlocked": the end of an
\* accounting that found no rule to cut.
NoTx == [pc |-> "none", kind |-> "none", project |-> 0, stint |-> <<0, 0>>, span |-> Absent,
         weight |-> 0, expected |-> 0, kept |-> {}, publishes |-> FALSE, next |-> {}, months |-> {}]

PolicyInit ==
    /\ members = [s \in Stints |-> Absent]
    /\ window = [p \in Projects |-> Unlimited]
    /\ version = 0 /\ rules = {}
    /\ tx = [r \in Writers |-> NoTx]
    /\ marked = {} /\ begun = 0

-----------------------------------------------------------------------------
(* Half-open intervals (timeline.ts).                                      *)

Covers(i, m) == i.from <= m /\ m < i.until
Contains(i, j) == i.from <= j.from /\ j.until <= i.until
Overlaps(i, j) == i.from < j.until /\ j.from < i.until
MonthsOf(i) == {m \in Months : Covers(i, m)}
-----------------------------------------------------------------------------
(* A rule set.                                                             *)

\* subtractRuleCuts: what is left of a rule outside of the interval.
CutUnfiltered(x, i) ==   \* bug: empty pieces stay
    IF Overlaps(x, i) THEN {[x EXCEPT !.until = i.from], [x EXCEPT !.from = i.until]} ELSE {x}
Cut(x, i) ==
    IF Overlaps(x, i)
    THEN {y \in {[x EXCEPT !.until = i.from], [x EXCEPT !.from = i.until]} : y.from < y.until}
    ELSE {x}

\* The rules that stay when the weight of project p in interval i is set anew.
Kept(R, p, i) == UNION {IF x.stint[1] = p THEN Cut(x, i) ELSE {x} : x \in R}

Within(x, i) == [x EXCEPT !.from = IF @ < i.from THEN i.from ELSE @,
                          !.until = IF i.until < @ THEN i.until ELSE @]
ClippedTo(R, i) == {y \in {Within(x, i) : x \in R} : y.from < y.until}

\* clipRulesToMembership and clipRulesAtAccountingEnd.
OfStint(R, s) == {x \in R : x.stint = s}
OfProject(R, p) == {x \in R : x.stint[1] = p}
ClippedStint(R, s, i) == ClippedTo(OfStint(R, s), i) \cup (R \ OfStint(R, s))
ClippedProject(R, p, i) == ClippedTo(OfProject(R, p), i) \cup (R \ OfProject(R, p))

At(R, m) == {x \in R : Covers(x, m)}
TotalWeight(R) == SumFunctionOnSet([x \in R |-> x.weight], R)

\* weightLimitConflicts looks at the boundaries, at the last only if a rule has no end.
Boundaries(R) == {x.from : x \in R} \cup ({x.until : x \in R} \ {Horizon})
LooksClosed(R, b) ==   \* bug: the time after the last boundary is never looked at
    \E c \in Boundaries(R) : b < c
Looks(R, b) == (\E c \in Boundaries(R) : b < c) \/ (\E x \in R : x.until = Horizon)
Overweight(R, m) == At(R, m) # {} /\ TotalWeight(At(R, m)) > Limit
WithinLimit(R) == \A b \in Boundaries(R) : Looks(R, b) => ~Overweight(R, b)

\* validatePolicyRules, with the checks and the trigger of the rule table.
Valid(R, mem, win) ==
    /\ \A x \in R : /\ x.from < x.until /\ x.weight <= Limit
                    /\ Contains(mem[x.stint], x) /\ Contains(win[x.stint[1]], x)
    /\ \A x, y \in R : x # y /\ x.stint[1] = y.stint[1] => ~Overlaps(x, y)
    /\ WithinLimit(R)

\* affectedMonths of a publication: from the first rule, old or new, until now; and of a
\* stint: the months it had and those it gets.
PolicyMonths(old, new) == {m \in Months : \E x \in old \cup new : x.from <= m}
StintMonthsNew(old, new) ==   \* bug: the months it loses are not marked
    MonthsOf(new)
StintMonths(old, new) == MonthsOf(old) \cup MonthsOf(new)

-----------------------------------------------------------------------------
(* Transactions.                                                           *)

EmployeeFree == \A r \in Writers : tx[r].pc # "locked"
ProjectFree(p) == \A r \in Writers : ~(tx[r].kind = "end" /\ tx[r].project = p)

Become(r, t) == tx' = [tx EXCEPT ![r] = t]
Quiet == UNCHANGED <<members, window, version, rules>> /\ marked' = {}
Counted == begun < MaxBegun /\ begun' = begun + 1

\* In the employee's lock, with all that will be written.
Ready(t, publishes, new, months) ==
    [t EXCEPT !.pc = "locked", !.publishes = publishes, !.next = new, !.months = months]

\* publishProjectIntent reads the current rules before it has the lock.  The route insists
\* on the version the client has seen: the current one, an older one is refused anyway.
BeginIntent(r) ==
    /\ tx[r].pc = "none" /\ Counted /\ Quiet
    /\ \E p \in Projects, i \in Intervals, w \in Weights :
         Become(r, [NoTx EXCEPT !.pc = "read", !.kind = "intent", !.project = p, !.span = i,
                                !.weight = w, !.expected = version, !.kept = Kept(rules, p, i)])

\* The stint whose membership covers the first month of the segment.
ResolveIntent(r) ==
    /\ tx[r].pc = "read" /\ tx[r].kind = "intent"
    /\ \/ \E s \in Stints :
            /\ s[1] = tx[r].project /\ Covers(members[s], tx[r].span.from)
            /\ Become(r, [tx[r] EXCEPT !.pc = "resolved", !.stint = s])
       \/ /\ \A s \in Stints :
               s[1] = tx[r].project => ~Covers(members[s], tx[r].span.from)
          /\ Become(r, NoTx)
    /\ Quiet /\ UNCHANGED begun

RuleOf(s, w, i) == [stint |-> s, weight |-> w, from |-> i.from, until |-> i.until]
Intended(t) == t.kept \cup {RuleOf(t.stint, t.weight, t.span)}
SeenIgnored(t) ==   \* bug: rules read before the lock are taken for the current ones
    TRUE
Seen(t) == t.expected = version

LockIntent(r) ==
    /\ tx[r].pc = "resolved" /\ EmployeeFree
    /\ Become(r, IF Seen(tx[r]) /\ Valid(Intended(tx[r]), members, window)
                 THEN Ready(tx[r], TRUE, Intended(tx[r]), PolicyMonths(rules, Intended(tx[r])))
                 ELSE NoTx)
    /\ Quiet /\ UNCHANGED begun

\* assertNoActiveOverlap, and the exclusion constraint.
Apart(mem, s) ==
    \A u \in Stints : u # s /\ u[1] = s[1] => ~Overlaps(mem[u], mem[s])
\* MAX(stint_index) + 1: the first index that is not taken.
IsNext(s) ==
    members[s] = Absent /\ \A k \in 1..(s[2] - 1) : members[<<s[1], k>>] # Absent

\* createProjectMembership: all of it in the lock.  A weight is for the whole stint.
Joined(R, s, i, W) ==
    IF W = {} THEN R ELSE Kept(R, s[1], i) \cup {RuleOf(s, w, i) : w \in W}
Join(r) ==
    /\ tx[r].pc = "none" /\ Counted /\ EmployeeFree /\ Quiet
    /\ \E s \in Stints, i \in Intervals, W \in {{}} \cup {{w} : w \in Weights} :
         LET mem == [members EXCEPT ![s] = i]
             new == Joined(rules, s, i, W)
             months == IF W = {} THEN {} ELSE PolicyMonths(rules, new)
         IN /\ IsNext(s) /\ Apart(mem, s)
            /\ W # {} => Valid(new, mem, window)
            /\ Become(r, Ready([NoTx EXCEPT !.kind = "join", !.stint = s, !.span = i],
                               W # {}, new, MonthsOf(i) \cup months))

\* reviseProjectMembership.  The route can not take an end away; rules are published
\* again only if the stint has some.
Revise(r) ==
    /\ tx[r].pc = "none" /\ Counted /\ EmployeeFree /\ Quiet
    /\ \E s \in Stints, i \in Intervals :
         LET mem == [members EXCEPT ![s] = i]
             touched == OfStint(rules, s) # {}
             new == ClippedStint(rules, s, i)
             months == IF touched THEN PolicyMonths(rules, new) ELSE {}
         IN /\ members[s] # Absent /\ Apart(mem, s)
            /\ i.until = Horizon => members[s].until = Horizon
            /\ touched => Valid(new, mem, window)
            /\ Become(r, Ready([NoTx EXCEPT !.kind = "revise", !.stint = s, !.span = i],
                               touched, new, StintMonths(members[s], i) \cup months))

\* reviseProjectAccountingLifecycle, in the project's lock.  The start cuts no rules.
StartAccounting(p) ==
    /\ window[p].stage = 0 /\ ProjectFree(p) /\ Counted
    /\ \E m \in Months : /\ window' = [window EXCEPT ![p] = [@ EXCEPT !.stage = 1, !.from = m]]
                         /\ marked' = {k \in Months : m <= k}
    /\ UNCHANGED <<members, version, rules, tx>>

\* The end finds the employees with rules to cut before it has their locks.
BeginEnd(r) ==
    /\ tx[r].pc = "none" /\ Counted /\ Quiet
    /\ \E p \in Projects : \E m \in Months :
         /\ window[p].stage = 1 /\ window[p].from < m /\ ProjectFree(p)
         /\ Become(r, [NoTx EXCEPT
              !.pc = IF \E x \in OfProject(rules, p) : m < x.until THEN "read" ELSE "unlocked",
              !.kind = "end", !.project = p, !.span = [from |-> 0, until |-> m],
              !.months = {k \in Months : m <= k}])

EndsAt(t) == [window EXCEPT ![t.project] = [@ EXCEPT !.stage = 2, !.until = t.span.until]]

LockEnd(r) ==
    LET new == ClippedProject(rules, tx[r].project, tx[r].span)
    IN /\ tx[r].pc = "read" /\ tx[r].kind = "end" /\ EmployeeFree
       /\ Become(r, IF Valid(new, members, EndsAt(tx[r]))
                    THEN Ready(tx[r], TRUE, new, tx[r].months) ELSE NoTx)
       /\ Quiet /\ UNCHANGED begun

Commit(r) ==
    /\ tx[r].pc \in {"locked", "unlocked"}
    /\ members' = IF tx[r].kind \in {"join", "revise"}
                  THEN [members EXCEPT ![tx[r].stint] = tx[r].span] ELSE members
    /\ window' = IF tx[r].kind = "end" THEN EndsAt(tx[r]) ELSE window
    /\ rules' = IF tx[r].publishes THEN tx[r].next ELSE rules
    /\ version' = IF tx[r].publishes THEN version + 1 ELSE version
    /\ marked' = tx[r].months
    /\ Become(r, NoTx) /\ UNCHANGED begun

\* A process dies, a connection is lost, or another employee's rules refuse an end.
Abort(r) ==
    /\ tx[r].pc # "none" /\ Become(r, NoTx) /\ Quiet /\ UNCHANGED begun

PolicyNext ==
    \/ \E r \in Writers :
         \/ BeginIntent(r) \/ ResolveIntent(r) \/ LockIntent(r) \/ Join(r) \/ Revise(r)
         \/ BeginEnd(r) \/ LockEnd(r) \/ Commit(r) \/ Abort(r)
    \/ \E p \in Projects : StartAccounting(p)

PolicySpec == PolicyInit /\ [][PolicyNext]_policyVars

-----------------------------------------------------------------------------
(* What the allocation of a month makes of the rules (allocation.ts).      *)

\* effectiveWeightsAt: membership, weight and window all cover the request's start.
Applies(x, m) == Covers(members[x.stint], m) /\ Covers(window[x.stint[1]], m)
Effective(m) == {x \in At(rules, m) : Applies(x, m)}

\* Why a month has no effective rule (unallocatedReasonFor; HISTORICAL_UNKNOWN is a name
\* for months before the first that was enabled).
Reason(m) == IF At(rules, m) # {} THEN "RULE_PENDING_REPAIR"
             ELSE IF \E s \in Stints : Covers(members[s], m) THEN "NO_EFFECTIVE_RULE"
             ELSE "NO_MEMBERSHIP"
Allocation(m) == [reason |-> IF Effective(m) = {} THEN Reason(m) ELSE "MEMBERSHIP_RULE",
               shares |-> {<<x.stint, x.weight>> : x \in Effective(m)}]

\* allocatePoolLine: the targets of a line, with the remainder.
Unallocated == LastProject + 1
Targets == 1..Unallocated
ShareOf(m) == [k \in Targets |->
    IF k = Unallocated THEN Limit - TotalWeight(Effective(m))
    ELSE TotalWeight({x \in Effective(m) : x.stint[1] = k})]

\* allocateByBps: floors, then one unit more for the largest remainders, ties by key.
RankTied(k, rest) ==   \* bug: equal remainders come first together
    Cardinality({j \in DOMAIN rest : rest[k] < rest[j]})
Rank(k, rest) ==
    Cardinality({j \in DOMAIN rest : rest[k] < rest[j] \/ (rest[j] = rest[k] /\ j < k)})
AllocateByBps(total, bps) ==
    LET active == {k \in DOMAIN bps : bps[k] > 0}
        amount == IF total < 0 THEN -total ELSE total
        floor == [k \in active |-> (amount * bps[k]) \div Limit]
        rest == [k \in active |-> (amount * bps[k]) % Limit]
        leftover == (amount * SumFunctionOnSet(bps, active)) \div Limit
                      - SumFunctionOnSet(floor, active)
        share == [k \in active |-> floor[k] + IF Rank(k, rest) < leftover THEN 1 ELSE 0]
    IN [k \in DOMAIN bps |->
          IF k \notin active THEN 0 ELSE IF total < 0 THEN -share[k] ELSE share[k]]

-----------------------------------------------------------------------------
(* Properties.                                                             *)

TxType == [pc : {"none", "read", "resolved", "locked", "unlocked"},
           kind : {"none", "intent", "join", "revise", "end"},
           project : Nat, stint : Nat \X Nat, span : [from : Months, until : 0..Horizon],
           weight : Nat, expected : Nat, kept : SUBSET Rule, publishes : BOOLEAN,
           next : SUBSET Rule, months : SUBSET Months]

\* The rows and the transactions keep their types; months and intervals stay in the range.
PolicyTypeOK ==
    /\ members \in [Stints -> Intervals \cup {Absent}]
    /\ window \in [Projects -> [stage : 0..2, from : Months, until : 1..Horizon]]
    /\ version \in Nat /\ rules \in SUBSET Rule
    /\ tx \in [Writers -> TxType]
    /\ marked \in SUBSET Months /\ begun \in Nat

\* In every month the weights of an employee are 100% at most, and a rule lies in the
\* membership it refers to and overlaps no other of its project: whatever memberships are
\* shortened, projects ended and intents sent at the same time (policy.ts, migration 0079).
RulesFit ==
    /\ \A m \in Months : ~Overweight(rules, m)
    /\ \A x \in rules : Contains(members[x.stint], x)
    /\ \A x, y \in rules : x # y /\ x.stint[1] = y.stint[1] => ~Overlaps(x, y)

\* The part of a stint's time that a transaction is asked to change.
Concerns(t, s, m) ==
    CASE t.kind \in {"intent", "join"} ->
           s[1] = (IF t.kind = "join" THEN t.stint[1] ELSE t.project) /\ Covers(t.span, m)
      [] t.kind = "revise" -> s = t.stint /\ ~Covers(t.span, m)
      [] t.kind = "end" -> s[1] = t.project /\ t.span.until <= m
      [] OTHER -> FALSE
WeightIn(R, s, m) == {x.weight : x \in {y \in At(R, m) : y.stint = s}}

\* A transaction changes the weights of its own project and time only: no publication
\* that came between its reading and its lock is overwritten, and no earlier segment of
\* its own project is lost (comments of publishProjectIntent and subtractRuleCuts).
OthersUntouched ==
    [][\A r \in Writers : tx[r].pc \in {"locked", "unlocked"} /\ tx'[r].pc = "none" =>
         \A s \in Stints, m \in Months :
            ~Concerns(tx[r], s, m) => WeightIn(rules', s, m) = WeightIn(rules, s, m)]_policyVars

\* Whatever changes the allocation of a month has marked the month, in the same step, but
\* the start of an accounting: months before it lose their weights unmarked.
StartsLater(m) ==
    \E p \in Projects : window[p].stage = 0 /\ window'[p].stage = 1 /\ m < window'[p].from
ChangesAreMarked ==
    [][rows' # rows => \A m \in Months :
         Allocation(m)' # Allocation(m) => m \in marked' \/ StartsLater(m)]_policyVars

\* A line's amount is split without loss, each share within one unit of its weight, under
\* all rules that come to apply (the conservation that allocation.ts reports).
SplitsExactly ==
    \A bps \in {ShareOf(m) : m \in {k \in Months : Effective(k) # {}}}, a \in Amounts :
        LET share == AllocateByBps(a, bps)
        IN /\ SumFunctionOnSet(share, Targets) = a
           /\ \A k \in Targets : LET over == share[k] * Limit - a * bps[k]
                                IN -Limit < over /\ over < Limit
=============================================================================
