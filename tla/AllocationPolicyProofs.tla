----------------------- MODULE AllocationPolicyProofs -----------------------
(***************************************************************************)
(* Theorems about AllocationPolicy, for any projects, stints, transactions, *)
(* weights, horizon, amounts and bounds.  Four layers: what cutting and     *)
(* clipping make of a rule, and why it is enough to look at the boundaries;  *)
(* what is true of each transaction under way (TxInv), and the steps; what  *)
(* a transaction leaves alone and marks; and the split of an amount among   *)
(* the targets of a month.                                                 *)
(***************************************************************************)
EXTENDS AllocationPolicy, FiniteSums

-----------------------------------------------------------------------------
(* The inductive invariant.                                                *)

\* What RulesFit says of the rules, of any rules.
Fit(R, mem) ==
    /\ \A m \in Months : ~Overweight(R, m)
    /\ \A x \in R : Contains(mem[x.stint], x)
    /\ \A x, y \in R : x # y /\ x.stint[1] = y.stint[1] => ~Overlaps(x, y)

\* What will be current when the transaction commits.
NextMembers(t) ==
    IF t.kind \in {"join", "revise"} THEN [members EXCEPT ![t.stint] = t.span] ELSE members
NextRules(t) == IF t.publishes THEN t.next ELSE rules

\* A transaction has what its kind needs, and publishes only with the lock.
Shaped(t) ==
    /\ t.pc = "none" <=> t.kind = "none"
    /\ t.kind = "intent" =>
         /\ t.project \in Projects /\ t.span \in Intervals /\ t.weight \in Weights
         /\ t.pc # "unlocked"
         /\ t.pc # "read" => t.stint \in Stints /\ t.stint[1] = t.project
    /\ t.kind \in {"join", "revise"} =>
         t.pc = "locked" /\ t.stint \in Stints /\ t.span \in Intervals
    /\ t.kind = "end" =>
         /\ t.pc # "resolved" /\ t.project \in Projects
         /\ t.span.from = 0 /\ t.span.until \in 1..Horizon
    /\ t.publishes => t.pc = "locked"

\* An intent that has read the current version has kept the current rules.
Fresh(t) ==
    t.kind = "intent" /\ t.pc \in {"read", "resolved"} =>
        /\ t.expected <= version
        /\ t.expected = version => t.kept = Kept(rules, t.project, t.span)

\* In the lock the result fits, keeps what it does not concern and marks what it changes.
Fits(t) == t.pc = "locked" => Fit(NextRules(t), NextMembers(t))
Keeps(t) ==
    t.publishes => \A s \in Stints, m \in Months :
        ~Concerns(t, s, m) => WeightIn(t.next, s, m) = WeightIn(rules, s, m)
Marks(t) ==
    /\ t.publishes /\ t.kind # "end" => PolicyMonths(rules, t.next) \subseteq t.months
    /\ t.kind \in {"join", "revise"} => StintMonths(members[t.stint], t.span) \subseteq t.months
    /\ t.kind = "end" => \A m \in Months : t.span.until <= m => m \in t.months

Started(t) == t.kind = "end" => window[t.project].stage = 1

TxInv(t) ==
    t \in TxType /\ Shaped(t) /\ Fresh(t) /\ Fits(t) /\ Keeps(t) /\ Marks(t) /\ Started(t)

\* A window is open at its end until the end of the accounting sets it.
Opened == \A p \in Projects : window[p].stage # 2 => window[p].until = Horizon
\* The locks: of the employee, and of each project.
OneLocked == \A r, q \in Writers : tx[r].pc = "locked" /\ tx[q].pc = "locked" => r = q
OneEnd ==
    \A r, q \in Writers :
        tx[r].kind = "end" /\ tx[q].kind = "end" /\ tx[r].project = tx[q].project => r = q

IInv ==
    /\ PolicyTypeOK /\ RulesFit /\ Opened /\ OneLocked /\ OneEnd
    /\ \A r \in Writers : TxInv(tx[r])

-----------------------------------------------------------------------------
(* Cutting and clipping.                                                   *)

Extent == [from : Months, until : 0..Horizon]
Window == [stage : 0..2, from : Months, until : 1..Horizon]

\* The horizon is positive, and months are natural numbers.
LEMMA Ranges ==
    /\ Horizon \in Nat /\ 0 \in Months /\ Months \subseteq Nat
    /\ \A h \in 1..Horizon : h \in Nat /\ h > 0
    /\ \A m \in Months : m + 1 \in 1..Horizon
    /\ \A h \in 1..Horizon, m \in Nat : m < h => m \in Months
BY PolicyAssumption DEF Months

\* Rules, intervals and extents have natural numbers for their ends.
LEMMA RuleRange ==
    ASSUME NEW x \in Rule
    PROVE  /\ x.from \in Nat /\ x.until \in Nat /\ x.from \in Months /\ x.until \in 1..Horizon
           /\ x.until <= Horizon /\ x.stint \in Stints /\ x.weight \in Nat
<1>1. x.from \in Months /\ x.until \in 1..Horizon /\ x.stint \in Stints /\ x.weight \in Nat
  BY DEF Rule
<1>2. QED BY <1>1, PolicyAssumption DEF Months

\* The same of an extent.
LEMMA ExtentRange ==
    ASSUME NEW i \in Extent
    PROVE  i.from \in Nat /\ i.until \in Nat /\ i.from \in Months /\ i.until <= Horizon
<1>1. i.from \in Months /\ i.until \in 0..Horizon
  BY DEF Extent
<1>2. QED BY <1>1, PolicyAssumption DEF Months

\* Intervals are extents.
LEMMA IntervalExtent ==
    ASSUME NEW i \in Interval
    PROVE  i \in Extent /\ i.until \in 1..Horizon
<1>1. i.until \in 1..Horizon /\ i.until \in 0..Horizon
  BY PolicyAssumption DEF Interval
<1>2. QED BY <1>1 DEF Interval, Extent

\* subtractRuleCuts keeps exactly the part outside of the interval.
LEMMA CutPieces ==
    ASSUME NEW x \in Rule, NEW i \in Interval
    PROVE  /\ Cut(x, i) \subseteq Rule
           /\ \A y \in Cut(x, i) :
                /\ y.stint = x.stint /\ y.weight = x.weight
                /\ \A m \in Months : Covers(y, m) => Covers(x, m)
           /\ \A m \in Months : Covers(x, m) /\ ~Covers(i, m) => \E y \in Cut(x, i) : Covers(y, m)
<1> DEFINE left == [x EXCEPT !.until = i.from]
           right == [x EXCEPT !.from = i.until]
<1>1. left.stint = x.stint /\ left.weight = x.weight /\ left.from = x.from /\ left.until = i.from
  BY DEF Rule
<1>2. /\ right.stint = x.stint /\ right.weight = x.weight
      /\ right.from = i.until /\ right.until = x.until
  BY DEF Rule
<1>3. /\ x.from \in Months /\ x.until \in 1..Horizon /\ i.from \in Months /\ i.until \in 1..Horizon
      /\ x.from \in Nat /\ x.until \in Nat /\ i.from \in Nat /\ i.until \in Nat
  BY RuleRange, ExtentRange, IntervalExtent DEF Interval
<1>9. \A m \in Months : m \in Nat
  BY Ranges
<1>4. left.from < left.until => left \in Rule
  BY <1>1, <1>3, Ranges DEF Rule
<1>5. right.from < right.until => right \in Rule
  BY <1>2, <1>3, Ranges DEF Rule
<1>6. CASE ~Overlaps(x, i)
  BY <1>6 DEF Cut
<1>7. CASE Overlaps(x, i)
  <2>1. Cut(x, i) = {y \in {left, right} : y.from < y.until}
    BY <1>7 DEF Cut
  <2>2. x.from < i.until /\ i.from < x.until
    BY <1>7 DEF Overlaps
  <2>3. /\ \A m \in Months : Covers(left, m) <=> x.from <= m /\ m < i.from
        /\ \A m \in Months : Covers(right, m) <=> i.until <= m /\ m < x.until
        /\ \A m \in Months : Covers(x, m) <=> x.from <= m /\ m < x.until
        /\ \A m \in Months : Covers(i, m) <=> i.from <= m /\ m < i.until
    BY <1>1, <1>2 DEF Covers
  <2> HIDE DEF left, right
  <2>4. Cut(x, i) \subseteq Rule
    BY <2>1, <1>4, <1>5
  <2>5. ASSUME NEW y \in Cut(x, i)
        PROVE  /\ y.stint = x.stint /\ y.weight = x.weight
               /\ \A m \in Months : Covers(y, m) => Covers(x, m)
    <3>1. y = left \/ y = right
      BY <2>1
    <3>2. y.stint = x.stint /\ y.weight = x.weight
      BY <3>1, <1>1, <1>2
    <3>3. \A m \in Months : Covers(y, m) => Covers(x, m)
      <4>1. \A m \in Months : Covers(left, m) => Covers(x, m)
        BY <2>2, <2>3, <1>3, <1>9
      <4>2. \A m \in Months : Covers(right, m) => Covers(x, m)
        BY <2>2, <2>3, <1>3, <1>9
      <4>3. QED BY <4>1, <4>2, <3>1
    <3>4. QED BY <3>2, <3>3
  <2>6. ASSUME NEW m \in Months, Covers(x, m), ~Covers(i, m)
        PROVE  \E y \in Cut(x, i) : Covers(y, m)
    <3>1. CASE m < i.from
      <4>1. Covers(left, m) /\ left.from < left.until
        BY <3>1, <2>3, <2>6, <1>1, <1>3, <1>9
      <4>2. QED BY <4>1, <2>1
    <3>2. CASE i.until <= m
      <4>1. Covers(right, m) /\ right.from < right.until
        BY <3>2, <2>3, <2>6, <1>2, <1>3, <1>9
      <4>2. QED BY <4>1, <2>1
    <3>3. QED BY <3>1, <3>2, <2>3, <2>6, <1>3, <1>9
  <2>7. QED BY <2>4, <2>5, <2>6
<1>8. QED BY <1>6, <1>7

\* Clipping keeps exactly the part inside of the interval.
LEMMA WithinPart ==
    ASSUME NEW x \in Rule, NEW i \in Extent, NEW y, y = Within(x, i)
    PROVE  /\ y.from \in Months /\ y.until \in 0..Horizon
           /\ y.from < y.until => y \in Rule
           /\ y.stint = x.stint /\ y.weight = x.weight
           /\ \A m \in Months : Covers(y, m) <=> Covers(x, m) /\ Covers(i, m)
<1>1. /\ x.from \in Nat /\ x.until \in Nat /\ i.from \in Nat /\ i.until \in Nat
      /\ x.from \in Months /\ x.until \in 1..Horizon
      /\ i.from \in Months /\ i.until \in 0..Horizon
      /\ x.stint \in Stints /\ x.weight \in Nat
  BY RuleRange, ExtentRange DEF Extent
<1>2. y = [stint |-> x.stint, weight |-> x.weight,
           from |-> IF x.from < i.from THEN i.from ELSE x.from,
           until |-> IF i.until < x.until THEN i.until ELSE x.until]
  BY DEF Rule, Within
<1>3. /\ y.stint = x.stint /\ y.weight = x.weight
      /\ y.from = (IF x.from < i.from THEN i.from ELSE x.from)
      /\ y.until = (IF i.until < x.until THEN i.until ELSE x.until)
  BY <1>2
<1>4. y.from \in Months /\ y.until \in 0..Horizon
  BY <1>1, <1>3, Ranges
<1>5. ASSUME y.from < y.until PROVE y \in Rule
  <2>1. y.until \in 1..Horizon
    BY <1>1, <1>3, <1>5, PolicyAssumption
  <2>2. QED BY <2>1, <1>1, <1>2, <1>4 DEF Rule
<1>6. ASSUME NEW m \in Months PROVE Covers(y, m) <=> Covers(x, m) /\ Covers(i, m)
  <2>1. m \in Nat
    BY Ranges
  <2>2. /\ y.from <= m <=> x.from <= m /\ i.from <= m
        /\ m < y.until <=> m < x.until /\ m < i.until
    BY <1>1, <1>3, <2>1
  <2>3. QED BY <2>2 DEF Covers
<1>7. QED BY <1>3, <1>4, <1>5, <1>6

\* Setting a weight anew leaves other projects and other times alone.
LEMMA KeptKeeps ==
    ASSUME NEW R \in SUBSET Rule, NEW p, NEW i \in Interval
    PROVE  /\ Kept(R, p, i) \subseteq Rule
           /\ \A s \in Stints, m \in Months :
                s[1] # p \/ ~Covers(i, m) => WeightIn(Kept(R, p, i), s, m) = WeightIn(R, s, m)
<1> DEFINE K == Kept(R, p, i)
<1>1. \A y : y \in K <=> \E x \in R : y \in IF x.stint[1] = p THEN Cut(x, i) ELSE {x}
  BY DEF Kept
<1>2. K \subseteq Rule
  BY <1>1, CutPieces
<1>3. ASSUME NEW s \in Stints, NEW m \in Months, s[1] # p \/ ~Covers(i, m)
      PROVE  WeightIn(K, s, m) = WeightIn(R, s, m)
  <2>1. \A y \in K : Covers(y, m) /\ y.stint = s =>
          \E x \in R : Covers(x, m) /\ x.stint = s /\ x.weight = y.weight
    BY <1>1, CutPieces
  <2>2. \A x \in R : Covers(x, m) /\ x.stint = s =>
          \E y \in K : Covers(y, m) /\ y.stint = s /\ y.weight = x.weight
    BY <1>1, <1>3, CutPieces
  <2> HIDE DEF K
  <2>3. QED BY <2>1, <2>2 DEF WeightIn, At
<1>4. QED BY <1>2, <1>3

\* Clipping some of the rules leaves the others and the inside alone.
LEMMA ClippedKeeps ==
    ASSUME NEW R \in SUBSET Rule, NEW S \in SUBSET R, NEW i \in Extent
    PROVE  LET C == ClippedTo(S, i) \cup (R \ S)
           IN /\ C \subseteq Rule
              /\ \A s \in Stints, m \in Months :
                   (\A x \in S : x.stint # s) \/ Covers(i, m) =>
                     WeightIn(C, s, m) = WeightIn(R, s, m)
<1> DEFINE C == ClippedTo(S, i) \cup (R \ S)
<1>1. \A y : y \in C <=> \/ \E x \in S : y = Within(x, i) /\ y.from < y.until
                         \/ y \in R \ S
  BY DEF ClippedTo
<1>2. C \subseteq Rule
  BY <1>1, WithinPart
<1>3. ASSUME NEW s \in Stints, NEW m \in Months, (\A x \in S : x.stint # s) \/ Covers(i, m)
      PROVE  WeightIn(C, s, m) = WeightIn(R, s, m)
  <2>1. \A y \in C : Covers(y, m) /\ y.stint = s =>
          \E x \in R : Covers(x, m) /\ x.stint = s /\ x.weight = y.weight
    BY <1>1, WithinPart
  <2>2. ASSUME NEW x \in R, Covers(x, m), x.stint = s
        PROVE  \E y \in C : Covers(y, m) /\ y.stint = s /\ y.weight = x.weight
    <3>1. CASE x \notin S
      BY <3>1, <2>2, <1>1
    <3>2. CASE x \in S
      <4> DEFINE y == Within(x, i)
      <4>1. Covers(i, m)
        BY <3>2, <1>3, <2>2
      <4>2. Covers(y, m) /\ y.stint = s /\ y.weight = x.weight
        BY <4>1, <2>2, WithinPart
      <4>3. y.from < y.until
        <5>1. y.from \in Nat /\ y.until \in Nat /\ m \in Nat
          <6>1. x \in Rule /\ y.from \in Months /\ y.until \in 0..Horizon
            BY WithinPart
          <6>2. QED BY <6>1, PolicyAssumption DEF Months
        <5>2. y.from <= m /\ m < y.until
          BY <4>2 DEF Covers
        <5>3. QED BY <5>1, <5>2
      <4>4. QED BY <4>2, <4>3, <3>2, <1>1
    <3>3. QED BY <3>1, <3>2
  <2> HIDE DEF C
  <2>3. QED BY <2>1, <2>2 DEF WeightIn, At
<1>4. QED BY <1>2, <1>3
-----------------------------------------------------------------------------
(* Why it is enough to look at the boundaries.                             *)

\* A nonempty set of natural numbers has a least element.
LEMMA Least ==
    ASSUME NEW S \in SUBSET Nat, S # {}
    PROVE  \E n \in S : \A m \in S : n <= m
<1> DEFINE R == OpToRel(<, Nat)
<1>1. IsWellFoundedOn(R, Nat)
  BY NatLessThanWellFounded
<1>2. \A m, n \in S : m < n => <<m, n>> \in R
  BY DEF OpToRel
<1> HIDE DEF R
<1>3. PICK n \in S : \A m \in S : <<m, n>> \notin R
  BY <1>1, WFMin
<1>4. \A m \in S : ~(m < n)
  BY <1>2, <1>3
<1> QED BY <1>4

\* validatePolicyRules: a rule set that passes fits.  The rules of a month are those of
\* the last boundary up to it, and the check looks at that one.
LEMMA ValidFits ==
    ASSUME NEW R \in SUBSET Rule, NEW mem, NEW win, Valid(R, mem, win)
    PROVE  Fit(R, mem)
<1>1. ASSUME NEW m \in Months PROVE ~Overweight(R, m)
  <2>1. SUFFICES ASSUME At(R, m) # {} PROVE ~Overweight(R, m)
    BY DEF Overweight
  <2>2. PICK x \in R : Covers(x, m)
    BY <2>1 DEF At
  <2>3. m \in Nat /\ m < Horizon
    BY PolicyAssumption DEF Months
  <2>4. \A y \in R : y.from \in Nat /\ y.until \in Nat /\ y.until <= Horizon
    BY RuleRange
  <2>5. Boundaries(R) \subseteq Nat
    BY <2>4 DEF Boundaries
  <2>6. x.from \in Boundaries(R) /\ x.from <= m /\ m < x.until
    BY <2>2 DEF Covers, Boundaries
  <2> DEFINE T == {m - c : c \in {d \in Boundaries(R) : d <= m}}
  <2>7. T \subseteq Nat /\ T # {}
    BY <2>3, <2>5, <2>6
  <2>8. PICK t \in T : \A u \in T : t <= u
    BY <2>7, Least
  <2>9. PICK b \in Boundaries(R) : b <= m /\ t = m - b
    BY <2>8
  <2>10. \A c \in Boundaries(R) : c <= m => c <= b
    <3>1. ASSUME NEW c \in Boundaries(R), c <= m PROVE c <= b
      <4>1. m - c \in T
        BY <3>1
      <4>2. m - b <= m - c
        BY <4>1, <2>8, <2>9
      <4>3. QED BY <4>2, <2>3, <2>5
    <3>2. QED BY <3>1
  <2> HIDE DEF T
  <2>11. \A y \in R : Covers(y, b) <=> Covers(y, m)
    <3>1. ASSUME NEW y \in R PROVE Covers(y, b) <=> Covers(y, m)
      <4>1. y.from \in Boundaries(R)
        BY DEF Boundaries
      <4>2. y.until = Horizon \/ y.until \in Boundaries(R)
        BY DEF Boundaries
      <4>3. y.from \in Nat /\ y.until \in Nat /\ b \in Nat /\ b <= m
        BY <2>4, <2>5, <2>9
      <4>4. y.from <= b <=> y.from <= m
        BY <4>1, <4>3, <2>3, <2>10
      <4>5. b < y.until <=> m < y.until
        BY <4>2, <4>3, <2>3, <2>10
      <4>6. QED BY <4>4, <4>5 DEF Covers
    <3>2. QED BY <3>1
  <2>12. At(R, b) = At(R, m)
    BY <2>11 DEF At
  <2>13. Looks(R, b)
    <3>1. x.until = Horizon \/ x.until \in Boundaries(R)
      BY DEF Boundaries
    <3>2. b < x.until
      BY <2>3, <2>4, <2>5, <2>6, <2>9
    <3>3. QED BY <3>1, <3>2 DEF Looks
  <2>14. ~Overweight(R, b)
    BY <2>13 DEF Valid, WithinLimit
  <2>15. QED BY <2>12, <2>14 DEF Overweight
<1>2. QED BY <1>1 DEF Fit, Valid
-----------------------------------------------------------------------------
(* The rules that transactions publish.                                    *)

\* A rule added to others matters in its own stint and time only.
LEMMA AddKeeps ==
    ASSUME NEW R \in SUBSET Rule, NEW u \in Stints, NEW w \in Nat, NEW i \in Intervals
    PROVE  /\ R \cup {RuleOf(u, w, i)} \subseteq Rule
           /\ \A s \in Stints, m \in Months :
                s # u \/ ~Covers(i, m) =>
                  WeightIn(R \cup {RuleOf(u, w, i)}, s, m) = WeightIn(R, s, m)
<1> DEFINE x == RuleOf(u, w, i)
<1>1. i \in Interval /\ i.from \in Months /\ i.until \in 1..Horizon
  BY DEF Intervals, Interval
<1>2. x \in Rule /\ x.stint = u /\ x.from = i.from /\ x.until = i.until
  BY <1>1 DEF RuleOf, Rule
<1> HIDE DEF x
<1>3. \A s \in Stints, m \in Months :
        s # u \/ ~Covers(i, m) =>
          {y \in At(R \cup {x}, m) : y.stint = s} = {y \in At(R, m) : y.stint = s}
  BY <1>2 DEF At, Covers
<1>4. \A s \in Stints, m \in Months :
        s # u \/ ~Covers(i, m) => WeightIn(R \cup {x}, s, m) = WeightIn(R, s, m)
  BY <1>3 DEF WeightIn
<1>5. QED BY <1>2, <1>4 DEF x

\* An intent, and a join with a weight: the weight of one project in one interval.
LEMMA SetKeeps ==
    ASSUME NEW R \in SUBSET Rule, NEW u \in Stints, NEW w \in Nat, NEW i \in Intervals,
           NEW new, new = Kept(R, u[1], i) \cup {RuleOf(u, w, i)}
    PROVE  /\ new \subseteq Rule
           /\ \A s \in Stints, m \in Months :
                s[1] # u[1] \/ ~Covers(i, m) => WeightIn(new, s, m) = WeightIn(R, s, m)
<1> DEFINE K == Kept(R, u[1], i)
<1>1. i \in Interval
  BY DEF Intervals
<1>2. /\ K \subseteq Rule
      /\ \A s \in Stints, m \in Months :
           s[1] # u[1] \/ ~Covers(i, m) => WeightIn(K, s, m) = WeightIn(R, s, m)
  BY <1>1, KeptKeeps
<1>3. new = K \cup {RuleOf(u, w, i)}
  OBVIOUS
<1> HIDE DEF K
<1>4. /\ new \subseteq Rule
      /\ \A s \in Stints, m \in Months :
           s # u \/ ~Covers(i, m) => WeightIn(new, s, m) = WeightIn(K, s, m)
  <2>1. K \in SUBSET Rule
    BY <1>2
  <2>2. K \cup {RuleOf(u, w, i)} \subseteq Rule
    BY <2>1, AddKeeps
  <2>3. \A s \in Stints, m \in Months :
          s # u \/ ~Covers(i, m) =>
            WeightIn(K \cup {RuleOf(u, w, i)}, s, m) = WeightIn(K, s, m)
    BY <2>1, AddKeeps
  <2>4. QED BY <1>3, <2>2, <2>3
<1>5. ASSUME NEW s \in Stints, NEW m \in Months, s[1] # u[1] \/ ~Covers(i, m)
      PROVE  WeightIn(new, s, m) = WeightIn(R, s, m)
  <2>1. WeightIn(new, s, m) = WeightIn(K, s, m)
    BY <1>4, <1>5
  <2>2. WeightIn(K, s, m) = WeightIn(R, s, m)
    BY <1>2, <1>5
  <2>3. QED BY <2>1, <2>2
<1>6. QED BY <1>4, <1>5

\* What is not marked by a publication has no rules, before or after.
LEMMA UnmarkedEmpty ==
    ASSUME NEW R, NEW N, NEW m \in Months, m \notin PolicyMonths(R, N), NEW s
    PROVE  WeightIn(R, s, m) = {} /\ WeightIn(N, s, m) = {}
<1>1. \A x \in R \cup N : ~(x.from <= m)
  BY DEF PolicyMonths
<1>2. At(R, m) = {} /\ At(N, m) = {}
  BY <1>1 DEF At, Covers
<1>3. QED BY <1>2 DEF WeightIn

\* The allocation of a month is a function of the weights, memberships and windows there.
LEMMA SameAllocation ==
    ASSUME NEW m \in Months, rules \subseteq Rule, rules' \subseteq Rule,
           \A s \in Stints : WeightIn(rules', s, m) = WeightIn(rules, s, m),
           \A s \in Stints : Covers(members'[s], m) <=> Covers(members[s], m),
           \A p \in Projects : Covers(window'[p], m) <=> Covers(window[p], m)
    PROVE  Allocation(m)' = Allocation(m)
<1>1. \A x \in Rule : x.stint \in Stints /\ x.stint[1] \in Projects
  BY DEF Rule, Stints
<1>2. ASSUME NEW x \in At(rules, m)
      PROVE  \E y \in At(rules', m) : y.stint = x.stint /\ y.weight = x.weight
  <2>1. x.stint \in Stints
    BY <1>1 DEF At
  <2>2. x.weight \in WeightIn(rules, x.stint, m)
    BY DEF WeightIn
  <2>3. x.weight \in WeightIn(rules', x.stint, m)
    BY <2>1, <2>2
  <2>4. QED BY <2>3 DEF WeightIn
<1>3. ASSUME NEW y \in At(rules', m)
      PROVE  \E x \in At(rules, m) : y.stint = x.stint /\ y.weight = x.weight
  <2>1. y.stint \in Stints
    BY <1>1 DEF At
  <2>2. y.weight \in WeightIn(rules', y.stint, m)
    BY DEF WeightIn
  <2>3. y.weight \in WeightIn(rules, y.stint, m)
    BY <2>1, <2>2
  <2>4. QED BY <2>3 DEF WeightIn
<1>4. At(rules', m) \subseteq Rule /\ At(rules, m) \subseteq Rule
  BY DEF At
<1>5. \A x \in Rule : Applies(x, m)' <=> Applies(x, m)
  BY <1>1 DEF Applies, Covers
<1>6. \A x, y \in Rule : x.stint = y.stint => (Applies(x, m) <=> Applies(y, m))
  BY DEF Applies
<1>7. /\ Effective(m) = {x \in At(rules, m) : Applies(x, m)}
      /\ Effective(m)' = {x \in At(rules', m) : Applies(x, m)'}
  BY DEF Effective, At, Covers
<1>8. \A x \in Effective(m) : \E y \in Effective(m)' : y.stint = x.stint /\ y.weight = x.weight
  BY <1>2, <1>4, <1>5, <1>6, <1>7
<1>9. \A y \in Effective(m)' : \E x \in Effective(m) : y.stint = x.stint /\ y.weight = x.weight
  BY <1>3, <1>4, <1>5, <1>6, <1>7
<1>10. {<<x.stint, x.weight>> : x \in Effective(m)'} = {<<x.stint, x.weight>> : x \in Effective(m)}
  BY <1>8, <1>9
<1>11. Reason(m)' = Reason(m)
  <2>1. At(rules', m) # {} <=> At(rules, m) # {}
    BY <1>2, <1>3
  <2>2. (\E s \in Stints : Covers(members'[s], m)) <=> \E s \in Stints : Covers(members[s], m)
    OBVIOUS
  <2>3. /\ Reason(m) = IF At(rules, m) # {} THEN "RULE_PENDING_REPAIR"
                       ELSE IF \E s \in Stints : Covers(members[s], m) THEN "NO_EFFECTIVE_RULE"
                       ELSE "NO_MEMBERSHIP"
        /\ Reason(m)' = IF At(rules', m) # {} THEN "RULE_PENDING_REPAIR"
                        ELSE IF \E s \in Stints : Covers(members'[s], m) THEN "NO_EFFECTIVE_RULE"
                        ELSE "NO_MEMBERSHIP"
    BY DEF Reason, At, Covers
  <2>4. QED BY <2>1, <2>2, <2>3
<1>12. Effective(m)' = {} <=> Effective(m) = {}
  BY <1>8, <1>9
<1>13. QED BY <1>10, <1>11, <1>12 DEF Allocation
-----------------------------------------------------------------------------
(* Transactions under way.                                                 *)

\* A window changes its stage and one of its ends.
LEMMA WindowSet ==
    ASSUME NEW v \in Window
    PROVE  /\ \A m \in Months : LET s == [v EXCEPT !.stage = 1, !.from = m]
                                IN s \in Window /\ s.stage = 1 /\ s.until = v.until
           /\ \A h \in 1..Horizon : LET e == [v EXCEPT !.stage = 2, !.until = h]
                                    IN e \in Window /\ e.stage = 2
<1>1. ASSUME NEW m \in Months, NEW s, s = [v EXCEPT !.stage = 1, !.from = m]
      PROVE  s \in Window /\ s.stage = 1 /\ s.until = v.until
  <2>1. s = [stage |-> 1, from |-> m, until |-> v.until] /\ v.until \in 1..Horizon
    BY <1>1 DEF Window
  <2>2. QED BY <2>1 DEF Window
<1>2. ASSUME NEW h \in 1..Horizon, NEW e, e = [v EXCEPT !.stage = 2, !.until = h]
      PROVE  e \in Window /\ e.stage = 2
  <2>1. e = [stage |-> 2, from |-> v.from, until |-> h] /\ v.from \in Months
    BY <1>2 DEF Window
  <2>2. QED BY <2>1 DEF Window
<1>3. QED BY <1>1, <1>2

\* No transaction is a transaction.
LEMMA NoTxInv == TxInv(NoTx)
<1>1. NoTx \in TxType
  BY Ranges DEF NoTx, TxType, Absent
<1>2. QED BY <1>1 DEF NoTx, TxInv, Shaped, Fresh, Fits, Keeps, Marks, Started

\* What is true of a transaction depends on the rows only.
LEMMA SameTx ==
    ASSUME NEW t, TxInv(t), UNCHANGED <<members, window, version, rules>>
    PROVE  TxInv(t)'
BY DEF TxInv, Shaped, Fresh, Fits, Keeps, Marks, Started, NextMembers, NextRules

\* A step that changes one transaction and no row.
LEMMA QuietStep ==
    ASSUME IInv, NEW r \in Writers, NEW t, TxInv(t), Become(r, t), Quiet, begun' \in Nat,
           t.pc = "locked" => \A q \in Writers : q # r => tx[q].pc # "locked",
           t.kind = "end" =>
             \A q \in Writers : q # r => ~(tx[q].kind = "end" /\ tx[q].project = t.project)
    PROVE  IInv'
<1>1. tx \in [Writers -> TxType] /\ t \in TxType
  BY DEF IInv, PolicyTypeOK, TxInv
<1>2. tx' = [tx EXCEPT ![r] = t] /\ UNCHANGED <<members, window, version, rules>> /\ marked' = {}
  BY DEF Become, Quiet
<1>3. tx' \in [Writers -> TxType] /\ \A q \in Writers : tx'[q] = IF q = r THEN t ELSE tx[q]
  BY <1>1, <1>2
<1>4. PolicyTypeOK'
  BY <1>2, <1>3 DEF IInv, PolicyTypeOK
<1>5. RulesFit' /\ Opened'
  BY <1>2 DEF IInv, RulesFit, Opened
<1>6. OneLocked'
  BY <1>3 DEF IInv, OneLocked
<1>7. OneEnd'
  BY <1>3 DEF IInv, OneEnd
<1>8. ASSUME NEW q \in Writers PROVE TxInv(tx[q])'
  <2>1. \A u : TxInv(u) => TxInv(u)'
    BY <1>2, SameTx
  <2>2. TxInv(tx'[q])
    BY <1>3 DEF IInv
  <2>3. QED BY <2>1, <2>2
<1>9. QED BY <1>4, <1>5, <1>6, <1>7, <1>8 DEF IInv

-----------------------------------------------------------------------------
(* The steps.                                                              *)

\* An intent begins with what it keeps of the rules it reads.
LEMMA BeginIntentStep ==
    ASSUME IInv, NEW r \in Writers, BeginIntent(r)
    PROVE  IInv'
<1>1. PICK p \in Projects, i \in Intervals, w \in Weights :
        Become(r, [NoTx EXCEPT !.pc = "read", !.kind = "intent", !.project = p, !.span = i,
                               !.weight = w, !.expected = version, !.kept = Kept(rules, p, i)])
  BY DEF BeginIntent
<1> DEFINE t == [NoTx EXCEPT !.pc = "read", !.kind = "intent", !.project = p, !.span = i,
                             !.weight = w, !.expected = version, !.kept = Kept(rules, p, i)]
<1>2. version \in Nat /\ rules \in SUBSET Rule
  BY DEF IInv, PolicyTypeOK
<1>3. i \in Interval /\ i \in [from : Months, until : 0..Horizon]
  BY IntervalExtent DEF Intervals, Extent
<1>4. Kept(rules, p, i) \in SUBSET Rule
  BY <1>2, <1>3, KeptKeeps
<1>5. p \in Nat /\ w \in Nat
  BY PolicyAssumption DEF Projects
<1>6. /\ t \in TxType /\ t.pc = "read" /\ t.kind = "intent" /\ t.project = p /\ t.span = i
      /\ t.weight = w /\ t.expected = version /\ t.kept = Kept(rules, p, i)
      /\ t.publishes = NoTx.publishes
  BY <1>2, <1>3, <1>4, <1>5, NoTxInv DEF TxInv, TxType
<1>7. ~t.publishes
  BY <1>6 DEF NoTx
<1> HIDE DEF t
<1>8. Shaped(t) /\ Fresh(t)
  BY <1>2, <1>6, <1>7 DEF Shaped, Fresh
<1>9. TxInv(t)
  BY <1>6, <1>7, <1>8 DEF TxInv, Fits, Keeps, Marks, Started
<1>10. begun' \in Nat
  BY DEF BeginIntent, Counted, IInv, PolicyTypeOK
<1>11. Become(r, t) /\ Quiet
  BY <1>1 DEF BeginIntent, t
<1>12. QED BY <1>6, <1>9, <1>10, <1>11, QuietStep

\* It finds its membership.
LEMMA ResolveIntentStep ==
    ASSUME IInv, NEW r \in Writers, ResolveIntent(r)
    PROVE  IInv'
<1>1. begun' \in Nat /\ Quiet
  BY DEF ResolveIntent, IInv, PolicyTypeOK
<1>2. TxInv(tx[r]) /\ tx[r] \in TxType
  BY DEF IInv, TxInv
<1>3. ASSUME NEW s \in Stints, s[1] = tx[r].project,
             Become(r, [tx[r] EXCEPT !.pc = "resolved", !.stint = s])
      PROVE  IInv'
  <2> DEFINE t == [tx[r] EXCEPT !.pc = "resolved", !.stint = s]
  <2>1. tx[r].pc = "read" /\ tx[r].kind = "intent"
    BY DEF ResolveIntent
  <2>2. s \in Nat \X Nat
    BY PolicyAssumption DEF Stints, Projects
  <2>3. t \in TxType
    BY <1>2, <2>2 DEF TxType
  <2>4. /\ t.pc = "resolved" /\ t.stint = s /\ t.kind = "intent"
        /\ t.project = tx[r].project /\ t.span = tx[r].span /\ t.weight = tx[r].weight
        /\ t.expected = tx[r].expected /\ t.kept = tx[r].kept
        /\ t.publishes = tx[r].publishes
    BY <1>2, <2>1 DEF TxType
  <2> HIDE DEF t
  <2>5. ~t.publishes
    BY <1>2, <2>1, <2>4 DEF TxInv, Shaped
  <2>6. Shaped(t) /\ Fresh(t)
    BY <1>2, <1>3, <2>1, <2>4, <2>5 DEF TxInv, Shaped, Fresh
  <2>7. TxInv(t)
    BY <2>3, <2>4, <2>5, <2>6 DEF TxInv, Fits, Keeps, Marks, Started
  <2>8. QED BY <1>1, <1>3, <2>4, <2>7, QuietStep DEF t
<1>4. ASSUME Become(r, NoTx) PROVE IInv'
  BY <1>1, <1>4, NoTxInv, QuietStep DEF NoTx
<1>5. QED BY <1>3, <1>4 DEF ResolveIntent

\* In the lock an intent publishes over the version it has read, or is refused.
LEMMA LockIntentStep ==
    ASSUME IInv, NEW r \in Writers, LockIntent(r)
    PROVE  IInv'
<1>1. begun' \in Nat /\ Quiet
  BY DEF LockIntent, IInv, PolicyTypeOK
<1>2. TxInv(tx[r]) /\ tx[r] \in TxType /\ rules \in SUBSET Rule
  BY DEF IInv, TxInv, PolicyTypeOK
<1>3. ASSUME Become(r, NoTx) PROVE IInv'
  BY <1>1, <1>3, NoTxInv, QuietStep DEF NoTx
<1>4. ASSUME Seen(tx[r]), Valid(Intended(tx[r]), members, window),
             Become(r, Ready(tx[r], TRUE, Intended(tx[r]), PolicyMonths(rules, Intended(tx[r]))))
      PROVE  IInv'
  <2>15. PICK N : N = Intended(tx[r])
    OBVIOUS
  <2>16. PICK M : M = PolicyMonths(rules, N)
    OBVIOUS
  <2>17. PICK t : t = Ready(tx[r], TRUE, N, M)
    OBVIOUS
  <2>1. tx[r].pc = "resolved" /\ EmployeeFree
    BY DEF LockIntent
  <2>2. /\ tx[r].kind = "intent" /\ tx[r].stint \in Stints /\ tx[r].stint[1] = tx[r].project
        /\ tx[r].span \in Intervals /\ tx[r].weight \in Nat /\ tx[r].project \in Projects
        /\ tx[r].weight \in Weights
    <3>1. tx[r].kind = "intent"
      BY <1>2, <2>1 DEF TxInv, Shaped, TxType
    <3>2. QED BY <3>1, <1>2, <2>1, PolicyAssumption DEF TxInv, Shaped
  <2>3. tx[r].kept = Kept(rules, tx[r].stint[1], tx[r].span)
    BY <1>2, <1>4, <2>1, <2>2 DEF TxInv, Fresh, Seen
  <2>4. N = Kept(rules, tx[r].stint[1], tx[r].span)
              \cup {RuleOf(tx[r].stint, tx[r].weight, tx[r].span)}
    BY <2>3, <2>15 DEF Intended
  <2>5. /\ N \in SUBSET Rule
        /\ \A s \in Stints, m \in Months :
             s[1] # tx[r].stint[1] \/ ~Covers(tx[r].span, m) =>
               WeightIn(N, s, m) = WeightIn(rules, s, m)
    <3>1. rules \in SUBSET Rule /\ tx[r].stint \in Stints /\ tx[r].weight \in Nat
          /\ tx[r].span \in Intervals
      BY <1>2, <2>2
    <3>2. N \in SUBSET Rule
      BY <3>1, <2>4, SetKeeps
    <3>3. \A s \in Stints, m \in Months :
            s[1] # tx[r].stint[1] \/ ~Covers(tx[r].span, m) =>
              WeightIn(N, s, m) = WeightIn(rules, s, m)
      BY <3>1, <2>4, SetKeeps
    <3>4. QED BY <3>2, <3>3
  <2>6. M \in SUBSET Months
    BY <2>16 DEF PolicyMonths
  <2>7. /\ t \in TxType /\ t.pc = "locked" /\ t.publishes = TRUE /\ t.next = N /\ t.months = M
        /\ t.kind = "intent" /\ t.project = tx[r].project /\ t.stint = tx[r].stint
        /\ t.span = tx[r].span /\ t.weight = tx[r].weight
    <3>1. tx[r] \in TxType /\ TRUE \in BOOLEAN /\ N \in SUBSET Rule /\ M \in SUBSET Months
      BY <1>2, <2>5, <2>6
    <3>2. /\ t \in TxType /\ t.pc = "locked" /\ t.publishes = TRUE /\ t.next = N /\ t.months = M
          /\ t.kind = tx[r].kind /\ t.project = tx[r].project /\ t.stint = tx[r].stint
          /\ t.span = tx[r].span /\ t.weight = tx[r].weight
      BY <3>1, <2>17 DEF Ready, TxType
    <3>3. QED BY <3>2, <2>2
  <2>8. Shaped(t) /\ Fresh(t)
    BY <2>2, <2>7 DEF Shaped, Fresh
  <2>9. Fits(t)
    <3>1. Fit(N, members)
      BY <1>4, <2>5, <2>15, ValidFits
    <3>2. NextRules(t) = N /\ NextMembers(t) = members
      BY <2>7 DEF NextRules, NextMembers
    <3>3. QED BY <3>1, <3>2 DEF Fits
  <2>10. Keeps(t)
    BY <2>2, <2>5, <2>7 DEF Keeps, Concerns
  <2>11. Marks(t) /\ Started(t)
    BY <2>7, <2>16 DEF Marks, Started
  <2>12. TxInv(t)
    BY <2>7, <2>8, <2>9, <2>10, <2>11 DEF TxInv
  <2>13. Become(r, t)
    BY <1>4, <2>15, <2>16, <2>17
  <2>14. QED BY <1>1, <2>1, <2>7, <2>12, <2>13, QuietStep DEF EmployeeFree
<1>5. QED BY <1>3, <1>4 DEF LockIntent

\* A join: no rule can be of a stint that did not exist.
LEMMA JoinStep ==
    ASSUME IInv, NEW r \in Writers, Join(r)
    PROVE  IInv'
<1>1. PICK s \in Stints, i \in Intervals, W \in {{}} \cup {{w} : w \in Weights} :
        LET mem == [members EXCEPT ![s] = i]
            new == Joined(rules, s, i, W)
            months == IF W = {} THEN {} ELSE PolicyMonths(rules, new)
        IN /\ IsNext(s) /\ Apart(mem, s)
           /\ W # {} => Valid(new, mem, window)
           /\ Become(r, Ready([NoTx EXCEPT !.kind = "join", !.stint = s, !.span = i],
                              W # {}, new, MonthsOf(i) \cup months))
  BY DEF Join
<1>2. begun' \in Nat /\ Quiet /\ EmployeeFree
  BY DEF Join, Counted, IInv, PolicyTypeOK
<1>3. rules \in SUBSET Rule /\ members \in [Stints -> Intervals \cup {Absent}] /\ RulesFit
  BY DEF IInv, PolicyTypeOK
<1>4. PICK N : N = Joined(rules, s, i, W)
  OBVIOUS
<1>5. PICK M : M = MonthsOf(i) \cup IF W = {} THEN {} ELSE PolicyMonths(rules, N)
  OBVIOUS
<1>6. PICK t : t = Ready([NoTx EXCEPT !.kind = "join", !.stint = s, !.span = i], W # {}, N, M)
  OBVIOUS
<1>7. members[s] = Absent
  BY <1>1 DEF IsNext
<1>8. i \in Interval /\ i \in [from : Months, until : 0..Horizon] /\ s \in Nat \X Nat
  BY IntervalExtent, PolicyAssumption DEF Intervals, Extent, Stints, Projects
<1>9. ASSUME W # {} PROVE \E w \in Nat : N = Kept(rules, s[1], i) \cup {RuleOf(s, w, i)}
  <2>1. PICK w \in Weights : W = {w}
    BY <1>9
  <2>2. {RuleOf(s, v, i) : v \in W} = {RuleOf(s, w, i)}
    BY <2>1
  <2>3. QED BY <1>4, <1>9, <2>1, <2>2, PolicyAssumption DEF Joined
<1>10. W = {} => N = rules
  BY <1>4 DEF Joined
<1>11. N \in SUBSET Rule
  BY <1>3, <1>9, <1>10, SetKeeps
<1>12. \A u \in Stints, m \in Months :
         u[1] # s[1] \/ ~Covers(i, m) => WeightIn(N, u, m) = WeightIn(rules, u, m)
  <2>1. CASE W = {}
    BY <2>1, <1>10
  <2>2. CASE W # {}
    BY <2>2, <1>3, <1>9, SetKeeps
  <2>3. QED BY <2>1, <2>2
<1>13. M \in SUBSET Months /\ (W # {}) \in BOOLEAN
  BY <1>5 DEF MonthsOf, PolicyMonths
<1>14. /\ t \in TxType /\ t.pc = "locked" /\ t.publishes = (W # {}) /\ t.next = N /\ t.months = M
       /\ t.kind = "join" /\ t.stint = s /\ t.span = i
  BY <1>6, <1>8, <1>11, <1>13, NoTxInv DEF TxInv, Ready, TxType
<1>15. Shaped(t) /\ Fresh(t) /\ Started(t)
  BY <1>14 DEF Shaped, Fresh, Started
<1>16. NextMembers(t) = [members EXCEPT ![s] = i]
  BY <1>14 DEF NextMembers
<1>17. Fits(t)
  <2>1. CASE W # {}
    <3>1. Valid(N, [members EXCEPT ![s] = i], window)
      BY <2>1, <1>1, <1>4
    <3>2. Fit(N, [members EXCEPT ![s] = i])
      BY <3>1, <1>11, ValidFits
    <3>3. NextRules(t) = N
      BY <2>1, <1>14 DEF NextRules
    <3>4. QED BY <3>2, <3>3, <1>16 DEF Fits
  <2>2. CASE W = {}
    <3>1. NextRules(t) = rules
      BY <2>2, <1>14 DEF NextRules
    <3>2. ASSUME NEW x \in rules PROVE x.stint # s
      <4>1. Contains(members[x.stint], x) /\ x.until \in 1..Horizon
        BY <1>3, RuleRange DEF RulesFit
      <4>2. members[s].until = 0
        BY <1>7 DEF Absent
      <4>3. QED BY <4>1, <4>2 DEF Contains
    <3>3. \A x \in rules : Contains([members EXCEPT ![s] = i][x.stint], x)
      <4>1. ASSUME NEW x \in rules PROVE Contains([members EXCEPT ![s] = i][x.stint], x)
        <5>1. x.stint \in Stints
          BY <1>3, RuleRange
        <5>2. [members EXCEPT ![s] = i][x.stint] = members[x.stint]
          BY <5>1, <3>2, <1>3
        <5>3. QED BY <5>2, <1>3 DEF RulesFit
      <4>2. QED BY <4>1
    <3>4. Fit(rules, [members EXCEPT ![s] = i])
      BY <3>3, <1>3 DEF Fit, RulesFit
    <3>5. QED BY <3>1, <3>4, <1>16 DEF Fits
  <2>3. QED BY <2>1, <2>2
<1>18. Keeps(t)
  BY <1>12, <1>14 DEF Keeps, Concerns
<1>19. Marks(t)
  <2>1. MonthsOf(Absent) = {}
    <3>1. \A m \in Months : m \in Nat
      BY Ranges
    <3>2. \A m \in Months : ~(m < Absent.until)
      BY <3>1 DEF Absent
    <3>3. QED BY <3>2 DEF MonthsOf, Covers
  <2>2. StintMonths(members[s], i) = MonthsOf(i)
    BY <2>1, <1>7 DEF StintMonths
  <2>3. StintMonths(members[s], i) \subseteq M
    BY <2>2, <1>5
  <2>4. t.publishes => PolicyMonths(rules, N) \subseteq M
    BY <1>5, <1>14
  <2>5. QED BY <2>3, <2>4, <1>14 DEF Marks
<1>20. TxInv(t)
  BY <1>14, <1>15, <1>17, <1>18, <1>19 DEF TxInv
<1>21. Become(r, t)
  BY <1>1, <1>4, <1>5, <1>6
<1>22. QED BY <1>2, <1>14, <1>20, <1>21, QuietStep DEF EmployeeFree

\* A membership changes: its rules are clipped, if it has any.
LEMMA ReviseStep ==
    ASSUME IInv, NEW r \in Writers, Revise(r)
    PROVE  IInv'
<1>1. PICK s \in Stints, i \in Intervals :
        LET mem == [members EXCEPT ![s] = i]
            touched == OfStint(rules, s) # {}
            new == ClippedStint(rules, s, i)
            months == IF touched THEN PolicyMonths(rules, new) ELSE {}
        IN /\ members[s] # Absent /\ Apart(mem, s)
           /\ i.until = Horizon => members[s].until = Horizon
           /\ touched => Valid(new, mem, window)
           /\ Become(r, Ready([NoTx EXCEPT !.kind = "revise", !.stint = s, !.span = i],
                              touched, new, StintMonths(members[s], i) \cup months))
  BY DEF Revise
<1>2. begun' \in Nat /\ Quiet /\ EmployeeFree
  BY DEF Revise, Counted, IInv, PolicyTypeOK
<1>3. rules \in SUBSET Rule /\ members \in [Stints -> Intervals \cup {Absent}] /\ RulesFit
  BY DEF IInv, PolicyTypeOK
<1>4. PICK N : N = ClippedStint(rules, s, i)
  OBVIOUS
<1>5. PICK b : b = (OfStint(rules, s) # {})
  OBVIOUS
<1>6. PICK M : M = StintMonths(members[s], i) \cup IF b THEN PolicyMonths(rules, N) ELSE {}
  OBVIOUS
<1>7. PICK t : t = Ready([NoTx EXCEPT !.kind = "revise", !.stint = s, !.span = i], b, N, M)
  OBVIOUS
<1>8. i \in Extent /\ i \in [from : Months, until : 0..Horizon] /\ s \in Nat \X Nat
  BY IntervalExtent, PolicyAssumption DEF Intervals, Extent, Stints, Projects
<1>9. OfStint(rules, s) \in SUBSET rules
  BY DEF OfStint
<1>10. N = ClippedTo(OfStint(rules, s), i) \cup (rules \ OfStint(rules, s))
  BY <1>4 DEF ClippedStint
<1>11. N \in SUBSET Rule
  BY <1>3, <1>8, <1>9, <1>10, ClippedKeeps
<1>12. \A u \in Stints, m \in Months :
         u # s \/ Covers(i, m) => WeightIn(N, u, m) = WeightIn(rules, u, m)
  <2>1. \A u \in Stints : u # s => \A x \in OfStint(rules, s) : x.stint # u
    BY DEF OfStint
  <2>2. QED BY <2>1, <1>3, <1>8, <1>9, <1>10, ClippedKeeps
<1>13. M \in SUBSET Months /\ b \in BOOLEAN
  BY <1>5, <1>6 DEF StintMonths, MonthsOf, PolicyMonths
<1>14. /\ t \in TxType /\ t.pc = "locked" /\ t.publishes = b /\ t.next = N /\ t.months = M
       /\ t.kind = "revise" /\ t.stint = s /\ t.span = i
  BY <1>7, <1>8, <1>11, <1>13, NoTxInv DEF TxInv, Ready, TxType
<1>15. Shaped(t) /\ Fresh(t) /\ Started(t)
  BY <1>14 DEF Shaped, Fresh, Started
<1>16. NextMembers(t) = [members EXCEPT ![s] = i]
  BY <1>14 DEF NextMembers
<1>17. Fits(t)
  <2>1. CASE b
    <3>1. Valid(N, [members EXCEPT ![s] = i], window)
      BY <2>1, <1>1, <1>4, <1>5
    <3>2. Fit(N, [members EXCEPT ![s] = i])
      BY <3>1, <1>11, ValidFits
    <3>3. NextRules(t) = N
      BY <2>1, <1>14 DEF NextRules
    <3>4. QED BY <3>2, <3>3, <1>16 DEF Fits
  <2>2. CASE ~b
    <3>1. NextRules(t) = rules
      BY <2>2, <1>14 DEF NextRules
    <3>2. \A x \in rules : x.stint # s
      BY <2>2, <1>5 DEF OfStint
    <3>3. \A x \in rules : Contains([members EXCEPT ![s] = i][x.stint], x)
      <4>1. ASSUME NEW x \in rules PROVE Contains([members EXCEPT ![s] = i][x.stint], x)
        <5>1. x.stint \in Stints
          BY <1>3, RuleRange
        <5>2. [members EXCEPT ![s] = i][x.stint] = members[x.stint]
          BY <5>1, <3>2, <1>3
        <5>3. QED BY <5>2, <1>3 DEF RulesFit
      <4>2. QED BY <4>1
    <3>4. Fit(rules, [members EXCEPT ![s] = i])
      BY <3>3, <1>3 DEF Fit, RulesFit
    <3>5. QED BY <3>1, <3>4, <1>16 DEF Fits
  <2>3. QED BY <2>1, <2>2, <1>13
<1>18. Keeps(t)
  BY <1>12, <1>14 DEF Keeps, Concerns
<1>19. Marks(t)
  BY <1>6, <1>14 DEF Marks
<1>20. TxInv(t)
  BY <1>14, <1>15, <1>17, <1>18, <1>19 DEF TxInv
<1>21. Become(r, t)
  BY <1>1, <1>4, <1>5, <1>6, <1>7
<1>22. QED BY <1>2, <1>14, <1>20, <1>21, QuietStep DEF EmployeeFree

\* The start of an accounting changes a window that is open at its end.
LEMMA StartAccountingStep ==
    ASSUME IInv, NEW p \in Projects, StartAccounting(p)
    PROVE  IInv'
<1>1. PICK m \in Months : /\ window' = [window EXCEPT ![p] = [@ EXCEPT !.stage = 1, !.from = m]]
                          /\ marked' = {k \in Months : m <= k}
  BY DEF StartAccounting
<1>2. UNCHANGED <<members, version, rules, tx>> /\ begun' \in Nat
  BY DEF StartAccounting, Counted, IInv, PolicyTypeOK
<1>3. window \in [Projects -> Window]
  BY DEF IInv, PolicyTypeOK, Window
<1>4. /\ window' \in [Projects -> Window]
      /\ window'[p].stage = 1 /\ window'[p].until = window[p].until
      /\ \A q \in Projects : q # p => window'[q] = window[q]
  <2>1. PICK v : v = [window[p] EXCEPT !.stage = 1, !.from = m]
    OBVIOUS
  <2>2. window[p] \in Window
    BY <1>3
  <2>3. v \in Window
    BY <2>1, <2>2, WindowSet
  <2>4. v.stage = 1 /\ v.until = window[p].until
    BY <2>1, <2>2, WindowSet
  <2>5. window' = [window EXCEPT ![p] = v]
    BY <1>1, <2>1
  <2>6. QED BY <1>3, <2>3, <2>4, <2>5
<1>5. PolicyTypeOK'
  BY <1>1, <1>2, <1>4 DEF IInv, PolicyTypeOK, Window
<1>6. RulesFit' /\ OneLocked' /\ OneEnd'
  BY <1>2 DEF IInv, RulesFit, OneLocked, OneEnd
<1>7. Opened'
  BY <1>4 DEF StartAccounting, IInv, Opened
<1>8. ASSUME NEW q \in Writers PROVE TxInv(tx[q])'
  <2>1. TxInv(tx[q]) /\ tx'[q] = tx[q]
    BY <1>2 DEF IInv
  <2>2. Started(tx[q])'
    <3>1. ASSUME tx[q].kind = "end" PROVE window'[tx[q].project].stage = 1
      <4>1. tx[q].project \in Projects /\ window[tx[q].project].stage = 1
        BY <2>1, <3>1 DEF TxInv, Shaped, Started
      <4>2. tx[q].project # p
        BY <3>1 DEF StartAccounting, ProjectFree
      <4>3. QED BY <4>1, <4>2, <1>4
    <3>2. QED BY <3>1, <2>1 DEF Started
  <2>3. QED BY <2>1, <2>2, <1>2
        DEF TxInv, Shaped, Fresh, Fits, Keeps, Marks, NextMembers, NextRules
<1>9. QED BY <1>5, <1>6, <1>7, <1>8 DEF IInv

\* The end of an accounting begins in its project's lock.
LEMMA BeginEndStep ==
    ASSUME IInv, NEW r \in Writers, BeginEnd(r)
    PROVE  IInv'
<1>1. PICK p \in Projects, m \in Months :
         /\ window[p].stage = 1 /\ window[p].from < m /\ ProjectFree(p)
         /\ Become(r, [NoTx EXCEPT
              !.pc = IF \E x \in OfProject(rules, p) : m < x.until THEN "read" ELSE "unlocked",
              !.kind = "end", !.project = p, !.span = [from |-> 0, until |-> m],
              !.months = {k \in Months : m <= k}])
  BY DEF BeginEnd
<1>2. begun' \in Nat /\ Quiet
  BY DEF BeginEnd, Counted, IInv, PolicyTypeOK
<1>3. PICK c : c = IF \E x \in OfProject(rules, p) : m < x.until THEN "read" ELSE "unlocked"
  OBVIOUS
<1>4. PICK t : t = [NoTx EXCEPT !.pc = c, !.kind = "end", !.project = p,
                                !.span = [from |-> 0, until |-> m],
                                !.months = {k \in Months : m <= k}]
  OBVIOUS
<1>5. m \in 1..Horizon /\ p \in Nat
  <2>1. window[p].from \in Months
    BY DEF IInv, PolicyTypeOK
  <2>2. QED BY <2>1, <1>1, PolicyAssumption DEF Months, Projects
<1>6. [from |-> 0, until |-> m] \in [from : Months, until : 0..Horizon]
  BY <1>5, Ranges
<1>7. /\ t \in TxType /\ t.pc = c /\ t.kind = "end" /\ t.project = p
      /\ t.span = [from |-> 0, until |-> m] /\ t.months = {k \in Months : m <= k}
      /\ t.publishes = NoTx.publishes
  BY <1>3, <1>4, <1>5, <1>6, NoTxInv DEF TxInv, TxType
<1>8. ~t.publishes
  BY <1>7 DEF NoTx
<1>9. t.span.from = 0 /\ t.span.until = m
  BY <1>7
<1>10. c \in {"read", "unlocked"}
  BY <1>3
<1>11. Shaped(t) /\ Fresh(t) /\ Started(t)
  BY <1>1, <1>5, <1>7, <1>8, <1>9, <1>10 DEF Shaped, Fresh, Started
<1>12. Fits(t) /\ Keeps(t) /\ Marks(t)
  BY <1>7, <1>8, <1>9, <1>10 DEF Fits, Keeps, Marks
<1>13. TxInv(t)
  BY <1>7, <1>11, <1>12 DEF TxInv
<1>14. Become(r, t)
  BY <1>1, <1>3, <1>4
<1>15. QED BY <1>1, <1>2, <1>7, <1>10, <1>13, <1>14, QuietStep DEF ProjectFree

\* With rules to cut, it takes the employee's lock and clips them.
LEMMA LockEndStep ==
    ASSUME IInv, NEW r \in Writers, LockEnd(r)
    PROVE  IInv'
<1>1. begun' \in Nat /\ Quiet
  BY DEF LockEnd, IInv, PolicyTypeOK
<1>2. TxInv(tx[r]) /\ tx[r] \in TxType /\ rules \in SUBSET Rule
  BY DEF IInv, TxInv, PolicyTypeOK
<1>3. ASSUME Become(r, NoTx) PROVE IInv'
  BY <1>1, <1>3, NoTxInv, QuietStep DEF NoTx
<1>4. PICK N : N = ClippedProject(rules, tx[r].project, tx[r].span)
  OBVIOUS
<1>5. tx[r].pc = "read" /\ tx[r].kind = "end" /\ EmployeeFree
  BY DEF LockEnd
<1>6. ASSUME Valid(N, members, EndsAt(tx[r])),
             Become(r, Ready(tx[r], TRUE, N, tx[r].months))
      PROVE  IInv'
  <2>1. PICK t : t = Ready(tx[r], TRUE, N, tx[r].months)
    OBVIOUS
  <2>2. PICK i : i = tx[r].span
    OBVIOUS
  <2>3. PICK p : p = tx[r].project
    OBVIOUS
  <2>4. i \in Extent /\ i.from \in Nat /\ i.until \in Nat
    <3>1. i \in Extent
      BY <1>2, <2>2 DEF TxType, Extent
    <3>2. QED BY <3>1, ExtentRange
  <2>5. OfProject(rules, p) \in SUBSET rules
    BY DEF OfProject
  <2>6. N = ClippedTo(OfProject(rules, p), i) \cup (rules \ OfProject(rules, p))
    BY <1>4, <2>2, <2>3 DEF ClippedProject
  <2>7. N \in SUBSET Rule
    BY <1>2, <2>4, <2>5, <2>6, ClippedKeeps
  <2>8. \A u \in Stints, m \in Months :
          u[1] # p \/ Covers(i, m) => WeightIn(N, u, m) = WeightIn(rules, u, m)
    <3>1. \A u \in Stints : u[1] # p => \A x \in OfProject(rules, p) : x.stint # u
      BY DEF OfProject
    <3>2. QED BY <3>1, <1>2, <2>4, <2>5, <2>6, ClippedKeeps
  <2>9. /\ t \in TxType /\ t.pc = "locked" /\ t.publishes = TRUE /\ t.next = N
        /\ t.months = tx[r].months /\ t.kind = "end" /\ t.project = p /\ t.span = i
    BY <1>2, <1>5, <2>1, <2>2, <2>3, <2>7 DEF Ready, TxType
  <2>10. Shaped(t) /\ Fresh(t) /\ Started(t)
    BY <1>2, <1>5, <2>2, <2>3, <2>9 DEF TxInv, Shaped, Fresh, Started
  <2>11. Fits(t)
    <3>1. Fit(N, members)
      BY <1>6, <2>7, ValidFits
    <3>2. NextRules(t) = N /\ NextMembers(t) = members
      BY <2>9 DEF NextRules, NextMembers
    <3>3. QED BY <3>1, <3>2 DEF Fits
  <2>12. Keeps(t)
    <3>1. i.from = 0
      BY <1>2, <1>5, <2>2 DEF TxInv, Shaped
    <3>2. \A m \in Months : ~(i.until <= m) => Covers(i, m)
      BY <3>1, <2>4, PolicyAssumption DEF Covers, Months
    <3>3. QED BY <3>2, <2>8, <2>9 DEF Keeps, Concerns
  <2>13. Marks(t)
    BY <1>2, <1>5, <2>2, <2>9 DEF TxInv, Marks
  <2>14. TxInv(t)
    BY <2>9, <2>10, <2>11, <2>12, <2>13 DEF TxInv
  <2>15. \A q \in Writers : q # r => ~(tx[q].kind = "end" /\ tx[q].project = t.project)
    BY <1>5, <2>3, <2>9 DEF IInv, OneEnd
  <2>16. Become(r, t)
    BY <1>6, <2>1
  <2>17. QED BY <1>1, <1>5, <2>9, <2>14, <2>15, <2>16, QuietStep DEF EmployeeFree
<1>7. QED BY <1>3, <1>4, <1>6 DEF LockEnd

\* A commit: what was ready becomes current.  Nobody else is ready: the employee's lock.
LEMMA CommitStep ==
    ASSUME IInv, NEW r \in Writers, Commit(r)
    PROVE  IInv'
<1>1. PICK t : t = tx[r]
  OBVIOUS
<1>2. TxInv(t) /\ t \in TxType /\ t.pc \in {"locked", "unlocked"}
  BY <1>1 DEF IInv, TxInv, Commit
<1>3. /\ members' = NextMembers(t) /\ rules' = NextRules(t)
      /\ window' = IF t.kind = "end" THEN EndsAt(t) ELSE window
      /\ version' = IF t.publishes THEN version + 1 ELSE version
      /\ marked' = t.months /\ tx' = [tx EXCEPT ![r] = NoTx] /\ begun' = begun
  BY <1>1 DEF Commit, NextMembers, NextRules, Become
<1>4. /\ members \in [Stints -> Intervals \cup {Absent}] /\ rules \in SUBSET Rule
      /\ window \in [Projects -> Window]
      /\ version \in Nat /\ tx \in [Writers -> TxType] /\ begun \in Nat
  BY DEF IInv, PolicyTypeOK, Window
<1>5. t.pc = "unlocked" => ~t.publishes /\ t.kind = "end"
  BY <1>2 DEF TxInv, Shaped, TxType
<1>6. members' \in [Stints -> Intervals \cup {Absent}] /\ rules' \in SUBSET Rule
  <2>1. t.kind \in {"join", "revise"} => t.span \in Intervals
    BY <1>2 DEF TxInv, Shaped
  <2>2. t.next \in SUBSET Rule
    BY <1>2 DEF TxType
  <2>3. QED BY <2>1, <2>2, <1>3, <1>4 DEF NextMembers, NextRules
<1>7. /\ window' \in [Projects -> Window]
      /\ \A p \in Projects : t.kind = "end" /\ p = t.project => window'[p].stage = 2
      /\ \A p \in Projects : ~(t.kind = "end" /\ p = t.project) => window'[p] = window[p]
  <2>1. CASE t.kind # "end"
    BY <2>1, <1>3, <1>4
  <2>2. CASE t.kind = "end"
    <3>1. PICK p : p = t.project
      OBVIOUS
    <3>2. PICK u : u = t.span.until
      OBVIOUS
    <3>3. p \in Projects /\ u \in 1..Horizon
      BY <1>2, <2>2, <3>1, <3>2 DEF TxInv, Shaped
    <3>4. PICK v : v = [window[p] EXCEPT !.stage = 2, !.until = u]
      OBVIOUS
    <3>5. window[p] \in Window
      BY <1>4, <3>3
    <3>6. v \in Window /\ v.stage = 2
      BY <3>3, <3>4, <3>5, WindowSet
    <3>7. window' = [window EXCEPT ![p] = v]
      BY <1>3, <2>2, <3>1, <3>2, <3>4 DEF EndsAt
    <3>8. window' \in [Projects -> Window]
      BY <1>4, <3>3, <3>6, <3>7
    <3>9. \A q \in Projects : window'[q] = IF q = p THEN v ELSE window[q]
      BY <1>4, <3>3, <3>7
    <3>10. ASSUME NEW q \in Projects
           PROVE  /\ q = t.project => window'[q].stage = 2
                  /\ q # t.project => window'[q] = window[q]
      <4>1. CASE q = p
        BY <4>1, <3>1, <3>6, <3>9
      <4>2. CASE q # p
        BY <4>2, <3>1, <3>9
      <4>3. QED BY <4>1, <4>2
    <3>11. QED BY <2>2, <3>8, <3>10
  <2>3. QED BY <2>1, <2>2
<1>8. tx' \in [Writers -> TxType] /\ \A q \in Writers : tx'[q] = IF q = r THEN NoTx ELSE tx[q]
  <2>1. NoTx \in TxType
    BY NoTxInv DEF TxInv
  <2>2. QED BY <2>1, <1>3, <1>4
<1>9. marked' \in SUBSET Months /\ version' \in Nat
  BY <1>2, <1>3, <1>4 DEF TxType
<1>10. PolicyTypeOK'
  BY <1>3, <1>4, <1>6, <1>7, <1>8, <1>9 DEF PolicyTypeOK, Window
<1>11. RulesFit'
  <2>1. CASE t.pc = "locked"
    <3>1. Fit(rules', members')
      BY <2>1, <1>2, <1>3 DEF TxInv, Fits
    <3>2. QED BY <3>1 DEF Fit, RulesFit
  <2>2. CASE t.pc = "unlocked"
    <3>1. rules' = rules /\ members' = members
      BY <2>2, <1>3, <1>5 DEF NextRules, NextMembers
    <3>2. QED BY <3>1 DEF IInv, RulesFit
  <2>3. QED BY <2>1, <2>2, <1>2
<1>12. Opened'
  BY <1>7 DEF IInv, Opened
<1>13. OneLocked'
  BY <1>8 DEF IInv, OneLocked, NoTx
<1>14. OneEnd'
  BY <1>8 DEF IInv, OneEnd, NoTx
<1>15. ASSUME NEW q \in Writers PROVE TxInv(tx[q])'
  <2>1. CASE q = r
    BY <2>1, <1>8, NoTxInv
       DEF NoTx, TxInv, Shaped, Fresh, Fits, Keeps, Marks, Started
  <2>2. CASE q # r
    <3>1. PICK u : u = tx[q]
      OBVIOUS
    <3>2. TxInv(u) /\ u \in TxType /\ tx'[q] = u
      BY <2>2, <3>1, <1>8 DEF IInv, TxInv
    <3>3. Started(u)'
      <4>1. SUFFICES ASSUME u.kind = "end" PROVE window'[u.project].stage = 1
        BY DEF Started
      <4>2. u.project \in Projects /\ window[u.project].stage = 1
        BY <4>1, <3>2 DEF TxInv, Shaped, Started
      <4>3. ~(t.kind = "end" /\ u.project = t.project)
        BY <4>1, <2>2, <3>1, <1>1 DEF IInv, OneEnd
      <4>4. QED BY <4>2, <4>3, <1>7
    <3>4. CASE t.pc = "locked"
      <4>1. u.pc # "locked"
        BY <3>4, <2>2, <3>1, <1>1 DEF IInv, OneLocked
      <4>2. ~u.publishes /\ u.kind \notin {"join", "revise"}
        BY <4>1, <3>2 DEF TxInv, Shaped
      <4>3. Fresh(u)'
        <5>1. CASE t.publishes
          BY <5>1, <3>2, <1>3, <1>4 DEF TxInv, Fresh, TxType
        <5>2. CASE ~t.publishes
          BY <5>2, <3>2, <1>3 DEF TxInv, Fresh, NextRules
        <5>3. QED BY <5>1, <5>2
      <4>4. Fits(u)' /\ Keeps(u)' /\ Marks(u)'
        BY <4>1, <4>2, <3>2 DEF TxInv, Fits, Keeps, Marks
      <4>5. TxInv(u)'
        BY <3>2, <3>3, <4>3, <4>4 DEF TxInv, Shaped
      <4>6. QED BY <4>5, <3>2
    <3>5. CASE t.pc = "unlocked"
      <4>1. rules' = rules /\ members' = members /\ version' = version
        BY <3>5, <1>3, <1>5 DEF NextRules, NextMembers
      <4>2. TxInv(u)'
        BY <3>2, <3>3, <4>1
           DEF TxInv, Shaped, Fresh, Fits, Keeps, Marks, NextMembers, NextRules
      <4>3. QED BY <4>2, <3>2
    <3>6. QED BY <3>4, <3>5, <1>2
  <2>3. QED BY <2>1, <2>2
<1>16. QED BY <1>10, <1>11, <1>12, <1>13, <1>14, <1>15 DEF IInv

\* A transaction is lost.
LEMMA AbortStep ==
    ASSUME IInv, NEW r \in Writers, Abort(r)
    PROVE  IInv'
<1>1. begun' \in Nat /\ Quiet /\ Become(r, NoTx)
  BY DEF Abort, IInv, PolicyTypeOK
<1>2. QED BY <1>1, NoTxInv, QuietStep DEF NoTx

\* Initially nothing exists.
LEMMA InitInv == PolicyInit => IInv
<1> SUFFICES ASSUME PolicyInit PROVE IInv
  OBVIOUS
<1>1. /\ members = [s \in Stints |-> Absent] /\ window = [p \in Projects |-> Unlimited]
      /\ version = 0 /\ rules = {} /\ tx = [r \in Writers |-> NoTx] /\ marked = {} /\ begun = 0
  BY DEF PolicyInit
<1>2. Unlimited \in [stage : 0..2, from : Months, until : 1..Horizon] /\ Unlimited.until = Horizon
  BY PolicyAssumption, Ranges DEF Unlimited
<1>3. NoTx \in TxType /\ NoTx.pc = "none" /\ NoTx.kind = "none"
  BY NoTxInv DEF TxInv, NoTx
<1>4. PolicyTypeOK
  BY <1>1, <1>2, <1>3 DEF PolicyTypeOK
<1>5. RulesFit
  BY <1>1 DEF RulesFit, Overweight, At
<1>6. Opened /\ OneLocked /\ OneEnd
  BY <1>1, <1>2, <1>3 DEF Opened, OneLocked, OneEnd
<1>7. \A r \in Writers : TxInv(tx[r])
  BY <1>1, NoTxInv
<1>8. QED BY <1>4, <1>5, <1>6, <1>7 DEF IInv

\* Every step keeps the invariant.
LEMMA NextInv == IInv /\ [PolicyNext]_policyVars => IInv'
<1> SUFFICES ASSUME IInv, [PolicyNext]_policyVars PROVE IInv'
  OBVIOUS
<1>1. CASE UNCHANGED policyVars
  BY <1>1 DEF policyVars, IInv, PolicyTypeOK, RulesFit, Opened, OneLocked, OneEnd, TxInv,
       Shaped, Fresh, Fits, Keeps, Marks, Started, NextMembers, NextRules
<1>2. CASE \E r \in Writers :
         \/ BeginIntent(r) \/ ResolveIntent(r) \/ LockIntent(r) \/ Join(r) \/ Revise(r)
         \/ BeginEnd(r) \/ LockEnd(r) \/ Commit(r) \/ Abort(r)
  BY <1>2, BeginIntentStep, ResolveIntentStep, LockIntentStep, JoinStep, ReviseStep,
     BeginEndStep, LockEndStep, CommitStep, AbortStep
<1>3. CASE \E p \in Projects : StartAccounting(p)
  BY <1>3, StartAccountingStep
<1>4. QED BY <1>1, <1>2, <1>3 DEF PolicyNext

\* The invariant holds in every state.
LEMMA Invariance == PolicySpec => []IInv
<1>1. QED BY InitInv, NextInv, PTL DEF PolicySpec

-----------------------------------------------------------------------------
(* The theorems.                                                           *)

\* Whatever transactions run at once, the rows and what transactions hold keep their types.
THEOREM PolicyTypeCorrect == PolicySpec => []PolicyTypeOK
<1>1. IInv => PolicyTypeOK
  BY DEF IInv
<1>2. QED BY <1>1, Invariance, PTL

\* Weights sum up to 100% at most in every month, and rules stay in their memberships and
\* apart: after every publication, clip, membership change and end of an accounting.
THEOREM RulesAlwaysFit == PolicySpec => []RulesFit
<1>1. IInv => RulesFit
  BY DEF IInv
<1>2. QED BY <1>1, Invariance, PTL

\* A step that commits or drops r's transaction leaves the rules or publishes r's.
LEMMA Publishes ==
    ASSUME IInv, [PolicyNext]_policyVars, NEW r \in Writers,
           tx[r].pc \in {"locked", "unlocked"}, tx'[r].pc = "none"
    PROVE  rules' = rules \/ (tx[r].publishes /\ rules' = tx[r].next)
<1>1. CASE \E q \in Writers : Commit(q)
  <2>1. PICK q \in Writers : Commit(q)
    BY <1>1
  <2>2. CASE q = r
    BY <2>1, <2>2 DEF Commit
  <2>3. CASE q # r
    <3>1. tx'[r] = tx[r]
      BY <2>1, <2>3 DEF Commit, Become, IInv, PolicyTypeOK
    <3>2. QED BY <3>1
  <2>4. QED BY <2>2, <2>3
<1>2. CASE ~\E q \in Writers : Commit(q)
  BY <1>2 DEF PolicyNext, policyVars, BeginIntent, ResolveIntent, LockIntent, Join, Revise,
       BeginEnd, LockEnd, Abort, StartAccounting, Quiet
<1>3. QED BY <1>1, <1>2

\* No publication loses what another one wrote, or what it was not asked to change.
THEOREM NothingOverwritten == PolicySpec => OthersUntouched
<1>1. IInv /\ [PolicyNext]_policyVars =>
        \A r \in Writers : tx[r].pc \in {"locked", "unlocked"} /\ tx'[r].pc = "none" =>
          \A s \in Stints, m \in Months :
             ~Concerns(tx[r], s, m) => WeightIn(rules', s, m) = WeightIn(rules, s, m)
  <2> SUFFICES ASSUME IInv, [PolicyNext]_policyVars, NEW r \in Writers,
                      tx[r].pc \in {"locked", "unlocked"}, tx'[r].pc = "none",
                      NEW s \in Stints, NEW m \in Months, ~Concerns(tx[r], s, m)
               PROVE  WeightIn(rules', s, m) = WeightIn(rules, s, m)
    OBVIOUS
  <2>1. rules' = rules \/ (tx[r].publishes /\ rules' = tx[r].next)
    BY Publishes
  <2>2. Keeps(tx[r])
    BY DEF IInv, TxInv
  <2>3. QED BY <2>1, <2>2 DEF Keeps
<1>2. IInv /\ [PolicyNext]_policyVars =>
        [\A r \in Writers : tx[r].pc \in {"locked", "unlocked"} /\ tx'[r].pc = "none" =>
          \A s \in Stints, m \in Months :
             ~Concerns(tx[r], s, m) => WeightIn(rules', s, m) = WeightIn(rules, s, m)]_policyVars
  BY <1>1
<1>3. QED BY <1>2, Invariance, PTL DEF PolicySpec, OthersUntouched

\* A commit marks the months whose allocation it changes.
LEMMA CommitMarks ==
    ASSUME IInv, IInv', NEW r \in Writers, Commit(r), NEW m \in Months, m \notin marked'
    PROVE  Allocation(m)' = Allocation(m)
<1>1. PICK t : t = tx[r]
  OBVIOUS
<1>2. TxInv(t) /\ t \in TxType /\ t.pc \in {"locked", "unlocked"} /\ m \notin t.months
  BY <1>1 DEF IInv, TxInv, Commit
<1>3. /\ members' = NextMembers(t) /\ rules' = NextRules(t)
      /\ window' = IF t.kind = "end" THEN EndsAt(t) ELSE window
  BY <1>1 DEF Commit, NextMembers, NextRules
<1>4. /\ rules \subseteq Rule /\ rules' \subseteq Rule
      /\ members \in [Stints -> Intervals \cup {Absent}]
      /\ window \in [Projects -> Window]
  BY DEF IInv, PolicyTypeOK, Window
<1>5. \A s \in Stints : WeightIn(rules', s, m) = WeightIn(rules, s, m)
  <2>1. CASE ~t.publishes
    BY <2>1, <1>3 DEF NextRules
  <2>2. CASE t.publishes /\ t.kind # "end"
    <3>1. m \notin PolicyMonths(rules, t.next)
      BY <2>2, <1>2 DEF TxInv, Marks
    <3>2. rules' = t.next
      BY <2>2, <1>3 DEF NextRules
    <3>3. QED BY <3>1, <3>2, UnmarkedEmpty
  <2>3. CASE t.publishes /\ t.kind = "end"
    <3>1. ~(t.span.until <= m)
      BY <2>3, <1>2 DEF TxInv, Marks
    <3>2. \A s \in Stints : ~Concerns(t, s, m)
      BY <2>3, <3>1 DEF Concerns
    <3>3. rules' = t.next
      BY <2>3, <1>3 DEF NextRules
    <3>4. QED BY <2>3, <3>2, <3>3, <1>2 DEF TxInv, Keeps
  <2>4. QED BY <2>1, <2>2, <2>3
<1>6. \A s \in Stints : Covers(members'[s], m) <=> Covers(members[s], m)
  <2>1. CASE t.kind \notin {"join", "revise"}
    BY <2>1, <1>3 DEF NextMembers
  <2>2. CASE t.kind \in {"join", "revise"}
    <3>1. m \notin StintMonths(members[t.stint], t.span)
      BY <2>2, <1>2 DEF TxInv, Marks
    <3>2. ~Covers(members[t.stint], m) /\ ~Covers(t.span, m)
      BY <3>1 DEF StintMonths, MonthsOf
    <3>3. members' = [members EXCEPT ![t.stint] = t.span]
      BY <2>2, <1>3 DEF NextMembers
    <3>4. \A s \in Stints : members'[s] = IF s = t.stint THEN t.span ELSE members[s]
      BY <3>3, <1>4
    <3>5. ASSUME NEW s \in Stints PROVE Covers(members'[s], m) <=> Covers(members[s], m)
      <4>1. CASE s = t.stint
        BY <4>1, <3>2, <3>4
      <4>2. CASE s # t.stint
        BY <4>2, <3>4
      <4>3. QED BY <4>1, <4>2
    <3>6. QED BY <3>5
  <2>3. QED BY <2>1, <2>2
<1>7. \A p \in Projects : Covers(window'[p], m) <=> Covers(window[p], m)
  <2>1. CASE t.kind # "end"
    BY <2>1, <1>3
  <2>2. CASE t.kind = "end"
    <3>1. PICK u : u = t.span.until
      OBVIOUS
    <3>2. PICK p : p = t.project
      OBVIOUS
    <3>3. m < u /\ u \in 1..Horizon /\ p \in Projects /\ window[p].stage = 1
      <4>1. u \in 1..Horizon /\ p \in Projects /\ window[p].stage = 1 /\ ~(u <= m)
        BY <2>2, <1>2, <3>1, <3>2 DEF TxInv, Shaped, Started, Marks
      <4>2. m \in Nat
        BY Ranges
      <4>3. QED BY <4>1, <4>2, PolicyAssumption
    <3>4. window[p].until = Horizon
      BY <3>3 DEF IInv, Opened
    <3>5. PICK v : v = [window[p] EXCEPT !.stage = 2, !.until = u]
      OBVIOUS
    <3>6. v.from = window[p].from /\ v.until = u
      BY <1>4, <3>3, <3>5 DEF Window
    <3>7. window' = [window EXCEPT ![p] = v]
      BY <2>2, <1>3, <3>1, <3>2, <3>5 DEF EndsAt
    <3>8. Covers(v, m) <=> Covers(window[p], m)
      <4>1. m < Horizon
        BY PolicyAssumption DEF Months
      <4>2. QED BY <4>1, <3>3, <3>4, <3>6 DEF Covers
    <3>9. \A q \in Projects : window'[q] = IF q = p THEN v ELSE window[q]
      BY <3>7, <1>4
    <3>10. ASSUME NEW q \in Projects PROVE Covers(window'[q], m) <=> Covers(window[q], m)
      <4>1. CASE q = p
        BY <4>1, <3>8, <3>9
      <4>2. CASE q # p
        BY <4>2, <3>9
      <4>3. QED BY <4>1, <4>2
    <3>11. QED BY <3>10
  <2>3. QED BY <2>1, <2>2
<1>8. QED BY <1>4, <1>5, <1>6, <1>7, SameAllocation

\* The start of an accounting marks its months; in earlier ones weights lose their effect.
LEMMA StartMarks ==
    ASSUME NEW p \in Projects, StartAccounting(p), IInv, NEW m \in Months
    PROVE  m \in marked' \/ StartsLater(m)
<1>1. PICK k \in Months : /\ window' = [window EXCEPT ![p] = [@ EXCEPT !.stage = 1, !.from = k]]
                          /\ marked' = {j \in Months : k <= j}
  BY DEF StartAccounting
<1>2. window \in [Projects -> Window]
  BY DEF IInv, PolicyTypeOK, Window
<1>3. PICK v : v = [window[p] EXCEPT !.stage = 1, !.from = k]
  OBVIOUS
<1>4. v.stage = 1 /\ v.from = k
  BY <1>2, <1>3 DEF Window
<1>5. window' = [window EXCEPT ![p] = v]
  BY <1>1, <1>3
<1>6. window'[p].stage = 1 /\ window'[p].from = k
  BY <1>2, <1>4, <1>5
<1>7. m \in Nat /\ k \in Nat
  BY Ranges
<1>8. CASE k <= m
  BY <1>8, <1>1
<1>9. CASE m < k
  BY <1>9, <1>6 DEF StartsLater, StartAccounting
<1>10. QED BY <1>7, <1>8, <1>9

\* Whatever changes the allocation of a month marks it in the same transaction, so that it
\* is computed again.
THEOREM ChangesMarked == PolicySpec => ChangesAreMarked
<1>1. IInv /\ IInv' /\ [PolicyNext]_policyVars =>
        [rows' # rows => \A m \in Months :
            Allocation(m)' # Allocation(m) => m \in marked' \/ StartsLater(m)]_policyVars
  <2> SUFFICES ASSUME IInv, IInv', [PolicyNext]_policyVars, rows' # rows, NEW m \in Months,
                      Allocation(m)' # Allocation(m)
               PROVE  m \in marked' \/ StartsLater(m)
    OBVIOUS
  <2>1. CASE \E r \in Writers : Commit(r)
    BY <2>1, CommitMarks
  <2>2. CASE \E p \in Projects : StartAccounting(p)
    BY <2>2, StartMarks
  <2>3. CASE ~(\E r \in Writers : Commit(r)) /\ ~(\E p \in Projects : StartAccounting(p))
    <3>1. UNCHANGED <<members, window, rules>>
      BY <2>3 DEF PolicyNext, policyVars, BeginIntent, ResolveIntent, LockIntent, Join, Revise,
           BeginEnd, LockEnd, Abort, Quiet
    <3>2. QED BY <3>1 DEF rows
  <2>4. QED BY <2>1, <2>2, <2>3
<1>2. QED BY <1>1, Invariance, PTL DEF PolicySpec, ChangesAreMarked

-----------------------------------------------------------------------------
(* The split of an amount (allocateByBps).                                 *)

\* Ranks are places: for each n up to all of them, n elements have a rank below n.
LEMMA RanksArePlaces ==
    ASSUME NEW D \in SUBSET Int, IsFiniteSet(D), NEW rest \in [D -> Int],
           NEW n \in 0..Cardinality(D)
    PROVE  Cardinality({k \in D : Rank(k, rest) < n}) = n
<1> DEFINE N == Cardinality(D)
           Before(k) == {j \in D : rest[k] < rest[j] \/ (rest[j] = rest[k] /\ j < k)}
           f == [k \in D |-> Cardinality(Before(k))]
<1>1. N \in Nat /\ n \in Nat /\ n <= N
  BY FS_CardinalityType
<1>2. \A k \in D : Rank(k, rest) = f[k]
  BY DEF Rank
<1>3. \A k \in D : Before(k) \in SUBSET D /\ k \notin Before(k)
  OBVIOUS
<1>4. ASSUME NEW k \in D PROVE f[k] \in 0..(N - 1)
  <2>1. IsFiniteSet(D \ {k}) /\ Cardinality(D \ {k}) = N - 1
    BY FS_RemoveElement
  <2>2. Before(k) \in SUBSET (D \ {k})
    OBVIOUS
  <2>3. /\ Cardinality(Before(k)) \in Nat
        /\ Cardinality(Before(k)) <= N - 1
    BY <2>1, <2>2, FS_Subset, FS_CardinalityType
  <2> HIDE DEF N, Before
  <2>4. QED BY <1>1, <2>3
<1>5. ASSUME NEW j \in D, NEW k \in D, j \in Before(k) PROVE f[j] < f[k]
  <2>1. Before(j) \subseteq Before(k) /\ Before(j) # Before(k)
    <3>1. \A i \in D : rest[i] \in Int /\ i \in Int
      OBVIOUS
    <3>2. rest[k] < rest[j] \/ (rest[j] = rest[k] /\ j < k)
      BY <1>5
    <3>3. ASSUME NEW i \in D, rest[j] < rest[i] \/ (rest[i] = rest[j] /\ i < j)
          PROVE  rest[k] < rest[i] \/ (rest[i] = rest[k] /\ i < k)
      BY <3>1, <3>2, <3>3
    <3>4. Before(j) \subseteq Before(k)
      BY <3>3
    <3>5. j \in Before(k) /\ j \notin Before(j)
      BY <1>3, <1>5
    <3>6. QED BY <3>4, <3>5
  <2>2. IsFiniteSet(Before(k)) /\ IsFiniteSet(Before(j))
    BY <1>3, FS_Subset
  <2>3. /\ Cardinality(Before(j)) <= Cardinality(Before(k))
        /\ Cardinality(Before(j)) # Cardinality(Before(k))
    BY <2>1, <2>2, FS_Subset
  <2>4. Cardinality(Before(j)) \in Nat /\ Cardinality(Before(k)) \in Nat
    BY <2>2, FS_CardinalityType
  <2> HIDE DEF Before
  <2>5. QED BY <2>3, <2>4
<1>6. ASSUME NEW j \in D, NEW k \in D, j # k PROVE f[j] # f[k]
  <2>1. j \in Before(k) \/ k \in Before(j)
    BY <1>6
  <2>2. f[j] < f[k] \/ f[k] < f[j]
    BY <1>5, <2>1
  <2>3. f[j] \in Int /\ f[k] \in Int
    BY <1>4
  <2> HIDE DEF f
  <2>4. QED BY <2>2, <2>3
<1>7. f \in [D -> 0..(N - 1)]
  <2>1. \A k \in D : f[k] \in 0..(N - 1)
    BY <1>4
  <2>2. f = [k \in D |-> f[k]]
    OBVIOUS
  <2> HIDE DEF f, N
  <2>3. QED BY <2>1, <2>2
<1> HIDE DEF f, Before
<1>8. f \in Injection(D, 0..(N - 1))
  BY <1>6, <1>7 DEF Injection, IsInjective
<1>9. IsFiniteSet(0..(N - 1)) /\ Cardinality(0..(N - 1)) = N
  <2>1. 0 \in Int /\ N - 1 \in Int /\ (N - 1) - 0 + 1 = N /\ (0 > N - 1 => N = 0)
    BY <1>1
  <2> HIDE DEF N
  <2>2. QED BY <2>1, FS_Interval
<1>10. f \in Surjection(D, 0..(N - 1))
  BY <1>8, <1>9, FS_Injection
<1> DEFINE P == {k \in D : f[k] < n}
           g == [k \in P |-> f[k]]
<1>11. g \in Bijection(P, 0..(n - 1))
  <2>1. g \in [P -> 0..(n - 1)]
    <3>1. \A k \in P : f[k] \in 0..(n - 1)
      <4>1. ASSUME NEW k \in P PROVE f[k] \in 0..(n - 1)
        <5>1. f[k] \in 0..(N - 1) /\ f[k] < n
          BY <1>7
        <5> HIDE DEF P, N
        <5>2. QED BY <5>1, <1>1
      <4>2. QED BY <4>1
    <3> HIDE DEF P
    <3>2. QED BY <3>1
  <2>2. \A j, k \in P : j # k => g[j] # g[k]
    BY <1>6
  <2>3. \A i \in 0..(n - 1) : \E k \in P : g[k] = i
    <3>1. \A i \in 0..(n - 1) : i \in 0..(N - 1) /\ i < n
      BY <1>1
    <3>2. \A i \in 0..(N - 1) : \E k \in D : f[k] = i
      BY <1>10 DEF Surjection
    <3>3. QED BY <3>1, <3>2
  <2> HIDE DEF g, P
  <2>4. QED BY <2>1, <2>2, <2>3 DEF Bijection, Injection, Surjection, IsInjective
<1>12. IsFiniteSet(P) /\ IsFiniteSet(0..(n - 1)) /\ Cardinality(0..(n - 1)) = n
  <2>1. 0 \in Int /\ n - 1 \in Int /\ (n - 1) - 0 + 1 = n /\ (0 > n - 1 => n = 0)
    BY <1>1
  <2>2. IsFiniteSet(0..(n - 1)) /\ Cardinality(0..(n - 1)) = n
    BY <2>1, FS_Interval
  <2>3. P \in SUBSET D
    OBVIOUS
  <2>4. QED BY <2>2, <2>3, FS_Subset
<1>13. Cardinality(P) = n
  BY <1>11, <1>12, FS_Bijection DEF ExistsBijection
<1>14. P = {k \in D : Rank(k, rest) < n}
  BY <1>2
<1>15. QED BY <1>13, <1>14

\* A remainder of zero comes after all others.
LEMMA ZeroRemaindersLast ==
    ASSUME NEW D \in SUBSET Int, IsFiniteSet(D), NEW rest \in [D -> Int],
           NEW k \in D, rest[k] = 0
    PROVE  Cardinality({j \in D : rest[j] > 0}) <= Rank(k, rest)
<1> DEFINE B == {j \in D : rest[k] < rest[j] \/ (rest[j] = rest[k] /\ j < k)}
           P == {j \in D : rest[j] > 0}
<1>1. P \in SUBSET B /\ B \in SUBSET D
  OBVIOUS
<1>2. IsFiniteSet(B) /\ Cardinality(P) <= Cardinality(B)
  BY <1>1, FS_Subset
<1>3. QED BY <1>2 DEF Rank

\* Division with remainder.
LEMMA Division ==
    ASSUME NEW p \in Int, NEW n \in Int, n > 0
    PROVE  p = n * (p \div n) + (p % n)
OBVIOUS

\* Quotient and remainder of a division by the limit.
LEMMA DivideByLimit ==
    ASSUME NEW p \in Nat
    PROVE  /\ p \div Limit \in Nat /\ p % Limit \in Nat /\ p % Limit < Limit
           /\ p = Limit * (p \div Limit) + (p % Limit)
<1>1. p \in Int /\ Limit \in Int /\ Limit \in Nat /\ Limit > 0
  BY PolicyAssumption
<1>2. p = Limit * (p \div Limit) + (p % Limit)
  BY <1>1, Division
<1>3. p \div Limit \in Nat /\ p % Limit \in Nat /\ p % Limit < Limit
  BY <1>1
<1>4. QED BY <1>2, <1>3

\* The division by the limit undoes the multiplication.
LEMMA LimitCancels ==
    ASSUME NEW p \in Nat
    PROVE  (p * Limit) \div Limit = p
BY PolicyAssumption

\* Products with the limit are ordered as their factors.
LEMMA LimitOrders ==
    ASSUME NEW p \in Int, NEW q \in Int, Limit * p <= Limit * q
    PROVE  p <= q
BY PolicyAssumption

\* allocateByBps: with weights that sum up to the limit the parts of an amount sum up to
\* the amount, and each is within one unit of its weight.
LEMMA ByBpsSplits ==
    ASSUME NEW T \in SUBSET Int, IsFiniteSet(T), NEW bps \in [T -> Nat],
           SumFunctionOnSet(bps, T) = Limit, NEW a \in Int,
           NEW result, result = AllocateByBps(a, bps)
    PROVE  /\ SumFunctionOnSet(result, T) = a
           /\ \A k \in T : LET over == result[k] * Limit - a * bps[k]
                           IN -Limit < over /\ over < Limit
<1> DEFINE active == {k \in T : bps[k] > 0}
           amount == IF a < 0 THEN -a ELSE a
<1>l. Limit \in Nat /\ Limit > 0
  BY PolicyAssumption
<1>2. amount \in Nat /\ (a < 0 => amount = -a) /\ (~(a < 0) => amount = a)
  OBVIOUS
<1>t. \A k \in T : bps[k] \in Nat /\ bps[k] \in Int
  OBVIOUS
<1>3. /\ active \in SUBSET T /\ active \in SUBSET Int /\ IsFiniteSet(active)
      /\ \A k \in active : bps[k] \in Nat /\ bps[k] \in Int
      /\ \A k \in T \ active : bps[k] = 0
  <2>1. active \in SUBSET T
    OBVIOUS
  <2>2. IsFiniteSet(active)
    BY <2>1, FS_Subset
  <2>3. \A k \in T \ active : bps[k] = 0
    BY <1>t
  <2> HIDE DEF active
  <2>4. active \in SUBSET Int
    BY <2>1
  <2>5. QED BY <1>t, <2>1, <2>2, <2>3, <2>4
<1> DEFINE floor == [k \in active |-> (amount * bps[k]) \div Limit]
           rest == [k \in active |-> (amount * bps[k]) % Limit]
           leftover == (amount * SumFunctionOnSet(bps, active)) \div Limit
                         - SumFunctionOnSet(floor, active)
           share == [k \in active |-> floor[k] + IF Rank(k, rest) < leftover THEN 1 ELSE 0]
           SumF == SumFunctionOnSet(floor, active)
           SumR == SumFunctionOnSet(rest, active)
<1>1. result = [k \in T |->
          IF k \notin active THEN 0 ELSE IF a < 0 THEN -share[k] ELSE share[k]]
  <2>1. DOMAIN bps = T
    OBVIOUS
  <2>2. QED BY <2>1, Zenon DEF AllocateByBps
<1> HIDE DEF amount, active
<1>4. \A k \in active : /\ amount * bps[k] \in Nat /\ amount * bps[k] \in Int
                        /\ floor[k] \in Nat /\ rest[k] \in Nat
                        /\ floor[k] \in Int /\ rest[k] \in Int /\ rest[k] < Limit
                        /\ amount * bps[k] = Limit * floor[k] + 1 * rest[k]
  <2>1. ASSUME NEW k \in active
        PROVE  /\ amount * bps[k] \in Nat
               /\ floor[k] \in Nat /\ rest[k] \in Nat /\ rest[k] < Limit
               /\ amount * bps[k] = Limit * floor[k] + rest[k]
    <3> DEFINE p == amount * bps[k]
    <3>1. p \in Nat
      BY <1>2, <1>3
    <3>2. floor[k] = p \div Limit /\ rest[k] = p % Limit
      OBVIOUS
    <3> HIDE DEF p, floor, rest
    <3>5. /\ p \div Limit \in Nat /\ p % Limit \in Nat /\ p % Limit < Limit
          /\ p = Limit * (p \div Limit) + (p % Limit)
      BY <3>1, DivideByLimit
    <3>3. /\ floor[k] \in Nat /\ rest[k] \in Nat /\ rest[k] < Limit
          /\ p = Limit * floor[k] + rest[k]
      BY <3>2, <3>5
    <3>4. QED BY <3>1, <3>3 DEF p
  <2> HIDE DEF floor, rest
  <2>2. QED BY <2>1, <1>l
<1>5. SumFunctionOnSet(bps, active) = Limit
  <2>1. Support(active, bps, T)
    BY <1>3, <1>t DEF Support
  <2> HIDE DEF floor, rest, leftover, share, SumF, SumR
  <2>2. QED BY <2>1, SumSupport
<1>6. SumF \in Int /\ SumR \in Int /\ SumR >= 0
  <2> HIDE DEF floor, rest
  <2>1. SumF \in Nat /\ SumR \in Nat
    BY <1>3, <1>4, SumNat
  <2>2. QED BY <2>1
<1>7. leftover = amount - SumF
  <2>1. (amount * Limit) \div Limit = amount
    BY <1>2, LimitCancels
  <2>2. QED BY <1>5, <2>1
<1>8. Limit * leftover = SumR /\ leftover \in Int
  <2> DEFINE h == [k \in active |-> amount * bps[k]]
  <2>1. \A k \in active : h[k] = amount * bps[k]
    OBVIOUS
  <2> HIDE DEF h, floor, rest, leftover
  <2>2. SumFunctionOnSet(h, active) = Limit * SumF + 1 * SumR
    <3>1. Linear(h, Limit, floor, 1, rest, active)
      BY <1>4, <2>1 DEF Linear
    <3>2. Limit \in Int /\ 1 \in Int
      BY <1>l
    <3>3. QED BY <1>3, <3>1, <3>2, SumLinear
  <2>3. SumFunctionOnSet(h, active) = amount * Limit + 0 * Limit
    <3>1. Linear(h, amount, bps, 0, bps, active)
      BY <1>3, <1>4, <2>1 DEF Linear
    <3>2. amount \in Int /\ 0 \in Int
      BY <1>2
    <3>3. QED BY <1>3, <1>5, <3>1, <3>2, SumLinear
  <2> HIDE DEF SumF, SumR
  <2>4. amount * Limit = Limit * SumF + SumR
    BY <1>2, <1>6, <1>l, <2>2, <2>3
  <2>5. Limit * (amount - SumF) = amount * Limit - Limit * SumF
    BY <1>2, <1>6, <1>l
  <2>6. Limit * SumF \in Int /\ amount * Limit \in Int
    BY <1>2, <1>6, <1>l
  <2>7. QED BY <1>2, <1>6, <1>7, <2>4, <2>5, <2>6
<1> HIDE DEF leftover
<1>9. leftover >= 0
  <2>1. Limit * 0 <= Limit * leftover
    BY <1>6, <1>8, <1>l
  <2>2. 0 <= leftover
    BY <1>8, <2>1, LimitOrders
  <2>3. QED BY <1>8, <2>2
<1> DEFINE Positive == {k \in active : rest[k] > 0}
<1>10. /\ leftover <= Cardinality(Positive) /\ Cardinality(Positive) <= Cardinality(active)
       /\ Cardinality(Positive) \in Nat /\ Cardinality(active) \in Nat
  <2> DEFINE one == [k \in active |-> IF k \in Positive THEN 1 ELSE 0]
             most == [k \in active |-> Limit * one[k]]
  <2>1. \A k \in active : /\ one[k] = IF k \in Positive THEN 1 ELSE 0
                          /\ most[k] = Limit * one[k]
    OBVIOUS
  <2>2. Positive \in SUBSET active
    OBVIOUS
  <2>3. \A k \in active : k \notin Positive => rest[k] <= 0
    BY <1>4
  <2> HIDE DEF one, most, Positive, floor, rest
  <2>4. \A k \in active : /\ one[k] \in Int /\ most[k] \in Int /\ rest[k] \in Int
                          /\ most[k] = Limit * one[k] + 0 * one[k]
                          /\ rest[k] <= most[k]
    <3>1. ASSUME NEW k \in active
          PROVE  /\ one[k] \in Int /\ most[k] \in Int /\ rest[k] \in Int
                 /\ most[k] = Limit * one[k] + 0 * one[k] /\ rest[k] <= most[k]
      <4>1. CASE k \in Positive
        BY <4>1, <2>1, <1>4, <1>l
      <4>2. CASE k \notin Positive
        BY <4>2, <2>1, <2>3, <1>4, <1>l
      <4>3. QED BY <4>1, <4>2
    <3>2. QED BY <3>1
  <2>5. SumFunctionOnSet(one, active) = Cardinality(Positive)
    BY <1>3, <2>1, <2>2, SumCount
  <2>6. SumFunctionOnSet(most, active) =
          Limit * SumFunctionOnSet(one, active) + 0 * SumFunctionOnSet(one, active)
    <3>1. Limit \in Int /\ 0 \in Int
      BY <1>l
    <3>2. Linear(most, Limit, one, 0, one, active)
      BY <2>4 DEF Linear
    <3>3. QED BY <1>3, <3>1, <3>2, SumLinear
  <2>7. SumR <= SumFunctionOnSet(most, active)
    BY <1>3, <2>4, SumMonotone
  <2>8. /\ Cardinality(Positive) \in Nat /\ Cardinality(active) \in Nat
        /\ Cardinality(Positive) <= Cardinality(active)
    BY <1>3, <2>2, FS_Subset, FS_CardinalityType
  <2> HIDE DEF SumR
  <2>9. SumFunctionOnSet(most, active) = Limit * Cardinality(Positive)
    BY <1>l, <2>5, <2>6, <2>8
  <2>10. leftover <= Cardinality(Positive)
    BY <1>8, <2>7, <2>8, <2>9, LimitOrders
  <2>11. QED BY <2>8, <2>10
<1> DEFINE Raised == {k \in active : Rank(k, rest) < leftover}
<1>r. rest \in [active -> Int]
  BY <1>4
<1>11. Cardinality(Raised) = leftover
  <2>1. leftover \in 0..Cardinality(active)
    BY <1>8, <1>9, <1>10
  <2> HIDE DEF rest
  <2>2. QED BY <1>3, <1>r, <2>1, RanksArePlaces
<1>12. ASSUME NEW k \in Raised PROVE rest[k] > 0
  <2>1. k \in active /\ Rank(k, rest) < leftover
    BY <1>12
  <2>2. SUFFICES ASSUME rest[k] = 0 PROVE FALSE
    BY <2>1, <1>4
  <2>3. Cardinality(Positive) <= Rank(k, rest)
    BY <1>3, <1>r, <2>1, <2>2, ZeroRemaindersLast
  <2>4. Rank(k, rest) \in Nat
    <3>1. {j \in DOMAIN rest : rest[k] < rest[j] \/ (rest[j] = rest[k] /\ j < k)} \in SUBSET active
      OBVIOUS
    <3>2. QED BY <3>1, <1>3, FS_Subset, FS_CardinalityType DEF Rank
  <2> HIDE DEF Positive, rest
  <2>5. QED BY <1>8, <1>10, <2>1, <2>3, <2>4
<1> DEFINE extra == [k \in active |-> IF k \in Raised THEN 1 ELSE 0]
<1>13. /\ Raised \in SUBSET active
       /\ \A k \in active : /\ extra[k] = IF k \in Raised THEN 1 ELSE 0
                            /\ share[k] = floor[k] + extra[k]
  OBVIOUS
<1> HIDE DEF Raised, extra, share, floor, rest
<1>14. \A k \in active : /\ extra[k] \in Int /\ floor[k] \in Int /\ share[k] \in Int
                         /\ share[k] = 1 * floor[k] + 1 * extra[k]
                         /\ share[k] = 1 * share[k] + 0 * share[k]
  BY <1>4, <1>13
<1>15. SumFunctionOnSet(share, active) = amount
  <2>1. SumFunctionOnSet(extra, active) = leftover
    BY <1>3, <1>11, <1>13, SumCount
  <2>2. SumFunctionOnSet(share, active) = 1 * SumF + 1 * SumFunctionOnSet(extra, active)
    <3>1. 1 \in Int
      OBVIOUS
    <3>2. Linear(share, 1, floor, 1, extra, active)
      BY <1>14 DEF Linear
    <3>3. QED BY <1>3, <3>1, <3>2, SumLinear
  <2> HIDE DEF SumF
  <2>3. QED BY <1>2, <1>6, <1>7, <1>8, <2>1, <2>2
<1> DEFINE sign == IF a < 0 THEN -1 ELSE 1
<1>16. sign \in Int /\ a = sign * amount /\ sign \in {-1, 1}
  BY <1>2
<1>17. /\ \A k \in T \ active : result[k] = 0
       /\ \A k \in active : result[k] = sign * share[k] + 0 * share[k] /\ result[k] \in Int
  BY <1>1, <1>3, <1>14
<1> HIDE DEF sign
<1>18. SumFunctionOnSet(result, T) = a
  <2>1. SumFunctionOnSet(result, active) =
          sign * SumFunctionOnSet(share, active) + 0 * SumFunctionOnSet(share, active)
    <3>1. 0 \in Int
      OBVIOUS
    <3>2. Linear(result, sign, share, 0, share, active)
      BY <1>14, <1>17 DEF Linear
    <3>3. QED BY <1>3, <1>16, <3>1, <3>2, SumLinear
  <2>2. Support(active, result, T)
    BY <1>3, <1>17 DEF Support
  <2>3. SumFunctionOnSet(result, T) = SumFunctionOnSet(result, active)
    BY <2>2, SumSupport
  <2>4. QED BY <1>2, <1>15, <1>16, <2>1, <2>3
<1>19. ASSUME NEW k \in T
       PROVE  -Limit < result[k] * Limit - a * bps[k] /\ result[k] * Limit - a * bps[k] < Limit
  <2>1. CASE k \notin active
    BY <2>1, <1>3, <1>17, <1>l
  <2>2. CASE k \in active
    <3>1. /\ result[k] = sign * share[k] /\ share[k] = floor[k] + extra[k]
          /\ amount * bps[k] = Limit * floor[k] + rest[k]
          /\ floor[k] \in Nat /\ rest[k] \in Nat /\ rest[k] < Limit
          /\ bps[k] \in Nat /\ share[k] \in Int
      BY <2>2, <1>3, <1>4, <1>13, <1>14, <1>16, <1>17
    <3>2. extra[k] = 0 \/ (extra[k] = 1 /\ rest[k] > 0)
      BY <2>2, <1>12, <1>13
    <3> DEFINE over == share[k] * Limit - amount * bps[k]
    <3>3. over = Limit * extra[k] - rest[k]
      <4>1. share[k] * Limit = Limit * floor[k] + Limit * extra[k]
        BY <1>l, <3>1, <3>2
      <4>2. Limit * floor[k] \in Int /\ Limit * extra[k] \in Int
        BY <1>l, <3>1, <3>2
      <4>3. QED BY <3>1, <4>1, <4>2
    <3>4. over \in Int /\ -Limit < over /\ over < Limit
      BY <1>l, <3>1, <3>2, <3>3
    <3>5. result[k] * Limit - a * bps[k] = sign * over
      <4>1. result[k] * Limit = sign * (share[k] * Limit)
        BY <1>l, <1>16, <3>1
      <4>2. a * bps[k] = sign * (amount * bps[k])
        BY <1>2, <1>16, <3>1
      <4>3. share[k] * Limit \in Int /\ amount * bps[k] \in Int
        BY <1>l, <1>2, <3>1
      <4>4. QED BY <1>16, <4>1, <4>2, <4>3
    <3> HIDE DEF over
    <3>6. QED BY <1>l, <1>16, <3>4, <3>5
  <2>3. QED BY <2>1, <2>2
<1>20. QED BY <1>18, <1>19

-----------------------------------------------------------------------------
(* The shares of a month.                                                  *)

\* Rules of different projects apply in a month: there are finitely many of them.
LEMMA FewRulesAt ==
    ASSUME IInv, NEW m \in Months
    PROVE  IsFiniteSet(At(rules, m))
<1> DEFINE R == At(rules, m)
           key == [x \in R |-> x.stint[1]]
<1>1. /\ R \subseteq rules /\ rules \subseteq Rule
      /\ \A x \in R : Covers(x, m) /\ x.stint[1] \in Projects
  BY DEF IInv, PolicyTypeOK, At, Rule, Stints
<1>2. ASSUME NEW x \in R, NEW y \in R, x # y PROVE key[x] # key[y]
  <2>1. x \in rules /\ y \in rules /\ Covers(x, m) /\ Covers(y, m)
    BY <1>1
  <2>2. Overlaps(x, y)
    <3>1. x \in Rule /\ y \in Rule
      BY <1>1, <2>1
    <3>2. /\ x.from \in Nat /\ x.until \in Nat /\ y.from \in Nat /\ y.until \in Nat /\ m \in Nat
      BY <3>1, Ranges DEF Rule
    <3>3. QED BY <2>1, <3>2 DEF Covers, Overlaps
  <2>3. x.stint[1] # y.stint[1]
    BY <1>2, <2>1, <2>2 DEF IInv, RulesFit
  <2>4. QED BY <2>3
<1>3. key \in [R -> Projects]
  BY <1>1
<1> HIDE DEF R, key
<1>4. key \in Injection(R, Projects)
  BY <1>2, <1>3 DEF Injection, IsInjective
<1>5. IsFiniteSet(Projects)
  BY PolicyAssumption, FS_Interval DEF Projects
<1>6. QED BY <1>4, <1>5, FS_Injection DEF R

\* The weight of some of the rules is a sum of the function that gives the weight of all.
LEMMA WeightOfSome ==
    ASSUME NEW R \in SUBSET Rule, IsFiniteSet(R), NEW Q \in SUBSET R
    PROVE  /\ TotalWeight(Q) = SumFunctionOnSet([x \in R |-> x.weight], Q)
           /\ TotalWeight(Q) \in Nat
<1> DEFINE f == [x \in Q |-> x.weight]
           g == [x \in R |-> x.weight]
<1>1. \A x \in Q : f[x] \in Nat /\ f[x] \in Int /\ f[x] = g[x]
  BY DEF Rule
<1>2. IsFiniteSet(Q)
  BY FS_Subset
<1>3. TotalWeight(Q) = SumFunctionOnSet(f, Q)
  BY DEF TotalWeight
<1> HIDE DEF f, g
<1>4. SumFunctionOnSet(f, Q) = SumFunctionOnSet(g, Q)
  BY <1>1, <1>2, SumSame
<1>5. SumFunctionOnSet(f, Q) \in Nat
  BY <1>1, <1>2, SumNat
<1>6. QED BY <1>3, <1>4, <1>5 DEF g

\* With the remainder the shares of a month's targets are the whole.
LEMMA SharesAreWhole ==
    ASSUME IInv, NEW m \in Months, Effective(m) # {}
    PROVE  /\ ShareOf(m) \in [Targets -> Nat]
           /\ SumFunctionOnSet(ShareOf(m), Targets) = Limit
<1> DEFINE R == At(rules, m)
           E == Effective(m)
           g == [x \in R |-> x.weight]
           key == [x \in E |-> x.stint[1]]
           Of(k) == {x \in E : key[x] = k}
           share == ShareOf(m)
<1>1. R \in SUBSET Rule /\ E \in SUBSET R /\ IsFiniteSet(R) /\ IsFiniteSet(E) /\ R # {}
  <2>1. R \in SUBSET Rule
    BY DEF IInv, PolicyTypeOK, At
  <2>2. E \in SUBSET R
    BY DEF Effective
  <2>3. QED BY <2>1, <2>2, FewRulesAt, FS_Subset
<1>2. /\ \A x \in R : g[x] \in Nat /\ g[x] \in Int
      /\ \A x \in E : key[x] \in Projects
  BY <1>1 DEF Rule, Stints
<1>3. \A k \in Projects : {x \in E : x.stint[1] = k} = Of(k)
  OBVIOUS
<1>4. /\ Limit \in Nat /\ LastProject \in Nat /\ Unallocated \in Targets
      /\ Targets \ {Unallocated} = Projects /\ IsFiniteSet(Targets) /\ IsFiniteSet(Projects)
  <2>1. /\ Limit \in Nat /\ LastProject \in Nat
    BY PolicyAssumption
  <2>2. IsFiniteSet(1..(LastProject + 1)) /\ IsFiniteSet(1..LastProject)
    BY <2>1, FS_Interval
  <2>3. Unallocated \in Targets /\ Targets \ {Unallocated} = Projects
    BY <2>1 DEF Unallocated, Targets, Projects
  <2>4. QED BY <2>1, <2>2, <2>3 DEF Targets, Projects, Unallocated
<1>5. /\ share[Unallocated] = Limit - TotalWeight(E)
      /\ \A k \in Projects : share[k] = TotalWeight(Of(k))
      /\ share = [k \in Targets |-> share[k]]
  <2>1. share[Unallocated] = Limit - TotalWeight(E)
    BY <1>4 DEF ShareOf
  <2>2. \A k \in Projects : k \in Targets /\ k # Unallocated
    BY <1>4
  <2>3. \A k \in Projects : share[k] = TotalWeight(Of(k))
    BY <1>3, <2>2 DEF ShareOf
  <2>4. QED BY <2>1, <2>3 DEF ShareOf
<1>6. ASSUME NEW k \in Projects
      PROVE  /\ TotalWeight(Of(k)) = SumFunctionOnSet(g, Of(k))
             /\ TotalWeight(Of(k)) \in Nat
  <2>1. Of(k) \in SUBSET R
    BY <1>1
  <2> HIDE DEF R, Of
  <2>2. QED BY <1>1, <2>1, WeightOfSome DEF g
<1>7. /\ TotalWeight(E) = SumFunctionOnSet(g, E) /\ TotalWeight(E) \in Nat
      /\ TotalWeight(R) = SumFunctionOnSet(g, R) /\ TotalWeight(R) \in Nat
  <2> HIDE DEF R, E
  <2>1. QED BY <1>1, WeightOfSome DEF g
<1>8. TotalWeight(R) <= Limit
  BY <1>1, <1>4, <1>7 DEF IInv, RulesFit, Overweight
<1>9. TotalWeight(E) <= TotalWeight(R)
  <2> HIDE DEF R, E, g
  <2>1. SumFunctionOnSet(g, R) = SumFunctionOnSet(g, E) + SumFunctionOnSet(g, R \ E)
    BY <1>1, <1>2, SumSplit
  <2>2. SumFunctionOnSet(g, R \ E) \in Nat
    BY <1>1, <1>2, FS_Subset, SumNat
  <2>3. QED BY <1>7, <2>1, <2>2
<1> HIDE DEF share
<1>10. share \in [Targets -> Nat]
  <2>1. ASSUME NEW k \in Targets PROVE share[k] \in Nat
    <3> HIDE DEF R, E, Of
    <3>1. CASE k = Unallocated
      BY <3>1, <1>4, <1>5, <1>7, <1>8, <1>9
    <3>2. CASE k # Unallocated
      BY <3>2, <1>4, <1>5, <1>6
    <3>3. QED BY <3>1, <3>2
  <2>2. QED BY <1>5, <2>1
<1>11. SumFunctionOnSet(share, Projects) = SumFunctionOnSet(g, E)
  <2>1. \A x \in E : g[x] \in Int /\ key[x] \in Projects
    BY <1>1, <1>2
  <2>2. \A k \in Projects : share[k] = SumFunctionOnSet(g, {x \in E : key[x] = k})
    BY <1>5, <1>6
  <2> HIDE DEF E, g, key
  <2>3. Grouped(share, Projects, key, g, E)
    BY <2>1, <2>2 DEF Grouped
  <2>4. QED BY <1>1, <1>4, <2>3, SumByKey
<1>12. SumFunctionOnSet(share, Targets)
         = share[Unallocated] + SumFunctionOnSet(share, Projects)
  <2>1. \A k \in Targets : share[k] \in Int
    BY <1>10
  <2> HIDE DEF R, E, g, Of, key
  <2>2. QED BY <1>4, <2>1, SumRemove
<1> HIDE DEF R, E, g
<1>13. SumFunctionOnSet(share, Targets) = Limit
  BY <1>4, <1>5, <1>7, <1>11, <1>12
<1>14. QED BY <1>10, <1>13 DEF share

\* Whatever rules come to apply, a line's amount is split among their projects and the
\* remainder without loss, and no share is a whole unit off its weight.
THEOREM SplitIsExact == PolicySpec => []SplitsExactly
<1>1. IInv => SplitsExactly
  <2> SUFFICES ASSUME IInv, NEW m \in Months, Effective(m) # {}, NEW a \in Amounts
               PROVE  LET share == AllocateByBps(a, ShareOf(m))
                      IN /\ SumFunctionOnSet(share, Targets) = a
                         /\ \A k \in Targets :
                              LET over == share[k] * Limit - a * ShareOf(m)[k]
                              IN -Limit < over /\ over < Limit
    BY DEF SplitsExactly
  <2>1. /\ ShareOf(m) \in [Targets -> Nat]
        /\ SumFunctionOnSet(ShareOf(m), Targets) = Limit
    BY SharesAreWhole
  <2>2. a \in Int /\ Targets \in SUBSET Int /\ IsFiniteSet(Targets)
    BY PolicyAssumption, FS_Interval DEF Targets, Unallocated
  <2>3. QED BY <2>1, <2>2, ByBpsSplits
<1>2. QED BY <1>1, Invariance, PTL

=============================================================================
