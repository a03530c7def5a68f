-------------------------- MODULE MCKeysAndPolicy --------------------------
\* KeyLimits and AllocationPolicy for TLC.  The two have no row in common: a behaviour is
\* one of the one module or one of the other, and one run checks both.
EXTENDS KeyLimits, AllocationPolicy, TLC

VARIABLE half   \* the module this behaviour is of
allVars == <<vars, policyVars, half>>

LineAmounts == {-3, 1, 2}

\* After two joins, the start of an accounting and two intents.
Settled ==
    /\ members = [s \in Stints |->
         CASE s = <<1, 1>> -> [from |-> 0, until |-> 2]
           [] s = <<2, 1>> -> [from |-> 0, until |-> Horizon]
           [] OTHER -> Absent]
    /\ window = [p \in Projects |->
         IF p = 1 THEN [Unlimited EXCEPT !.stage = 1] ELSE Unlimited]
    /\ version = 2
    /\ rules = {RuleOf(<<1, 1>>, 5, members[<<1, 1>>]), RuleOf(<<2, 1>>, 5, members[<<2, 1>>])}
    /\ tx = [r \in Writers |-> NoTx]
    /\ marked = {} /\ begun = 0

BothInit ==
    /\ Init
    /\ \/ half = "keys" /\ PolicyInit
       \/ half = "rules" /\ (PolicyInit \/ Settled)
BothNext ==
    \/ half = "keys" /\ Next /\ UNCHANGED <<policyVars, half>>
    \/ half = "rules" /\ PolicyNext /\ UNCHANGED <<vars, half>>
BothSpec == BothInit /\ [][BothNext]_allVars

\* Requests are interchangeable, and so are the transactions.
Symmetry == Permutations(Requests) \cup Permutations(Writers)
=============================================================================
