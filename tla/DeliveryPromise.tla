-------------------------- MODULE DeliveryPromise --------------------------
(***************************************************************************)
(* What report delivery promises to the people who receive the reports.    *)
(* The chat service takes a message once.  It may take it again only if     *)
(* between the two attempts an operator took the doubt about the earlier    *)
(* one on himself; the earlier post may then still arrive late.  A text is  *)
(* sent after its picture was confirmed, and what is confirmed stays so.    *)
(* ReportDelivery implements this specification.                           *)
(***************************************************************************)
EXTENDS Naturals

CONSTANTS Messages,        \* the messages of all reports
          Attempts,        \* numbers of attempts, in the order they were made
          Before(_, _)     \* Before(m, n): m is confirmed before n is sent

VARIABLES taken,      \* the attempts of a message that the chat service took
          granted,    \* the attempts of doubtful outcome an operator let be repeated
          confirmed   \* the messages known to have been sent

promised == <<taken, granted, confirmed>>

Init ==
    /\ taken = [m \in Messages |-> {}]
    /\ granted = [m \in Messages |-> {}]
    /\ confirmed = {}

Leave(m, v, w) == \E u \in granted[m] : v <= u /\ u < w

Take(m, v) ==
    /\ v \notin taken[m]
    /\ \A w \in taken[m] : Leave(m, v, w) \/ Leave(m, w, v)
    /\ \A n \in Messages : Before(n, m) => n \in confirmed
    /\ taken' = [taken EXCEPT ![m] = @ \cup {v}]
    /\ UNCHANGED <<granted, confirmed>>

Grant(m, v) ==
    /\ m \notin confirmed
    /\ granted' = [granted EXCEPT ![m] = @ \cup {v}]
    /\ UNCHANGED <<taken, confirmed>>

Confirm(m) ==
    /\ taken[m] # {}
    /\ confirmed' = confirmed \cup {m}
    /\ UNCHANGED <<taken, granted>>

Next == \E m \in Messages : Confirm(m) \/ \E v \in Attempts : Take(m, v) \/ Grant(m, v)

Spec == Init /\ [][Next]_promised
=============================================================================
