----------------------------- MODULE SettleOnce -----------------------------
(***************************************************************************)
(* What the accounting of the gateway promises to those who pay for it.    *)
(* While a request runs, the usage of each of its attempts is recorded,    *)
(* once.  When the request ends it is charged, once, for all that has been *)
(* recorded.  A month is closed only when all that is recorded is charged, *)
(* its bill is exactly that, and until it is opened again nothing is added *)
(* to it.  RequestSettlement implements this specification.                *)
(***************************************************************************)
CONSTANTS Requests,   \* the requests of a month
          Nos,        \* the numbers of their attempts
          Usages,     \* what can be recorded of an attempt
          Nothing     \* nothing is recorded yet

VARIABLES phase,      \* of each request: "none", "running", "ended"
          usage,      \* what is recorded of each attempt
          charged,    \* the attempts that have been charged
          closed,     \* is the month closed?
          billed      \* the attempts on the bill of the closed month

books == <<phase, usage, charged, closed, billed>>

Of(r) == {r} \X Nos
Recorded(u) == {s \in Requests \X Nos : u[s] # Nothing}

Init ==
    /\ phase = [r \in Requests |-> "none"]
    /\ usage = [s \in Requests \X Nos |-> Nothing]
    /\ charged = {}
    /\ closed = FALSE /\ billed = {}

Begin(r) ==
    /\ phase[r] = "none"
    /\ phase' = [phase EXCEPT ![r] = "running"]
    /\ UNCHANGED <<usage, charged, closed, billed>>

(* One attempt of a running request, in a month that is open. *)
RecordsOne(r) ==
    /\ phase[r] = "running" /\ ~closed
    /\ \E s \in Of(r) : /\ usage[s] = Nothing /\ usage'[s] \in Usages
                        /\ usage' = [usage EXCEPT ![s] = usage'[s]]

Record(r) ==
    /\ RecordsOne(r)
    /\ UNCHANGED <<phase, charged, closed, billed>>

(* A request that is refused at the last moment records this fact and ends  *)
(* in one step.                                                            *)
End(r) ==
    /\ phase[r] = "running"
    /\ phase' = [phase EXCEPT ![r] = "ended"]
    /\ RecordsOne(r) \/ UNCHANGED usage
    /\ charged' = charged \cup (Of(r) \cap Recorded(usage'))
    /\ UNCHANGED <<closed, billed>>

Close ==
    /\ ~closed /\ closed'
    /\ charged = Recorded(usage) /\ billed' = charged
    /\ UNCHANGED <<phase, usage, charged>>

Reopen ==
    /\ closed /\ ~closed'
    /\ billed' = {}
    /\ UNCHANGED <<phase, usage, charged>>

Next == Close \/ Reopen \/ \E r \in Requests : Begin(r) \/ Record(r) \/ End(r)

Spec == Init /\ [][Next]_books
=============================================================================
