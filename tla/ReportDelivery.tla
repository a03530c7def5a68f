--------------------------- MODULE ReportDelivery ---------------------------
(***************************************************************************)
(* Delivery of one kind of report of one enterprise on one day             *)
(* (report-delivery-repository.ts, delivery.ts, delivery-scheduler.ts,     *)
(* delivery-cli.ts).  A report is frozen as a bundle of two messages, a    *)
(* picture and a text.  The scheduler of any worker, the reporting         *)
(* commands and an operator's controlled resend execute bundles at the     *)
(* same time; they meet in the message rows only.  A claim turns a row to  *)
(* SENDING under a new version and a lease of 90 seconds; each later write *)
(* of the executor is conditional on version, status and lease.            *)
(*                                                                         *)
(* Time is abstracted to its effects: a lease may run out at any moment,    *)
(* and every other look at the clock (a retry that is not due, the sending  *)
(* window, an operator's five minutes) may go either way.  The chat service *)
(* is external: a post may be taken or refused, and the answer to either    *)
(* may be lost.                                                            *)
(***************************************************************************)
EXTENDS Naturals, Sequences

CONSTANTS Bundles,       \* (report type, period, recipient): what freeze identifies
          Claims,        \* incentive claims: a day's, a week's, a month's award
          ClaimsOf,      \* the claims each bundle makes
          Workers,       \* processes of the scheduler
          Commands,      \* processes of the command line
          MaxAttempts,   \* automatic attempts of a message; 3 in the code
          MaxVersion,    \* bound of the model: attempts of a message, resends included
          NoOne, NoBundle

ASSUME DeliveryAssumption ==
    /\ MaxAttempts \in Nat \ {0} /\ MaxVersion \in Nat
    /\ ClaimsOf \in [Bundles -> SUBSET Claims]
    /\ NoOne \notin Workers /\ NoBundle \notin Bundles

Procs == Workers \cup Commands
Kinds == {"IMAGE", "TEXT"}
Messages == Bundles \X Kinds
Failures == {"RETRYABLE_FAILED", "PERMANENT_FAILED"}
Receipts == Failures \cup {"SENT", "UNKNOWN"}
Statuses == Receipts \cup {"PENDING", "SENDING"}

VARIABLES frozen,      \* bundles in report_delivery_bundle
          msg,         \* report_delivery_message
          log,         \* report_delivery_attempt: the attempts of a message, by version
          discovered,  \* report_delivery_schedule.status is DISCOVERED; no row and
                       \* BLOCKED both let the next tick look for recipients
          tick,        \* the tick that holds the advisory lock of this report type
          proc,        \* what each process is doing
          accepted,    \* versions of each message that the chat service took
          overrides    \* previous_version of its report_delivery_action rows whose
                       \* previous_status is UNKNOWN

vars == <<frozen, msg, log, discovered, tick, proc, accepted, overrides>>
ghosts == <<accepted, overrides>>

(* A process between two jobs; "seen" holds the kinds and versions an       *)
(* operator's preview showed, "allow" his --allow-unknown.                 *)
Idle == [pc |-> "idle", job |-> "none", bundle |-> NoBundle, kind |-> "IMAGE",
         version |-> 0, receipt |-> "UNKNOWN", seen |-> {}, allow |-> FALSE]
NoTick == [owner |-> NoOne, phase |-> "resume", todo |-> {}, closed |-> FALSE, failed |-> FALSE]
FreshMessageSkipped(s) ==   \* bug: a message nobody can receive is stored as SKIPPED
    [status |-> IF s = "PENDING" THEN s ELSE "SKIPPED", version |-> 0, lease |-> "none"]
FreshMessage(s) == [status |-> s, version |-> 0, lease |-> "none"]

Init ==
    /\ frozen = {}
    /\ msg = [m \in Messages |-> FreshMessage("PENDING")]
    /\ log = [m \in Messages |-> <<>>]
    /\ discovered = FALSE
    /\ tick = NoTick
    /\ proc = [p \in Procs |-> Idle]
    /\ accepted = [m \in Messages |-> {}]
    /\ overrides = [m \in Messages |-> {}]

----------------------------------------------------------------------------
(* The repository                                                          *)

(* expire: SENDING rows whose lease is over become UNKNOWN, with the        *)
(* attempt of that version.                                                *)
Overdue == {m \in Messages : msg[m].status = "SENDING" /\ msg[m].lease = "over"}
ExpiredMsg == [m \in Messages |->
    IF m \in Overdue THEN [msg[m] EXCEPT !.status = "UNKNOWN", !.lease = "none"] ELSE msg[m]]
ExpiredLogKept == log   \* bug: expire forgets the attempt
ExpiredLog == [m \in Messages |->
    IF m \in Overdue THEN [log[m] EXCEPT ![msg[m].version].status = "UNKNOWN"] ELSE log[m]]
ExpireTx == msg' = ExpiredMsg /\ log' = ExpiredLog

(* freeze: an identity that exists wins over new content; a claim held by  *)
(* another bundle refuses it.  The advisory locks on the identity and on   *)
(* every claim make the transaction one step.                              *)
ClaimHeld(b) == \E c \in frozen : ClaimsOf[c] \cap ClaimsOf[b] # {}
FreezeTx(b) ==
    \/ /\ b \in frozen
       /\ UNCHANGED <<frozen, msg, log>>
    \/ /\ b \notin frozen /\ ~ClaimHeld(b)
       /\ frozen' = frozen \cup {b}
       /\ \E s \in {"PENDING", "PERMANENT_FAILED"} :
            msg' = [m \in Messages |-> IF m[1] = b THEN FreshMessage(s) ELSE msg[m]]
       /\ UNCHANGED log

Current(p) == <<proc[p].bundle, proc[p].kind>>

(* claim: what the row, the picture's row and the operator's preview allow. *)
ClaimAutomaticUnknown(m) ==   \* bug: the scheduler retries what may have arrived
    /\ msg[m].status \in {"PENDING", "RETRYABLE_FAILED", "UNKNOWN"}
    /\ msg[m].version < MaxAttempts
ClaimAutomatic(m) ==
    /\ msg[m].status \in {"PENDING", "RETRYABLE_FAILED"}
    /\ msg[m].version < MaxAttempts
ClaimManual(p, m) ==
    /\ <<m[2], msg[m].version>> \in proc[p].seen
    /\ msg[m].status = "UNKNOWN" => proc[p].allow
Claimable(p, m) ==
    /\ msg[m].status \notin {"SENT", "SENDING"}
    /\ m[2] = "TEXT" => msg[<<m[1], "IMAGE">>].status = "SENT"
    /\ IF proc[p].job = "manual" THEN ClaimManual(p, m) ELSE ClaimAutomatic(m)

(* owns, and the condition of startMessageRequest and of finish.           *)
Owns(p, m) ==
    /\ msg[m].status = "SENDING"
    /\ msg[m].version = proc[p].version
    /\ msg[m].lease = "live"

(* finish: the row and the attempt take the receipt, if the claim is still  *)
(* the current one.                                                        *)
FinishTx(p, m, r) ==
    IF Owns(p, m)
      THEN /\ msg' = [msg EXCEPT ![m] = [@ EXCEPT !.status = r, !.lease = "none"]]
           /\ log' = [log EXCEPT ![m][proc[p].version].status = r]
      ELSE UNCHANGED <<msg, log>>

----------------------------------------------------------------------------
(* executeReportBundle                                                     *)

Goto(p, pc) == proc' = [proc EXCEPT ![p].pc = pc]
GotFrom(p, r, pc) == proc' = [proc EXCEPT ![p] = [@ EXCEPT !.receipt = r, !.pc = pc]]

(* summarizeMessages: a bundle that is not SENT may make the result of a     *)
(* discovery a failure; the jobs differ in how they sum up their recipients. *)
Delivered(rows, b) == \A k \in Kinds : rows[<<b, k>>].status = "SENT"

(* After the picture comes the text; after the text the tick goes on and   *)
(* any other job is done.                                                  *)
NextMessage(p) ==
    IF proc[p].kind = "IMAGE"
      THEN /\ proc' = [proc EXCEPT ![p] = [@ EXCEPT !.kind = "TEXT", !.pc = "claim",
                                                  !.version = 0, !.receipt = "UNKNOWN"]]
           /\ UNCHANGED tick
    ELSE IF proc[p].job = "tick"
      THEN /\ proc' = [proc EXCEPT ![p] = [Idle EXCEPT !.pc = "next", !.job = "tick"]]
           /\ \/ UNCHANGED tick
              \/ /\ tick.phase = "discover" /\ ~Delivered(msg', proc[p].bundle)
                 /\ tick' = [tick EXCEPT !.failed = TRUE]
      ELSE proc' = [proc EXCEPT ![p] = Idle] /\ UNCHANGED tick

Open(p) ==
    /\ proc[p].pc = "open"
    /\ ExpireTx
    /\ Goto(p, "claim")
    /\ UNCHANGED <<frozen, discovered, tick, ghosts>>

Claim(p) ==
    LET m == Current(p) IN
    /\ proc[p].pc = "claim"
    /\ Claimable(p, m)
    /\ msg[m].version < MaxVersion
    /\ msg' = [msg EXCEPT ![m] = [status |-> "SENDING", version |-> @.version + 1, lease |-> "live"]]
    /\ log' = [log EXCEPT ![m] = Append(@, [status |-> "SENDING", requested |-> FALSE])]
    /\ proc' = [proc EXCEPT ![p] = [@ EXCEPT !.version = msg[m].version + 1, !.pc = "prepare"]]
    /\ overrides' = IF proc[p].job = "manual" /\ msg[m].status = "UNKNOWN"
                      THEN [overrides EXCEPT ![m] = @ \cup {msg[m].version}] ELSE overrides
    /\ UNCHANGED <<frozen, discovered, tick, accepted>>

(* The row can not be claimed: as Claimable says, or because the retry is   *)
(* not due, the window closed or the operator's five minutes over.         *)
SkipMessage(p) ==
    /\ proc[p].pc = "claim"
    /\ UNCHANGED <<msg, log>>
    /\ NextMessage(p)
    /\ UNCHANGED <<frozen, discovered, ghosts>>

(* No endpoint, no chat identity, a closed guard, a failed upload or token:  *)
(* nothing was sent, whatever the receipt.                                 *)
NotSent(p) ==
    /\ proc[p].pc \in {"prepare", "send"}
    /\ \E r \in Failures : GotFrom(p, r, "finish")
    /\ UNCHANGED <<frozen, msg, log, discovered, tick, ghosts>>

Prepare(p) ==
    /\ proc[p].pc = "prepare"
    /\ Owns(p, Current(p))
    /\ Goto(p, "send")
    /\ UNCHANGED <<frozen, msg, log, discovered, tick, ghosts>>

StartMessageRequest(p) ==
    LET m == Current(p) IN
    /\ proc[p].pc = "send"
    /\ Owns(p, Current(p))
    /\ log' = [log EXCEPT ![m][proc[p].version].requested = TRUE]
    /\ Goto(p, "post")
    /\ UNCHANGED <<frozen, msg, discovered, tick, ghosts>>

(* The post.  Between startMessageRequest and here the process may have     *)
(* been stopped for any time.  parseReportReceipt: an error code is a       *)
(* refusal; an answer that is lost or can not be attributed is UNKNOWN.     *)
Refusal(r) == r \in Failures \cup {"UNKNOWN"}
Post(p) ==
    /\ proc[p].pc = "post"
    /\ \/ /\ accepted' = [accepted EXCEPT ![Current(p)] = @ \cup {proc[p].version}]
          /\ \E r \in {"SENT", "UNKNOWN"} : GotFrom(p, r, "finish")
       \/ /\ UNCHANGED accepted
          /\ \E r \in Receipts : Refusal(r) /\ GotFrom(p, r, "finish")
    /\ UNCHANGED <<frozen, msg, log, discovered, tick, overrides>>

Finish(p) ==
    /\ proc[p].pc \in {"finish", "refinish"}
    /\ FinishTx(p, Current(p), proc[p].receipt)
    /\ NextMessage(p)
    /\ UNCHANGED <<frozen, discovered, ghosts>>

(* finish throws, before or after its commit: the executor tries to store   *)
(* the doubt instead.                                                      *)
FinishThrows(p) ==
    /\ proc[p].pc = "finish"
    /\ FinishTx(p, Current(p), proc[p].receipt) \/ UNCHANGED <<msg, log>>
    /\ GotFrom(p, "UNKNOWN", "refinish")
    /\ UNCHANGED <<frozen, discovered, tick, ghosts>>

----------------------------------------------------------------------------
(* runReportDeliveryTick                                                   *)

(* One tick at a time holds the advisory lock of the day's report type: it  *)
(* resumes the frozen bundles before it looks for new ones.                *)
TickStart(p) ==
    /\ proc[p].pc = "idle"
    /\ tick.owner = NoOne
    /\ ExpireTx
    /\ tick' = [NoTick EXCEPT !.owner = p, !.todo = frozen, !.closed = discovered]
    /\ proc' = [proc EXCEPT ![p] = [@ EXCEPT !.pc = "next", !.job = "tick"]]
    /\ UNCHANGED <<frozen, discovered, ghosts>>

TickResume(p, b) ==
    /\ proc[p].pc = "next" /\ tick.phase = "resume" /\ b \in tick.todo
    /\ tick' = [tick EXCEPT !.todo = @ \ {b}]
    /\ proc' = [proc EXCEPT ![p] = [@ EXCEPT !.pc = "open", !.bundle = b]]
    /\ UNCHANGED <<frozen, msg, log, discovered, ghosts>>

(* A day that was DISCOVERED when the tick began is only resumed; dirty     *)
(* usage aggregates block new content.                                     *)
EndTick(p, complete) ==
    /\ discovered' = complete
    /\ tick' = NoTick
    /\ proc' = [proc EXCEPT ![p] = Idle]
TickResumed(p) ==
    /\ proc[p].pc = "next" /\ tick.phase = "resume" /\ tick.todo = {}
    /\ \/ EndTick(p, tick.closed /\ discovered)
       \/ /\ ~tick.closed
          /\ tick' = [tick EXCEPT !.phase = "discover", !.todo = Bundles]
          /\ UNCHANGED <<discovered, proc>>
    /\ UNCHANGED <<frozen, msg, log, ghosts>>

(* deliverReport for one recipient: frozen, or refused by a claim.         *)
TickDeliver(p, b) ==
    /\ proc[p].pc = "next" /\ tick.phase = "discover" /\ b \in tick.todo
    /\ \/ /\ FreezeTx(b)
          /\ tick' = [tick EXCEPT !.todo = @ \ {b}]
          /\ proc' = [proc EXCEPT ![p] = [@ EXCEPT !.pc = "open", !.bundle = b]]
       \/ /\ b \notin frozen /\ ClaimHeld(b)
          /\ tick' = [tick EXCEPT !.todo = @ \ {b}]
          /\ UNCHANGED <<frozen, msg, log, proc>>
    /\ UNCHANGED <<discovered, ghosts>>

(* An error of one recipient, before or after his bundle is frozen, which   *)
(* the job of personal reports catches.                                    *)
RecipientFails(p) ==
    /\ proc[p].job = "tick" /\ tick.phase = "discover"
    /\ \/ /\ proc[p].pc = "next"
          /\ \E b \in tick.todo : tick' = [tick EXCEPT !.todo = @ \ {b}, !.failed = TRUE]
          /\ UNCHANGED proc
       \/ /\ proc[p].pc \notin {"next", "blocked"}
          /\ tick' = [tick EXCEPT !.failed = TRUE]
          /\ proc' = [proc EXCEPT ![p] = [Idle EXCEPT !.pc = "next", !.job = "tick"]]
    /\ UNCHANGED <<frozen, msg, log, discovered, ghosts>>

DiscoveryCompleteAlways == TRUE   \* bug: a failed recipient does not reopen the day
DiscoveryComplete == ~tick.failed
TickEnd(p) ==
    /\ proc[p].pc = "next" /\ tick.phase = "discover" /\ tick.todo = {}
    /\ EndTick(p, DiscoveryComplete)
    /\ UNCHANGED <<frozen, msg, log, ghosts>>

(* An error nobody caught: the second finish, freeze, a query.  The tick    *)
(* loses its lock with its transaction, and only then stores BLOCKED: the   *)
(* tick of another worker may stand between the two.                       *)
Throw(p) ==
    /\ proc[p].pc \notin {"idle", "blocked"}
    /\ IF proc[p].job = "tick"
         THEN /\ proc' = [proc EXCEPT ![p] = [Idle EXCEPT !.pc = "blocked", !.job = "tick"]]
              /\ tick' = NoTick
         ELSE /\ proc' = [proc EXCEPT ![p] = Idle]
              /\ UNCHANGED tick
    /\ UNCHANGED <<frozen, msg, log, discovered, ghosts>>
SaveBlocked(p) ==
    /\ proc[p].pc = "blocked"
    /\ discovered' = FALSE
    /\ proc' = [proc EXCEPT ![p] = Idle]
    /\ UNCHANGED <<frozen, msg, log, tick, ghosts>>

Crash(p) ==
    /\ proc[p].pc # "idle"
    /\ proc' = [proc EXCEPT ![p] = Idle]
    /\ tick' = IF tick.owner = p THEN NoTick ELSE tick
    /\ UNCHANGED <<frozen, msg, log, discovered, ghosts>>

----------------------------------------------------------------------------
(* The commands                                                            *)

(* A reporting command delivers a report without the scheduler's lock.     *)
CommandDeliver(p, b) ==
    /\ proc[p].pc = "idle"
    /\ FreezeTx(b)
    /\ proc' = [proc EXCEPT ![p] = [@ EXCEPT !.pc = "open", !.job = "command", !.bundle = b]]
    /\ UNCHANGED <<discovered, tick, ghosts>>

(* report-delivery --execute: what the preview showed still holds, and an   *)
(* UNKNOWN message needs --allow-unknown.                                  *)
Previewed(b) ==
    {<<k, msg[<<b, k>>].version>> : k \in {j \in Kinds : msg[<<b, j>>].status \notin {"SENT", "SENDING"}}}
ManualResend(p, b) ==
    /\ proc[p].pc = "idle"
    /\ b \in frozen
    /\ \E allow \in BOOLEAN :
        /\ (\E k \in Kinds : msg[<<b, k>>].status = "UNKNOWN") => allow
        /\ proc' = [proc EXCEPT ![p] = [@ EXCEPT !.pc = "open", !.job = "manual", !.bundle = b,
                                         !.seen = Previewed(b), !.allow = allow]]
    /\ UNCHANGED <<frozen, msg, log, discovered, tick, ghosts>>

----------------------------------------------------------------------------
(* Time                                                                    *)

LeaseEnds(m) ==
    /\ msg[m].lease = "live"
    /\ msg' = [msg EXCEPT ![m].lease = "over"]
    /\ UNCHANGED <<frozen, log, discovered, tick, proc, ghosts>>

(* Every tick expires first, whether or not a report is due.               *)
Expire ==
    /\ Overdue # {}
    /\ ExpireTx
    /\ UNCHANGED <<frozen, discovered, tick, proc, ghosts>>

----------------------------------------------------------------------------
Executor(p) ==
    \/ Open(p) \/ Claim(p) \/ SkipMessage(p) \/ NotSent(p) \/ Prepare(p)
    \/ StartMessageRequest(p) \/ Post(p) \/ Finish(p) \/ FinishThrows(p)
Tick(p) ==
    \/ TickStart(p) \/ TickResumed(p) \/ TickEnd(p) \/ RecipientFails(p)
    \/ SaveBlocked(p)
    \/ \E b \in Bundles : TickResume(p, b) \/ TickDeliver(p, b)
Command(p) == \E b \in Bundles : CommandDeliver(p, b) \/ ManualResend(p, b)

Next ==
    \/ \E p \in Procs : Executor(p) \/ Throw(p) \/ Crash(p)
    \/ \E p \in Workers : Tick(p)
    \/ \E p \in Commands : Command(p)
    \/ \E m \in Messages : LeaseEnds(m)
    \/ Expire

Spec == Init /\ [][Next]_vars

----------------------------------------------------------------------------
(* Properties                                                              *)

Attempts == Seq([status : Receipts \cup {"SENDING"}, requested : BOOLEAN])
TypeOK ==
    /\ frozen \subseteq Bundles
    /\ msg \in [Messages -> [status : Statuses, version : 0..MaxVersion, lease : {"none", "live", "over"}]]
    /\ log \in [Messages -> Attempts]
    /\ discovered \in BOOLEAN
    /\ tick \in [owner : Workers \cup {NoOne}, phase : {"resume", "discover"},
                 todo : SUBSET Bundles, closed : BOOLEAN, failed : BOOLEAN]
    /\ proc \in [Procs -> [pc : {"idle", "next", "blocked", "open", "claim", "prepare", "send", "post",
                                 "finish", "refinish"},
                           job : {"none", "tick", "command", "manual"},
                           bundle : Bundles \cup {NoBundle}, kind : Kinds, version : 0..MaxVersion,
                           receipt : Receipts, seen : SUBSET (Kinds \X (0..MaxVersion)), allow : BOOLEAN]]
    /\ accepted \in [Messages -> SUBSET (1..MaxVersion)]
    /\ overrides \in [Messages -> SUBSET (1..MaxVersion)]

(* The attempts are the whole evidence: the last one agrees with the row,   *)
(* the earlier ones are closed, and each time the chat service took a      *)
(* message an attempt had been marked as requested before.                 *)
AttemptsTellAll ==
    \A m \in Messages :
        /\ Len(log[m]) = msg[m].version
        /\ msg[m].version > 0 => log[m][msg[m].version].status = msg[m].status
        /\ \A v \in 1..msg[m].version - 1 : log[m][v].status # "SENDING"
        /\ \A v \in accepted[m] : v \in 1..msg[m].version /\ log[m][v].requested

(* A day whose discovery is closed has a bundle for every recipient, except *)
(* where a claim of another bundle stands against it, whatever tick         *)
(* crashed, threw or was overtaken by a command before.                    *)
DiscoveredIsComplete ==
    discovered => \A b \in Bundles : b \in frozen \/ ClaimHeld(b)

(* What was promised: no message is sent twice without an operator's leave, *)
(* the text only after the confirmed picture, confirmed is for ever.       *)
PictureFirst(m, n) == m[1] = n[1] /\ m[2] = "IMAGE" /\ n[2] = "TEXT"
Sent == {m \in Messages : msg[m].status = "SENT"}
Promise == INSTANCE DeliveryPromise WITH
    Attempts <- 1..MaxVersion, Before <- PictureFirst,
    taken <- accepted, granted <- overrides, confirmed <- Sent
PromiseKept == Promise!Spec

=============================================================================
