------------------------ MODULE ReportDeliveryProofs ------------------------
(***************************************************************************)
(* ReportDelivery for all bundles, claims, processes and attempts, and its *)
(* implementation of DeliveryPromise.                                      *)
(*                                                                         *)
(* Two facts carry the promise.  The version of a claim is its fence: two   *)
(* executors of one message never have the same version, so that nobody     *)
(* but its owner writes SENT or a failure into an attempt.  And a claim is   *)
(* made on a message that is not SENT, not SENDING, and UNKNOWN only with   *)
(* an operator's leave: every earlier attempt that may have been taken, or   *)
(* may still be, has such a leave.                                         *)
(***************************************************************************)
EXTENDS ReportDelivery, SequenceTheorems, TLAPS

Executing == {"prepare", "send", "post", "finish", "refinish"}
Working == Executing \cup {"open", "claim"}
Attempt == [status : Receipts \cup {"SENDING"}, requested : BOOLEAN]
Doubtful == {"SENDING", "UNKNOWN"}

\* What the row of a message says about its attempts and about the other message.
MessageInv(m) ==
    /\ Len(log[m]) = msg[m].version
    /\ msg[m].version > 0 => log[m][msg[m].version].status = msg[m].status
    /\ msg[m].version = 0 => msg[m].status \in {"PENDING", "PERMANENT_FAILED"}
    /\ \A v \in 1..msg[m].version - 1 :
        /\ log[m][v].status \notin {"SENDING", "SENT"}
        /\ log[m][v].status = "UNKNOWN" => v \in overrides[m]
    /\ \A v \in accepted[m] :
        /\ v \in 1..msg[m].version
        /\ log[m][v].requested
        /\ log[m][v].status \in Doubtful \cup {"SENT"}
    /\ msg[m].status = "SENT" => msg[m].version \in accepted[m]
    /\ m[1] \notin frozen => msg[m].version = 0
    /\ m[2] = "TEXT" /\ msg[m].version > 0 => msg[<<m[1], "IMAGE">>].status = "SENT"

MessagesInv == \A m \in Messages : MessageInv(m)

\* What an executor knows of its attempt, wherever it was stopped.
ExecutorInv(p) ==
    /\ proc[p].pc \in Working => proc[p].bundle \in frozen
    /\ proc[p].pc \in Executing => proc[p].version \in 1..msg[Current(p)].version
    /\ proc[p].pc \in {"prepare", "send", "post"} => proc[p].version \notin accepted[Current(p)]
    /\ proc[p].pc = "post" =>
        /\ log[Current(p)][proc[p].version].requested
        /\ log[Current(p)][proc[p].version].status \in Doubtful
    /\ proc[p].pc \in {"finish", "refinish"} =>
        /\ proc[p].receipt \in Failures => proc[p].version \notin accepted[Current(p)]
        /\ proc[p].receipt = "SENT" => proc[p].version \in accepted[Current(p)]

ExecutorsInv == \A p \in Procs : ExecutorInv(p)

\* The version of a claim belongs to one executor.
ClaimsDistinct ==
    \A p, q \in Procs :
        /\ proc[p].pc \in Executing /\ proc[q].pc \in Executing
        /\ Current(p) = Current(q) /\ proc[p].version = proc[q].version
        => p = q

\* A tick resumes frozen bundles; a discovery without a failure has dealt with every
\* recipient that is not left to do.
DiscoveryInv ==
    /\ DiscoveredIsComplete
    /\ tick.phase = "resume" => tick.todo \subseteq frozen
    /\ tick.phase = "discover" /\ ~tick.failed =>
        \A b \in Bundles \ tick.todo : b \in frozen \/ ClaimHeld(b)

IInv == TypeOK /\ MessagesInv /\ ExecutorsInv /\ ClaimsDistinct /\ DiscoveryInv

SeenType == SUBSET (Kinds \X (0..MaxVersion))
ProcType ==
    [pc : {"idle", "next", "blocked", "open", "claim", "prepare", "send", "post", "finish", "refinish"},
     job : {"none", "tick", "command", "manual"}, bundle : Bundles \cup {NoBundle}, kind : Kinds,
     version : 0..MaxVersion, receipt : Receipts, seen : SeenType, allow : BOOLEAN]
TickType == [owner : Workers \cup {NoOne}, phase : {"resume", "discover"},
             todo : SUBSET Bundles, closed : BOOLEAN, failed : BOOLEAN]
RowType == [status : Statuses, version : 0..MaxVersion, lease : {"none", "live", "over"}]

----------------------------------------------------------------------------
(* Lemmas about attempts and rows                                          *)

\* Closing one attempt of a message leaves a log of the same length in which all other
\* attempts are as they were.
LEMMA ClosedAttempt ==
    ASSUME NEW s \in Seq(Attempt), NEW i \in 1..Len(s), NEW st \in Receipts \cup {"SENDING"}
    PROVE  /\ [s EXCEPT ![i].status = st] \in Seq(Attempt)
           /\ Len([s EXCEPT ![i].status = st]) = Len(s)
           /\ [s EXCEPT ![i].status = st][i].status = st
           /\ [s EXCEPT ![i].status = st][i].requested = s[i].requested
           /\ \A j \in 1..Len(s) \ {i} : [s EXCEPT ![i].status = st][j] = s[j]
<1>1. s[i] \in Attempt
    BY ElementOfSeq
<1>2. /\ [s[i] EXCEPT !.status = st] \in Attempt
      /\ [s[i] EXCEPT !.status = st].status = st
      /\ [s[i] EXCEPT !.status = st].requested = s[i].requested
    BY <1>1 DEF Attempt
<1>3. \A j \in 1..Len(s) : [s EXCEPT ![i].status = st][j]
                           = IF j = i THEN [s[i] EXCEPT !.status = st] ELSE s[j]
    BY <1>2, ExceptSeq
<1>4. QED
    BY <1>2, <1>3, ExceptSeq

\* The same for the mark of startMessageRequest.
LEMMA MarkedAttempt ==
    ASSUME NEW s \in Seq(Attempt), NEW i \in 1..Len(s)
    PROVE  /\ [s EXCEPT ![i].requested = TRUE] \in Seq(Attempt)
           /\ Len([s EXCEPT ![i].requested = TRUE]) = Len(s)
           /\ [s EXCEPT ![i].requested = TRUE][i].requested
           /\ [s EXCEPT ![i].requested = TRUE][i].status = s[i].status
           /\ \A j \in 1..Len(s) \ {i} : [s EXCEPT ![i].requested = TRUE][j] = s[j]
<1>1. s[i] \in Attempt
    BY ElementOfSeq
<1>2. /\ [s[i] EXCEPT !.requested = TRUE] \in Attempt
      /\ [s[i] EXCEPT !.requested = TRUE].status = s[i].status
      /\ [s[i] EXCEPT !.requested = TRUE].requested
    BY <1>1 DEF Attempt
<1>3. \A j \in 1..Len(s) : [s EXCEPT ![i].requested = TRUE][j]
                           = IF j = i THEN [s[i] EXCEPT !.requested = TRUE] ELSE s[j]
    BY <1>2, ExceptSeq
<1>4. QED
    BY <1>2, <1>3, ExceptSeq

\* A process that executes a bundle works on one of its messages.
LEMMA CurrentIsMessage ==
    ASSUME TypeOK, ExecutorsInv, NEW p \in Procs, proc[p].pc \in Working
    PROVE  /\ Current(p) \in Messages
           /\ proc[p].bundle \in frozen /\ proc[p].bundle \in Bundles
           /\ Current(p)[1] = proc[p].bundle /\ Current(p)[2] = proc[p].kind
BY DEF TypeOK, ExecutorsInv, ExecutorInv, Current, Messages

\* Closing the claim of a row.
LEMMA ClosedRow ==
    ASSUME NEW row \in RowType, NEW st \in Statuses
    PROVE  /\ [row EXCEPT !.status = st, !.lease = "none"].status = st
           /\ [row EXCEPT !.status = st, !.lease = "none"].version = row.version
           /\ [row EXCEPT !.status = st, !.lease = "none"].lease = "none"
           /\ [row EXCEPT !.status = st, !.lease = "none"] \in RowType
BY DEF RowType

\* The rows and logs, by message.
LEMMA RowsTyped ==
    ASSUME TypeOK
    PROVE  /\ msg \in [Messages -> RowType] /\ log \in [Messages -> Seq(Attempt)]
           /\ \A m \in Messages :
                /\ msg[m] \in RowType /\ msg[m].version \in Nat /\ msg[m].version <= MaxVersion
                /\ msg[m].status \in Statuses /\ log[m] \in Seq(Attempt)
                /\ accepted[m] \subseteq 1..MaxVersion /\ overrides[m] \subseteq 1..MaxVersion
<1>1. msg \in [Messages -> RowType] /\ log \in [Messages -> Seq(Attempt)]
    BY DEF TypeOK, RowType, Attempts, Attempt
<1>2. \A m \in Messages : msg[m] \in RowType /\ log[m] \in Seq(Attempt)
    BY <1>1
<1>3. \A row \in RowType : row.version \in 0..MaxVersion /\ row.status \in Statuses
    BY DEF RowType
<1>4. \A m \in Messages : accepted[m] \subseteq 1..MaxVersion /\ overrides[m] \subseteq 1..MaxVersion
    BY DEF TypeOK
<1>5. QED
    BY <1>1, <1>2, <1>3, <1>4, DeliveryAssumption DEF DeliveryAssumption

\* The last attempt of a message that is being sent is in its log.
LEMMA SendingIsLogged ==
    ASSUME TypeOK, MessagesInv, NEW m \in Messages, msg[m].status = "SENDING"
    PROVE  msg[m].version \in 1..Len(log[m])
<1>1. msg[m].version \in Nat
    BY RowsTyped
<1>2. msg[m].version # 0 /\ Len(log[m]) = msg[m].version
    BY DEF MessagesInv, MessageInv
<1>3. QED
    BY <1>1, <1>2

\* expire: the overdue messages and their last attempts become UNKNOWN together.
LEMMA ExpireEffect ==
    ASSUME TypeOK, MessagesInv, ExpireTx
    PROVE  /\ msg' \in [Messages -> RowType] /\ log' \in [Messages -> Seq(Attempt)]
           /\ \A m \in Messages \ Overdue : msg'[m] = msg[m] /\ log'[m] = log[m]
           /\ \A m \in Overdue :
                /\ msg[m].status = "SENDING" /\ msg[m].version \in 1..Len(log[m])
                /\ msg'[m].status = "UNKNOWN" /\ msg'[m].version = msg[m].version
                /\ msg'[m].lease = "none"
                /\ log'[m] = [log[m] EXCEPT ![msg[m].version].status = "UNKNOWN"]
<1>1. \A m \in Overdue : /\ m \in Messages /\ msg[m].status = "SENDING"
                          /\ msg[m] \in RowType /\ log[m] \in Seq(Attempt)
                          /\ msg[m].version \in 1..Len(log[m])
    BY RowsTyped, SendingIsLogged DEF Overdue
<1>2. \A m \in Overdue : [log[m] EXCEPT ![msg[m].version].status = "UNKNOWN"] \in Seq(Attempt)
    BY <1>1, ClosedAttempt DEF Receipts
<1>3. \A m \in Overdue : LET row == [msg[m] EXCEPT !.status = "UNKNOWN", !.lease = "none"]
                          IN  /\ row.status = "UNKNOWN" /\ row.version = msg[m].version
                              /\ row.lease = "none" /\ row \in RowType
  <2>1. SUFFICES ASSUME NEW m \in Overdue
                 PROVE  LET row == [msg[m] EXCEPT !.status = "UNKNOWN", !.lease = "none"]
                        IN  /\ row.status = "UNKNOWN" /\ row.version = msg[m].version
                            /\ row.lease = "none" /\ row \in RowType
    OBVIOUS
  <2>2. msg[m] \in RowType
    BY <1>1
  <2>3. "UNKNOWN" \in Statuses
    BY DEF Statuses, Receipts
  <2>4. QED
    BY <2>2, <2>3, ClosedRow
<1>4. \A m \in Messages : msg[m] \in RowType /\ log[m] \in Seq(Attempt)
    BY RowsTyped
<1>5. Overdue \subseteq Messages
    BY DEF Overdue
<1>6. msg' \in [Messages -> RowType]
    BY <1>3, <1>4 DEF ExpireTx, ExpiredMsg
<1>7. log' \in [Messages -> Seq(Attempt)]
    BY <1>2, <1>4 DEF ExpireTx, ExpiredLog
<1>8. QED
    BY <1>1, <1>3, <1>5, <1>6, <1>7 DEF ExpireTx, ExpiredMsg, ExpiredLog

\* finish writes the receipt into the row and its last attempt, or nothing at all.
LEMMA FinishEffect ==
    ASSUME TypeOK, MessagesInv, NEW p \in Procs, NEW m \in Messages, NEW r \in Receipts,
           FinishTx(p, m, r), Owns(p, m)
    PROVE  /\ msg' \in [Messages -> RowType] /\ log' \in [Messages -> Seq(Attempt)]
           /\ \A n \in Messages \ {m} : msg'[n] = msg[n] /\ log'[n] = log[n]
           /\ msg[m].status = "SENDING" /\ msg[m].version = proc[p].version
           /\ msg[m].version \in 1..Len(log[m])
           /\ msg'[m].status = r /\ msg'[m].version = msg[m].version /\ msg'[m].lease = "none"
           /\ log'[m] = [log[m] EXCEPT ![msg[m].version].status = r]
<1>1. /\ msg[m].status = "SENDING" /\ msg[m].version = proc[p].version
      /\ msg[m] \in RowType /\ log[m] \in Seq(Attempt)
      /\ msg[m].version \in 1..Len(log[m])
    BY RowsTyped, SendingIsLogged DEF Owns
<1>2. [log[m] EXCEPT ![msg[m].version].status = r] \in Seq(Attempt)
    BY <1>1, ClosedAttempt
<1>3. /\ [msg[m] EXCEPT !.status = r, !.lease = "none"].status = r
      /\ [msg[m] EXCEPT !.status = r, !.lease = "none"].version = msg[m].version
      /\ [msg[m] EXCEPT !.status = r, !.lease = "none"].lease = "none"
      /\ [msg[m] EXCEPT !.status = r, !.lease = "none"] \in RowType
  <2>1. r \in Statuses
    BY DEF Statuses
  <2>2. msg[m] \in RowType
    BY <1>1
  <2>3. QED
    BY <2>1, <2>2, ClosedRow
<1>4. /\ msg' = [msg EXCEPT ![m] = [msg[m] EXCEPT !.status = r, !.lease = "none"]]
      /\ log' = [log EXCEPT ![m] = [log[m] EXCEPT ![msg[m].version].status = r]]
    BY <1>1 DEF FinishTx
<1>5. msg \in [Messages -> RowType] /\ log \in [Messages -> Seq(Attempt)]
    BY RowsTyped
<1>6. QED
    BY <1>1, <1>2, <1>3, <1>4, <1>5

\* claim: a new attempt under the next version; the attempts before it stay.
LEMMA ClaimEffect ==
    ASSUME TypeOK, MessagesInv, ExecutorsInv, NEW p \in Procs, Claim(p),
           NEW m, m = Current(p)
    PROVE  /\ m \in Messages /\ m[1] \in frozen
           /\ msg' \in [Messages -> RowType] /\ log' \in [Messages -> Seq(Attempt)]
           /\ \A n \in Messages \ {m} : msg'[n] = msg[n] /\ log'[n] = log[n]
           /\ msg'[m].status = "SENDING" /\ msg'[m].version = msg[m].version + 1
           /\ msg[m].version + 1 \in 1..MaxVersion
           /\ Len(log'[m]) = Len(log[m]) + 1
           /\ \A i \in 1..Len(log[m]) : log'[m][i] = log[m][i]
           /\ log'[m][Len(log[m]) + 1].status = "SENDING"
<1> DEFINE row == [status |-> "SENDING", version |-> msg[m].version + 1, lease |-> "live"]
           new == [status |-> "SENDING", requested |-> FALSE]
<1>1. m \in Messages /\ m[1] \in frozen
    BY CurrentIsMessage DEF Claim, Working
<1>2. msg[m].version \in Nat /\ msg[m].version < MaxVersion /\ log[m] \in Seq(Attempt)
    BY <1>1, RowsTyped DEF Claim
<1>3. row \in RowType /\ msg[m].version + 1 \in 1..MaxVersion
    BY <1>2, DeliveryAssumption DEF RowType, Statuses, DeliveryAssumption
<1>4. new \in Attempt
    BY DEF Attempt
<1>5. /\ Append(log[m], new) \in Seq(Attempt)
      /\ Len(Append(log[m], new)) = Len(log[m]) + 1
      /\ \A i \in 1..Len(log[m]) : Append(log[m], new)[i] = log[m][i]
      /\ Append(log[m], new)[Len(log[m]) + 1] = new
    BY <1>2, <1>4, AppendProperties
<1>6. msg' = [msg EXCEPT ![m] = row] /\ log' = [log EXCEPT ![m] = Append(log[m], new)]
    BY DEF Claim
<1>7. msg \in [Messages -> RowType] /\ log \in [Messages -> Seq(Attempt)]
    BY RowsTyped
<1> HIDE DEF row, new
<1>8. /\ msg' \in [Messages -> RowType] /\ log' \in [Messages -> Seq(Attempt)]
      /\ msg'[m] = row /\ log'[m] = Append(log[m], new)
      /\ \A n \in Messages \ {m} : msg'[n] = msg[n] /\ log'[n] = log[n]
    BY <1>1, <1>3, <1>5, <1>6, <1>7
<1>9. row.status = "SENDING" /\ row.version = msg[m].version + 1 /\ new.status = "SENDING"
    BY DEF row, new
<1>10. QED
    BY <1>1, <1>3, <1>5, <1>8, <1>9

\* startMessageRequest: the mark on the attempt, which is still being sent.
LEMMA MarkEffect ==
    ASSUME TypeOK, MessagesInv, ExecutorsInv, NEW p \in Procs, StartMessageRequest(p),
           NEW m, m = Current(p)
    PROVE  /\ m \in Messages /\ msg[m].version = proc[p].version /\ msg[m].status = "SENDING"
           /\ proc[p].version \in 1..Len(log[m])
           /\ log' \in [Messages -> Seq(Attempt)]
           /\ \A n \in Messages \ {m} : log'[n] = log[n]
           /\ log'[m] = [log[m] EXCEPT ![proc[p].version].requested = TRUE]
<1>1. m \in Messages
    BY CurrentIsMessage DEF StartMessageRequest, Working, Executing
<1>2. /\ msg[m].version = proc[p].version /\ msg[m].status = "SENDING"
      /\ proc[p].version \in 1..Len(log[m]) /\ log[m] \in Seq(Attempt)
    BY <1>1, SendingIsLogged, RowsTyped DEF StartMessageRequest, Owns
<1>3. log' = [log EXCEPT ![m] = [log[m] EXCEPT ![proc[p].version].requested = TRUE]]
    BY <1>2 DEF StartMessageRequest
<1>4. [log[m] EXCEPT ![proc[p].version].requested = TRUE] \in Seq(Attempt)
    BY <1>2, MarkedAttempt
<1>5. log \in [Messages -> Seq(Attempt)]
    BY RowsTyped
<1>6. QED
    BY <1>1, <1>2, <1>3, <1>4, <1>5

\* freeze: the bundle is frozen afterwards, and only messages that did not exist change.
LEMMA FreezeEffect ==
    ASSUME TypeOK, MessagesInv, NEW b \in Bundles, FreezeTx(b)
    PROVE  /\ frozen' = frozen \cup {b} /\ log' = log
           /\ msg' \in [Messages -> RowType]
           /\ \A m \in Messages : m[1] \in frozen => msg'[m] = msg[m]
           /\ \A m \in Messages : m[1] \notin frozen =>
                /\ msg[m].version = 0 /\ msg'[m].version = 0
                /\ msg'[m].status \in {"PENDING", "PERMANENT_FAILED"}
<1>1. msg \in [Messages -> RowType]
    BY RowsTyped
<1>2. \A m \in Messages : m[1] \notin frozen =>
        /\ msg[m].version = 0 /\ msg[m].status \in {"PENDING", "PERMANENT_FAILED"}
    BY DEF MessagesInv, MessageInv
<1>3. CASE b \in frozen /\ UNCHANGED <<frozen, msg, log>>
    BY <1>1, <1>2, <1>3
<1>4. CASE /\ b \notin frozen /\ frozen' = frozen \cup {b} /\ UNCHANGED log
           /\ \E s \in {"PENDING", "PERMANENT_FAILED"} :
                msg' = [m \in Messages |-> IF m[1] = b THEN FreshMessage(s) ELSE msg[m]]
    <2>1. PICK s \in {"PENDING", "PERMANENT_FAILED"} :
            msg' = [m \in Messages |-> IF m[1] = b THEN FreshMessage(s) ELSE msg[m]]
        BY <1>4
    <2>2. FreshMessage(s) \in RowType /\ FreshMessage(s).version = 0 /\ FreshMessage(s).status = s
        BY DeliveryAssumption
        DEF FreshMessage, RowType, Statuses, Receipts, Failures, DeliveryAssumption
    <2> HIDE DEF FreshMessage
    <2>3. \A m \in Messages : msg'[m] = IF m[1] = b THEN FreshMessage(s) ELSE msg[m]
        BY <2>1
    <2>4. msg' \in [Messages -> RowType]
        BY <1>1, <2>1, <2>2
    <2>5. QED
        BY <1>2, <1>4, <2>2, <2>3, <2>4
<1>5. QED
    BY <1>3, <1>4 DEF FreezeTx

----------------------------------------------------------------------------
(* Types                                                                   *)

\* The updates of a process keep its type.
LEMMA UpdateTypes ==
    ASSUME NEW x \in ProcType
    PROVE  /\ \A c \in {"claim", "send", "post"} : [x EXCEPT !.pc = c] \in ProcType
           /\ \A v \in 0..MaxVersion : [x EXCEPT !.version = v, !.pc = "prepare"] \in ProcType
           /\ \A r \in Receipts, c \in {"finish", "refinish"} :
                [x EXCEPT !.receipt = r, !.pc = c] \in ProcType
           /\ [x EXCEPT !.kind = "TEXT", !.pc = "claim", !.version = 0, !.receipt = "UNKNOWN"]
                \in ProcType
           /\ [x EXCEPT !.pc = "next", !.job = "tick"] \in ProcType
           /\ \A b \in Bundles : /\ [x EXCEPT !.pc = "open", !.bundle = b] \in ProcType
                                 /\ [x EXCEPT !.pc = "open", !.job = "command", !.bundle = b]
                                        \in ProcType
           /\ \A b \in Bundles, seen \in SeenType, allow \in BOOLEAN :
                [x EXCEPT !.pc = "open", !.job = "manual", !.bundle = b, !.seen = seen,
                          !.allow = allow] \in ProcType
<1>1. \A c \in {"claim", "send", "post"} : [x EXCEPT !.pc = c] \in ProcType
    BY DEF ProcType
<1>2. \A v \in 0..MaxVersion : [x EXCEPT !.version = v, !.pc = "prepare"] \in ProcType
    BY DEF ProcType
<1>3. \A r \in Receipts, c \in {"finish", "refinish"} :
        [x EXCEPT !.receipt = r, !.pc = c] \in ProcType
    BY DEF ProcType
<1>4. [x EXCEPT !.kind = "TEXT", !.pc = "claim", !.version = 0, !.receipt = "UNKNOWN"] \in ProcType
    <2>1. 0 \in 0..MaxVersion /\ "UNKNOWN" \in Receipts /\ "TEXT" \in Kinds
        BY DeliveryAssumption DEF Kinds, Receipts, DeliveryAssumption
    <2>2. QED
        BY <2>1 DEF ProcType
<1>5. [x EXCEPT !.pc = "next", !.job = "tick"] \in ProcType
    BY DEF ProcType
<1>6. \A b \in Bundles : /\ [x EXCEPT !.pc = "open", !.bundle = b] \in ProcType
                         /\ [x EXCEPT !.pc = "open", !.job = "command", !.bundle = b] \in ProcType
    BY DEF ProcType
<1>7. ASSUME NEW b \in Bundles, NEW seen \in SeenType, NEW allow \in BOOLEAN
      PROVE  [x EXCEPT !.pc = "open", !.job = "manual", !.bundle = b, !.seen = seen,
                       !.allow = allow] \in ProcType
    BY DEF ProcType
<1>8. QED
    BY <1>1, <1>2, <1>3, <1>4, <1>5, <1>6, <1>7

\* What an operator has seen is a set of kinds and versions.
LEMMA PreviewType ==
    ASSUME TypeOK, NEW b \in Bundles PROVE Previewed(b) \in SeenType
<1>1. \A k \in Kinds : <<b, k>> \in Messages
    BY DEF Messages
<1>2. \A k \in Kinds : msg[<<b, k>>].version \in 0..MaxVersion
    BY <1>1, RowsTyped, DeliveryAssumption DEF DeliveryAssumption
<1>3. ASSUME NEW x \in Previewed(b) PROVE x \in Kinds \X (0..MaxVersion)
    <2>1. PICK k \in Kinds : x = <<k, msg[<<b, k>>].version>>
        BY <1>3 DEF Previewed
    <2>2. QED
        BY <1>2, <2>1
<1>4. QED
    BY <1>3 DEF SeenType

\* What the steps of an executor and of a tick leave in the process that took them.
LEMMA ProcStep ==
    ASSUME TypeOK, MessagesInv, ExecutorsInv, NEW p \in Procs,
           Executor(p) \/ Throw(p) \/ Crash(p) \/ (p \in Workers /\ Tick(p)) \/ Command(p)
    PROVE  proc' \in [Procs -> ProcType] /\ tick' \in TickType
<1>1. proc \in [Procs -> ProcType] /\ tick \in TickType
    BY DEF TypeOK, ProcType, SeenType, TickType
<1>2. Idle \in ProcType /\ NoTick \in TickType
    BY DeliveryAssumption
    DEF Idle, NoTick, ProcType, SeenType, TickType, Kinds, Receipts, DeliveryAssumption
<1>3. /\ [Idle EXCEPT !.pc = "next", !.job = "tick"] \in ProcType
      /\ [Idle EXCEPT !.pc = "blocked", !.job = "tick"] \in ProcType
    BY <1>2 DEF ProcType
<1>4. ASSUME NEW x \in ProcType, proc' = [proc EXCEPT ![p] = x] PROVE proc' \in [Procs -> ProcType]
    BY <1>1, <1>4
<1>5. proc[p] \in ProcType
    BY <1>1
<1> HIDE DEF Idle, NoTick
<1>6. ASSUME NextMessage(p) PROVE proc' \in [Procs -> ProcType] /\ tick' \in TickType
    <2>1. CASE proc[p].kind = "IMAGE"
        BY <1>1, <1>4, <1>5, <1>6, <2>1, UpdateTypes DEF NextMessage
    <2>2. CASE proc[p].kind # "IMAGE" /\ proc[p].job = "tick"
        <3>1. proc' \in [Procs -> ProcType]
            BY <1>3, <1>4, <1>6, <2>2 DEF NextMessage
        <3>2. tick' \in TickType
            BY <1>1, <1>6, <2>2 DEF NextMessage, TickType
        <3>3. QED
            BY <3>1, <3>2
    <2>3. CASE proc[p].kind # "IMAGE" /\ proc[p].job # "tick"
        BY <1>1, <1>2, <1>4, <1>6, <2>3 DEF NextMessage
    <2>4. QED
        BY <2>1, <2>2, <2>3
<1>7. CASE Open(p) \/ Prepare(p) \/ StartMessageRequest(p)
    BY <1>1, <1>5, <1>7, UpdateTypes DEF Open, Prepare, StartMessageRequest, Goto
<1>8. CASE Claim(p)
    <2>1. msg[Current(p)].version + 1 \in 0..MaxVersion
        BY <1>8, ClaimEffect
    <2>2. /\ proc' = [proc EXCEPT ![p] = [@ EXCEPT !.version = msg[Current(p)].version + 1,
                                                !.pc = "prepare"]]
          /\ UNCHANGED tick
        BY <1>8 DEF Claim
    <2>3. QED
        BY <1>1, <1>4, <1>5, <2>1, <2>2, UpdateTypes
<1>9. CASE SkipMessage(p) \/ Finish(p)
    BY <1>6, <1>9 DEF SkipMessage, Finish
<1>10. CASE NotSent(p) \/ Post(p) \/ FinishThrows(p)
    <2>1. /\ \E r \in Receipts, c \in {"finish", "refinish"} :
                proc' = [proc EXCEPT ![p] = [@ EXCEPT !.receipt = r, !.pc = c]]
          /\ UNCHANGED tick
        BY <1>10 DEF NotSent, Post, FinishThrows, GotFrom, Receipts
    <2>2. QED
        BY <1>1, <1>4, <1>5, <2>1, UpdateTypes
<1>11. CASE Throw(p) \/ Crash(p) \/ SaveBlocked(p) \/ TickEnd(p)
    BY <1>1, <1>2, <1>3, <1>4, <1>11 DEF Throw, Crash, SaveBlocked, TickEnd, EndTick
<1>12. CASE p \in Workers /\ TickStart(p)
    <2>1. /\ proc' = [proc EXCEPT ![p] = [@ EXCEPT !.pc = "next", !.job = "tick"]]
          /\ tick' = [NoTick EXCEPT !.owner = p, !.todo = frozen, !.closed = discovered]
        BY <1>12 DEF TickStart
    <2>2. frozen \subseteq Bundles /\ discovered \in BOOLEAN
        BY DEF TypeOK
    <2>3. tick' \in TickType
        BY <1>2, <1>12, <2>1, <2>2 DEF TickType
    <2>4. QED
        BY <1>4, <1>5, <2>1, <2>3, UpdateTypes
<1>13. CASE TickResumed(p)
    <2>1. tick' \in TickType
        BY <1>1, <1>2, <1>13 DEF TickResumed, EndTick, TickType
    <2>2. QED
        BY <1>1, <1>2, <1>4, <1>13, <2>1 DEF TickResumed, EndTick
<1>14. CASE RecipientFails(p)
    <2>1. tick' \in TickType
        BY <1>1, <1>14 DEF RecipientFails, TickType
    <2>2. QED
        BY <1>1, <1>3, <1>4, <1>14, <2>1 DEF RecipientFails
<1>15. CASE \E b \in Bundles : TickResume(p, b) \/ TickDeliver(p, b)
    <2>1. PICK b \in Bundles : TickResume(p, b) \/ TickDeliver(p, b)
        BY <1>15
    <2>2. /\ tick' = [tick EXCEPT !.todo = @ \ {b}]
          /\ UNCHANGED proc \/ proc' = [proc EXCEPT ![p] = [@ EXCEPT !.pc = "open", !.bundle = b]]
        BY <2>1 DEF TickResume, TickDeliver
    <2>3. tick' \in TickType
        BY <1>1, <2>2 DEF TickType
    <2>4. QED
        BY <1>1, <1>4, <1>5, <2>2, <2>3, UpdateTypes
<1>16. CASE Command(p)
    <2>1. CASE \E b \in Bundles : CommandDeliver(p, b)
        BY <1>1, <1>4, <1>5, <2>1, UpdateTypes DEF CommandDeliver
    <2>2. CASE \E b \in Bundles : ManualResend(p, b)
        <3>1. PICK b \in Bundles, allow \in BOOLEAN :
                /\ proc' = [proc EXCEPT ![p] = [@ EXCEPT !.pc = "open", !.job = "manual", !.bundle = b,
                                         !.seen = Previewed(b), !.allow = allow]]
                /\ UNCHANGED tick
            BY <2>2 DEF ManualResend
        <3>2. QED
            BY <1>1, <1>4, <1>5, <3>1, UpdateTypes, PreviewType
    <2>3. QED
        BY <1>16, <2>1, <2>2 DEF Command
<1>17. QED
    BY <1>7, <1>8, <1>9, <1>10, <1>11, <1>12, <1>13, <1>14, <1>15, <1>16 DEF Executor, Tick

----------------------------------------------------------------------------
(* What a step does to the rows and to the processes                       *)

Unmoved == UNCHANGED <<frozen, msg, log, ghosts>>
Expired == ExpireTx /\ UNCHANGED <<frozen, ghosts>>
Finished(p) ==
    /\ proc[p].pc \in {"finish", "refinish"}
    /\ Owns(p, Current(p)) /\ FinishTx(p, Current(p), proc[p].receipt)
    /\ UNCHANGED <<frozen, ghosts>>
Froze(b) == FreezeTx(b) /\ UNCHANGED ghosts
LeaseEnded(m) ==
    /\ msg[m].lease = "live" /\ msg' = [msg EXCEPT ![m].lease = "over"]
    /\ UNCHANGED <<frozen, log, ghosts>>

\* The rows change in eight ways.
AttemptStep(p) == Claim(p) \/ StartMessageRequest(p) \/ Post(p) \/ Finished(p)
RowStep(p) ==
    \/ Unmoved \/ Expired \/ AttemptStep(p)
    \/ \E b \in Bundles : Froze(b)
    \/ \E m \in Messages : LeaseEnded(m)

\* The step of one process.
ProcessStep(p) ==
    Executor(p) \/ Throw(p) \/ Crash(p) \/ (p \in Workers /\ Tick(p)) \/ Command(p)
ClockStep == (\E m \in Messages : LeaseEnds(m)) \/ Expire

\* Every step is that of a process or of the clock.
LEMMA StepCases == Next => (\E p \in Procs : ProcessStep(p)) \/ ClockStep
BY DEF Next, ProcessStep, ClockStep, Procs

LEMMA RowsOfProcess ==
    ASSUME NEW p \in Procs, ProcessStep(p) PROVE RowStep(p)
<1>1. CASE Open(p)
    BY <1>1 DEF Open, RowStep, Expired
<1>2. CASE Claim(p) \/ StartMessageRequest(p) \/ Post(p)
    BY <1>2 DEF RowStep, AttemptStep
<1>3. CASE SkipMessage(p) \/ NotSent(p) \/ Prepare(p) \/ Throw(p) \/ Crash(p)
    BY <1>3 DEF SkipMessage, NotSent, Prepare, Throw, Crash, RowStep, Unmoved
<1>4. CASE Finish(p)
    <2>1. /\ proc[p].pc \in {"finish", "refinish"} /\ UNCHANGED <<frozen, ghosts>>
          /\ FinishTx(p, Current(p), proc[p].receipt)
        BY <1>4 DEF Finish
    <2>2. CASE Owns(p, Current(p))
        BY <2>1, <2>2 DEF RowStep, AttemptStep, Finished
    <2>3. CASE ~Owns(p, Current(p))
        BY <2>1, <2>3 DEF RowStep, Unmoved, FinishTx
    <2>4. QED
        BY <2>2, <2>3
<1>5. CASE FinishThrows(p)
    <2>1. /\ proc[p].pc = "finish" /\ UNCHANGED <<frozen, ghosts>>
          /\ FinishTx(p, Current(p), proc[p].receipt) \/ UNCHANGED <<msg, log>>
        BY <1>5 DEF FinishThrows
    <2>2. CASE UNCHANGED <<msg, log>>
        BY <2>1, <2>2 DEF RowStep, Unmoved
    <2>3. CASE FinishTx(p, Current(p), proc[p].receipt) /\ Owns(p, Current(p))
        BY <2>1, <2>3 DEF RowStep, AttemptStep, Finished
    <2>4. CASE FinishTx(p, Current(p), proc[p].receipt) /\ ~Owns(p, Current(p))
        BY <2>1, <2>4 DEF RowStep, Unmoved, FinishTx
    <2>5. QED
        BY <2>1, <2>2, <2>3, <2>4
<1>6. CASE TickStart(p)
    BY <1>6 DEF TickStart, RowStep, Expired
<1>7. CASE TickResumed(p) \/ TickEnd(p) \/ RecipientFails(p) \/ SaveBlocked(p)
    BY <1>7 DEF TickResumed, TickEnd, RecipientFails, SaveBlocked, RowStep, Unmoved
<1>8. CASE \E b \in Bundles : TickResume(p, b) \/ ManualResend(p, b)
    BY <1>8 DEF TickResume, ManualResend, RowStep, Unmoved
<1>9. CASE \E b \in Bundles : TickDeliver(p, b)
    BY <1>9 DEF TickDeliver, RowStep, Unmoved, Froze
<1>10. CASE \E b \in Bundles : CommandDeliver(p, b)
    BY <1>10 DEF CommandDeliver, RowStep, Froze
<1>11. QED
    BY <1>1, <1>2, <1>3, <1>4, <1>5, <1>6, <1>7, <1>8, <1>9, <1>10
    DEF ProcessStep, Executor, Tick, Command

LEMMA RowsOfClock == ClockStep => Expired \/ \E m \in Messages : LeaseEnded(m)
BY DEF ClockStep, LeaseEnds, Expire, Expired, LeaseEnded

LEMMA RowCases ==
    Next => \/ Unmoved \/ Expired \/ \E p \in Procs : AttemptStep(p)
            \/ \E b \in Bundles : Froze(b)
            \/ \E m \in Messages : LeaseEnded(m)
BY StepCases, RowsOfProcess, RowsOfClock DEF RowStep

\* A step of p moves p only; unless it is a claim, p executes afterwards only what it
\* executed before.
LEMMA OneMoves ==
    ASSUME TypeOK, NEW p \in Procs, ProcessStep(p)
    PROVE  /\ \A q \in Procs \ {p} : proc'[q] = proc[q]
           /\ Claim(p) \/ proc'[p].pc \notin Executing
              \/ ( /\ proc[p].pc \in Executing /\ proc'[p].bundle = proc[p].bundle
                   /\ proc'[p].kind = proc[p].kind /\ proc'[p].version = proc[p].version)
<1>1. proc \in [Procs -> ProcType] /\ Idle.pc = "idle"
    BY DEF TypeOK, ProcType, SeenType, Idle
<1>2. /\ [Idle EXCEPT !.pc = "next", !.job = "tick"].pc = "next"
      /\ [Idle EXCEPT !.pc = "blocked", !.job = "tick"].pc = "blocked"
    BY DEF Idle
<1> HIDE DEF Idle
<1> USE <1>1, <1>2
<1>3. ASSUME NextMessage(p)
      PROVE  (\A q \in Procs \ {p} : proc'[q] = proc[q]) /\ proc'[p].pc \notin Executing
    <2>1. \E x : /\ proc' = [proc EXCEPT ![p] = x] /\ x.pc \in {"claim", "next", "idle"}
        <3>1. [proc[p] EXCEPT !.kind = "TEXT", !.pc = "claim", !.version = 0,
                              !.receipt = "UNKNOWN"].pc = "claim"
            BY DEF ProcType
        <3>2. QED
            BY <1>3, <3>1 DEF NextMessage
    <2>2. QED
        BY <2>1 DEF Executing
<1>4. CASE Open(p)
    BY <1>4 DEF Open, Goto, ProcType, Executing
<1>5. CASE Claim(p)
    BY <1>5 DEF Claim
<1>6. CASE SkipMessage(p) \/ Finish(p)
    BY <1>3, <1>6 DEF SkipMessage, Finish
<1>7. CASE NotSent(p) \/ Post(p)
    <2>1. /\ \E r \in Receipts : proc' = [proc EXCEPT ![p] = [@ EXCEPT !.receipt = r, !.pc = "finish"]]
          /\ proc[p].pc \in Executing
        BY <1>7 DEF NotSent, Post, GotFrom, Executing, Receipts
    <2>2. QED
        BY <2>1 DEF ProcType
<1>8. CASE Prepare(p) \/ StartMessageRequest(p)
    BY <1>8 DEF Prepare, StartMessageRequest, Goto, ProcType, Executing
<1>9. CASE FinishThrows(p)
    BY <1>9 DEF FinishThrows, GotFrom, ProcType, Executing
<1>10. CASE Throw(p) \/ Crash(p) \/ SaveBlocked(p) \/ TickEnd(p)
    BY <1>10 DEF Throw, Crash, SaveBlocked, TickEnd, EndTick, Executing
<1>11. CASE TickStart(p)
    BY <1>11 DEF TickStart, ProcType, Executing
<1>12. CASE TickResumed(p)
    BY <1>12 DEF TickResumed, EndTick, Executing
<1>13. CASE RecipientFails(p)
    BY <1>13 DEF RecipientFails, Executing
<1>14. CASE \E b \in Bundles : TickResume(p, b)
    BY <1>14 DEF TickResume, ProcType, Executing
<1>15. CASE \E b \in Bundles : TickDeliver(p, b)
    <2>1. \E b \in Bundles :
            \/ proc' = [proc EXCEPT ![p] = [@ EXCEPT !.pc = "open", !.bundle = b]]
            \/ UNCHANGED proc /\ proc[p].pc = "next"
        BY <1>15 DEF TickDeliver
    <2>2. \A b : [proc[p] EXCEPT !.pc = "open", !.bundle = b].pc = "open"
        BY DEF ProcType
    <2>3. QED
        BY <2>1, <2>2 DEF Executing
<1>16. CASE \E b \in Bundles : CommandDeliver(p, b)
    BY <1>16 DEF CommandDeliver, ProcType, Executing
<1>17. CASE \E b \in Bundles : ManualResend(p, b)
    BY <1>17 DEF ManualResend, ProcType, Executing
<1>18. QED
    BY <1>4, <1>5, <1>6, <1>7, <1>8, <1>9, <1>10, <1>11, <1>12, <1>13, <1>14, <1>15, <1>16, <1>17
    DEF ProcessStep, Executor, Tick, Command

----------------------------------------------------------------------------
(* The invariant                                                           *)

\* The initial state: nothing is frozen, nobody works.
LEMMA InitInv == Init => IInv
<1> SUFFICES ASSUME Init PROVE IInv
    OBVIOUS
<1>1. \A m \in Messages : /\ msg[m] = FreshMessage("PENDING") /\ log[m] = <<>>
                          /\ accepted[m] = {} /\ overrides[m] = {}
    BY DEF Init
<1>2. FreshMessage("PENDING").version = 0 /\ FreshMessage("PENDING").status = "PENDING"
    BY DEF FreshMessage
<1>3. TypeOK
    <2>1. /\ FreshMessage("PENDING") \in RowType /\ Idle \in ProcType /\ NoTick \in TickType
        BY DeliveryAssumption
        DEF FreshMessage, RowType, Statuses, Receipts, Failures, Idle, NoTick, ProcType, SeenType, TickType,
            Kinds, DeliveryAssumption
    <2>2. << >> \in Attempts
        BY DEF Attempts
    <2> HIDE DEF FreshMessage, Idle, NoTick
    <2>3. msg \in [Messages -> RowType] /\ proc \in [Procs -> ProcType] /\ tick \in TickType
        BY <2>1 DEF Init
    <2>4. QED
        BY <2>2, <2>3 DEF Init, TypeOK, RowType, ProcType, SeenType, TickType
<1>4. MessagesInv
    BY <1>1, <1>2 DEF MessagesInv, MessageInv
<1>5. ExecutorsInv /\ ClaimsDistinct
    BY DEF Init, Idle, ExecutorsInv, ExecutorInv, ClaimsDistinct, Working, Executing
<1>6. DiscoveryInv
    BY DEF Init, NoTick, DiscoveryInv, DiscoveredIsComplete
<1>7. QED
    BY <1>3, <1>4, <1>5, <1>6 DEF IInv

\* Types are kept.
LEMMA TypeStep == ASSUME IInv, Next PROVE TypeOK'
<1> USE DEF IInv
<1> DEFINE Rows == /\ frozen' \subseteq Bundles /\ msg' \in [Messages -> RowType]
                   /\ log' \in [Messages -> Seq(Attempt)]
           Ghosts == /\ accepted' \in [Messages -> SUBSET (1..MaxVersion)]
                     /\ overrides' \in [Messages -> SUBSET (1..MaxVersion)]
<1>1. proc' \in [Procs -> ProcType] /\ tick' \in TickType
    <2>1. CASE \E p \in Procs : ProcessStep(p)
        BY <2>1, ProcStep DEF ProcessStep
    <2>2. CASE ClockStep
        BY <2>2 DEF ClockStep, LeaseEnds, Expire, TypeOK, ProcType, SeenType, TickType
    <2>3. QED
        BY <2>1, <2>2, StepCases
<1>2. discovered' \in BOOLEAN
    <2>1. discovered' \in {discovered, TRUE, FALSE, tick.closed /\ discovered, ~tick.failed}
        BY DEF Next, Executor, Tick, Command, Open, Claim, SkipMessage, NotSent, Prepare,
            StartMessageRequest, Post, Finish, FinishThrows, Throw, Crash, TickStart, TickResumed,
            TickEnd, EndTick, RecipientFails, SaveBlocked, TickResume, TickDeliver, CommandDeliver,
            ManualResend, LeaseEnds, Expire, DiscoveryComplete
    <2>2. QED
        BY <2>1 DEF TypeOK
<1>3. /\ msg \in [Messages -> RowType] /\ log \in [Messages -> Seq(Attempt)]
      /\ frozen \subseteq Bundles
      /\ accepted \in [Messages -> SUBSET (1..MaxVersion)]
      /\ overrides \in [Messages -> SUBSET (1..MaxVersion)]
    BY RowsTyped DEF TypeOK
<1>4. Rows
    <2>1. CASE Unmoved
        BY <1>3, <2>1 DEF Unmoved
    <2>2. CASE Expired
        BY <1>3, <2>2, ExpireEffect DEF Expired
    <2>3. ASSUME NEW p \in Procs, Claim(p) PROVE Rows
        BY <1>3, <2>3, ClaimEffect DEF Claim
    <2>4. ASSUME NEW p \in Procs, StartMessageRequest(p) PROVE Rows
        BY <1>3, <2>4, MarkEffect DEF StartMessageRequest
    <2>5. ASSUME NEW p \in Procs, Post(p) PROVE Rows
        BY <1>3, <2>5 DEF Post
    <2>6. ASSUME NEW p \in Procs, Finished(p) PROVE Rows
        <3>1. Current(p) \in Messages /\ proc[p].receipt \in Receipts
            BY <2>6, CurrentIsMessage DEF Finished, Working, Executing, TypeOK
        <3>2. QED
            BY <1>3, <2>6, <3>1, FinishEffect DEF Finished
    <2>7. ASSUME NEW b \in Bundles, Froze(b) PROVE Rows
        BY <1>3, <2>7, FreezeEffect DEF Froze
    <2>8. ASSUME NEW m \in Messages, LeaseEnded(m) PROVE Rows
        <3>1. [msg[m] EXCEPT !.lease = "over"] \in RowType
            BY <1>3 DEF RowType
        <3>2. QED
            BY <1>3, <2>8, <3>1 DEF LeaseEnded
    <2>9. QED
        BY <2>1, <2>2, <2>3, <2>4, <2>5, <2>6, <2>7, <2>8, RowCases DEF AttemptStep
<1>5. Ghosts
    <2>1. CASE UNCHANGED ghosts
        BY <1>3, <2>1 DEF ghosts
    <2>2. ASSUME NEW p \in Procs, Claim(p) PROVE Ghosts
        <3>1. Current(p) \in Messages /\ msg[Current(p)].version \in 0..MaxVersion
            BY <2>2, ClaimEffect, RowsTyped, DeliveryAssumption DEF DeliveryAssumption
        <3>2. msg[Current(p)].status = "UNKNOWN" => msg[Current(p)].version \in 1..MaxVersion
            <4>1. MessageInv(Current(p))
                BY <3>1 DEF MessagesInv
            <4>2. QED
                BY <3>1, <4>1 DEF MessageInv
        <3>3. UNCHANGED accepted
              /\ \/ UNCHANGED overrides
                 \/ /\ msg[Current(p)].status = "UNKNOWN"
                    /\ overrides' = [overrides EXCEPT ![Current(p)] = @ \cup {msg[Current(p)].version}]
            BY <2>2 DEF Claim
        <3>4. QED
            BY <1>3, <3>1, <3>2, <3>3
    <2>3. ASSUME NEW p \in Procs, Post(p) PROVE Ghosts
        <3>1. proc[p].version \in 1..msg[Current(p)].version /\ Current(p) \in Messages
            BY <2>3, CurrentIsMessage DEF Post, Working, Executing, ExecutorsInv, ExecutorInv
        <3>2. proc[p].version \in 1..MaxVersion
            BY <3>1, RowsTyped, DeliveryAssumption DEF DeliveryAssumption
        <3>3. UNCHANGED overrides
              /\ \/ UNCHANGED accepted
                 \/ accepted' = [accepted EXCEPT ![Current(p)] = @ \cup {proc[p].version}]
            BY <2>3 DEF Post
        <3>4. QED
            BY <1>3, <3>1, <3>2, <3>3
    <2>4. QED
        BY <2>1, <2>2, <2>3, RowCases
        DEF AttemptStep, Unmoved, Expired, StartMessageRequest, Finished, Froze, LeaseEnded
<1>6. QED
    BY <1>1, <1>2, <1>4, <1>5 DEF TypeOK, ProcType, SeenType, TickType, RowType, Attempts, Attempt

\* A message whose row and attempts a step leaves alone stays in order, if its picture
\* does not cease to be SENT.
LEMMA MessageKept ==
    ASSUME IInv, NEW m \in Messages, frozen \subseteq frozen',
           msg'[m] = msg[m], log'[m] = log[m], accepted'[m] = accepted[m],
           overrides[m] \subseteq overrides'[m],
           msg[<<m[1], "IMAGE">>].status = "SENT" => msg'[<<m[1], "IMAGE">>].status = "SENT"
    PROVE  MessageInv(m)'
<1>1. MessageInv(m)
    BY DEF IInv, MessagesInv
<1>2. QED
    BY <1>1 DEF MessageInv, Doubtful

\* A text is not its own picture.
LEMMA PictureIsNoText == ASSUME NEW m, m[2] = "TEXT" PROVE <<m[1], "IMAGE">> # m
<1>1. <<m[1], "IMAGE">>[2] = "IMAGE"
    OBVIOUS
<1>2. QED
    BY <1>1

\* What a step does to the message it is about.
LEMMA MessagesStep == ASSUME IInv, Next PROVE MessagesInv'
<1> USE DEF IInv
<1>1. \A m \in Messages : /\ MessageInv(m) /\ <<m[1], "IMAGE">> \in Messages
                          /\ log[m] \in Seq(Attempt) /\ msg[m].version \in Nat
                          /\ Len(log[m]) = msg[m].version
    BY RowsTyped DEF MessagesInv, MessageInv, Messages, Kinds
<1>2. CASE Unmoved
    BY <1>2 DEF Unmoved, ghosts, MessagesInv, MessageInv
<1>3. CASE Expired
    <2> SUFFICES ASSUME NEW m \in Messages PROVE MessageInv(m)'
        BY DEF MessagesInv
    <2>1. /\ UNCHANGED <<frozen, accepted, overrides>>
          /\ msg[<<m[1], "IMAGE">>].status = "SENT" => msg'[<<m[1], "IMAGE">>].status = "SENT"
        BY <1>1, <1>3, ExpireEffect DEF Expired, ghosts
    <2>2. CASE m \notin Overdue
        BY <1>3, <2>1, <2>2, ExpireEffect, MessageKept DEF Expired
    <2>3. CASE m \in Overdue
        <3> DEFINE v == msg[m].version
        <3>1. /\ msg[m].status = "SENDING" /\ v \in 1..Len(log[m])
              /\ msg'[m].status = "UNKNOWN" /\ msg'[m].version = v
              /\ log'[m] = [log[m] EXCEPT ![v].status = "UNKNOWN"]
            BY <1>3, <2>3, ExpireEffect DEF Expired
        <3>2. /\ Len(log'[m]) = Len(log[m]) /\ log'[m][v].status = "UNKNOWN"
              /\ log'[m][v].requested = log[m][v].requested
              /\ \A j \in 1..Len(log[m]) \ {v} : log'[m][j] = log[m][j]
            BY <1>1, <3>1, ClosedAttempt DEF Receipts
        <3>3. QED
            BY <1>1, <2>1, <3>1, <3>2 DEF MessageInv, Doubtful
    <2>4. QED
        BY <2>2, <2>3
<1>4. ASSUME NEW p \in Procs, Claim(p) PROVE MessagesInv'
    <2>0. PICK m, v : m = Current(p) /\ v = msg[m].version
        OBVIOUS
    <2>1. /\ m \in Messages /\ m[1] \in frozen
          /\ \A n \in Messages \ {m} : msg'[n] = msg[n] /\ log'[n] = log[n]
          /\ msg'[m].status = "SENDING" /\ msg'[m].version = v + 1
          /\ Len(log'[m]) = Len(log[m]) + 1
          /\ \A i \in 1..Len(log[m]) : log'[m][i] = log[m][i]
          /\ log'[m][Len(log[m]) + 1].status = "SENDING"
        BY <1>4, <2>0, ClaimEffect
    <2>2. /\ UNCHANGED <<frozen, accepted>>
          /\ msg[m].status \notin {"SENT", "SENDING"}
          /\ m[2] = "TEXT" => msg[<<m[1], "IMAGE">>].status = "SENT"
        BY <1>4, <2>0 DEF Claim, Claimable
    <2>3. /\ \A n \in Messages : overrides[n] \subseteq overrides'[n]
          /\ msg[m].status = "UNKNOWN" => v \in overrides'[m]
        <3>1. \/ UNCHANGED overrides /\ msg[m].status # "UNKNOWN"
              \/ overrides' = [overrides EXCEPT ![m] = @ \cup {v}]
            BY <1>4, <2>0 DEF Claim, Claimable, ClaimAutomatic
        <3>2. overrides \in [Messages -> SUBSET (1..MaxVersion)]
            BY DEF TypeOK
        <3>3. QED
            BY <2>1, <3>1, <3>2
    <2>4. ASSUME NEW n \in Messages \ {m} PROVE MessageInv(n)'
        <3>1. msg[<<n[1], "IMAGE">>].status = "SENT" => msg'[<<n[1], "IMAGE">>].status = "SENT"
            BY <1>1, <2>1, <2>2
        <3>2. QED
            BY <2>1, <2>2, <2>3, <3>1, MessageKept
    <2>5. MessageInv(m)'
        <3>1. m[2] = "TEXT" => msg'[<<m[1], "IMAGE">>].status = "SENT"
            <4>1. <<m[1], "IMAGE">> \in Messages /\ (m[2] = "TEXT" => <<m[1], "IMAGE">> # m)
                BY <1>1, <2>1, PictureIsNoText
            <4>2. QED
                BY <2>1, <2>2, <4>1
        <3>2. MessageInv(m) /\ v \in Nat /\ Len(log[m]) = v
            BY <1>1, <2>0, <2>1
        <3>3. \A i \in 1..v : /\ log'[m][i].status \notin {"SENDING", "SENT"}
                              /\ log'[m][i].status = "UNKNOWN" => i \in overrides'[m]
            <4>1. overrides[m] \subseteq overrides'[m]
                BY <2>1, <2>3
            <4>2. ASSUME NEW i \in 1..v - 1
                  PROVE  /\ log'[m][i].status \notin {"SENDING", "SENT"}
                         /\ log'[m][i].status = "UNKNOWN" => i \in overrides'[m]
                <5>1. log'[m][i] = log[m][i] /\ i \in 1..msg[m].version - 1
                    BY <2>0, <2>1, <3>2
                <5>2. QED
                    BY <3>2, <4>1, <5>1 DEF MessageInv
            <4>3. CASE v > 0
                <5>1. log[m][msg[m].version].status = msg[m].status
                    BY <2>0, <3>2, <4>3 DEF MessageInv
                <5>2. v \in 1..Len(log[m]) /\ log[m][v].status = msg[m].status
                    BY <2>0, <3>2, <4>3, <5>1
                <5>3. log'[m][v] = log[m][v]
                    BY <2>1, <5>2
                <5>4. QED
                    BY <2>2, <2>3, <3>2, <4>2, <4>3, <5>2, <5>3
            <4>4. QED
                BY <3>2, <4>3
        <3>4. \A i \in accepted'[m] : /\ i \in 1..v + 1 /\ log'[m][i].requested
                                       /\ log'[m][i].status \in Doubtful \cup {"SENT"}
            BY <2>1, <2>2, <3>2 DEF MessageInv, Doubtful
        <3>5. QED
            BY <2>1, <2>2, <3>1, <3>2, <3>3, <3>4 DEF MessageInv
    <2>6. QED
        BY <2>4, <2>5 DEF MessagesInv
<1>5. ASSUME NEW p \in Procs, StartMessageRequest(p) PROVE MessagesInv'
    <2>0. PICK m, v : m = Current(p) /\ v = proc[p].version
        OBVIOUS
    <2>1. /\ m \in Messages /\ msg[m].version = v /\ v \in 1..Len(log[m])
          /\ \A n \in Messages \ {m} : log'[n] = log[n]
          /\ log'[m] = [log[m] EXCEPT ![v].requested = TRUE]
        BY <1>5, <2>0, MarkEffect
    <2>2. UNCHANGED <<frozen, msg, accepted, overrides>>
        BY <1>5 DEF StartMessageRequest, ghosts
    <2>3. ASSUME NEW n \in Messages \ {m} PROVE MessageInv(n)'
        BY <2>1, <2>2, <2>3, MessageKept
    <2>4. /\ Len(log'[m]) = Len(log[m]) /\ log'[m][v].status = log[m][v].status
          /\ log'[m][v].requested
          /\ \A j \in 1..Len(log[m]) \ {v} : log'[m][j] = log[m][j]
        BY <1>1, <2>1, MarkedAttempt
    <2>5. MessageInv(m)'
        <3>1. MessageInv(m)
            BY <1>1, <2>1
        <3>2. QED
            BY <2>1, <2>2, <2>4, <3>1 DEF MessageInv, Doubtful
    <2>6. QED
        BY <2>3, <2>5 DEF MessagesInv
<1>6. ASSUME NEW p \in Procs, Post(p) PROVE MessagesInv'
    <2>0. PICK m, v : m = Current(p) /\ v = proc[p].version
        OBVIOUS
    <2>1. /\ m \in Messages /\ v \in 1..msg[m].version
          /\ log[m][v].requested /\ log[m][v].status \in Doubtful
        BY <1>6, <2>0, CurrentIsMessage DEF Post, Working, Executing, ExecutorsInv, ExecutorInv
    <2>2. UNCHANGED <<frozen, msg, log, overrides>>
          /\ (UNCHANGED accepted \/ accepted' = [accepted EXCEPT ![m] = @ \cup {v}])
        BY <1>6, <2>0 DEF Post
    <2>3. \A n \in Messages : accepted'[n] = accepted[n] \/ (n = m /\ accepted'[n] = accepted[n] \cup {v})
        <3>1. accepted \in [Messages -> SUBSET (1..MaxVersion)]
            BY DEF TypeOK
        <3>2. QED
            BY <2>1, <2>2, <3>1
    <2>4. ASSUME NEW n \in Messages PROVE MessageInv(n)'
        BY <1>1, <2>1, <2>2, <2>3 DEF MessageInv
    <2>5. QED
        BY <2>4 DEF MessagesInv
<1>7. ASSUME NEW p \in Procs, Finished(p) PROVE MessagesInv'
    <2>0. PICK m, v, r : m = Current(p) /\ v = msg[m].version /\ r = proc[p].receipt
        OBVIOUS
    <2>1. /\ m \in Messages /\ r \in Receipts
          /\ r \in Failures => v \notin accepted[m]
          /\ r = "SENT" => v \in accepted[m]
          /\ v = proc[p].version
        BY <1>7, <2>0, CurrentIsMessage
        DEF Finished, Owns, Working, Executing, ExecutorsInv, ExecutorInv, TypeOK
    <2>2. /\ \A n \in Messages \ {m} : msg'[n] = msg[n] /\ log'[n] = log[n]
          /\ msg[m].status = "SENDING" /\ v \in 1..Len(log[m])
          /\ msg'[m].status = r /\ msg'[m].version = v
          /\ log'[m] = [log[m] EXCEPT ![v].status = r]
        <3>1. FinishTx(p, m, r) /\ Owns(p, m)
            BY <1>7, <2>0 DEF Finished
        <3>2. /\ \A n \in Messages \ {m} : msg'[n] = msg[n] /\ log'[n] = log[n]
              /\ msg[m].status = "SENDING" /\ msg[m].version \in 1..Len(log[m])
              /\ msg'[m].status = r /\ msg'[m].version = msg[m].version
              /\ log'[m] = [log[m] EXCEPT ![msg[m].version].status = r]
            BY <2>1, <3>1, FinishEffect
        <3>3. QED
            BY <2>0, <3>2
    <2>3. UNCHANGED <<frozen, accepted, overrides>>
        BY <1>7 DEF Finished, ghosts
    <2>4. ASSUME NEW n \in Messages \ {m} PROVE MessageInv(n)'
        <3>1. msg[<<n[1], "IMAGE">>].status = "SENT" => msg'[<<n[1], "IMAGE">>].status = "SENT"
            BY <1>1, <2>2
        <3>2. QED
            BY <2>2, <2>3, <3>1, MessageKept
    <2>5. /\ Len(log'[m]) = Len(log[m]) /\ log'[m][v].status = r
          /\ log'[m][v].requested = log[m][v].requested
          /\ \A j \in 1..Len(log[m]) \ {v} : log'[m][j] = log[m][j]
        BY <1>1, <2>1, <2>2, ClosedAttempt
    <2>6. m[2] = "TEXT" => msg'[<<m[1], "IMAGE">>].status = "SENT"
        <3>1. <<m[1], "IMAGE">> \in Messages /\ (m[2] = "TEXT" => <<m[1], "IMAGE">> # m)
            BY <1>1, <2>1, PictureIsNoText
        <3>2. QED
            BY <1>1, <2>1, <2>2, <3>1 DEF MessageInv
    <2>7. MessageInv(m) /\ Len(log[m]) = v /\ msg[m].version = v
        BY <1>1, <2>0, <2>1
    <2>8. MessageInv(m)'
        BY <2>1, <2>2, <2>3, <2>5, <2>6, <2>7 DEF MessageInv, Doubtful, Receipts
    <2>9. QED
        BY <2>4, <2>8 DEF MessagesInv
<1>8. ASSUME NEW b \in Bundles, Froze(b) PROVE MessagesInv'
    <2> SUFFICES ASSUME NEW m \in Messages PROVE MessageInv(m)'
        BY DEF MessagesInv
    <2>1. /\ UNCHANGED <<log, accepted, overrides>> /\ frozen \subseteq frozen'
          /\ msg[<<m[1], "IMAGE">>].status = "SENT" => msg'[<<m[1], "IMAGE">>].status = "SENT"
        <3>1. <<m[1], "IMAGE">>[1] = m[1]
            OBVIOUS
        <3>2. m[1] \notin frozen => msg[<<m[1], "IMAGE">>].status # "SENT"
            BY <1>1, <3>1 DEF MessageInv
        <3>3. QED
            BY <1>1, <1>8, <3>1, <3>2, FreezeEffect DEF Froze, ghosts
    <2>2. CASE m[1] \in frozen
        BY <1>8, <2>1, <2>2, FreezeEffect, MessageKept DEF Froze
    <2>3. CASE m[1] \notin frozen
        <3>1. /\ msg[m].version = 0 /\ msg'[m].version = 0
              /\ msg'[m].status \in {"PENDING", "PERMANENT_FAILED"}
            BY <1>8, <2>3, FreezeEffect DEF Froze
        <3>2. QED
            BY <1>1, <2>1, <3>1 DEF MessageInv
    <2>4. QED
        BY <2>2, <2>3
<1>9. ASSUME NEW x \in Messages, LeaseEnded(x) PROVE MessagesInv'
    <2>1. \A m \in Messages : msg'[m].status = msg[m].status /\ msg'[m].version = msg[m].version
        BY <1>9, RowsTyped DEF LeaseEnded, RowType
    <2>2. UNCHANGED <<frozen, log, accepted, overrides>>
        BY <1>9 DEF LeaseEnded, ghosts
    <2>3. ASSUME NEW m \in Messages PROVE MessageInv(m)'
        BY <1>1, <2>1, <2>2 DEF MessageInv
    <2>4. QED
        BY <2>3 DEF MessagesInv
<1>10. QED
    BY <1>2, <1>3, <1>4, <1>5, <1>6, <1>7, <1>8, <1>9, RowCases DEF AttemptStep

\* What is frozen stays so.
LEMMA FrozenGrows == ASSUME IInv, Next PROVE frozen \subseteq frozen' /\ frozen' \subseteq Bundles
<1>1. frozen \subseteq frozen'
    BY RowCases
    DEF Unmoved, Expired, AttemptStep, Claim, StartMessageRequest, Post, Finished, Froze, FreezeTx,
        LeaseEnded, ghosts
<1>2. QED
    BY <1>1, TypeStep DEF TypeOK

\* What a step of others leaves of the attempt an executor has under version v.
Kept(m, v) ==
    /\ msg[m].version <= msg'[m].version
    /\ v \in accepted'[m] <=> v \in accepted[m]
    /\ log[m][v].requested => log'[m][v].requested
    /\ log[m][v].status \in Doubtful => log'[m][v].status \in Doubtful

\* The version fences: whatever others do to the message, the attempt of an executor is
\* as he left it, or has become UNKNOWN.
LEMMA Fence ==
    ASSUME IInv, NEW q \in Procs, proc[q].pc \in Executing,
           NEW m, NEW v, m = Current(q), v = proc[q].version,
           \/ Unmoved \/ Expired \/ \E p \in Procs \ {q} : AttemptStep(p)
           \/ \E b \in Bundles : Froze(b)
           \/ \E x \in Messages : LeaseEnded(x)
    PROVE  Kept(m, v)
<1> USE DEF IInv
<1>1. /\ m \in Messages /\ m[1] \in frozen /\ v \in 1..msg[m].version
      /\ msg[m].version \in Nat /\ log[m] \in Seq(Attempt) /\ Len(log[m]) = msg[m].version
    BY CurrentIsMessage, RowsTyped DEF Working, ExecutorsInv, ExecutorInv, MessagesInv, MessageInv
<1>2. CASE Unmoved
    BY <1>1, <1>2 DEF Unmoved, ghosts, Kept
<1>3. CASE Expired
    <2>1. accepted' = accepted
        BY <1>3 DEF Expired, ghosts
    <2>2. CASE m \notin Overdue
        BY <1>1, <1>3, <2>1, <2>2, ExpireEffect DEF Expired, Kept
    <2>3. CASE m \in Overdue
        <3>1. /\ msg'[m].version = msg[m].version /\ msg[m].version \in 1..Len(log[m])
              /\ log'[m] = [log[m] EXCEPT ![msg[m].version].status = "UNKNOWN"]
            BY <1>3, <2>3, ExpireEffect DEF Expired
        <3>2. /\ log'[m][msg[m].version].status = "UNKNOWN"
              /\ log'[m][msg[m].version].requested = log[m][msg[m].version].requested
              /\ \A j \in 1..Len(log[m]) \ {msg[m].version} : log'[m][j] = log[m][j]
            BY <1>1, <3>1, ClosedAttempt DEF Receipts
        <3>3. CASE v = msg[m].version
            BY <1>1, <2>1, <3>1, <3>2, <3>3 DEF Kept, Doubtful
        <3>4. CASE v # msg[m].version
            <4>1. log'[m][v] = log[m][v]
                BY <1>1, <3>2, <3>4
            <4>2. msg'[m].version = msg[m].version
                BY <3>1
            <4>3. QED
                BY <1>1, <2>1, <4>1, <4>2 DEF Kept
        <3>5. QED
            BY <3>3, <3>4
    <2>4. QED
        BY <2>2, <2>3
<1>4. ASSUME NEW p \in Procs \ {q}, Claim(p) PROVE Kept(m, v)
    <2>1. PICK n : n = Current(p)
        OBVIOUS
    <2>2. /\ n \in Messages
          /\ \A x \in Messages \ {n} : msg'[x] = msg[x] /\ log'[x] = log[x]
          /\ msg'[n].version = msg[n].version + 1
          /\ \A i \in 1..Len(log[n]) : log'[n][i] = log[n][i]
        BY <1>4, <2>1, ClaimEffect
    <2>3. accepted' = accepted
        BY <1>4 DEF Claim
    <2>4. log'[m][v] = log[m][v] /\ msg[m].version <= msg'[m].version
        BY <1>1, <2>2
    <2>5. QED
        BY <2>3, <2>4 DEF Kept
<1>5. ASSUME NEW p \in Procs \ {q}, StartMessageRequest(p) PROVE Kept(m, v)
    <2>1. PICK n, w : n = Current(p) /\ w = proc[p].version
        OBVIOUS
    <2>2. /\ n \in Messages /\ w \in 1..Len(log[n])
          /\ \A x \in Messages \ {n} : log'[x] = log[x]
          /\ log'[n] = [log[n] EXCEPT ![w].requested = TRUE]
        BY <1>5, <2>1, MarkEffect
    <2>3. UNCHANGED <<msg, accepted>>
        BY <1>5 DEF StartMessageRequest, ghosts
    <2>4. CASE n = m
        <3>1. w \in 1..Len(log[m]) /\ log'[m] = [log[m] EXCEPT ![w].requested = TRUE]
            BY <2>2, <2>4
        <3>2. /\ log'[m][w].requested /\ log'[m][w].status = log[m][w].status
              /\ \A j \in 1..Len(log[m]) \ {w} : log'[m][j] = log[m][j]
            BY <1>1, <3>1, MarkedAttempt
        <3>3. QED
            BY <1>1, <2>3, <3>2 DEF Kept
    <2>5. CASE n # m
        BY <1>1, <2>2, <2>3, <2>5 DEF Kept
    <2>6. QED
        BY <2>4, <2>5
<1>6. ASSUME NEW p \in Procs \ {q}, Post(p) PROVE Kept(m, v)
    <2>1. ~(Current(p) = m /\ proc[p].version = v)
        BY <1>6 DEF ClaimsDistinct, Post, Executing
    <2>2. /\ UNCHANGED <<msg, log>>
          /\ (UNCHANGED accepted \/ accepted' = [accepted EXCEPT ![Current(p)] = @ \cup {proc[p].version}])
        BY <1>6 DEF Post
    <2>3. v \in accepted'[m] <=> v \in accepted[m]
        BY <1>1, <2>1, <2>2 DEF TypeOK
    <2>4. QED
        BY <1>1, <2>2, <2>3 DEF Kept
<1>7. ASSUME NEW p \in Procs \ {q}, Finished(p) PROVE Kept(m, v)
    <2>1. PICK n, w, r : n = Current(p) /\ w = msg[n].version /\ r = proc[p].receipt
        OBVIOUS
    <2>2. /\ n \in Messages /\ r \in Receipts /\ w = proc[p].version
          /\ FinishTx(p, n, r) /\ Owns(p, n)
        BY <1>7, <2>1, CurrentIsMessage DEF Finished, Owns, Working, Executing, TypeOK
    <2>3. ~(n = m /\ w = v)
        BY <1>7, <2>1, <2>2 DEF ClaimsDistinct, Finished, Executing
    <2>4. /\ \A x \in Messages \ {n} : msg'[x] = msg[x] /\ log'[x] = log[x]
          /\ msg[n].version \in 1..Len(log[n]) /\ msg'[n].version = msg[n].version
          /\ log'[n] = [log[n] EXCEPT ![msg[n].version].status = r]
        BY <2>2, FinishEffect
    <2>5. accepted' = accepted
        BY <1>7 DEF Finished, ghosts
    <2>6. CASE n = m
        <3>1. \A j \in 1..Len(log[m]) \ {w} : log'[m][j] = log[m][j]
            BY <1>1, <2>1, <2>2, <2>4, <2>6, ClosedAttempt
        <3>2. log'[m][v] = log[m][v]
            BY <1>1, <2>3, <2>6, <3>1
        <3>3. QED
            BY <1>1, <2>4, <2>5, <2>6, <3>2 DEF Kept
    <2>7. CASE n # m
        BY <1>1, <2>4, <2>5, <2>7 DEF Kept
    <2>8. QED
        BY <2>6, <2>7
<1>8. ASSUME NEW b \in Bundles, Froze(b) PROVE Kept(m, v)
    BY <1>1, <1>8, FreezeEffect DEF Froze, ghosts, Kept
<1>9. ASSUME NEW x \in Messages, LeaseEnded(x) PROVE Kept(m, v)
    <2>1. msg'[m].version = msg[m].version
        BY <1>1, <1>9, RowsTyped DEF LeaseEnded, RowType
    <2>2. QED
        BY <1>1, <1>9, <2>1 DEF LeaseEnded, ghosts, Kept
<1>10. QED
    BY <1>2, <1>3, <1>4, <1>5, <1>6, <1>7, <1>8, <1>9 DEF AttemptStep

\* An executor who does not move keeps what he knows.
LEMMA OthersStep ==
    ASSUME IInv, Next, NEW q \in Procs, proc'[q] = proc[q],
           \/ Unmoved \/ Expired \/ \E p \in Procs \ {q} : AttemptStep(p)
           \/ \E b \in Bundles : Froze(b)
           \/ \E x \in Messages : LeaseEnded(x)
    PROVE  ExecutorInv(q)'
<1>1. ExecutorInv(q)
    BY DEF IInv, ExecutorsInv
<1>2. Current(q)' = Current(q)
    BY DEF Current
<1>3. proc[q].pc \in Working => proc[q].bundle \in frozen'
    BY <1>1, FrozenGrows DEF ExecutorInv
<1>4. CASE proc[q].pc \notin Executing
    BY <1>1, <1>3, <1>4 DEF ExecutorInv, Executing
<1>5. CASE proc[q].pc \in Executing
    <2>1. PICK m, v : m = Current(q) /\ v = proc[q].version
        OBVIOUS
    <2>2. Kept(m, v)
        BY <1>5, <2>1, Fence
    <2>3. m \in Messages /\ msg[m].version \in Nat /\ v \in 1..msg[m].version
        BY <1>1, <1>5, <2>1, CurrentIsMessage, RowsTyped DEF IInv, Working, ExecutorInv
    <2>4. msg'[m].version \in Nat
        BY <2>3, TypeStep, DeliveryAssumption DEF TypeOK, DeliveryAssumption
    <2>5. v \in 1..msg'[m].version
        BY <2>2, <2>3, <2>4 DEF Kept
    <2>6. QED
        BY <1>1, <1>2, <1>3, <2>1, <2>2, <2>5 DEF ExecutorInv, Kept
<1>6. QED
    BY <1>4, <1>5

\* A process that executes nothing only has to know a frozen bundle.
LEMMA AtRest ==
    ASSUME NEW p \in Procs, proc'[p].pc \notin Executing,
           proc'[p].pc \in Working => proc'[p].bundle \in frozen'
    PROVE  ExecutorInv(p)'
BY DEF ExecutorInv, Executing, Working

\* The executor who takes a step knows afterwards what his new place says.
LEMMA MoverStep == ASSUME IInv, Next, NEW p \in Procs, ProcessStep(p) PROVE ExecutorInv(p)'
<1> USE DEF IInv
<1>1. /\ proc \in [Procs -> ProcType] /\ proc[p] \in ProcType /\ ExecutorInv(p)
      /\ frozen \subseteq frozen' /\ Idle.pc = "idle"
    BY FrozenGrows DEF TypeOK, ProcType, SeenType, ExecutorsInv, Idle
<1>2. /\ [Idle EXCEPT !.pc = "next", !.job = "tick"].pc = "next"
      /\ [Idle EXCEPT !.pc = "blocked", !.job = "tick"].pc = "blocked"
    BY DEF Idle
<1> HIDE DEF Idle
<1> USE <1>1, <1>2
<1>3. ASSUME proc[p].pc \in Working, NextMessage(p) PROVE ExecutorInv(p)'
    <2>1. \E x : /\ proc' = [proc EXCEPT ![p] = x]
                 /\ (x.pc = "claim" /\ x.bundle = proc[p].bundle) \/ x.pc \in {"next", "idle"}
        <3>1. LET x == [proc[p] EXCEPT !.kind = "TEXT", !.pc = "claim", !.version = 0,
                                       !.receipt = "UNKNOWN"]
              IN  x.pc = "claim" /\ x.bundle = proc[p].bundle
            BY DEF ProcType
        <3>2. QED
            BY <1>3, <3>1 DEF NextMessage
    <2>2. /\ proc'[p].pc \in {"claim", "next", "idle"}
          /\ proc'[p].pc = "claim" => proc'[p].bundle = proc[p].bundle
        BY <2>1
    <2>3. QED
        BY <1>3, <2>2, AtRest DEF Executing, Working, ExecutorInv
<1>4. CASE Open(p)
    <2>1. proc'[p].pc = "claim" /\ proc'[p].bundle = proc[p].bundle /\ proc[p].bundle \in frozen
        BY <1>4 DEF Open, Goto, ProcType, ExecutorInv, Working
    <2>2. QED
        BY <2>1, AtRest DEF Executing
<1>5. CASE Claim(p)
    <2>1. PICK m : m = Current(p)
        OBVIOUS
    <2>2. /\ m \in Messages /\ m[1] \in frozen /\ msg'[m].version = msg[m].version + 1
          /\ msg[m].version + 1 \in 1..MaxVersion
        BY <1>5, <2>1, ClaimEffect
    <2>3. proc' = [proc EXCEPT ![p] = [@ EXCEPT !.version = msg[m].version + 1, !.pc = "prepare"]]
        BY <1>5, <2>1 DEF Claim
    <2>4. /\ proc'[p].pc = "prepare" /\ proc'[p].version = msg[m].version + 1
          /\ proc'[p].bundle = proc[p].bundle /\ proc'[p].kind = proc[p].kind
        BY <2>3 DEF ProcType
    <2>5. Current(p)' = m /\ proc[p].bundle \in frozen
        BY <1>5, <2>1, <2>4 DEF Current, Claim, ExecutorInv, Working
    <2>6. msg[m].version + 1 \notin accepted'[m]
        <3>1. accepted[m] \subseteq 1..msg[m].version /\ msg[m].version \in Nat
            BY <2>2, RowsTyped DEF MessagesInv, MessageInv
        <3>2. QED
            BY <1>5, <3>1 DEF Claim
    <2>7. proc'[p].version \in 1..msg'[m].version
        BY <2>2, <2>4
    <2>8. QED
        BY <2>4, <2>5, <2>6, <2>7 DEF ExecutorInv
<1>6. CASE SkipMessage(p) \/ Finish(p)
    BY <1>3, <1>6 DEF SkipMessage, Finish, Working, Executing
<1>7. CASE NotSent(p)
    <2>1. PICK r \in Failures : proc' = [proc EXCEPT ![p] = [@ EXCEPT !.receipt = r, !.pc = "finish"]]
        BY <1>7 DEF NotSent, GotFrom
    <2>2. /\ proc'[p].pc = "finish" /\ proc'[p].receipt = r /\ proc'[p].version = proc[p].version
          /\ proc'[p].bundle = proc[p].bundle /\ proc'[p].kind = proc[p].kind
        BY <2>1 DEF ProcType
    <2>3. UNCHANGED <<frozen, msg, accepted>> /\ proc[p].pc \in {"prepare", "send"}
        BY <1>7 DEF NotSent, ghosts
    <2>4. QED
        BY <2>2, <2>3 DEF ExecutorInv, Current, Working, Executing, Failures
<1>8. CASE Prepare(p)
    <2>1. /\ proc'[p].pc = "send" /\ proc'[p].version = proc[p].version
          /\ proc'[p].bundle = proc[p].bundle /\ proc'[p].kind = proc[p].kind
        BY <1>8 DEF Prepare, Goto, ProcType
    <2>2. UNCHANGED <<frozen, msg, accepted>> /\ proc[p].pc = "prepare"
        BY <1>8 DEF Prepare, ghosts
    <2>3. QED
        BY <2>1, <2>2 DEF ExecutorInv, Current, Working, Executing
<1>9. CASE StartMessageRequest(p)
    <2>1. /\ proc'[p].pc = "post" /\ proc'[p].version = proc[p].version
          /\ proc'[p].bundle = proc[p].bundle /\ proc'[p].kind = proc[p].kind
        BY <1>9 DEF StartMessageRequest, Goto, ProcType
    <2>2. UNCHANGED <<frozen, msg, accepted>> /\ proc[p].pc = "send"
        BY <1>9 DEF StartMessageRequest, ghosts
    <2>3. PICK m, v : m = Current(p) /\ v = proc[p].version
        OBVIOUS
    <2>4. /\ m \in Messages /\ msg[m].version = v /\ msg[m].status = "SENDING"
          /\ v \in 1..Len(log[m]) /\ log'[m] = [log[m] EXCEPT ![v].requested = TRUE]
        BY <1>9, <2>3, MarkEffect
    <2>5. log'[m][v].requested /\ log'[m][v].status = log[m][v].status
        BY <2>4, RowsTyped, MarkedAttempt
    <2>6. log[m][v].status = "SENDING"
        <3>1. MessageInv(m)
            BY <2>4 DEF MessagesInv
        <3>2. QED
            BY <2>4, <3>1 DEF MessageInv
    <2>7. Current(p)' = m /\ proc'[p].version = v
        BY <2>1, <2>3 DEF Current
    <2>8. /\ proc[p].bundle \in frozen /\ v \in 1..msg[m].version /\ v \notin accepted[m]
        BY <2>2, <2>3 DEF ExecutorInv, Working, Executing
    <2>9. QED
        BY <2>1, <2>2, <2>5, <2>6, <2>7, <2>8 DEF ExecutorInv, Doubtful
<1>10. CASE Post(p)
    <2>1. PICK m, v : m = Current(p) /\ v = proc[p].version
        OBVIOUS
    <2>2. /\ m \in Messages /\ proc[p].bundle \in frozen /\ v \in 1..msg[m].version
          /\ v \notin accepted[m]
        BY <1>10, <2>1, CurrentIsMessage DEF Post, ExecutorInv, Working, Executing
    <2>3. PICK r \in Receipts :
            /\ proc' = [proc EXCEPT ![p] = [@ EXCEPT !.receipt = r, !.pc = "finish"]]
            /\ \/ accepted' = [accepted EXCEPT ![m] = @ \cup {v}] /\ r \notin Failures
               \/ accepted' = accepted /\ r # "SENT"
        BY <1>10, <2>1 DEF Post, GotFrom, Refusal, Receipts, Failures
    <2>4. /\ proc'[p].pc = "finish" /\ proc'[p].receipt = r /\ proc'[p].version = v
          /\ proc'[p].bundle = proc[p].bundle /\ proc'[p].kind = proc[p].kind
        BY <2>1, <2>3 DEF ProcType
    <2>5. Current(p)' = m
        BY <2>1, <2>4 DEF Current
    <2>6. /\ r \in Failures => v \notin accepted'[m]
          /\ r = "SENT" => v \in accepted'[m]
        BY <2>2, <2>3 DEF TypeOK
    <2>7. UNCHANGED <<frozen, msg>>
        BY <1>10 DEF Post
    <2>8. QED
        BY <2>2, <2>4, <2>5, <2>6, <2>7 DEF ExecutorInv
<1>11. CASE FinishThrows(p)
    <2>1. /\ proc' = [proc EXCEPT ![p] = [@ EXCEPT !.receipt = "UNKNOWN", !.pc = "refinish"]]
          /\ UNCHANGED frozen /\ proc[p].pc = "finish"
        BY <1>11 DEF FinishThrows, GotFrom
    <2>2. /\ proc'[p].pc = "refinish" /\ proc'[p].receipt = "UNKNOWN"
          /\ proc'[p].version = proc[p].version
          /\ proc'[p].bundle = proc[p].bundle /\ proc'[p].kind = proc[p].kind
        BY <2>1 DEF ProcType
    <2>3. PICK m : m = Current(p)
        OBVIOUS
    <2>4. m \in Messages /\ proc[p].receipt \in Receipts
        BY <2>1, <2>3, CurrentIsMessage DEF Working, Executing, ProcType
    <2>5. msg'[m].version = msg[m].version
        <3>1. CASE FinishTx(p, m, proc[p].receipt) /\ Owns(p, m)
            BY <2>4, <3>1, FinishEffect
        <3>2. CASE UNCHANGED msg
            BY <3>2
        <3>3. QED
            BY <1>11, <2>3, <3>1, <3>2 DEF FinishThrows, FinishTx
    <2>6. Current(p)' = m /\ proc[p].bundle \in frozen /\ proc[p].version \in 1..msg[m].version
        BY <2>1, <2>2, <2>3 DEF Current, ExecutorInv, Working, Executing
    <2>7. QED
        BY <2>1, <2>2, <2>5, <2>6 DEF ExecutorInv, Failures
<1>12. CASE Throw(p) \/ Crash(p) \/ SaveBlocked(p) \/ TickEnd(p)
    BY <1>12, AtRest DEF Throw, Crash, SaveBlocked, TickEnd, EndTick, Executing, Working
<1>13. CASE TickStart(p)
    <2>1. proc'[p].pc = "next"
        BY <1>13 DEF TickStart, ProcType
    <2>2. QED
        BY <2>1, AtRest DEF Executing, Working
<1>14. CASE TickResumed(p)
    BY <1>14, AtRest DEF TickResumed, EndTick, Executing, Working
<1>15. CASE RecipientFails(p)
    <2>1. proc'[p].pc = "next"
        BY <1>15 DEF RecipientFails
    <2>2. QED
        BY <2>1, AtRest DEF Executing, Working
<1>16. ASSUME NEW b \in Bundles,
              proc' = [proc EXCEPT ![p] = [@ EXCEPT !.pc = "open", !.bundle = b]], b \in frozen'
       PROVE  ExecutorInv(p)'
    <2>1. proc'[p].pc = "open" /\ proc'[p].bundle = b
        BY <1>16 DEF ProcType
    <2>2. QED
        BY <1>16, <2>1, AtRest DEF Executing
<1>17. CASE \E b \in Bundles : TickResume(p, b)
    BY <1>16, <1>17 DEF TickResume, DiscoveryInv
<1>18. CASE \E b \in Bundles : TickDeliver(p, b)
    <2>1. PICK b \in Bundles : TickDeliver(p, b)
        BY <1>18
    <2>2. CASE proc' = [proc EXCEPT ![p] = [@ EXCEPT !.pc = "open", !.bundle = b]] /\ FreezeTx(b)
        BY <1>16, <2>2, FreezeEffect
    <2>3. CASE UNCHANGED proc /\ proc[p].pc = "next"
        BY <2>3, AtRest DEF Executing, Working
    <2>4. QED
        BY <2>1, <2>2, <2>3 DEF TickDeliver
<1>19. CASE Command(p)
    <2>1. PICK b \in Bundles : CommandDeliver(p, b) \/ ManualResend(p, b)
        BY <1>19 DEF Command
    <2>2. b \in frozen'
        BY <2>1, FreezeEffect DEF CommandDeliver, ManualResend
    <2>3. proc'[p].pc = "open" /\ proc'[p].bundle = b
        <3>1. CASE CommandDeliver(p, b)
            BY <3>1 DEF CommandDeliver, ProcType
        <3>2. CASE ManualResend(p, b)
            <4>1. PICK allow \in BOOLEAN :
                    proc' = [proc EXCEPT ![p] = [@ EXCEPT !.pc = "open", !.job = "manual", !.bundle = b,
                                             !.seen = Previewed(b), !.allow = allow]]
                BY <3>2 DEF ManualResend
            <4>2. QED
                BY <4>1 DEF ProcType
        <3>3. QED
            BY <2>1, <3>1, <3>2
    <2>4. QED
        BY <2>2, <2>3, AtRest DEF Executing
<1>20. QED
    BY <1>4, <1>5, <1>6, <1>7, <1>8, <1>9, <1>10, <1>11, <1>12, <1>13, <1>14, <1>15, <1>17, <1>18, <1>19
    DEF ProcessStep, Executor, Tick

\* All executors.
LEMMA ExecutorsStep == ASSUME IInv, Next PROVE ExecutorsInv'
<1> SUFFICES ASSUME NEW q \in Procs PROVE ExecutorInv(q)'
    BY DEF ExecutorsInv
<1>1. ASSUME NEW p \in Procs, ProcessStep(p) PROVE ExecutorInv(q)'
    <2>1. CASE p = q
        BY <1>1, <2>1, MoverStep
    <2>2. CASE p # q
        <3>1. proc'[q] = proc[q]
            BY <1>1, <2>2, OneMoves DEF IInv
        <3>2. \/ Unmoved \/ Expired \/ \E x \in Procs \ {q} : AttemptStep(x)
              \/ \E b \in Bundles : Froze(b)
              \/ \E x \in Messages : LeaseEnded(x)
            BY <1>1, <2>2, RowsOfProcess DEF RowStep
        <3>3. QED
            BY <3>1, <3>2, OthersStep
    <2>3. QED
        BY <2>1, <2>2
<1>2. CASE ClockStep
    <2>1. proc' = proc
        BY <1>2 DEF ClockStep, LeaseEnds, Expire
    <2>2. QED
        BY <1>2, <2>1, RowsOfClock, OthersStep
<1>3. QED
    BY <1>1, <1>2, StepCases

\* A claim takes a version nobody has.
LEMMA ClaimsStep == ASSUME IInv, Next PROVE ClaimsDistinct'
<1> USE DEF IInv
<1>1. ASSUME NEW p \in Procs, ProcessStep(p) PROVE ClaimsDistinct'
    <2>1. \A q \in Procs \ {p} : proc'[q] = proc[q]
        BY <1>1, OneMoves
    <2> SUFFICES ASSUME NEW q \in Procs \ {p}, proc'[p].pc \in Executing, proc'[q].pc \in Executing,
                        Current(p)' = Current(q)', proc'[p].version = proc'[q].version
                 PROVE  FALSE
        BY <2>1 DEF ClaimsDistinct, Current
    <2>2. proc[q].pc \in Executing /\ Current(q)' = Current(q) /\ proc'[q].version = proc[q].version
        BY <2>1 DEF Current
    <2>3. CASE Claim(p)
        <3>1. PICK m : m = Current(p)
            OBVIOUS
        <3>2. m \in Messages /\ msg[m].version + 1 \in 1..MaxVersion
            BY <2>3, <3>1, ClaimEffect
        <3>3. Current(p)' = m /\ proc'[p].version = msg[m].version + 1
            <4>1. proc' = [proc EXCEPT ![p] = [@ EXCEPT !.version = msg[m].version + 1, !.pc = "prepare"]]
                BY <2>3, <3>1 DEF Claim
            <4>2. proc[p] \in ProcType /\ proc \in [Procs -> ProcType]
                BY DEF TypeOK, ProcType, SeenType
            <4>3. /\ proc'[p].version = msg[m].version + 1
                  /\ proc'[p].bundle = proc[p].bundle /\ proc'[p].kind = proc[p].kind
                BY <4>1, <4>2 DEF ProcType
            <4>4. QED
                BY <3>1, <4>3 DEF Current
        <3>4. proc[q].version \in 1..msg[m].version /\ msg[m].version \in Nat
            BY <2>2, <3>2, <3>3, RowsTyped DEF ExecutorsInv, ExecutorInv
        <3>5. QED
            BY <2>2, <3>3, <3>4
    <2>4. CASE ~Claim(p)
        <3>1. /\ proc[p].pc \in Executing /\ Current(p)' = Current(p)
              /\ proc'[p].version = proc[p].version
            BY <1>1, <2>4, OneMoves DEF Current
        <3>2. QED
            BY <2>2, <3>1 DEF ClaimsDistinct
    <2>5. QED
        BY <2>3, <2>4
<1>2. CASE ClockStep
    <2>1. proc' = proc
        BY <1>2 DEF ClockStep, LeaseEnds, Expire
    <2>2. QED
        BY <2>1 DEF ClaimsDistinct, Current
<1>3. QED
    BY <1>1, <1>2, StepCases

\* A bundle that is frozen, or refused by a claim, stays so.
LEMMA CoveredKept ==
    ASSUME frozen \subseteq frozen', NEW b, b \in frozen \/ ClaimHeld(b)
    PROVE  b \in frozen' \/ ClaimHeld(b)'
BY DEF ClaimHeld

\* The discovery of a day.
LEMMA DiscoveryStep == ASSUME IInv, Next PROVE DiscoveryInv'
<1> USE DEF IInv
<1>1. /\ tick \in TickType /\ frozen \subseteq frozen' /\ frozen' \subseteq Bundles
      /\ NoTick.phase = "resume" /\ NoTick.todo = {}
    BY FrozenGrows DEF TypeOK, TickType, NoTick
<1> HIDE DEF NoTick
<1>2. \A b \in Bundles : b \in frozen \/ ClaimHeld(b) => b \in frozen' \/ ClaimHeld(b)'
    BY <1>1, CoveredKept
<1>3. ASSUME discovered' => discovered,
             \/ tick' = tick \/ tick' = NoTick
             \/ tick'.phase = "discover" /\ tick'.failed
      PROVE  DiscoveryInv'
    BY <1>1, <1>2, <1>3 DEF DiscoveryInv, DiscoveredIsComplete
<1>4. CASE UNCHANGED <<discovered, tick>>
    BY <1>3, <1>4
<1>5. ASSUME NEW p \in Procs, NextMessage(p), UNCHANGED discovered PROVE DiscoveryInv'
    <2>1. tick' = tick \/ (tick.phase = "discover" /\ tick' = [tick EXCEPT !.failed = TRUE])
        BY <1>5 DEF NextMessage
    <2>2. tick' = tick \/ (tick'.phase = "discover" /\ tick'.failed)
        BY <1>1, <2>1 DEF TickType
    <2>3. QED
        BY <1>3, <1>5, <2>2
<1>6. ASSUME NEW p \in Procs, TickStart(p) PROVE DiscoveryInv'
    <2>1. tick'.phase = "resume" /\ tick'.todo = frozen /\ UNCHANGED discovered
        BY <1>6 DEF TickStart, NoTick
    <2>2. QED
        BY <1>1, <1>2, <2>1 DEF DiscoveryInv, DiscoveredIsComplete
<1>7. ASSUME NEW p \in Procs, NEW b \in Bundles, TickResume(p, b) PROVE DiscoveryInv'
    <2>1. /\ tick'.phase = "resume" /\ tick'.todo = tick.todo \ {b} /\ UNCHANGED discovered
          /\ tick.phase = "resume"
        BY <1>1, <1>7 DEF TickResume, TickType
    <2>2. QED
        BY <1>1, <1>2, <2>1 DEF DiscoveryInv, DiscoveredIsComplete
<1>8. ASSUME NEW p \in Procs, TickResumed(p) PROVE DiscoveryInv'
    <2>1. CASE EndTick(p, tick.closed /\ discovered)
        BY <1>3, <2>1 DEF EndTick
    <2>2. CASE tick' = [tick EXCEPT !.phase = "discover", !.todo = Bundles] /\ UNCHANGED discovered
        <3>1. tick'.phase = "discover" /\ tick'.todo = Bundles
            BY <1>1, <2>2 DEF TickType
        <3>2. QED
            BY <1>2, <2>2, <3>1 DEF DiscoveryInv, DiscoveredIsComplete
    <2>3. QED
        BY <1>8, <2>1, <2>2 DEF TickResumed
<1>9. ASSUME NEW p \in Procs, NEW b \in Bundles, TickDeliver(p, b) PROVE DiscoveryInv'
    <2>1. /\ tick'.phase = "discover" /\ tick'.todo = tick.todo \ {b} /\ tick'.failed = tick.failed
          /\ tick.phase = "discover" /\ UNCHANGED discovered
        BY <1>1, <1>9 DEF TickDeliver, TickType
    <2>2. b \in frozen' \/ ClaimHeld(b)'
        <3>1. CASE FreezeTx(b)
            BY <3>1, FreezeEffect
        <3>2. CASE ClaimHeld(b)
            BY <1>2, <3>2
        <3>3. QED
            BY <1>9, <3>1, <3>2 DEF TickDeliver
    <2>3. QED
        BY <1>2, <2>1, <2>2 DEF DiscoveryInv, DiscoveredIsComplete
<1>10. ASSUME NEW p \in Procs, RecipientFails(p) PROVE DiscoveryInv'
    <2>1. tick'.phase = "discover" /\ tick'.failed /\ UNCHANGED discovered
        BY <1>1, <1>10 DEF RecipientFails, TickType
    <2>2. QED
        BY <1>3, <2>1
<1>11. ASSUME NEW p \in Procs, TickEnd(p) PROVE DiscoveryInv'
    <2>1. /\ discovered' = ~tick.failed /\ tick' = NoTick
          /\ tick.phase = "discover" /\ tick.todo = {}
        BY <1>11 DEF TickEnd, EndTick, DiscoveryComplete
    <2>2. QED
        BY <1>1, <1>2, <2>1 DEF DiscoveryInv, DiscoveredIsComplete
<1>12. ASSUME NEW p \in Procs, Throw(p) \/ SaveBlocked(p) \/ Crash(p) PROVE DiscoveryInv'
    BY <1>3, <1>12 DEF Throw, SaveBlocked, Crash
<1>13. ASSUME NEW p \in Procs, ProcessStep(p) PROVE DiscoveryInv'
    <2>1. CASE Executor(p)
        BY <1>4, <1>5, <2>1
        DEF Executor, Open, Claim, SkipMessage, NotSent, Prepare, StartMessageRequest, Post, Finish,
            FinishThrows
    <2>2. CASE p \in Workers /\ Tick(p)
        BY <1>6, <1>7, <1>8, <1>9, <1>10, <1>11, <1>12, <2>2 DEF Tick
    <2>3. CASE Command(p)
        BY <1>4, <2>3 DEF Command, CommandDeliver, ManualResend
    <2>4. QED
        BY <1>12, <1>13, <2>1, <2>2, <2>3 DEF ProcessStep
<1>14. CASE ClockStep
    BY <1>4, <1>14 DEF ClockStep, LeaseEnds, Expire
<1>15. QED
    BY <1>13, <1>14, StepCases

\* IInv holds in every reachable state.
LEMMA Invariance == Spec => []IInv
<1>1. ASSUME IInv, [Next]_vars PROVE IInv'
    <2>1. CASE Next
        BY <1>1, <2>1, TypeStep, MessagesStep, ExecutorsStep, ClaimsStep, DiscoveryStep DEF IInv
    <2>2. CASE UNCHANGED vars
        BY <1>1, <2>2
        DEF vars, ghosts, IInv, TypeOK, MessagesInv, MessageInv, ExecutorsInv, ExecutorInv,
            ClaimsDistinct, DiscoveryInv, DiscoveredIsComplete, ClaimHeld, Current
    <2>3. QED
        BY <1>1, <2>1, <2>2
<1>2. QED
    BY <1>1, InitInv, PTL DEF Spec

----------------------------------------------------------------------------
(* The theorems                                                            *)

\* Every variable has its type in every reachable state, for any bundles and processes:
\* no executor has a version its message has not reached, and versions stay in bounds.
THEOREM TypeCorrect == Spec => []TypeOK
BY Invariance, PTL DEF IInv

\* The attempts of a message are the whole evidence of what was posted
\* (report_delivery_attempt beside report_delivery_message).
THEOREM AttemptsComplete == Spec => []AttemptsTellAll
<1>1. ASSUME IInv PROVE AttemptsTellAll
    <2> SUFFICES ASSUME NEW m \in Messages
                 PROVE  /\ Len(log[m]) = msg[m].version
                        /\ msg[m].version > 0 => log[m][msg[m].version].status = msg[m].status
                        /\ \A v \in 1..msg[m].version - 1 : log[m][v].status # "SENDING"
                        /\ \A v \in accepted[m] : v \in 1..msg[m].version /\ log[m][v].requested
        BY DEF AttemptsTellAll
    <2>1. MessageInv(m)
        BY <1>1 DEF IInv, MessagesInv
    <2>2. QED
        BY <2>1 DEF MessageInv
<1>2. QED
    BY <1>1, Invariance, PTL

\* A DISCOVERED day has dealt with every recipient, whichever tick set it
\* (report_delivery_schedule).
THEOREM DiscoveryIsComplete == Spec => []DiscoveredIsComplete
BY Invariance, PTL DEF IInv, DiscoveryInv

\* The SENT messages, when no row changes its status.
LEMMA SentKept ==
    ASSUME \A m \in Messages : msg'[m].status = "SENT" <=> msg[m].status = "SENT"
    PROVE  Sent' = Sent
BY DEF Sent

\* Of two attempts of a message that the chat service took, or may take, the earlier one
\* has an operator's leave.
LEMMA EarlierHasLeave ==
    ASSUME IInv, NEW m \in Messages, NEW v \in 1..msg[m].version, NEW w \in 1..msg[m].version,
           v < w, log[m][v].status \in Doubtful \cup {"SENT"}
    PROVE  v \in overrides[m]
<1>1. MessageInv(m) /\ msg[m].version \in Nat
    BY RowsTyped DEF IInv, MessagesInv
<1>2. v \in 1..msg[m].version - 1
    BY <1>1
<1>3. QED
    BY <1>1, <1>2 DEF MessageInv, Doubtful

\* Every step of ReportDelivery is a step of DeliveryPromise or changes nothing it sees.
LEMMA PromiseStep == ASSUME IInv, Next PROVE Promise!Next \/ UNCHANGED <<accepted, overrides, Sent>>
<1> USE DEF IInv
<1>1. CASE Unmoved
    BY <1>1, SentKept DEF Unmoved, ghosts
<1>2. CASE Expired
    <2>1. \A m \in Messages : msg'[m].status = "SENT" <=> msg[m].status = "SENT"
        BY <1>2, ExpireEffect DEF Expired
    <2>2. QED
        BY <1>2, <2>1, SentKept DEF Expired, ghosts
<1>3. ASSUME NEW p \in Procs, Claim(p) PROVE Promise!Next \/ UNCHANGED <<accepted, overrides, Sent>>
    <2>1. PICK m, v : m = Current(p) /\ v = msg[m].version
        OBVIOUS
    <2>2. /\ m \in Messages /\ msg'[m].status = "SENDING" /\ msg[m].status # "SENT"
          /\ \A n \in Messages \ {m} : msg'[n] = msg[n]
        BY <1>3, <2>1, ClaimEffect DEF Claim, Claimable
    <2>3. UNCHANGED <<accepted, Sent>>
        BY <1>3, <2>2, SentKept DEF Claim
    <2>4. CASE overrides' = overrides
        BY <2>3, <2>4
    <2>5. CASE overrides' # overrides
        <3>1. msg[m].status = "UNKNOWN" /\ overrides' = [overrides EXCEPT ![m] = @ \cup {v}]
            BY <1>3, <2>1, <2>5 DEF Claim
        <3>2. v \in 1..MaxVersion
            <4>1. MessageInv(m) /\ v \in Nat /\ v <= MaxVersion
                BY <2>1, <2>2, RowsTyped DEF MessagesInv
            <4>2. v # 0
                BY <2>1, <3>1, <4>1 DEF MessageInv
            <4>3. QED
                BY <4>1, <4>2, DeliveryAssumption DEF DeliveryAssumption
        <3>3. m \notin Sent
            BY <3>1 DEF Sent
        <3>4. Promise!Grant(m, v)
            BY <2>3, <3>1, <3>3 DEF Promise!Grant
        <3>5. QED
            BY <2>2, <3>2, <3>4 DEF Promise!Next
    <2>6. QED
        BY <2>4, <2>5
<1>4. ASSUME NEW p \in Procs, StartMessageRequest(p) PROVE UNCHANGED <<accepted, overrides, Sent>>
    BY <1>4, SentKept DEF StartMessageRequest, ghosts
<1>5. ASSUME NEW p \in Procs, Post(p) PROVE Promise!Next \/ UNCHANGED <<accepted, overrides, Sent>>
    <2>1. PICK m, v : m = Current(p) /\ v = proc[p].version
        OBVIOUS
    <2>2. /\ m \in Messages /\ v \in 1..msg[m].version /\ v \notin accepted[m]
          /\ log[m][v].status \in Doubtful
        BY <1>5, <2>1, CurrentIsMessage DEF Post, Working, Executing, ExecutorsInv, ExecutorInv
    <2>3. UNCHANGED <<overrides, Sent>>
        BY <1>5, SentKept DEF Post
    <2>4. CASE accepted' = accepted
        BY <2>3, <2>4
    <2>5. CASE accepted' = [accepted EXCEPT ![m] = @ \cup {v}]
        <3>1. MessageInv(m) /\ msg[m].version \in Nat /\ msg[m].version <= MaxVersion
            BY <2>2, RowsTyped DEF MessagesInv
        <3>2. ASSUME NEW w \in accepted[m] PROVE Promise!Leave(m, v, w) \/ Promise!Leave(m, w, v)
            <4>1. /\ w \in 1..msg[m].version /\ w # v
                  /\ log[m][w].status \in Doubtful \cup {"SENT"}
                BY <2>2, <3>1 DEF MessageInv
            <4>2. CASE v < w
                <5>1. v \in overrides[m] /\ v <= v
                    BY <2>2, <3>1, <4>1, <4>2, EarlierHasLeave
                <5>2. QED
                    BY <4>2, <5>1 DEF Promise!Leave
            <4>3. CASE w < v
                <5>1. w \in overrides[m] /\ w <= w
                    BY <2>2, <3>1, <4>1, <4>3, EarlierHasLeave
                <5>2. QED
                    BY <4>3, <5>1 DEF Promise!Leave
            <4>4. QED
                BY <2>2, <3>1, <4>1, <4>2, <4>3
        <3>3. ASSUME NEW n \in Messages, PictureFirst(n, m) PROVE n \in Sent
            <4>1. m[2] = "TEXT" /\ n = <<m[1], "IMAGE">>
                BY <3>3 DEF PictureFirst, Messages
            <4>2. msg[n].status = "SENT"
                BY <2>2, <3>1, <4>1 DEF MessageInv
            <4>3. QED
                BY <4>2 DEF Sent
        <3>4. v \in 1..MaxVersion
            BY <2>2, <3>1, DeliveryAssumption DEF DeliveryAssumption
        <3>5. Promise!Take(m, v)
            BY <2>2, <2>3, <2>5, <3>2, <3>3 DEF Promise!Take
        <3>6. QED
            BY <2>2, <3>4, <3>5 DEF Promise!Next
    <2>6. QED
        BY <1>5, <2>1, <2>4, <2>5 DEF Post
<1>6. ASSUME NEW p \in Procs, Finished(p) PROVE Promise!Next \/ UNCHANGED <<accepted, overrides, Sent>>
    <2>1. PICK m, r : m = Current(p) /\ r = proc[p].receipt
        OBVIOUS
    <2>2. /\ m \in Messages /\ r \in Receipts
          /\ FinishTx(p, m, r) /\ Owns(p, m) /\ UNCHANGED <<accepted, overrides>>
          /\ r = "SENT" => accepted[m] # {}
        BY <1>6, <2>1, CurrentIsMessage
        DEF Finished, ghosts, Working, Executing, ExecutorsInv, ExecutorInv, TypeOK
    <2>3. /\ \A n \in Messages \ {m} : msg'[n] = msg[n]
          /\ msg[m].status = "SENDING" /\ msg'[m].status = r
        BY <2>2, FinishEffect
    <2>4. CASE r = "SENT"
        <3>1. Sent' = Sent \cup {m}
            BY <2>2, <2>3, <2>4 DEF Sent
        <3>2. QED
            BY <2>2, <2>4, <3>1 DEF Promise!Confirm, Promise!Next
    <2>5. CASE r # "SENT"
        BY <2>2, <2>3, <2>5, SentKept
    <2>6. QED
        BY <2>4, <2>5
<1>7. ASSUME NEW b \in Bundles, Froze(b) PROVE UNCHANGED <<accepted, overrides, Sent>>
    <2>1. \A m \in Messages : msg'[m].status = "SENT" <=> msg[m].status = "SENT"
        <3>1. \A m \in Messages : m[1] \notin frozen => msg[m].status # "SENT"
            BY DEF MessagesInv, MessageInv
        <3>2. QED
            BY <1>7, <3>1, FreezeEffect DEF Froze
    <2>2. QED
        BY <1>7, <2>1, SentKept DEF Froze, ghosts
<1>8. ASSUME NEW m \in Messages, LeaseEnded(m) PROVE UNCHANGED <<accepted, overrides, Sent>>
    <2>1. \A n \in Messages : msg'[n].status = msg[n].status
        BY <1>8, RowsTyped DEF LeaseEnded, RowType
    <2>2. QED
        BY <1>8, <2>1, SentKept DEF LeaseEnded, ghosts
<1>9. QED
    BY <1>1, <1>2, <1>3, <1>4, <1>5, <1>6, <1>7, <1>8, RowCases DEF AttemptStep

\* ReportDelivery implements DeliveryPromise: whatever executors, crashes, lost answers and
\* resends come together, nothing is taken twice without an operator's leave, no text
\* before its picture is confirmed, and what is confirmed stays so.
THEOREM PromiseIsKept == Spec => PromiseKept
<1>1. Init => Promise!Init
    <2>1. ASSUME Init PROVE Sent = {}
        <3>1. \A m \in Messages : msg[m].status = "PENDING"
            BY <2>1 DEF Init, FreshMessage
        <3>2. QED
            BY <3>1 DEF Sent
    <2>2. QED
        BY <2>1 DEF Init, Promise!Init
<1>2. ASSUME IInv, [Next]_vars PROVE [Promise!Next]_<<accepted, overrides, Sent>>
    <2>1. CASE Next
        BY <1>2, <2>1, PromiseStep
    <2>2. CASE UNCHANGED vars
        BY <2>2, SentKept DEF vars, ghosts
    <2>3. QED
        BY <1>2, <2>1, <2>2
<1>3. QED
    BY <1>1, <1>2, Invariance, PTL DEF Spec, PromiseKept, Promise!Spec, Promise!promised
=============================================================================
