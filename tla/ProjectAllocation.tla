------------------------- MODULE ProjectAllocation -------------------------
(***************************************************************************)
(* The allocation of one month's cost to projects (project-allocation-*.ts *)
(* of the database package, with the triggers of migration 0080).  Whoever *)
(* changes what the allocation is computed from marks the month dirty; the *)
(* worker's scan marks it for ledger lines, which the gateway inserts      *)
(* without marking, and enqueues a run; executors claim runs under a       *)
(* lease, read their inputs outside of any transaction and publish; the    *)
(* close of the month freezes the current publication.                     *)
(*                                                                         *)
(* A month has one active run at most (a unique index), and a run that has *)
(* ended is immutable (a trigger): so the model keeps the active run only. *)
(* Equal digests are equal inputs.  Time is left out: a lease may be over  *)
(* at any moment, and of created_at and last_marked_at the order is kept.  *)
(***************************************************************************)
EXTENDS Naturals

CONSTANTS Executors,    \* runDueAllocationRuns of the worker processes
          Parts,        \* rules, memberships, windows, assignments: each read by itself
          Values,       \* what a part may say
          Lines,        \* ledger lines of the month
          MaxFailures,  \* MAX_RUN_FAILURES
          MaxChanges    \* bound: no change of the configuration beyond this generation

ASSUME AllocationAssumption ==
    Values # {} /\ "lines" \notin Parts /\ MaxFailures \in Nat \ {0} /\ MaxChanges \in Nat

VARIABLES config,   \* the configuration now, by part
          line,     \* ledger_line, by line: its settlement has read the clock ("open"),
                    \* has committed ("visible")
          fresh,    \* lines with created_at > last_marked_at
          dirty,    \* project_allocation_dirty; generation 0: no row
          enabled,  \* project_allocation_period has a row
          run,      \* the active project_allocation_run
          current,  \* the run that is_current
          asked,    \* the generation that an enqueue transaction under way has read
          scan,     \* where the worker's scan is
          exec,     \* where each executor is, and what it has read
          due,      \* history: the lines that were visible at the last generation
          missed,   \* history: lines that last_marked_at passed while they were open, or
                    \* passed without a new generation: the scan will not see them
          calm      \* from now on nobody changes anything, nothing fails and no process
                    \* dies; it may never come to that

vars == <<config, line, fresh, dirty, enabled, run, current, asked, scan, exec, due, missed,
          calm>>

NoRun == [status |-> "none", captured |-> 0, attempt |-> 0]
Queued(g) == [status |-> "QUEUED", captured |-> g, attempt |-> 0]
Unread == [p \in Parts |-> CHOOSE v \in Values : TRUE]
Idle == [pc |-> "idle", read |-> {}, config |-> Unread, lines |-> {}]

Init ==
    /\ config \in [Parts -> Values]
    /\ line = [l \in Lines |-> "absent"] /\ fresh = {} /\ missed = {} /\ due = {}
    /\ dirty = [generation |-> 0, flag |-> FALSE]
    /\ enabled = FALSE /\ calm = FALSE
    /\ run = NoRun /\ scan = "idle" /\ asked = [w \in {"scan", "route"} |-> {}]
    /\ current = [there |-> FALSE, captured |-> 0, config |-> Unread, lines |-> {}]
    /\ exec = [x \in Executors |-> Idle]

Visible == {l \in Lines : line[l] = "visible"}
Open == {l \in Lines : line[l] = "open"}

-----------------------------------------------------------------------------
(* The dirty row and the queue.                                            *)

(* markAllocationDirty: no line begun so far is newer than the stamp.      *)
Mark ==
    /\ dirty' = [generation |-> dirty.generation + 1, flag |-> TRUE]
    /\ fresh' = {} /\ missed' = missed \cup Open /\ due' = Visible

(* The month's current publication has not consumed the last generation.   *)
Unconsumed == dirty.generation > current.captured

(* enqueueAllocationRun of the scan or of the route: it reads the rows, and *)
(* the unique index decides about its insert.                              *)
Enqueue(w) ==
    asked' = [asked EXCEPT ![w] = IF run = NoRun /\ ~(current.there /\ ~Unconsumed)
                                  THEN {dirty.generation} ELSE {}]
Insert(w) ==
    /\ \E g \in asked[w] : run' = IF run = NoRun THEN Queued(g) ELSE run
    /\ asked' = [asked EXCEPT ![w] = {}]
    /\ UNCHANGED <<config, line, fresh, dirty, enabled, current, scan, exec, due, missed>>

PendingIfMarked(marked) ==   \* bug: only what this scan has marked is enqueued
    marked
(* projectAllocationTick: what this scan has marked or found unconsumed.   *)
Pending(marked) == marked \/ (dirty.flag /\ (~current.there \/ Unconsumed))

-----------------------------------------------------------------------------
(* Those who change what the allocation is computed from.                  *)

ChangeConfig ==
    /\ dirty.generation < MaxChanges
    /\ \E p \in Parts : \E v \in Values \ {config[p]} : config' = [config EXCEPT ![p] = v]
    /\ Mark
    /\ UNCHANGED <<line, enabled, run, current, asked, scan, exec>>

(* The settlement of a call: created_at is the gateway's clock, read before *)
(* the settlement waits for the write barrier of the month.                *)
BeginLine(l) ==
    /\ line[l] = "absent"
    /\ line' = [line EXCEPT ![l] = "open"] /\ fresh' = fresh \cup {l}
    /\ UNCHANGED <<config, dirty, enabled, run, current, asked, scan, exec, due, missed>>
CommitLine(l) ==
    /\ line[l] = "open"
    /\ line' = [line EXCEPT ![l] = "visible"]
    /\ UNCHANGED <<config, fresh, dirty, enabled, run, current, asked, scan, exec, due,
                   missed>>
AbortLine(l) ==
    /\ line[l] = "open"
    /\ line' = [line EXCEPT ![l] = "absent"]
    /\ fresh' = fresh \ {l} /\ missed' = missed \ {l}
    /\ UNCHANGED <<config, dirty, enabled, run, current, asked, scan, exec, due>>

(* The scan looks back ten minutes only.                                   *)
Delayed(l) ==
    /\ line[l] = "open" /\ fresh' = fresh \ {l} /\ missed' = missed \cup {l}
    /\ UNCHANGED <<config, line, dirty, enabled, run, current, asked, scan, exec, due>>

-----------------------------------------------------------------------------
(* The administrator.                                                      *)

(* enableProjectAllocation, also of a month that is enabled.  A dirty row  *)
(* that exists is stamped and made dirty without a new generation.         *)
Enable ==
    /\ enabled' = TRUE
    /\ IF run # NoRun THEN UNCHANGED <<fresh, missed, dirty, due, run>>
       ELSE IF dirty.generation = 0
         THEN Mark /\ run' = Queued(1)
         ELSE /\ dirty' = [dirty EXCEPT !.flag = TRUE] /\ run' = Queued(dirty.generation)
              /\ missed' = missed \cup fresh /\ fresh' = {} /\ UNCHANGED due
    /\ UNCHANGED <<config, line, current, asked, scan, exec>>

(* The route looks at the period before, and outside of, the transaction.  *)
Rebuild ==
    /\ Enqueue("route")
    /\ UNCHANGED <<config, line, fresh, dirty, enabled, run, current, scan, exec, due,
                   missed>>

(* What freezeProjectAllocationForClose lets a close refer to.             *)
Closable == current.there /\ ~(dirty.flag /\ Unconsumed)

-----------------------------------------------------------------------------
(* The worker's scan (projectAllocationTick).                              *)

ScanLines ==
    /\ enabled /\ scan = "idle" /\ asked["scan"] = {}
    /\ scan' = IF Visible \cap fresh # {} THEN "mark" ELSE "list"
    /\ UNCHANGED <<config, line, fresh, dirty, enabled, run, current, asked, exec, due,
                   missed>>
ScanMark ==
    /\ scan = "mark" /\ scan' = "marked" /\ Mark
    /\ UNCHANGED <<config, line, enabled, run, current, asked, exec>>
ScanEnqueue ==
    /\ scan \in {"list", "marked"} /\ scan' = "idle"
    /\ IF Pending(scan = "marked") THEN Enqueue("scan") ELSE UNCHANGED asked
    /\ UNCHANGED <<config, line, fresh, dirty, enabled, run, current, exec, due, missed>>
ScanDies ==
    /\ scan' = "idle" /\ asked' = [asked EXCEPT !["scan"] = {}]
    /\ UNCHANGED <<config, line, fresh, dirty, enabled, run, current, exec, due, missed>>

-----------------------------------------------------------------------------
(* An executor (claimNextAllocationRun, executeAllocationRun).             *)

AttemptSame(n) ==   \* bug: a takeover is not counted
    n
AttemptAfter(n) == IF n < MaxFailures THEN n + 1 ELSE n   \* beyond, more make no difference

(* A run that is RUNNING is claimed when its lease of five minutes, or the *)
(* backoff of a failure, is over: that may be at any moment.               *)
Claim(x) ==
    /\ exec[x].pc = "idle"
    /\ run.status \in {"QUEUED", "RUNNING"}
    /\ run' = [run EXCEPT !.status = "RUNNING", !.attempt = AttemptAfter(@)]
    /\ exec' = [exec EXCEPT ![x] = [Idle EXCEPT !.pc = "reading"]]
    /\ UNCHANGED <<config, line, fresh, dirty, enabled, current, asked, scan, due, missed>>

(* The lines and the parts are read by queries of their own, in any order.  *)
ReadLines(x) ==
    /\ exec[x].pc = "reading" /\ "lines" \notin exec[x].read
    /\ exec' = [exec EXCEPT ![x].read = @ \cup {"lines"}, ![x].lines = Visible]
    /\ UNCHANGED <<config, line, fresh, dirty, enabled, run, current, asked, scan, due,
                   missed>>
ReadPart(x, p) ==
    /\ exec[x].pc = "reading" /\ p \notin exec[x].read
    /\ exec' = [exec EXCEPT ![x].read = @ \cup {p}, ![x].config[p] = config[p]]
    /\ UNCHANGED <<config, line, fresh, dirty, enabled, run, current, asked, scan, due,
                   missed>>

(* The run has ended, and a row that has ended is immutable: what other    *)
(* executors of it still do is refused, in their catch blocks too.         *)
EndedUnfenced(x) ==   \* bug: the rows of ended runs can be written
    [exec EXCEPT ![x] = Idle]
Ended(x) == [y \in Executors |-> IF y = x \/ exec[y].pc = "reading" THEN Idle ELSE exec[y]]

(* publishOrNoopRun: an equal publication that is current is left in place. *)
Published(x) ==
    IF current.there /\ current.config = exec[x].config /\ current.lines = exec[x].lines
    THEN current
    ELSE [there |-> TRUE, captured |-> run.captured,
          config |-> exec[x].config, lines |-> exec[x].lines]

ConsumedAlways ==   \* bug: a mark made during the run is swallowed
    [dirty EXCEPT !.flag = FALSE]
Consumed == IF dirty.generation <= run.captured THEN [dirty EXCEPT !.flag = FALSE] ELSE dirty

Publish(x) ==
    /\ exec[x].pc = "reading" /\ exec[x].read = {"lines"} \cup Parts
    /\ current' = Published(x) /\ dirty' = Consumed
    /\ run' = NoRun /\ exec' = Ended(x)
    /\ UNCHANGED <<config, line, fresh, enabled, asked, scan, due, missed>>

Fail(x) ==
    /\ exec[x].pc = "reading"
    /\ IF run.attempt >= MaxFailures THEN run' = NoRun /\ exec' = Ended(x)
       ELSE UNCHANGED run /\ exec' = [exec EXCEPT ![x] = Idle]
    /\ UNCHANGED <<config, line, fresh, dirty, enabled, current, asked, scan, due, missed>>

Crash(x) ==
    /\ exec[x].pc # "idle" /\ exec' = [exec EXCEPT ![x] = Idle]
    /\ UNCHANGED <<config, line, fresh, dirty, enabled, run, current, asked, scan, due,
                   missed>>

-----------------------------------------------------------------------------
Execute(x) ==
    Claim(x) \/ ReadLines(x) \/ (\E p \in Parts : ReadPart(x, p)) \/ Publish(x)
Scan == ScanLines \/ ScanMark \/ ScanEnqueue \/ Insert("scan")
Settles == \E l \in Lines : CommitLine(l) \/ AbortLine(l) \/ Delayed(l)

Disturbed ==
    \/ ChangeConfig \/ Enable \/ Rebuild \/ ScanDies
    \/ \E l \in Lines : BeginLine(l)
    \/ \E x \in Executors : Fail(x) \/ Crash(x)

Next ==
    \/ /\ Scan \/ Insert("route") \/ Settles \/ \E x \in Executors : Execute(x)
       /\ UNCHANGED calm
    \/ ~calm /\ Disturbed /\ UNCHANGED calm
    \/ enabled /\ ~calm /\ calm' = TRUE
       /\ UNCHANGED <<config, line, fresh, dirty, enabled, run, current, asked, scan,
                      exec, due, missed>>

Spec == Init /\ [][Next]_vars

(* The worker ticks for ever: it scans and executes what is due, and every *)
(* lease and every backoff comes to its end.                               *)
Fairness ==
    /\ WF_vars(Scan /\ UNCHANGED calm)
    /\ \A x \in Executors : WF_vars(Execute(x) /\ UNCHANGED calm)
LiveSpec == Spec /\ Fairness

-----------------------------------------------------------------------------
(* Properties.                                                             *)

RunType == [status : {"none", "QUEUED", "RUNNING"}, captured : Nat, attempt : 0..MaxFailures]
CurrentType == [there : BOOLEAN, captured : Nat, config : [Parts -> Values],
                lines : SUBSET Lines]
ExecType == [pc : {"idle", "reading"}, read : SUBSET ({"lines"} \cup Parts),
             config : [Parts -> Values], lines : SUBSET Lines]

\* The rows and the processes keep their types, and a run is RUNNING exactly when it
\* was claimed and counted.
TypeOK ==
    /\ config \in [Parts -> Values]
    /\ line \in [Lines -> {"absent", "open", "visible"}]
    /\ fresh \subseteq Lines /\ due \subseteq Lines /\ missed \subseteq Lines
    /\ dirty \in [generation : Nat, flag : BOOLEAN]
    /\ enabled \in BOOLEAN /\ calm \in BOOLEAN
    /\ run \in RunType /\ (run.status = "RUNNING" <=> run.attempt # 0)
    /\ current \in CurrentType
    /\ scan \in {"idle", "mark", "marked", "list"}
    /\ asked \in [{"scan", "route"} -> SUBSET Nat]
    /\ exec \in [Executors -> ExecType]

\* What a close would freeze is the configuration of that moment and holds every line
\* that was there when the month was last marked, whatever marks, takeovers, retries,
\* torn reads and unchanged publications went before (comments in
\* project-allocation-freeze.ts and project-allocation-execution.ts).
ClosableReflects == Closable => current.config = config /\ due \subseteq current.lines

\* A line that is published is never taken out again, although an executor that lost its
\* lease goes on and nothing compares lease_owner.
NeverOlder == [][current.there => current.lines \subseteq current'.lines]_vars

\* When nobody disturbs any more, an enabled month that was ever marked comes to a
\* publication that a close accepts and that holds every line but those the scan cannot
\* see: no dirty month is left without a run, no run without an executor.
Complete == Closable /\ Visible \ missed \subseteq current.lines
CalmPublishes == calm /\ dirty.generation > 0 ~> Complete
=============================================================================
