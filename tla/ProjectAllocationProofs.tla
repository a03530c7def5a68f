---------------------- MODULE ProjectAllocationProofs ----------------------
(***************************************************************************)
(* The safety of ProjectAllocation for any number of executors, lines and  *)
(* parts of the configuration.  The captured generation of a run tells     *)
(* nothing about its place among the publications, for the enqueue that    *)
(* read it may have been slow: what makes a publication sound is that      *)
(* while the month is not dirty, or is dirty of the generation that the    *)
(* run captured, nothing an executor has read is older than the last mark. *)
(***************************************************************************)
EXTENDS ProjectAllocation, TLAPS

\* No mark was made since the active run was claimed.
InTime == run.captured = dirty.generation \/ ~dirty.flag

\* What an executor has read.
Sound(e) ==
    e.pc = "reading" =>
        /\ run.status = "RUNNING"
        /\ "lines" \in e.read =>
              /\ current.lines \subseteq e.lines /\ e.lines \subseteq Visible
              /\ InTime => due \subseteq e.lines
        /\ \A p \in Parts : p \in e.read /\ InTime => e.config[p] = config[p]
ReadsSound == \A x \in Executors : Sound(exec[x])

\* No row and no enqueue transaction is ahead of the generation.
Counts ==
    /\ current.captured <= dirty.generation /\ run.captured <= dirty.generation
    /\ \A w \in {"scan", "route"} : \A g \in asked[w] : g <= dirty.generation
    /\ run.status = "none" => run = NoRun
Sets == current.lines \subseteq Visible /\ due \subseteq Visible

Safe == Counts /\ Sets /\ ReadsSound /\ ClosableReflects
IInv == TypeOK /\ Safe

-----------------------------------------------------------------------------
LEMMA Constants == /\ NoRun \in RunType /\ NoRun.status = "none" /\ NoRun.attempt = 0
                   /\ NoRun.captured = 0
                   /\ Idle \in ExecType /\ Idle.pc = "idle" /\ Idle.lines = {}
                   /\ Unread \in [Parts -> Values]
<1>1. Values # {} /\ MaxFailures \in Nat \ {0}
    BY AllocationAssumption
<1>2. Unread \in [Parts -> Values]
    BY <1>1 DEF Unread
<1>3. NoRun \in RunType /\ NoRun.status = "none" /\ NoRun.attempt = 0 /\ NoRun.captured = 0
    BY <1>1 DEF NoRun, RunType
<1>4. Idle \in ExecType /\ Idle.pc = "idle" /\ Idle.lines = {}
    BY <1>2 DEF Idle, ExecType
<1>5. QED
    BY <1>2, <1>3, <1>4

\* The types, by variable.
LEMMA Types ==
    ASSUME TypeOK
    PROVE  /\ dirty.generation \in Nat /\ dirty.flag \in BOOLEAN
           /\ dirty \in [generation : Nat, flag : BOOLEAN]
           /\ run.captured \in Nat /\ run.attempt \in 0..MaxFailures /\ run \in RunType
           /\ run.status \in {"none", "QUEUED", "RUNNING"}
           /\ current.captured \in Nat /\ current.config \in [Parts -> Values]
           /\ current \in CurrentType /\ exec \in [Executors -> ExecType]
           /\ asked \in [{"scan", "route"} -> SUBSET Nat]
           /\ MaxFailures \in Nat \ {0} /\ due \subseteq Lines /\ Visible \subseteq Lines
BY AllocationAssumption DEF TypeOK, RunType, CurrentType, Visible

\* A new generation: nothing that was read or published before counts as present.
LEMMA MarkStep ==
    ASSUME IInv, Mark, config' \in [Parts -> Values],
           UNCHANGED <<line, run, current, asked, exec>>,
           scan' \in {"idle", "mark", "marked", "list"}, enabled' \in BOOLEAN,
           calm' \in BOOLEAN
    PROVE  IInv'
<1>1. TypeOK'
  <2>1. dirty' \in [generation : Nat, flag : BOOLEAN]
    BY Types DEF IInv, Mark
  <2>2. fresh' \subseteq Lines /\ due' \subseteq Lines /\ missed' \subseteq Lines
    BY DEF IInv, TypeOK, Mark, Open, Visible
  <2>3. QED
    BY <2>1, <2>2 DEF IInv, TypeOK
<1>2. /\ dirty'.generation = dirty.generation + 1 /\ dirty'.flag = TRUE
      /\ run'.captured < dirty'.generation /\ current'.captured < dirty'.generation
      /\ run' = run /\ current' = current /\ asked' = asked
    BY Types DEF IInv, Safe, Counts, Mark
<1>3. Visible' = Visible
    BY DEF Visible
<1>4. Counts' /\ Sets'
  <2>1. Sets'
    BY <1>2, <1>3 DEF IInv, Safe, Sets, Mark
  <2>2. run.status = "none" => run = NoRun
    BY DEF IInv, Safe, Counts
  <2>3. (run.status = "none" => run = NoRun)'
    BY <1>2, <2>2 DEF NoRun
  <2>4. ASSUME NEW w \in {"scan", "route"}, NEW g \in asked[w]
        PROVE  g <= dirty.generation + 1
    BY Types DEF IInv, Safe, Counts
  <2>5. Counts'
    BY <1>2, <2>3, <2>4, Types DEF IInv, Safe, Counts
  <2>6. QED
    BY <2>1, <2>5
<1>5. ReadsSound'
  <2> SUFFICES ASSUME NEW x \in Executors PROVE Sound(exec[x])'
    BY DEF ReadsSound
  <2>1. ~InTime'
    BY <1>1, <1>2, Types DEF IInv, InTime
  <2>2. Sound(exec[x]) /\ exec' = exec
    BY DEF IInv, Safe, ReadsSound
  <2>3. QED
    BY <1>2, <1>3, <2>1, <2>2 DEF Sound
<1>6. ClosableReflects'
    BY <1>2 DEF ClosableReflects, Closable, Unconsumed
<1>7. QED
    BY <1>1, <1>4, <1>5, <1>6 DEF IInv, Safe

\* A new run captures a generation of the month; nobody is in it yet.
LEMMA QueuedStep ==
    ASSUME IInv, run = NoRun, NEW g \in Nat, g <= dirty.generation, run' = Queued(g),
           dirty'.generation = dirty.generation,
           dirty' \in [generation : Nat, flag : BOOLEAN], dirty.flag => dirty'.flag,
           fresh' \subseteq Lines, missed' \subseteq Lines,
           UNCHANGED <<config, line, due, current, exec>>,
           asked' \in [{"scan", "route"} -> SUBSET Nat],
           \A w \in {"scan", "route"} : asked'[w] \subseteq asked[w],
           scan' \in {"idle", "mark", "marked", "list"}, enabled' \in BOOLEAN,
           calm' \in BOOLEAN
    PROVE  IInv'
<1>1. /\ run' \in RunType /\ run'.status = "QUEUED" /\ run'.attempt = 0
      /\ run'.captured = g
    BY Types DEF IInv, Queued, RunType
<1>2. TypeOK'
    BY <1>1 DEF IInv, TypeOK
<1>3. Visible' = Visible
    BY DEF Visible
<1>4. Counts' /\ Sets'
  <2>1. Sets'
    BY <1>3 DEF IInv, Safe, Sets
  <2>2. Counts'
    BY <1>1, Types DEF IInv, Safe, Counts
  <2>3. QED
    BY <2>1, <2>2
<1>5. ReadsSound'
  <2>1. \A x \in Executors : exec[x].pc # "reading"
    BY Constants DEF IInv, Safe, ReadsSound, Sound
  <2>2. QED
    BY <2>1 DEF ReadsSound, Sound
<1>6. ClosableReflects'
    BY Types DEF IInv, Safe, ClosableReflects, Closable, Unconsumed, Counts
<1>7. QED
    BY <1>2, <1>4, <1>5, <1>6 DEF IInv, Safe

\* A step that leaves the rows alone and adds to the lines at most, or asks for a run.
LEMMA QuietStep ==
    ASSUME IInv, UNCHANGED <<config, dirty, run, current, exec, due>>,
           asked' \in [{"scan", "route"} -> SUBSET Nat],
           \A w \in {"scan", "route"} : asked'[w] \subseteq asked[w] \cup {dirty.generation},
           line' \in [Lines -> {"absent", "open", "visible"}], Visible \subseteq Visible',
           fresh' \subseteq Lines, missed' \subseteq Lines,
           scan' \in {"idle", "mark", "marked", "list"}, enabled' \in BOOLEAN,
           calm' \in BOOLEAN
    PROVE  IInv'
<1>1. TypeOK'
    BY DEF IInv, TypeOK
<1>2. Counts' /\ Sets'
  <2>1. Sets'
    BY DEF IInv, Safe, Sets
  <2>2. (run.status = "none" => run = NoRun)'
    BY DEF IInv, Safe, Counts, NoRun
  <2>3. Counts'
    BY <2>2, Types DEF IInv, Safe, Counts
  <2>4. QED
    BY <2>1, <2>3
<1>3. ReadsSound'
  <2> SUFFICES ASSUME NEW x \in Executors PROVE Sound(exec[x])'
    BY DEF ReadsSound
  <2>1. Sound(exec[x])
    BY DEF IInv, Safe, ReadsSound
  <2>2. QED
    BY <2>1 DEF Sound, InTime
<1>4. ClosableReflects'
    BY DEF IInv, Safe, ClosableReflects, Closable, Unconsumed
<1>5. QED
    BY <1>1, <1>2, <1>3, <1>4 DEF IInv, Safe

-----------------------------------------------------------------------------
(* The executors.                                                          *)

\* A step of an executor that publishes nothing: its run goes on under the generation
\* it captured, or there is no run any more.
LEMMA WorkStep ==
    ASSUME IInv,
           UNCHANGED <<config, line, fresh, dirty, enabled, current, asked, scan, due, missed>>,
           calm' \in BOOLEAN,
           \/ run' = NoRun
           \/ run' = run
           \/ /\ run' \in RunType /\ run'.status = "RUNNING" /\ run'.attempt # 0
              /\ run'.captured = run.captured /\ run.status # "none",
           exec' \in [Executors -> ExecType],
           \A x \in Executors : Sound(exec[x])'
    PROVE  IInv'
<1>1. run' \in RunType /\ (run'.status = "RUNNING" <=> run'.attempt # 0)
  <2>1. CASE run' = NoRun
    BY <2>1, Constants
  <2>2. CASE run' = run
    BY <2>2 DEF IInv, TypeOK
  <2>3. QED
    BY <2>1, <2>2
<1>2. TypeOK'
    BY <1>1 DEF IInv, TypeOK
<1>3. Visible' = Visible
    BY DEF Visible
<1>4. Sets'
    BY <1>3 DEF IInv, Safe, Sets
<1>5. NoRun' = NoRun
    BY DEF NoRun
<1>6. Counts'
  <2>1. CASE run' = NoRun
    BY <2>1, <1>5, Constants, Types DEF IInv, Safe, Counts
  <2>2. CASE run' = run
    BY <2>2, <1>5 DEF IInv, Safe, Counts
  <2>3. CASE /\ run' \in RunType /\ run'.status = "RUNNING" /\ run'.attempt # 0
             /\ run'.captured = run.captured /\ run.status # "none"
    BY <2>3, <1>5 DEF IInv, Safe, Counts
  <2>4. QED
    BY <2>1, <2>2, <2>3
<1>7. ReadsSound'
    BY DEF ReadsSound
<1>8. ClosableReflects'
    BY DEF IInv, Safe, ClosableReflects, Closable, Unconsumed
<1>9. QED
    BY <1>2, <1>4, <1>6, <1>7, <1>8 DEF IInv, Safe

LEMMA ClaimStep ==
    ASSUME IInv, NEW x \in Executors, Claim(x), calm' \in BOOLEAN
    PROVE  IInv'
<1>1. /\ run' \in RunType /\ run'.status = "RUNNING" /\ run'.attempt # 0
      /\ run'.captured = run.captured /\ run.status # "none"
  <2>1. AttemptAfter(run.attempt) \in 0..MaxFailures /\ AttemptAfter(run.attempt) # 0
    BY Types DEF IInv, AttemptAfter
  <2>2. QED
    BY <2>1, Types DEF IInv, Claim, RunType
<1>2. [Idle EXCEPT !.pc = "reading"] \in ExecType /\ [Idle EXCEPT !.pc = "reading"].read = {}
    BY Constants DEF Idle, ExecType
<1>3. exec' \in [Executors -> ExecType]
    BY <1>2, Types DEF IInv, Claim
<1>4. ASSUME NEW y \in Executors PROVE Sound(exec[y])'
  <2>1. CASE y = x
    BY <2>1, <1>1, <1>2, Types DEF IInv, Claim, Sound
  <2>2. CASE y # x
    <3>1. exec'[y] = exec[y] /\ Sound(exec[y])
      BY <2>2, Types DEF IInv, Safe, ReadsSound, Claim
    <3>2. QED
      BY <3>1, <1>1 DEF Claim, Sound, InTime, Visible
  <2>3. QED
    BY <2>1, <2>2
<1>5. QED
    BY <1>1, <1>3, <1>4, WorkStep DEF Claim

LEMMA ReadLinesStep ==
    ASSUME IInv, NEW x \in Executors, ReadLines(x), calm' \in BOOLEAN
    PROVE  IInv'
<1>1. run' = run /\ Visible' = Visible
    BY DEF ReadLines, Visible
<1>2. /\ exec'[x].pc = "reading" /\ exec'[x].read = exec[x].read \cup {"lines"}
      /\ exec'[x].lines = Visible /\ exec'[x].config = exec[x].config
      /\ exec' \in [Executors -> ExecType]
      /\ \A y \in Executors \ {x} : exec'[y] = exec[y]
    BY Types DEF IInv, ReadLines, ExecType
<1>3. ASSUME NEW y \in Executors PROVE Sound(exec[y])'
  <2>1. Sound(exec[y])
    BY DEF IInv, Safe, ReadsSound
  <2>2. CASE y = x
    BY <1>1, <1>2, <2>1, <2>2, AllocationAssumption
       DEF IInv, Safe, Sets, ReadLines, Sound, InTime
  <2>3. CASE y # x
    BY <1>1, <1>2, <2>1, <2>3 DEF ReadLines, Sound, InTime
  <2>4. QED
    BY <2>2, <2>3
<1>4. QED
    BY <1>1, <1>2, <1>3, WorkStep DEF ReadLines

LEMMA ReadPartStep ==
    ASSUME IInv, NEW x \in Executors, NEW p \in Parts, ReadPart(x, p), calm' \in BOOLEAN
    PROVE  IInv'
<1>1. run' = run /\ Visible' = Visible
    BY DEF ReadPart, Visible
<1>2. exec[x] \in ExecType /\ config \in [Parts -> Values] /\ p # "lines"
    BY Types, AllocationAssumption DEF IInv, TypeOK
<1>3. exec' = [exec EXCEPT ![x] = [exec[x] EXCEPT !.read = @ \cup {p}, !.config[p] = config[p]]]
    BY DEF ReadPart
<1>4. /\ exec'[x].pc = "reading" /\ exec'[x].read = exec[x].read \cup {p}
      /\ exec'[x].config = [exec[x].config EXCEPT ![p] = config[p]]
      /\ exec'[x].lines = exec[x].lines
      /\ exec' \in [Executors -> ExecType]
      /\ \A y \in Executors \ {x} : exec'[y] = exec[y]
    BY <1>2, <1>3, Types DEF IInv, ReadPart, ExecType
<1>5. exec[x].config \in [Parts -> Values]
    BY <1>2 DEF ExecType
<1>6. ASSUME NEW y \in Executors PROVE Sound(exec[y])'
  <2>1. Sound(exec[y])
    BY DEF IInv, Safe, ReadsSound
  <2>2. CASE y = x
    BY <1>1, <1>2, <1>4, <1>5, <2>1, <2>2 DEF ReadPart, Sound, InTime
  <2>3. CASE y # x
    BY <1>1, <1>4, <2>1, <2>3 DEF ReadPart, Sound, InTime
  <2>4. QED
    BY <2>2, <2>3
<1>7. QED
    BY <1>1, <1>4, <1>6, WorkStep DEF ReadPart

\* When a run ends, no executor is in it any more.
LEMMA EndedNobody ==
    ASSUME IInv, NEW x \in Executors, exec' = Ended(x)
    PROVE  exec' \in [Executors -> ExecType] /\ \A y \in Executors : exec'[y].pc # "reading"
<1>1. exec \in [Executors -> ExecType]
    BY Types DEF IInv
<1>2. \A y \in Executors : exec'[y] = Idle \/ (exec'[y] = exec[y] /\ exec[y].pc # "reading")
    BY DEF Ended
<1>3. exec' = [y \in Executors |-> exec'[y]]
    BY DEF Ended
<1>4. QED
    BY <1>1, <1>2, <1>3, Constants

\* An executor leaves, and the others go on.
LEMMA Left ==
    ASSUME IInv, NEW x \in Executors, exec' = [exec EXCEPT ![x] = Idle],
           UNCHANGED <<config, line, dirty, run, current, due>>
    PROVE  exec' \in [Executors -> ExecType] /\ \A y \in Executors : Sound(exec[y])'
<1>1. exec' \in [Executors -> ExecType] /\ exec'[x] = Idle
      /\ \A y \in Executors \ {x} : exec'[y] = exec[y]
    BY Types, Constants DEF IInv
<1>2. ASSUME NEW y \in Executors PROVE Sound(exec[y])'
  <2>1. CASE y = x
    BY <2>1, <1>1, Constants DEF Sound
  <2>2. CASE y # x
    BY <2>2, <1>1 DEF IInv, Safe, ReadsSound, Sound, InTime, Visible
  <2>3. QED
    BY <2>1, <2>2
<1>3. QED
    BY <1>1, <1>2

LEMMA FailStep ==
    ASSUME IInv, NEW x \in Executors, Fail(x), calm' \in BOOLEAN
    PROVE  IInv'
<1>1. CASE run.attempt >= MaxFailures
  <2>1. run' = NoRun /\ exec' = Ended(x)
    BY <1>1 DEF Fail
  <2>2. \A y \in Executors : Sound(exec[y])'
    BY <2>1, EndedNobody DEF Sound
  <2>3. QED
    BY <2>1, <2>2, EndedNobody, WorkStep DEF Fail
<1>2. CASE ~(run.attempt >= MaxFailures)
  <2>1. run' = run /\ exec' = [exec EXCEPT ![x] = Idle]
    BY <1>2 DEF Fail
  <2>2. exec' \in [Executors -> ExecType] /\ \A y \in Executors : Sound(exec[y])'
    BY <2>1, Left DEF Fail
  <2>3. QED
    BY <2>1, <2>2, WorkStep DEF Fail
<1>3. QED
    BY <1>1, <1>2

LEMMA CrashStep ==
    ASSUME IInv, NEW x \in Executors, Crash(x), calm' \in BOOLEAN
    PROVE  IInv'
BY Left, WorkStep DEF Crash

\* A publication: in time it is the present input; late it leaves the month dirty.
LEMMA PublishStep ==
    ASSUME IInv, NEW x \in Executors, Publish(x), calm' \in BOOLEAN
    PROVE  IInv' /\ current.lines \subseteq current'.lines
<1> DEFINE e == exec[x]
           new == [there |-> TRUE, captured |-> run.captured, config |-> e.config,
                   lines |-> e.lines]
<1>1. e \in ExecType /\ run.captured \in Nat /\ dirty.generation \in Nat
      /\ dirty \in [generation : Nat, flag : BOOLEAN] /\ current \in CurrentType
      /\ current.captured \in Nat /\ config \in [Parts -> Values]
    BY Types DEF IInv, TypeOK
<1>2. /\ current.lines \subseteq e.lines /\ e.lines \subseteq Visible
      /\ InTime => due \subseteq e.lines /\ e.config = config
  <2>1. e.pc = "reading" /\ e.read = {"lines"} \cup Parts
    BY DEF Publish
  <2>2. Sound(e)
    BY DEF IInv, Safe, ReadsSound
  <2>3. InTime => \A p \in Parts : e.config[p] = config[p]
    BY <2>1, <2>2 DEF Sound
  <2>4. e.config \in [Parts -> Values]
    BY <1>1 DEF ExecType
  <2>5. InTime => e.config = config
    BY <1>1, <2>3, <2>4
  <2>6. QED
    BY <2>1, <2>2, <2>5 DEF Sound
<1>3. current.captured <= dirty.generation /\ run.captured <= dirty.generation
    BY DEF IInv, Safe, Counts
<1>4. new \in CurrentType
    BY <1>1 DEF ExecType, CurrentType
<1>5. \/ current' = current /\ current.config = e.config /\ current.lines = e.lines
      \/ current' = new
    BY DEF Publish, Published
<1>6. /\ current' \in CurrentType /\ current'.lines = e.lines /\ current'.config = e.config
      /\ current'.captured <= dirty.generation
  <2>1. CASE current' = current /\ current.config = e.config /\ current.lines = e.lines
    BY <1>1, <1>3, <2>1
  <2>2. CASE current' = new
    BY <1>3, <1>4, <2>2
  <2>3. QED
    BY <1>5, <2>1, <2>2
<1>7. /\ dirty' \in [generation : Nat, flag : BOOLEAN] /\ dirty'.generation = dirty.generation
      /\ run.captured < dirty.generation => dirty' = dirty
  <2>1. CASE dirty.generation <= run.captured
    <3>1. dirty' = [dirty EXCEPT !.flag = FALSE]
      BY <2>1 DEF Publish, Consumed
    <3>2. dirty' \in [generation : Nat, flag : BOOLEAN] /\ dirty'.generation = dirty.generation
      BY <1>1, <3>1
    <3>3. ~(run.captured < dirty.generation)
      BY <1>1, <2>1
    <3>4. QED
      BY <3>2, <3>3
  <2>2. CASE ~(dirty.generation <= run.captured)
    BY <1>1, <2>2 DEF Publish, Consumed
  <2>3. QED
    BY <2>1, <2>2
<1>8. run' = NoRun /\ exec' = Ended(x) /\ config' = config /\ due' = due /\ Visible' = Visible
      /\ asked' = asked
    BY DEF Publish, Visible
<1>9. TypeOK'
    BY <1>6, <1>7, <1>8, EndedNobody, Constants DEF IInv, TypeOK, Publish
<1>10. Counts' /\ Sets'
  <2>1. NoRun' = NoRun
    BY DEF NoRun
  <2>2. Counts'
    BY <1>1, <1>6, <1>7, <1>8, <2>1, Constants DEF IInv, Safe, Counts
  <2>3. Sets'
    BY <1>2, <1>6, <1>8 DEF IInv, Safe, Sets
  <2>4. QED
    BY <2>2, <2>3
<1>11. ReadsSound'
    BY <1>8, EndedNobody DEF ReadsSound, Sound
<1>12. ClosableReflects'
  <2>1. CASE InTime
    BY <1>2, <1>6, <1>8, <2>1 DEF ClosableReflects
  <2>2. CASE ~InTime
    <3>1. run.captured < dirty.generation /\ dirty.flag
      BY <1>1, <1>3, <2>2 DEF InTime
    <3>2. dirty' = dirty
      BY <1>7, <3>1
    <3>3. CASE current' = new
      BY <3>1, <3>2, <3>3 DEF ClosableReflects, Closable, Unconsumed
    <3>4. CASE current' = current
      BY <1>8, <3>2, <3>4 DEF IInv, Safe, ClosableReflects, Closable, Unconsumed
    <3>5. QED
      BY <1>5, <3>3, <3>4
  <2>3. QED
    BY <2>1, <2>2
<1>13. QED
    BY <1>2, <1>6, <1>9, <1>10, <1>11, <1>12 DEF IInv, Safe

-----------------------------------------------------------------------------
(* The scan and those who disturb it.                                      *)

\* enqueueAllocationRun reads a generation that is the present one then.
LEMMA AskStep ==
    ASSUME IInv, NEW w \in {"scan", "route"},
           asked' = asked \/ Enqueue(w) \/ asked' = [asked EXCEPT ![w] = {}],
           UNCHANGED <<config, line, fresh, dirty, enabled, run, current, exec, due, missed>>,
           scan' \in {"idle", "mark", "marked", "list"}, calm' \in BOOLEAN
    PROVE  IInv'
<1>1. /\ asked' \in [{"scan", "route"} -> SUBSET Nat]
      /\ \A v \in {"scan", "route"} : asked'[v] \subseteq asked[v] \cup {dirty.generation}
    BY Types DEF IInv, Enqueue
<1>2. Visible \subseteq Visible'
    BY DEF Visible
<1>3. QED
    BY <1>1, <1>2, QuietStep DEF IInv, TypeOK

LEMMA InsertStep ==
    ASSUME IInv, NEW w \in {"scan", "route"}, Insert(w), calm' \in BOOLEAN
    PROVE  IInv'
<1>1. PICK g \in asked[w] : run' = IF run = NoRun THEN Queued(g) ELSE run
    BY DEF Insert
<1>2. g \in Nat /\ g <= dirty.generation
    BY Types DEF IInv, Safe, Counts
<1>3. asked' = [asked EXCEPT ![w] = {}]
      /\ UNCHANGED <<config, line, fresh, dirty, enabled, current, scan, exec, due, missed>>
    BY DEF Insert
<1>4. CASE run = NoRun
  <2>1. /\ asked' \in [{"scan", "route"} -> SUBSET Nat]
        /\ \A v \in {"scan", "route"} : asked'[v] \subseteq asked[v]
    BY <1>3, Types DEF IInv
  <2>2. run' = Queued(g)
    BY <1>1, <1>4
  <2>3. dirty \in [generation : Nat, flag : BOOLEAN] /\ fresh \subseteq Lines
        /\ missed \subseteq Lines /\ scan \in {"idle", "mark", "marked", "list"}
        /\ enabled \in BOOLEAN
    BY DEF IInv, TypeOK
  <2>4. QED
    BY <1>2, <1>3, <1>4, <2>1, <2>2, <2>3, QueuedStep
<1>5. CASE run # NoRun
  <2>1. run' = run
    BY <1>1, <1>5
  <2>2. QED
    BY <1>3, <2>1, AskStep DEF IInv, TypeOK
<1>6. QED
    BY <1>4, <1>5

LEMMA ScanStep ==
    ASSUME IInv, Scan \/ ScanDies \/ Rebuild, calm' \in BOOLEAN
    PROVE  IInv'
<1>1. CASE ScanLines \/ ScanDies
    BY <1>1, AskStep DEF IInv, TypeOK, ScanLines, ScanDies
<1>2. CASE ScanMark
    BY <1>2, MarkStep DEF IInv, TypeOK, ScanMark
<1>3. CASE ScanEnqueue \/ Rebuild
    BY <1>3, AskStep DEF IInv, TypeOK, ScanEnqueue, Rebuild
<1>4. CASE Insert("scan")
    BY <1>4, InsertStep
<1>5. QED
    BY <1>1, <1>2, <1>3, <1>4 DEF Scan

LEMMA ConfigStep ==
    ASSUME IInv, ChangeConfig, calm' \in BOOLEAN
    PROVE  IInv'
<1>1. config' \in [Parts -> Values]
    BY DEF IInv, TypeOK, ChangeConfig
<1>2. QED
    BY <1>1, MarkStep DEF IInv, TypeOK, ChangeConfig

LEMMA LineStep ==
    ASSUME IInv, NEW l \in Lines,
           BeginLine(l) \/ CommitLine(l) \/ AbortLine(l) \/ Delayed(l), calm' \in BOOLEAN
    PROVE  IInv'
<1>1. /\ line \in [Lines -> {"absent", "open", "visible"}]
      /\ fresh \subseteq Lines /\ missed \subseteq Lines
      /\ scan \in {"idle", "mark", "marked", "list"} /\ enabled \in BOOLEAN
      /\ asked \in [{"scan", "route"} -> SUBSET Nat]
    BY DEF IInv, TypeOK
<1>2. line' \in [Lines -> {"absent", "open", "visible"}] /\ Visible \subseteq Visible'
    BY <1>1 DEF BeginLine, CommitLine, AbortLine, Delayed, Visible
<1>3. fresh' \subseteq Lines /\ missed' \subseteq Lines
    BY <1>1 DEF BeginLine, CommitLine, AbortLine, Delayed
<1>4. UNCHANGED <<config, dirty, enabled, run, current, asked, scan, exec, due>>
    BY DEF BeginLine, CommitLine, AbortLine, Delayed
<1>5. QED
    BY <1>1, <1>2, <1>3, <1>4, QuietStep

\* Enabling marks a month that nobody ever marked; a marked one keeps its generation,
\* which the new run captures.
LEMMA EnableStep ==
    ASSUME IInv, Enable, calm' \in BOOLEAN
    PROVE  IInv'
<1>1. enabled' \in BOOLEAN /\ asked' = asked
      /\ scan' \in {"idle", "mark", "marked", "list"}
      /\ fresh \subseteq Lines /\ missed \subseteq Lines
    BY DEF IInv, TypeOK, Enable
<1>2. CASE run # NoRun
  <2>1. Visible \subseteq Visible'
    BY DEF Enable, Visible
  <2>2. QED
    BY <1>1, <1>2, <2>1, QuietStep DEF IInv, TypeOK, Enable
<1>3. CASE run = NoRun /\ dirty.generation # 0
  <2>1. dirty' = [dirty EXCEPT !.flag = TRUE] /\ run' = Queued(dirty.generation) /\ fresh' = {}
        /\ missed' = missed \cup fresh /\ UNCHANGED <<due, config, line, current, exec>>
    BY <1>3 DEF Enable
  <2>2. dirty' \in [generation : Nat, flag : BOOLEAN] /\ dirty'.flag
        /\ dirty'.generation = dirty.generation
    BY <2>1, Types DEF IInv
  <2>3. dirty.generation \in Nat /\ dirty.generation <= dirty.generation
    BY Types DEF IInv
  <2>4. asked' \in [{"scan", "route"} -> SUBSET Nat]
        /\ \A w \in {"scan", "route"} : asked'[w] \subseteq asked[w]
    BY <1>1, Types DEF IInv
  <2>5. fresh' \subseteq Lines /\ missed' \subseteq Lines
    BY <1>1, <2>1
  <2>6. QED
    BY <1>1, <1>3, <2>1, <2>2, <2>3, <2>4, <2>5, QueuedStep
<1>4. CASE run = NoRun /\ dirty.generation = 0
  <2>1. Mark /\ run' = Queued(1)
        /\ UNCHANGED <<config, line, current, exec>>
    BY <1>4 DEF Enable
  <2>2. dirty' = [generation |-> 1, flag |-> TRUE] /\ due' = Visible /\ fresh' = {}
        /\ missed' = missed \cup Open
    BY <1>4, <2>1 DEF Mark
  <2>3. run' \in RunType /\ run'.status = "QUEUED" /\ run'.attempt = 0 /\ run'.captured = 1
    BY <2>1, Types DEF IInv, Queued, RunType
  <2>4. current'.captured = 0 /\ current' = current
    BY <1>4, <2>1, Types DEF IInv, Safe, Counts
  <2>5. \A x \in Executors : exec[x].pc # "reading"
    BY <1>4, Constants DEF IInv, Safe, ReadsSound, Sound
  <2>6. TypeOK'
    <3>1. due' \subseteq Lines /\ missed' \subseteq Lines
      BY <2>2, <1>1 DEF Visible, Open
    <3>2. QED
      BY <1>1, <2>1, <2>2, <2>3, <3>1 DEF IInv, TypeOK
  <2>7. Counts' /\ Sets'
    <3>1. Sets'
      BY <2>1, <2>2, <2>4 DEF IInv, Safe, Sets, Visible
    <3>2. ASSUME NEW w \in {"scan", "route"}, NEW g \in asked[w] PROVE g <= 1
      BY <1>4, Types DEF IInv, Safe, Counts
    <3>3. QED
      BY <1>1, <2>2, <2>3, <2>4, <3>1, <3>2 DEF Counts
  <2>8. ReadsSound'
    BY <2>1, <2>5 DEF ReadsSound, Sound
  <2>9. ClosableReflects'
    BY <2>2, <2>4 DEF ClosableReflects, Closable, Unconsumed
  <2>10. QED
    BY <2>6, <2>7, <2>8, <2>9 DEF IInv, Safe
<1>5. QED
    BY <1>2, <1>3, <1>4

-----------------------------------------------------------------------------
(* The invariant holds.                                                    *)

LEMMA InitInv == Init => IInv
<1> SUFFICES ASSUME Init PROVE IInv
    OBVIOUS
<1>1. Unread \in [Parts -> Values]
    BY Constants
<1>2. TypeOK
    BY <1>1, Constants DEF Init, TypeOK, CurrentType
<1>3. Counts /\ Sets
    BY Constants DEF Init, Counts, Sets
<1>4. ReadsSound
    BY Constants DEF Init, ReadsSound, Sound
<1>5. ClosableReflects
    BY DEF Init, ClosableReflects, Closable
<1>6. QED
    BY <1>2, <1>3, <1>4, <1>5 DEF IInv, Safe

LEMMA ExecuteStep ==
    ASSUME IInv, NEW x \in Executors, Execute(x), calm' \in BOOLEAN
    PROVE  IInv'
<1>1. CASE Claim(x)
    BY <1>1, ClaimStep
<1>2. CASE ReadLines(x)
    BY <1>2, ReadLinesStep
<1>3. CASE \E p \in Parts : ReadPart(x, p)
    BY <1>3, ReadPartStep
<1>4. CASE Publish(x)
    BY <1>4, PublishStep
<1>5. QED
    BY <1>1, <1>2, <1>3, <1>4 DEF Execute

LEMMA DisturbedStep ==
    ASSUME IInv, Disturbed, calm' \in BOOLEAN
    PROVE  IInv'
<1>1. CASE ChangeConfig
    BY <1>1, ConfigStep
<1>2. CASE Enable
    BY <1>2, EnableStep
<1>3. CASE Rebuild \/ ScanDies
    BY <1>3, ScanStep
<1>4. CASE \E l \in Lines : BeginLine(l)
    BY <1>4, LineStep
<1>5. ASSUME NEW x \in Executors, Fail(x) PROVE IInv'
    BY <1>5, FailStep
<1>6. ASSUME NEW x \in Executors, Crash(x) PROVE IInv'
    BY <1>6, CrashStep
<1>7. QED
    BY <1>1, <1>2, <1>3, <1>4, <1>5, <1>6 DEF Disturbed

LEMMA NextInv == IInv /\ [Next]_vars => IInv'
<1> SUFFICES ASSUME IInv, [Next]_vars PROVE IInv'
    OBVIOUS
<1>1. calm \in BOOLEAN
    BY DEF IInv, TypeOK
<1>2. CASE Scan /\ UNCHANGED calm
    BY <1>1, <1>2, ScanStep
<1>3. CASE Insert("route") /\ UNCHANGED calm
    BY <1>1, <1>3, InsertStep
<1>4. CASE Settles /\ UNCHANGED calm
    BY <1>1, <1>4, LineStep DEF Settles
<1>5. CASE (\E x \in Executors : Execute(x)) /\ UNCHANGED calm
    BY <1>1, <1>5, ExecuteStep
<1>6. CASE Disturbed /\ UNCHANGED calm
    BY <1>1, <1>6, DisturbedStep
<1>7. CASE calm' \in BOOLEAN /\ UNCHANGED <<config, line, fresh, dirty, enabled, run, current,
                                            asked, scan, exec, due, missed>>
  <2>1. Visible \subseteq Visible'
    BY <1>7 DEF Visible
  <2>2. QED
    BY <1>7, <2>1, QuietStep DEF IInv, TypeOK
<1>8. QED
    BY <1>1, <1>2, <1>3, <1>4, <1>5, <1>6, <1>7 DEF Next, vars

LEMMA Invariance == Spec => []IInv
BY InitInv, NextInv, PTL DEF Spec

\* Only a publication replaces the current one.
LEMMA OlderStep ==
    ASSUME IInv, [Next]_vars
    PROVE  current.lines \subseteq current'.lines
<1>1. calm' \in BOOLEAN
    BY NextInv DEF IInv, TypeOK
<1>2. CASE current' = current
    BY <1>2
<1>3. CASE \E x \in Executors : Publish(x)
    BY <1>1, <1>3, PublishStep
<1>4. current' = current \/ \E x \in Executors : Publish(x)
  <2>1. CASE \E x \in Executors : Execute(x)
    BY <2>1 DEF Execute, Claim, ReadLines, ReadPart
  <2>2. CASE Disturbed
    BY <2>2 DEF Disturbed, ChangeConfig, Enable, Rebuild, ScanDies, BeginLine, Fail, Crash
  <2>3. CASE Scan \/ Insert("route") \/ Settles
    BY <2>3 DEF Scan, ScanLines, ScanMark, ScanEnqueue, Insert, Settles, CommitLine, AbortLine,
                Delayed
  <2>4. CASE UNCHANGED <<config, line, fresh, dirty, enabled, run, current, asked, scan, exec,
                         due, missed>>
    BY <2>4
  <2>5. QED
    BY <2>1, <2>2, <2>3, <2>4 DEF Next, vars
<1>5. QED
    BY <1>2, <1>3, <1>4

-----------------------------------------------------------------------------
(* The theorems.                                                           *)

\* The rows of the month, the scan and the executors keep their types, for any number of
\* executors, lines, parts and values, failures and changes.
THEOREM TypeCorrect == Spec => []TypeOK
<1>1. IInv => TypeOK
    BY DEF IInv
<1>2. QED
    BY <1>1, Invariance, PTL

\* What freezeProjectAllocationForClose accepts is the configuration of that moment and
\* holds every line that was visible when markAllocationDirty last ran.
THEOREM ClosableCorrect == Spec => []ClosableReflects
<1>1. IInv => ClosableReflects
    BY DEF IInv, Safe
<1>2. QED
    BY <1>1, Invariance, PTL

\* publishOrNoopRun never replaces a publication by one that lacks a line it held.
THEOREM NotOlder == Spec => NeverOlder
<1>1. IInv /\ [Next]_vars => [current.there => current.lines \subseteq current'.lines]_vars
    BY OlderStep
<1>2. QED
    BY <1>1, Invariance, PTL DEF Spec, NeverOlder
=============================================================================
