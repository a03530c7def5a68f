-------------------------- MODULE QuotaBlockProofs --------------------------
(***************************************************************************)
(* The safety of QuotaBlock for any number of queries and calls.  The      *)
(* invariant adds to the properties what they rest on: a query that a      *)
(* fault overtook carries the fault's revision, and a row without a        *)
(* readable block carries no window.                                       *)
(***************************************************************************)
EXTENDS QuotaBlock, TLAPS

BlameIsNoticed == \A q \in Queries : query[q].blamed # {} => "revision" \in query[q].stale
EmptyUnlessBlock == block.there # "block" => block.windows = {} /\ ~block.unknown

Safe == FaultsStayBlocked /\ EventsFollowBlock /\ BlameIsNoticed /\ EmptyUnlessBlock
IInv == TypeOK /\ Safe

QueryType == [pc : {"idle", "asked"}, stale : SUBSET Token, blamed : SUBSET (Windows \cup {"PLAN"})]
CallType == [pc : {"idle", "chosen", "calling"}, stale : SUBSET Versions]

-----------------------------------------------------------------------------
(* What the operators return.                                              *)

LEMMA NoBlockType == None \in BlockType /\ Corrupt \in BlockType
BY DEF None, Corrupt, BlockType

LEMMA MergedType ==
    ASSUME NEW b \in BlockType, NEW what
    PROVE  /\ Merged(b, what) \in BlockType
           /\ Merged(b, what).there = "block"
           /\ Merged(b, what).windows = b.windows \cup (what \cap Windows)
           /\ Merged(b, what).unknown = (b.unknown \/ "PLAN" \in what)
BY DEF Merged, BlockType

LEMMA KeptType ==
    ASSUME NEW b \in BlockType, NEW answer \in Answers
    PROVE  /\ Kept(b, answer) \in BlockType
           /\ Kept(b, answer).there = b.there
           /\ Kept(b, answer).windows = b.windows \ Left(answer)
           /\ Kept(b, answer).unknown = (b.unknown /\ Left(answer) # Windows)
BY DEF Kept, BlockType

LEMMA AnswerSets ==
    ASSUME NEW answer \in Answers
    PROVE  Left(answer) \subseteq Windows /\ Spent(answer) \subseteq Windows
           /\ "PLAN" \notin Windows
BY DEF Left, Spent, Windows

\* Telling the queries of a change keeps their types, and a blame that comes
\* with the revision is noticed.
LEMMA ToldTyped ==
    ASSUME query \in [Queries -> QueryType],
           NEW changes \in SUBSET Token, NEW what \in SUBSET (Windows \cup {"PLAN"})
    PROVE  Told(changes, what) \in [Queries -> QueryType]
<1> SUFFICES ASSUME NEW q \in Queries PROVE Blamed(q, changes, what) \in QueryType
    BY DEF Told
<1>1. query[q] \in QueryType
    OBVIOUS
<1>2. QED
    BY <1>1 DEF Blamed, QueryType

LEMMA ToldNoticed ==
    ASSUME query \in [Queries -> QueryType], BlameIsNoticed,
           NEW changes \in SUBSET Token, NEW what \in SUBSET (Windows \cup {"PLAN"}),
           what = {} \/ "revision" \in changes
    PROVE  \A q \in Queries : Told(changes, what)[q].blamed # {}
                                 => "revision" \in Told(changes, what)[q].stale
<1> SUFFICES ASSUME NEW q \in Queries
             PROVE  Blamed(q, changes, what).blamed # {}
                       => "revision" \in Blamed(q, changes, what).stale
    BY DEF Told
<1>1. query[q] \in QueryType /\ (query[q].blamed # {} => "revision" \in query[q].stale)
    BY DEF BlameIsNoticed
<1>2. CASE query[q].pc = "asked"
    BY <1>1, <1>2 DEF Blamed, QueryType
<1>3. CASE query[q].pc # "asked"
    BY <1>1, <1>3 DEF Blamed
<1>4. QED
    BY <1>2, <1>3

LEMMA WarnedTyped ==
    ASSUME call \in [Calls -> CallType], NEW changes
    PROVE  Warned(changes) \in [Calls -> CallType]
<1> SUFFICES ASSUME NEW c \in Calls
             PROVE  (IF call[c].pc = "calling"
                     THEN [call[c] EXCEPT !.stale = @ \cup (changes \cap Versions)]
                     ELSE call[c]) \in CallType
    BY DEF Warned
<1>1. call[c] \in CallType
    OBVIOUS
<1>2. QED
    BY <1>1 DEF CallType

LEMMA Idle == NoQuery \in QueryType /\ NoCall \in CallType
              /\ [NoQuery EXCEPT !.pc = "asked"] \in QueryType
              /\ [NoQuery EXCEPT !.pc = "asked"].blamed = {} /\ NoQuery.blamed = {}
BY DEF NoQuery, NoCall, QueryType, CallType

\* What the queries are told in a step that begins or ends none of them.
LEMMA ToldKeeps ==
    ASSUME IInv, NEW changes \in SUBSET Token, NEW what \in SUBSET (Windows \cup {"PLAN"}),
           what = {} \/ "revision" \in changes, query' = Told(changes, what)
    PROVE  query' \in [Queries -> QueryType] /\ BlameIsNoticed'
<1>1. query \in [Queries -> QueryType] /\ BlameIsNoticed
    BY DEF IInv, Safe, TypeOK, QueryType
<1>2. query' \in [Queries -> QueryType]
    BY <1>1, ToldTyped
<1>3. QED
    BY <1>1, <1>2, ToldNoticed DEF BlameIsNoticed

\* A query that ends, after the others were told or not.
LEMMA EndKeeps ==
    ASSUME IInv, NEW q \in Queries,
           \/ query' = [query EXCEPT ![q] = NoQuery]
           \/ query' = [query EXCEPT ![q] = [NoQuery EXCEPT !.pc = "asked"]]
           \/ query' = [Told({"revision"}, {}) EXCEPT ![q] = NoQuery]
    PROVE  query' \in [Queries -> QueryType] /\ BlameIsNoticed'
<1>1. query \in [Queries -> QueryType] /\ BlameIsNoticed
    BY DEF IInv, Safe, TypeOK, QueryType
<1>2. {"revision"} \in SUBSET Token /\ {} \in SUBSET (Windows \cup {"PLAN"})
    BY DEF Token
<1>3. Told({"revision"}, {}) \in [Queries -> QueryType]
    BY <1>1, <1>2, ToldTyped
<1>4. \A p \in Queries : Told({"revision"}, {})[p].blamed # {}
                            => "revision" \in Told({"revision"}, {})[p].stale
    BY <1>1, <1>2, ToldNoticed
<1>5. query' \in [Queries -> QueryType]
    BY <1>1, <1>3, Idle
<1>6. QED
    BY <1>1, <1>3, <1>4, Idle DEF BlameIsNoticed

-----------------------------------------------------------------------------
(* The steps.                                                              *)

LEMMA Parts ==
    ASSUME IInv
    PROVE  /\ provider \in Providers /\ status \in Statuses /\ block \in BlockType
           /\ event \in [current : BOOLEAN, dropped : BOOLEAN]
           /\ query \in [Queries -> QueryType] /\ call \in [Calls -> CallType]
           /\ unresolved \subseteq Windows \cup {"PLAN"} /\ calm \in BOOLEAN
           /\ FaultsStayBlocked /\ EventsFollowBlock /\ BlameIsNoticed /\ EmptyUnlessBlock
BY DEF IInv, Safe, TypeOK, QueryType, CallType

LEMMA Whole ==
    ASSUME provider' \in Providers, status' \in Statuses, block' \in BlockType,
           event' \in [current : BOOLEAN, dropped : BOOLEAN],
           query' \in [Queries -> QueryType], call' \in [Calls -> CallType],
           unresolved' \subseteq Windows \cup {"PLAN"}, calm' \in BOOLEAN,
           FaultsStayBlocked', EventsFollowBlock', BlameIsNoticed', EmptyUnlessBlock'
    PROVE  IInv'
BY DEF IInv, Safe, TypeOK, QueryType, CallType

\* Steps of calls and queries, and of administrators, that leave block and event alone.
LEMMA QuietStep ==
    ASSUME IInv, calm' \in BOOLEAN, status' \in Statuses,
           UNCHANGED <<provider, block, event, unresolved>>,
           query' \in [Queries -> QueryType], BlameIsNoticed', call' \in [Calls -> CallType]
    PROVE  IInv'
<1>1. FaultsStayBlocked' /\ EventsFollowBlock' /\ EmptyUnlessBlock'
    BY Parts DEF FaultsStayBlocked, EventsFollowBlock, EmptyUnlessBlock
<1>2. QED
    BY <1>1, Parts, Whole

LEMMA SameQueries ==
    ASSUME IInv, UNCHANGED query
    PROVE  query' \in [Queries -> QueryType] /\ BlameIsNoticed'
BY Parts DEF BlameIsNoticed

LEMMA CallStep ==
    ASSUME IInv, calm' \in BOOLEAN, NEW c \in Calls, Choose(c) \/ Begin(c) \/ EndCall(c)
    PROVE  IInv'
<1>1. status' \in Statuses /\ UNCHANGED <<provider, status, block, event, query, unresolved>>
    BY Parts DEF Choose, Begin, EndCall
<1>2. call' \in [Calls -> CallType]
  <2>1. CASE Choose(c)
    <3>1. [call[c] EXCEPT !.pc = "chosen"] \in CallType
        BY Parts DEF CallType
    <3>2. QED
        BY <2>1, <3>1, Parts DEF Choose
  <2>2. CASE Begin(c)
    <3>1. [pc |-> "calling", stale |-> {}] \in CallType
        BY DEF CallType
    <3>2. QED
        BY <2>2, <3>1, Parts, Idle DEF Begin
  <2>3. CASE EndCall(c)
        BY <2>3, Parts, Idle DEF EndCall
  <2>4. QED
        BY <2>1, <2>2, <2>3
<1>3. query' \in [Queries -> QueryType] /\ BlameIsNoticed'
    BY <1>1, SameQueries
<1>4. QED
    BY <1>1, <1>2, <1>3, QuietStep

LEMMA ResultStep ==
    ASSUME IInv, calm' \in BOOLEAN, NEW c \in Calls,
           NEW result \in Failures \cup {"success"}, RecordResult(c, result)
    PROVE  IInv'
<1>1. status' \in Statuses
    BY Parts DEF RecordResult, AfterCall, Statuses
<1>2. call' \in [Calls -> CallType]
    BY Parts, Idle DEF RecordResult
<1>3. query' \in [Queries -> QueryType] /\ BlameIsNoticed'
  <2>1. {"revision"} \in SUBSET Token /\ {} \in SUBSET (Windows \cup {"PLAN"})
      BY DEF Token
  <2>2. query' = Told({"revision"}, {})
      BY DEF RecordResult
  <2>3. QED
      BY <2>1, <2>2, ToldKeeps
<1>4. QED
    BY <1>1, <1>2, <1>3, QuietStep DEF RecordResult

\* A fault adds what it blames to the block in the step that makes it unresolved,
\* and the queries under way notice.
LEMMA FaultStep ==
    ASSUME IInv, calm' \in BOOLEAN, NEW c \in Calls, NEW what \in Attributions,
           NEW opened \in BOOLEAN, RecordFault(c, what, opened)
    PROVE  IInv'
<1>1. what \in SUBSET (Windows \cup {"PLAN"}) /\ {"revision"} \in SUBSET Token
    BY DEF Attributions, Token
<1>2. provider' \in Providers /\ status' \in Statuses /\ unresolved' = unresolved \cup what
    BY Parts DEF RecordFault, Statuses
<1>3. /\ block' \in BlockType /\ block'.there = "block"
      /\ block'.windows = block.windows \cup (what \cap Windows)
      /\ block'.unknown = (block.unknown \/ "PLAN" \in what)
    BY Parts, MergedType DEF RecordFault
<1>4. event'.dropped = FALSE /\ event' \in [current : BOOLEAN, dropped : BOOLEAN]
    BY Parts DEF RecordFault, EventAfter, EventsFollowBlock
<1>5. query' \in [Queries -> QueryType] /\ BlameIsNoticed'
  <2>1. query' = Told({"revision"}, what)
      BY DEF RecordFault
  <2>2. QED
      BY <1>1, <2>1, ToldKeeps
<1>6. call' \in [Calls -> CallType]
    BY Parts, Idle DEF RecordFault
<1>7. FaultsStayBlocked'
    BY <1>1, <1>2, <1>3, Parts DEF FaultsStayBlocked
<1>8. EventsFollowBlock' /\ EmptyUnlessBlock'
    BY <1>3, <1>4 DEF EventsFollowBlock, EmptyUnlessBlock
<1>9. QED
    BY <1>1, <1>2, <1>3, <1>4, <1>5, <1>6, <1>7, <1>8, Parts, Whole

LEMMA QueryStep ==
    ASSUME IInv, calm' \in BOOLEAN, NEW q \in Queries,
           Capture(q) \/ Superseded(q) \/ CommitFailure(q) \/ LoseQuery(q)
    PROVE  IInv'
<1>1. /\ UNCHANGED <<provider, status, block, event, call, unresolved>>
      /\ \/ query' = [query EXCEPT ![q] = NoQuery]
         \/ query' = [query EXCEPT ![q] = [NoQuery EXCEPT !.pc = "asked"]]
         \/ query' = [Told({"revision"}, {}) EXCEPT ![q] = NoQuery]
    BY DEF Capture, Superseded, CommitFailure, LoseQuery
<1>2. query' \in [Queries -> QueryType] /\ BlameIsNoticed'
    BY <1>1, EndKeeps
<1>3. QED
    BY <1>1, <1>2, Parts, QuietStep

\* What an answer leaves of the block: every window it does not find left, and the
\* unknown one unless it finds both.
LEMMA RemainsCovers ==
    ASSUME IInv, NEW answer \in Answers
    PROVE  /\ Remains(answer) \in BlockType
           /\ Remains(answer).there \in {"none", "block"}
           /\ Remains(answer).there = "none" => Remains(answer) = None
           /\ block.windows \ Left(answer) \subseteq Remains(answer).windows
           /\ block.unknown /\ Left(answer) # Windows => Remains(answer).unknown
<1>1. CASE block.there = "block" /\ ~Lifts(block, answer)
    <2>1. Remains(answer) = Kept(block, answer)
        BY <1>1 DEF Remains
    <2>2. /\ Kept(block, answer) \in BlockType /\ Kept(block, answer).there = "block"
          /\ Kept(block, answer).windows = block.windows \ Left(answer)
        BY <1>1, Parts, KeptType
    <2>3. block.unknown /\ Left(answer) # Windows => Kept(block, answer).unknown
        BY Parts, KeptType
    <2>4. QED
        BY <2>1, <2>2, <2>3
<1>2. CASE block.there = "block" /\ Lifts(block, answer)
    <2>1. Remains(answer) = None
        BY <1>2 DEF Remains
    <2>2. block.windows \ Left(answer) = {} /\ ~(block.unknown /\ Left(answer) # Windows)
        BY <1>2, Parts, KeptType DEF Lifts
    <2>3. QED
        BY <2>1, <2>2, NoBlockType DEF None
<1>3. CASE block.there # "block"
    <2>1. Remains(answer) = None /\ block.windows = {} /\ ~block.unknown
        BY <1>3, Parts DEF Remains, EmptyUnlessBlock
    <2>2. QED
        BY <2>1, NoBlockType DEF None
<1>4. QED
    BY <1>1, <1>2, <1>3

\* The same, once the windows the answer finds spent are merged.
LEMMA AnswerCovers ==
    ASSUME IInv, NEW answer \in Answers
    PROVE  /\ AfterAnswer(answer) \in BlockType
           /\ AfterAnswer(answer).there \in {"none", "block"}
           /\ AfterAnswer(answer).there = "none" => AfterAnswer(answer) = None
           /\ (block.windows \ Left(answer)) \cup Spent(answer) \subseteq AfterAnswer(answer).windows
           /\ block.unknown /\ Left(answer) # Windows => AfterAnswer(answer).unknown
           /\ block.there = "block" /\ ~Lifts(block, answer) => AfterAnswer(answer).there = "block"
<1>1. CASE Spent(answer) = {}
    <2>1. AfterAnswer(answer) = Remains(answer)
        BY <1>1 DEF AfterAnswer
    <2>2. block.there = "block" /\ ~Lifts(block, answer) => Remains(answer).there = "block"
        BY Parts, KeptType DEF Remains
    <2>3. QED
        BY <1>1, <2>1, <2>2, RemainsCovers
<1>2. CASE Spent(answer) # {}
    <2>1. AfterAnswer(answer) = Merged(Remains(answer), Spent(answer))
        BY <1>2 DEF AfterAnswer
    <2>2. /\ AfterAnswer(answer) \in BlockType /\ AfterAnswer(answer).there = "block"
          /\ AfterAnswer(answer).windows
                = Remains(answer).windows \cup (Spent(answer) \cap Windows)
          /\ AfterAnswer(answer).unknown = (Remains(answer).unknown \/ "PLAN" \in Spent(answer))
        BY <2>1, RemainsCovers, MergedType
    <2>3. QED
        BY <2>2, RemainsCovers, AnswerSets
<1>3. QED
    BY <1>1, <1>2

\* A commit: nothing was blamed since the capture, so all that the answer finds left
\* is refuted, and the block keeps the rest.
LEMMA CommitStep ==
    ASSUME IInv, calm' \in BOOLEAN, NEW q \in Queries, NEW answer \in Answers, Commit(q, answer)
    PROVE  IInv'
<1> DEFINE recovered == Lifts(block, answer) \/ LiftsWithoutBlock(answer)
           same == block.there = "block" /\ block'.there = "block"
<1>1. block' = AfterAnswer(answer)
    BY DEF Commit
<1>2. query[q].blamed = {}
    BY Parts DEF Commit, Verified, BlameIsNoticed
<1>3. unresolved' = (unresolved \ (Left(answer) \cup IF Left(answer) = Windows THEN {"PLAN"} ELSE {}))
                       \cup Spent(answer)
    BY <1>2 DEF Commit, Refuted
<1>4. FaultsStayBlocked' /\ unresolved' \subseteq Windows \cup {"PLAN"}
    BY <1>1, <1>3, Parts, AnswerCovers, AnswerSets DEF FaultsStayBlocked
<1>5. block' \in BlockType /\ EmptyUnlessBlock'
    BY <1>1, AnswerCovers DEF EmptyUnlessBlock, None
<1>6. event' = EventAfter(recovered /\ block.there = "block", same, FALSE)
    BY <1>1 DEF Commit
<1>7. block.there = "block" => recovered \/ same
    BY <1>1, AnswerCovers
<1>8. event' \in [current : BOOLEAN, dropped : BOOLEAN] /\ EventsFollowBlock'
    <2>1. event.dropped = FALSE /\ event.current \in BOOLEAN
             /\ (event.current => block.there = "block")
        BY Parts DEF EventsFollowBlock
    <2>2. CASE event.current /\ ~recovered
        BY <1>6, <1>7, <2>1, <2>2 DEF EventAfter, EventsFollowBlock
    <2>3. CASE event.current /\ recovered
        BY <1>6, <2>1, <2>3 DEF EventAfter, EventsFollowBlock
    <2>4. CASE ~event.current
        BY <1>6, <2>1, <2>4 DEF EventAfter, EventsFollowBlock
    <2>5. QED
        BY <2>2, <2>3, <2>4
<1>9. status' \in Statuses
    BY Parts DEF Commit, AfterQuery, Statuses
<1>10. query' \in [Queries -> QueryType] /\ BlameIsNoticed'
    <2>1. query' = [Told({"revision"}, {}) EXCEPT ![q] = NoQuery]
        BY DEF Commit
    <2>2. QED
        BY <2>1, EndKeeps
<1>11. provider' = provider /\ call' = call
    BY DEF Commit
<1>12. QED
    BY <1>4, <1>5, <1>8, <1>9, <1>10, <1>11, Parts, Whole

\* A new credential turns everything unresolved into the one unknown window.
LEMMA RotateStep ==
    ASSUME IInv, calm' \in BOOLEAN, Rotate
    PROVE  IInv'
<1>1. block' = IF block = None THEN None
               ELSE [there |-> "block", windows |-> {}, unknown |-> TRUE]
    BY DEF Rotate
<1>2. block' \in BlockType /\ EmptyUnlessBlock'
    BY <1>1, NoBlockType DEF BlockType, None, EmptyUnlessBlock
<1>3. FaultsStayBlocked' /\ unresolved' \subseteq Windows \cup {"PLAN"}
  <2>1. CASE block = None
      <3>1. unresolved = {}
          BY <2>1, Parts DEF FaultsStayBlocked, None
      <3>2. QED
          BY <3>1 DEF Rotate, FaultsStayBlocked
  <2>2. CASE block # None
      BY <1>1, <2>2 DEF Rotate, FaultsStayBlocked
  <2>3. QED
      BY <2>1, <2>2
<1>4. event' \in [current : BOOLEAN, dropped : BOOLEAN] /\ EventsFollowBlock'
  <2>1. event.dropped = FALSE /\ event.current \in BOOLEAN
           /\ (event.current => block.there = "block")
      BY Parts DEF EventsFollowBlock
  <2>2. event' = EventAfter(block # None, block = None, FALSE)
      BY DEF Rotate
  <2>3. block = None => ~event.current
      BY <2>1 DEF None
  <2>4. event' = [current |-> FALSE, dropped |-> FALSE]
      BY <2>1, <2>2, <2>3 DEF EventAfter
  <2>5. QED
      BY <2>4 DEF EventsFollowBlock
<1>5. query' \in [Queries -> QueryType] /\ BlameIsNoticed'
  <2>1. {"revision"} \in SUBSET Token /\ {} \in SUBSET (Windows \cup {"PLAN"})
           /\ query' = Told({"revision"}, {})
      BY DEF Token, Rotate
  <2>2. QED
      BY <2>1, ToldKeeps
<1>6. call' \in [Calls -> CallType]
    BY Parts, WarnedTyped DEF Rotate
<1>7. provider' \in Providers /\ status' \in Statuses
    BY Parts DEF Rotate, Statuses
<1>8. QED
    BY <1>2, <1>3, <1>4, <1>5, <1>6, <1>7, Whole

LEMMA AdminStep ==
    ASSUME IInv, calm' \in BOOLEAN, Recover \/ Edit \/ ChatProbePassed
    PROVE  IInv'
<1>1. status' \in Statuses /\ UNCHANGED <<provider, block, event, unresolved>>
    BY Parts DEF Recover, Edit, ChatProbePassed, Statuses
<1>2. call' \in [Calls -> CallType]
    BY Parts, WarnedTyped DEF Recover, Edit, ChatProbePassed
<1>3. query' \in [Queries -> QueryType] /\ BlameIsNoticed'
  <2>1. {"revision"} \in SUBSET Token /\ {"version"} \in SUBSET Token
           /\ {"version", "revision"} \in SUBSET Token /\ {} \in SUBSET (Windows \cup {"PLAN"})
      BY DEF Token
  <2>2. \/ query' = Told({"revision"}, {}) \/ query' = Told({"version"}, {})
        \/ query' = Told({"version", "revision"}, {})
      BY DEF Recover, Edit, ChatProbePassed
  <2>3. QED
      BY <2>1, <2>2, ToldKeeps
<1>4. QED
    BY <1>1, <1>2, <1>3, QuietStep

LEMMA CloseStep ==
    ASSUME IInv, calm' \in BOOLEAN, CloseEvent
    PROVE  IInv'
<1>1. event' \in [current : BOOLEAN, dropped : BOOLEAN] /\ EventsFollowBlock'
    BY Parts DEF CloseEvent, EventsFollowBlock
<1>2. UNCHANGED <<provider, status, block, query, call, unresolved>>
    BY DEF CloseEvent
<1>3. FaultsStayBlocked' /\ EmptyUnlessBlock' /\ BlameIsNoticed'
    BY <1>2, Parts DEF FaultsStayBlocked, EmptyUnlessBlock, BlameIsNoticed
<1>4. QED
    BY <1>1, <1>2, <1>3, Parts, Whole

LEMMA IdleStep ==
    ASSUME IInv, calm' \in BOOLEAN,
           UNCHANGED <<provider, status, block, event, query, call, unresolved>>
    PROVE  IInv'
<1>1. query' \in [Queries -> QueryType] /\ BlameIsNoticed'
    BY SameQueries
<1>2. QED
    BY <1>1, Parts, QuietStep

-----------------------------------------------------------------------------
(* The theorems.                                                           *)

LEMMA InitInv == ASSUME QuotaAssumption, Init PROVE IInv
<1>1. provider \in Providers /\ status \in Statuses /\ calm \in BOOLEAN
    BY DEF Init, Statuses
<1>2. block \in {None, Corrupt} /\ block \in BlockType /\ EmptyUnlessBlock
  <2>1. block = None \/ block = Corrupt
      BY DEF Init
  <2>2. /\ None.windows = {} /\ ~None.unknown
        /\ Corrupt.windows = {} /\ ~Corrupt.unknown
      BY DEF None, Corrupt
  <2>3. QED
      BY <2>1, <2>2, NoBlockType DEF EmptyUnlessBlock
<1>3. event \in [current : BOOLEAN, dropped : BOOLEAN] /\ EventsFollowBlock
    BY DEF Init, EventsFollowBlock
<1>4. query \in [Queries -> QueryType] /\ call \in [Calls -> CallType] /\ BlameIsNoticed
    BY Idle DEF Init, BlameIsNoticed
<1>5. unresolved = {} /\ FaultsStayBlocked
    BY DEF Init, FaultsStayBlocked
<1>6. QED
    BY <1>1, <1>2, <1>3, <1>4, <1>5 DEF IInv, Safe, TypeOK, QueryType, CallType

LEMMA NextInv == ASSUME IInv, [Next]_vars PROVE IInv'
<1>1. CASE AtWork /\ UNCHANGED calm
  <2>0. calm' \in BOOLEAN
      BY <1>1, Parts
  <2>1. ASSUME NEW c \in Calls, GatewayAtWork(c) PROVE IInv'
      BY <2>0, <2>1, CallStep, ResultStep DEF GatewayAtWork
  <2>2. Full \in Answers
    <3>1. [w \in Windows |-> "left"] \in Answers /\ Left([w \in Windows |-> "left"]) = Windows
        BY DEF Answers, Left
    <3>2. QED
        BY <3>1 DEF Full
  <2>3. ASSUME NEW q \in Queries, QueryAtWork(q) PROVE IInv'
      BY <2>0, <2>2, <2>3, QueryStep, CommitStep DEF QueryAtWork
  <2>4. QED
      BY <1>1, <2>1, <2>3 DEF AtWork
<1>2. CASE ~calm /\ Disturbed /\ UNCHANGED calm
  <2>0. calm' \in BOOLEAN
      BY <1>2, Parts
  <2>1. ASSUME NEW c \in Calls, NEW what \in Attributions, NEW opened \in BOOLEAN,
               RecordFault(c, what, opened)
        PROVE  IInv'
      BY <2>0, <2>1, FaultStep
  <2>2. ASSUME NEW c \in Calls, NEW result \in Failures, RecordResult(c, result) PROVE IInv'
      BY <2>0, <2>2, ResultStep
  <2>3. ASSUME NEW q \in Queries, NEW answer \in Answers, Commit(q, answer) PROVE IInv'
      BY <2>0, <2>3, CommitStep
  <2>4. ASSUME NEW q \in Queries, CommitFailure(q) \/ LoseQuery(q) PROVE IInv'
      BY <2>0, <2>4, QueryStep
  <2>5. CASE Recover \/ Rotate \/ Edit \/ ChatProbePassed \/ CloseEvent
      BY <2>0, <2>5, AdminStep, RotateStep, CloseStep
  <2>6. QED
      BY <1>2, <2>1, <2>2, <2>3, <2>4, <2>5 DEF Disturbed
<1>3. CASE calm' = TRUE /\ UNCHANGED <<provider, status, block, event, query, call, unresolved>>
    BY <1>3, IdleStep
<1>4. CASE UNCHANGED vars
    BY <1>4, IdleStep, Parts DEF vars
<1>5. QED
    BY <1>1, <1>2, <1>3, <1>4 DEF Next

\* The row, the queries and the calls keep their types, for any of them.
THEOREM TypeCorrect == Spec => []TypeOK
<1>1. Init => IInv
    BY InitInv, QuotaAssumption
<1>2. IInv /\ [Next]_vars => IInv'
    BY NextInv
<1>3. IInv => TypeOK
    BY DEF IInv
<1>4. QED
    BY <1>1, <1>2, <1>3, PTL DEF Spec

\* What was reported spent stays blocked until an answer asked for later refutes it,
\* whatever queries, calls and administrators do in between.
THEOREM FaultsBlocked == Spec => []FaultsStayBlocked
<1>1. Init => IInv
    BY InitInv, QuotaAssumption
<1>2. IInv /\ [Next]_vars => IInv'
    BY NextInv
<1>3. IInv => FaultsStayBlocked
    BY DEF IInv, Safe
<1>4. QED
    BY <1>1, <1>2, <1>3, PTL DEF Spec

\* No event stays OPEN for an incident whose block has gone.
THEOREM EventsFollow == Spec => []EventsFollowBlock
<1>1. Init => IInv
    BY InitInv, QuotaAssumption
<1>2. IInv /\ [Next]_vars => IInv'
    BY NextInv
<1>3. IInv => EventsFollowBlock
    BY DEF IInv, Safe
<1>4. QED
    BY <1>1, <1>2, <1>3, PTL DEF Spec
=============================================================================
