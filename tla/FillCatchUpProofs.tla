------------------------- MODULE FillCatchUpProofs -------------------------
(***************************************************************************)
(* The cursor of FillCatchUp is safe for every page size, pages per tick,  *)
(* queue size and history: it never stands for a fill that was not handed  *)
(* over, its mark never goes back, and the service implements FillFeed.    *)
(*                                                                         *)
(* Neither is inductive.  While a poll is under way, the cursor it will    *)
(* write depends on what its earlier pages covered: CatchUpInv adds that   *)
(* the pages of the cycle, above the next one to fetch or to ingest, were  *)
(* handed over, and that the cycle's target is no older than the mark.     *)
(***************************************************************************)
EXTENDS FillCatchUp, TLAPS

\* Both halves of the cursor's progress are written, and cleared, together.
ProgressWhole == cursor.pending = 0 <=> cursor.next = 0

\* Marks name bills of the history, and a cycle aims at or above the mark.
MarksInOrder ==
    /\ cursor.high <= history /\ cursor.pending <= history /\ poll.pending <= history
    /\ cursor.pending # 0 => cursor.high <= cursor.pending
    /\ poll.pc \in {"fetch", "ingest"} /\ poll.pending # 0 => cursor.high <= poll.pending

\* What the poll under way has covered, above the page it is about to fetch.
FetchCovered ==
    poll.pc = "fetch" =>
        /\ poll.after = NewestFirst => poll.pending = 0
        /\ poll.after # NewestFirst =>
              poll.pending # 0 /\ poll.after..poll.pending \subseteq seen

\* And above the page that it is about to hand over.
IngestCovered ==
    poll.pc = "ingest" =>
        /\ poll.top # 0 /\ poll.pending # 0
        /\ (poll.top + 1)..poll.pending \subseteq seen

\* A poll under way has a page left to ask for.
PagesLeft == poll.pc \in {"fetch", "ingest"} => poll.left # 0

CatchUpInv ==
    /\ CursorType /\ ProgressWhole /\ MarksInOrder /\ PagesLeft
    /\ FetchCovered /\ IngestCovered /\ CursorCovered

-----------------------------------------------------------------------------
\* The page poll.top starts: where it ends, and that only the oldest is short.
LEMMA PageFacts ==
    ASSUME CursorType, poll.top # 0
    PROVE  /\ PageBottom \in 1..poll.top
           /\ Exhausted => PageBottom = 1
  BY PageAssumption DEF CursorType, PageBottom, Exhausted

\* The steps that leave the cursor, the poll and the fills handed over alone
\* keep the invariant: the exchange and the stream's thread.
LEMMA StreamKeepsCatchUp ==
    ASSUME CatchUpInv, StreamNext
    PROVE  CatchUpInv'
  <1>1. /\ UNCHANGED <<cursor, seen, poll>>
        /\ history' \in 0..MaxBill /\ history <= history'
    <2>1. history \in 0..MaxBill
      BY DEF CatchUpInv, CursorType
    <2>2. CASE Execute
      BY <2>1, <2>2, BoundAssumption DEF Execute
    <2>3. CASE Enqueue \/ Connect \/ Disconnect
      BY <2>1, <2>3 DEF Enqueue, Connect, Disconnect
    <2> QED BY <2>2, <2>3 DEF StreamNext
  <1> QED
    BY <1>1, BoundAssumption
    DEF CatchUpInv, CursorType, PagesLeft, ProgressWhole, MarksInOrder, FetchCovered, IngestCovered,
        CursorCovered, InProgress

\* A poll starts where the stored cursor stands: on the newest page, or below
\* the pages of the cycle that is in progress.
LEMMA StartKeepsCatchUp ==
    ASSUME CatchUpInv, StartPoll \/ StartWithoutPoll, drops \in Seq(Bill)
    PROVE  CatchUpInv'
  <1>1. CASE StartPoll
    <2>1. /\ UNCHANGED <<history, cursor, seen>>
          /\ poll' = [pc |-> "fetch", pending |-> cursor.pending,
                      after |-> IF InProgress(cursor) THEN cursor.next ELSE NewestFirst,
                      left |-> PagesPerTick, top |-> 0, mark |-> Len(drops)]
      BY <1>1 DEF StartPoll, Idle
    <2>2. CursorType'
      BY <2>1, PageAssumption, BoundAssumption
      DEF CatchUpInv, CursorType, NewestFirst
    <2>3. FetchCovered' /\ IngestCovered' /\ PagesLeft'
      BY <2>1, PageAssumption
      DEF CatchUpInv, CursorCovered, ProgressWhole, FetchCovered, IngestCovered, PagesLeft,
          InProgress, NewestFirst
    <2>4. MarksInOrder' /\ ProgressWhole' /\ CursorCovered'
      BY <2>1 DEF CatchUpInv, MarksInOrder, ProgressWhole, CursorCovered, InProgress
    <2> QED BY <2>2, <2>3, <2>4 DEF CatchUpInv
  <1>2. CASE StartWithoutPoll
    <2>1. /\ UNCHANGED <<history, cursor, seen>>
          /\ poll' = [pc |-> "drain", pending |-> 0, after |-> NewestFirst,
                      left |-> 0, top |-> 0, mark |-> 0]
      BY <1>2 DEF StartWithoutPoll, Idle
    <2> QED
      BY <2>1, PageAssumption, BoundAssumption
      DEF CatchUpInv, CursorType, PagesLeft, ProgressWhole, MarksInOrder, FetchCovered, IngestCovered,
          CursorCovered, InProgress, NewestFirst
  <1> QED BY <1>1, <1>2

\* A page is fetched, or the history turns out to end above it.
LEMMA FetchKeepsCatchUp ==
    ASSUME CatchUpInv, FetchPage
    PROVE  CatchUpInv' /\ cursor'.high >= cursor.high
  <1> DEFINE top == IF poll.after = NewestFirst THEN history ELSE poll.after - 1
  <1>0. poll.pc = "fetch" /\ UNCHANGED <<history, seen>> /\ top \in 0..MaxBill
    BY BoundAssumption DEF FetchPage, CatchUpInv, CursorType, NewestFirst
  <1>1. CASE top # 0
    <2>1. /\ UNCHANGED cursor
          /\ poll' = [poll EXCEPT !.pc = "ingest", !.top = top,
                                  !.pending = IF @ = 0 THEN top ELSE @]
      BY <1>1 DEF FetchPage
    <2>2. CursorType'
      BY <1>0, <2>1, BoundAssumption DEF CatchUpInv, CursorType
    <2>3. IngestCovered'
      BY <1>0, <1>1, <2>1 DEF CatchUpInv, CursorType, FetchCovered, IngestCovered, NewestFirst
    <2>4. MarksInOrder'
      BY <1>0, <1>1, <2>1 DEF CatchUpInv, CursorType, FetchCovered, MarksInOrder, NewestFirst
    <2> QED
      BY <1>0, <2>1, <2>2, <2>3, <2>4
      DEF CatchUpInv, CursorType, PagesLeft, ProgressWhole, FetchCovered, CursorCovered, InProgress
  <1>2. CASE top = 0
    <2> DEFINE c == IF poll.pending # 0 THEN Complete(cursor, poll.pending) ELSE cursor
    <2>1. cursor' = c /\ poll' = [poll EXCEPT !.pc = "drain"]
      BY <1>2 DEF FetchPage, EndPoll
    <2>2. poll.pending # 0 => 1..poll.pending \subseteq seen
      BY <1>0, <1>2 DEF CatchUpInv, CursorType, FetchCovered, NewestFirst
    <2>3. CursorType'
      BY <1>0, <2>1, BoundAssumption DEF CatchUpInv, CursorType, Complete
    <2>4. cursor'.high >= cursor.high /\ cursor'.high <= history
      <3>1. CASE poll.pending = 0
        BY <1>0, <2>1, <3>1 DEF CatchUpInv, CursorType, MarksInOrder
      <3>2. CASE poll.pending # 0
        BY <1>0, <2>1, <3>2 DEF CatchUpInv, CursorType, MarksInOrder, Complete
      <3> QED BY <3>1, <3>2
    <2> QED
      BY <1>0, <2>1, <2>2, <2>3, <2>4
      DEF CatchUpInv, CursorType, PagesLeft, ProgressWhole, MarksInOrder, FetchCovered, IngestCovered,
          CursorCovered, InProgress, Complete
  <1> QED BY <1>1, <1>2

\* A page is handed over; then the cycle is complete, or its progress is saved.
LEMMA IngestPageKeepsCatchUp ==
    ASSUME CatchUpInv, IngestPage
    PROVE  CatchUpInv' /\ cursor'.high >= cursor.high
  <1>0. /\ poll.pc = "ingest" /\ UNCHANGED history
        /\ seen' = seen \cup PageBottom..poll.top
        /\ poll.top # 0 /\ poll.pending # 0
    BY DEF IngestPage, CatchUpInv, IngestCovered
  <1>1. PageBottom \in 1..poll.top /\ (Exhausted => PageBottom = 1)
    BY <1>0, PageFacts DEF CatchUpInv
  <1>2. PageBottom..poll.pending \subseteq seen'
    BY <1>0, <1>1 DEF CatchUpInv, CursorType, IngestCovered
  <1>3. seen' \subseteq Bill /\ seen \subseteq seen'
    <2>1. poll.top \in 1..MaxBill /\ seen \subseteq Bill
      BY <1>0, BoundAssumption DEF CatchUpInv, CursorType
    <2>2. PageBottom..poll.top \subseteq Bill
      BY <1>1, <2>1, BoundAssumption DEF Bill
    <2> QED BY <1>0, <2>1, <2>2
  <1>4. CASE ReachedBoundary \/ Exhausted
    <2>1. cursor' = Complete(cursor, poll.pending) /\ poll' = [poll EXCEPT !.pc = "drain"]
      BY <1>4 DEF IngestPage, EndPoll
    <2>2. 1..poll.pending \subseteq seen'
      <3>1. CASE Exhausted
        BY <1>1, <1>2, <3>1
      <3>2. CASE ReachedBoundary
        <4>1. cursor.high \in PageBottom..poll.top /\ 1..cursor.high \subseteq seen'
          BY <1>3, <3>2 DEF ReachedBoundary, CatchUpInv, CursorCovered
        <4> QED BY <1>1, <1>2, <4>1 DEF CatchUpInv, CursorType
      <3> QED BY <1>4, <3>1, <3>2
    <2>3. CursorType'
      BY <1>0, <1>3, <2>1, BoundAssumption DEF CatchUpInv, CursorType, Complete
    <2> QED
      BY <1>0, <2>1, <2>2, <2>3
      DEF CatchUpInv, CursorType, PagesLeft, ProgressWhole, MarksInOrder, FetchCovered, IngestCovered,
          CursorCovered, InProgress, Complete
  <1>5. CASE ~(ReachedBoundary \/ Exhausted)
    <2>1. cursor' = [cursor EXCEPT !.pending = poll.pending, !.next = PageBottom]
      BY <1>5 DEF IngestPage, EndPoll, Checkpoint
    <2>2. PageBottom \in 1..MaxBill /\ history \in 0..MaxBill
      BY <1>0, <1>1, BoundAssumption DEF CatchUpInv, CursorType
    <2>0. /\ cursor' \in [high : 0..MaxBill, pending : 0..MaxBill, next : 0..MaxBill]
          /\ history' \in 0..MaxBill /\ seen' \subseteq Bill
      <3>1. poll.pending \in 0..MaxBill /\ PageBottom \in 0..MaxBill
        BY <2>2, BoundAssumption DEF CatchUpInv, CursorType
      <3>2. cursor \in [high : 0..MaxBill, pending : 0..MaxBill, next : 0..MaxBill]
        BY DEF CatchUpInv, CursorType
      <3> QED BY <1>0, <1>3, <2>1, <2>2, <3>1, <3>2
    <2>3. CursorCovered' /\ ProgressWhole' /\ cursor'.high = cursor.high
      BY <1>0, <1>2, <1>3, <2>1, <2>2
      DEF CatchUpInv, CursorType, CursorCovered, ProgressWhole, InProgress
    <2>4. CASE poll.left = 1
      <3>1. poll' = [poll EXCEPT !.pc = "drain"]
        BY <1>5, <2>4 DEF IngestPage, EndPoll
      <3>2. CursorType'
        BY <2>0, <3>1 DEF CatchUpInv, CursorType
      <3> QED
        BY <1>0, <2>1, <2>2, <2>3, <3>1, <3>2
        DEF CatchUpInv, CursorType, PagesLeft, MarksInOrder, FetchCovered, IngestCovered
    <2>5. CASE poll.left # 1
      <3>1. poll' = [poll EXCEPT !.pc = "fetch", !.after = PageBottom, !.left = @ - 1]
        BY <1>5, <2>5 DEF IngestPage
      <3>2. poll.left - 1 \in 1..PagesPerTick
        BY <1>0, <2>5, PageAssumption DEF CatchUpInv, CursorType, PagesLeft
      <3>3. CursorType'
        <4>1. PageBottom \in 0..MaxBill /\ poll.left - 1 \in 0..PagesPerTick
          BY <2>2, <3>2, PageAssumption, BoundAssumption
        <4> QED BY <2>0, <3>1, <4>1 DEF CatchUpInv, CursorType
      <3>4. MarksInOrder' /\ PagesLeft'
        BY <1>0, <2>1, <2>2, <3>1, <3>2 DEF CatchUpInv, CursorType, PagesLeft, MarksInOrder
      <3>5. FetchCovered' /\ IngestCovered'
        BY <1>0, <1>2, <2>2, <3>1
        DEF CatchUpInv, CursorType, FetchCovered, IngestCovered, NewestFirst
      <3> QED BY <2>3, <3>3, <3>4, <3>5 DEF CatchUpInv, CursorType
    <2> QED BY <2>4, <2>5
  <1> QED BY <1>4, <1>5

\* A step that stops half-way through a page hands over bills of that page only.
LEMMA PartOfPageFacts ==
    ASSUME CatchUpInv, PartOfPage(seen')
    PROVE  seen' \subseteq Bill /\ seen \subseteq seen'
  <1>1. CASE poll.pc = "ingest"
    <2>1. PICK k \in PageBottom..(poll.top + 1) : seen' = seen \cup k..poll.top
      BY <1>1 DEF PartOfPage
    <2>2. poll.top # 0
      BY <1>1 DEF CatchUpInv, IngestCovered
    <2>3. PageBottom \in 1..poll.top
      BY <2>2, PageFacts DEF CatchUpInv
    <2>4. poll.top \in 1..MaxBill /\ k \in 1..(poll.top + 1)
      BY <2>2, <2>3, BoundAssumption DEF CatchUpInv, CursorType
    <2>5. k..poll.top \subseteq Bill
      BY <2>4, BoundAssumption DEF Bill
    <2> QED BY <2>1, <2>5 DEF CatchUpInv, CursorType
  <1>2. CASE poll.pc # "ingest"
    BY <1>2 DEF PartOfPage, CatchUpInv, CursorType
  <1> QED BY <1>1, <1>2

\* When a tick is not polling, only the stored cursor matters, and more fills
\* handed over never hurt it.
LEMMA QuietKeepsCatchUp ==
    ASSUME CatchUpInv, UNCHANGED <<history, cursor>>,
           seen' \subseteq Bill, seen \subseteq seen',
           \/ poll' = [poll EXCEPT !.pc = "drain"]
           \/ poll' = Idle
    PROVE  CatchUpInv' /\ cursor'.high >= cursor.high
  <1>1. CursorType'
    BY PageAssumption, BoundAssumption DEF CatchUpInv, CursorType, Idle, NewestFirst
  <1>2. poll'.pc \in {"drain", "idle"} /\ poll'.pending \in {0, poll.pending}
    BY DEF CatchUpInv, CursorType, Idle
  <1> QED
    BY <1>1, <1>2
    DEF CatchUpInv, CursorType, PagesLeft, ProgressWhole, MarksInOrder, FetchCovered,
        IngestCovered, CursorCovered, InProgress

\* The remaining steps of a tick, and a crash.
LEMMA EndKeepsCatchUp ==
    ASSUME TypeOK, CatchUpInv, PollFails \/ Publish \/ DrainFails \/ Crash
    PROVE  CatchUpInv' /\ cursor'.high >= cursor.high
  <1>1. UNCHANGED <<history, cursor>>
    BY DEF PollFails, Publish, DrainFails, Crash, EndPoll
  <1>2. poll' = [poll EXCEPT !.pc = "drain"] \/ poll' = Idle
    BY DEF PollFails, Publish, DrainFails, Crash, EndPoll
  <1>3. seen' \subseteq Bill /\ seen \subseteq seen'
    <2>1. CASE PollFails \/ Crash
      BY <2>1, PartOfPageFacts DEF PollFails, Crash
    <2>2. CASE Publish \/ DrainFails
      <3>1. Drained \in 0..Len(queue)
        BY QueueAssumption DEF TypeOK, Drained
      <3>2. \E n \in 0..Drained : seen' = seen \cup {queue[i] : i \in 1..n}
        <4>1. CASE Publish
          <5>1. Drained \in 0..Drained /\ seen' = seen \cup {queue[i] : i \in 1..Drained}
            BY <3>1, <4>1 DEF Publish
          <5> QED BY <5>1, Zenon
        <4>2. CASE DrainFails
          <5>1. PICK n \in 0..(Drained - 1) : seen' = seen \cup {queue[i] : i \in 1..n}
            BY <4>2 DEF DrainFails
          <5>2. n \in 0..Drained
            BY <3>1
          <5> QED BY <5>1, <5>2, Zenon
        <4> QED BY <2>2, <4>1, <4>2
      <3>3. PICK n \in 0..Drained : seen' = seen \cup {queue[i] : i \in 1..n}
        BY <3>2
      <3>4. \A i \in 1..n : queue[i] \in Bill
        BY <3>1 DEF TypeOK
      <3> QED BY <3>3, <3>4 DEF CatchUpInv, CursorType
    <2> QED BY <2>1, <2>2
  <1> QED BY <1>1, <1>2, <1>3, QuietKeepsCatchUp

-----------------------------------------------------------------------------
\* The initial state: no history, no cursor, no poll.
LEMMA CatchUpInit == Init => TypeOK /\ CatchUpInv
  <1> SUFFICES ASSUME Init PROVE TypeOK /\ CatchUpInv
    OBVIOUS
  <1>1. CursorType
    BY PageAssumption, BoundAssumption DEF Init, CursorType, NoCursor, Idle, NewestFirst
  <1>2. ProgressWhole /\ MarksInOrder /\ PagesLeft /\ FetchCovered /\ IngestCovered
    BY DEF Init, NoCursor, Idle, ProgressWhole, MarksInOrder, PagesLeft, FetchCovered,
           IngestCovered
  <1>3. CursorCovered
    BY DEF Init, NoCursor, CursorCovered, InProgress
  <1>4. TypeOK
    <2>1. <<>> \in Seq(Bill) /\ Len(<<>>) <= QueueSize
      BY QueueAssumption
    <2>2. FreshService \in ServiceType
      BY DEF FreshService, ServiceType
    <2>3. /\ wire = <<>> /\ queue = <<>> /\ drops = <<>> /\ service = FreshService
          /\ connected = FALSE /\ healthy = FALSE /\ faults \in 0..MaxFaults
      BY BoundAssumption DEF Init
    <2> QED BY <1>1, <2>1, <2>2, <2>3 DEF TypeOK
  <1> QED BY <1>1, <1>2, <1>3, <1>4 DEF CatchUpInv

\* What the stream's thread hands over keeps its type, and the queue its bound.
LEMMA StreamKeepsTypes ==
    ASSUME TypeOK, StreamNext, CursorType'
    PROVE  TypeOK'
  <1>1. CASE Execute
    <2>1. history + 1 \in Bill
      BY <1>1, BoundAssumption DEF Execute, TypeOK, CursorType, Bill
    <2>2. wire' \in Seq(Bill)
      BY <1>1, <2>1 DEF Execute, TypeOK
    <2> QED BY <1>1, <2>2 DEF Execute, TypeOK
  <1>2. CASE Enqueue
    <2>1. Head(wire) \in Bill /\ Tail(wire) \in Seq(Bill)
      BY <1>2 DEF Enqueue, TypeOK
    <2>2. /\ queue' \in Seq(Bill) /\ drops' \in Seq(Bill)
          /\ Len(queue') <= QueueSize
      <3>1. CASE Len(queue) < QueueSize
        <4>1. queue' = Append(queue, Head(wire)) /\ UNCHANGED drops
          BY <1>2, <3>1 DEF Enqueue
        <4>2. queue \in Seq(Bill) /\ drops \in Seq(Bill)
          BY DEF TypeOK
        <4> QED BY <2>1, <3>1, <4>1, <4>2, QueueAssumption
      <3>2. CASE ~(Len(queue) < QueueSize)
        <4>1. drops' = Append(drops, Head(wire)) /\ UNCHANGED queue
          BY <1>2, <3>2 DEF Enqueue
        <4>2. queue \in Seq(Bill) /\ drops \in Seq(Bill) /\ Len(queue) <= QueueSize
          BY DEF TypeOK
        <4> QED BY <2>1, <4>1, <4>2
      <3> QED BY <3>1, <3>2
    <2> QED BY <1>2, <2>1, <2>2 DEF Enqueue, TypeOK
  <1>3. CASE Connect
    BY <1>3 DEF Connect, TypeOK
  <1>4. CASE Disconnect
    <2>1. wire' \in Seq(Bill) /\ faults' \in 0..MaxFaults /\ connected' \in BOOLEAN
      <3>1. <<>> \in Seq(Bill)
        OBVIOUS
      <3>2. faults' \in 0..MaxFaults
        BY <1>4, BoundAssumption DEF Disconnect, TypeOK
      <3> QED BY <1>4, <3>1, <3>2 DEF Disconnect
    <2> QED BY <1>4, <2>1 DEF Disconnect, TypeOK
  <1> QED BY <1>1, <1>2, <1>3, <1>4 DEF StreamNext

\* What the end of a poll leaves for the ticks after it.
LEMMA EndPollType ==
    ASSUME service \in ServiceType, poll.mark \in Nat,
           NEW c, NEW caughtUp \in BOOLEAN, NEW error \in BOOLEAN,
           EndPoll(c, caughtUp, error)
    PROVE  service' \in ServiceType
  <1>1. InProgress(c) \in BOOLEAN
    BY DEF InProgress
  <1>2. (IF error THEN service.reconciled ELSE poll.mark) \in Nat
    BY DEF ServiceType
  <1> QED BY <1>1, <1>2 DEF EndPoll, ServiceType

\* What a tick keeps between ticks, and what draining leaves in the queue.
LEMMA TickKeepsTypes ==
    ASSUME TypeOK, TickNext \/ Crash, CursorType'
    PROVE  TypeOK'
  <1>0. service \in ServiceType /\ poll.mark \in Nat
    BY DEF TypeOK, CursorType
  <1>1. CASE StartPoll \/ StartWithoutPoll
    BY <1>1 DEF StartPoll, StartWithoutPoll, stream, TypeOK
  <1>2. CASE FetchPage \/ IngestPage \/ PollFails
    <2>1. faults' \in 0..MaxFaults
      <3>1. faults \in 0..MaxFaults
        BY DEF TypeOK
      <3>2. faults' = faults \/ (faults < MaxFaults /\ faults' = faults + 1)
        BY <1>2 DEF FetchPage, IngestPage, PollFails
      <3> QED BY <3>1, <3>2, BoundAssumption
    <2>2. UNCHANGED <<stream, healthy>>
      BY <1>2 DEF FetchPage, IngestPage, PollFails
    <2>3. \/ UNCHANGED service
          \/ \E c : \E caughtUp, error \in BOOLEAN : EndPoll(c, caughtUp, error)
      <3>1. CASE FetchPage
        BY <3>1 DEF FetchPage
      <3>2. CASE IngestPage
        BY <3>2 DEF IngestPage
      <3>3. CASE PollFails
        BY <3>3 DEF PollFails
      <3> QED BY <1>2, <3>1, <3>2, <3>3
    <2>4. service' \in ServiceType
      BY <1>0, <2>3, EndPollType
    <2> QED BY <2>1, <2>2, <2>4 DEF stream, TypeOK
  <1>3. CASE Publish \/ DrainFails
    <2>1. Drained \in 0..Len(queue)
      BY QueueAssumption DEF TypeOK, Drained
    <2>2. /\ SubSeq(queue, Drained + 1, Len(queue)) \in Seq(Bill)
          /\ Len(SubSeq(queue, Drained + 1, Len(queue))) <= Len(queue)
      BY <2>1 DEF TypeOK
    <2>3. queue' = SubSeq(queue, Drained + 1, Len(queue))
      BY <1>3 DEF Publish, DrainFails
    <2>4. queue' \in Seq(Bill) /\ Len(queue') <= QueueSize
      BY <2>2, <2>3, QueueAssumption DEF TypeOK
    <2>5. service' \in ServiceType
      <3>1. CASE Publish
        BY <1>0, <3>1 DEF Publish, ServiceType
      <3>2. CASE DrainFails
        BY <1>0, <3>2 DEF DrainFails
      <3> QED BY <1>3, <3>1, <3>2
    <2>6. healthy' \in BOOLEAN
      BY <1>3, Zenon DEF Publish, DrainFails, Health, TypeOK
    <2>7. faults' \in 0..MaxFaults
      BY <1>3, BoundAssumption DEF Publish, DrainFails, TypeOK
    <2>8. UNCHANGED <<wire, drops, connected>>
      BY <1>3 DEF Publish, DrainFails
    <2> QED BY <2>4, <2>5, <2>6, <2>7, <2>8 DEF TypeOK
  <1>4. CASE Crash
    <2>1. <<>> \in Seq(Bill) /\ Len(<<>>) <= QueueSize
      BY QueueAssumption
    <2>2. FreshService \in ServiceType
      BY DEF FreshService, ServiceType
    <2>3. faults' \in 0..MaxFaults
      BY <1>4, BoundAssumption DEF Crash, TypeOK
    <2> QED BY <1>4, <2>1, <2>2, <2>3 DEF Crash, TypeOK
  <1> QED BY <1>1, <1>2, <1>3, <1>4 DEF TickNext

\* One step of the specification.
LEMMA CatchUpStep ==
    ASSUME TypeOK, CatchUpInv, [Next]_vars
    PROVE  TypeOK' /\ CatchUpInv' /\ cursor'.high >= cursor.high
  <1>0. cursor.high \in Nat
    BY BoundAssumption DEF TypeOK, CursorType
  <1>1. CASE StreamNext
    <2>1. cursor' = cursor
      BY <1>1 DEF StreamNext, Execute, Enqueue, Connect, Disconnect
    <2>2. CatchUpInv'
      BY <1>1, StreamKeepsCatchUp
    <2> QED BY <1>0, <1>1, <2>1, <2>2, StreamKeepsTypes DEF CatchUpInv
  <1>2. CASE TickNext \/ Crash
    <2>1. CatchUpInv' /\ cursor'.high >= cursor.high
      <3>1. CASE StartPoll \/ StartWithoutPoll
        <4>1. cursor' = cursor
          BY <3>1 DEF StartPoll, StartWithoutPoll
        <4> QED BY <1>0, <3>1, <4>1, StartKeepsCatchUp DEF TypeOK
      <3>2. CASE FetchPage
        BY <3>2, FetchKeepsCatchUp
      <3>3. CASE IngestPage
        BY <3>3, IngestPageKeepsCatchUp
      <3>4. CASE PollFails \/ Publish \/ DrainFails \/ Crash
        BY <3>4, EndKeepsCatchUp
      <3> QED BY <1>2, <3>1, <3>2, <3>3, <3>4 DEF TickNext
    <2> QED BY <1>2, <2>1, TickKeepsTypes DEF CatchUpInv
  <1>3. CASE UNCHANGED vars
    BY <1>0, <1>3
    DEF vars, TypeOK, CatchUpInv, CursorType, PagesLeft, ProgressWhole, MarksInOrder,
        FetchCovered, IngestCovered, CursorCovered
  <1> QED BY <1>1, <1>2, <1>3 DEF Next

\* Types, and with them the bound of the stream's queue (_enqueue), hold for
\* every page size, queue size and history.
THEOREM CatchUpTypes == Spec => []TypeOK
  <1>1. TypeOK /\ CatchUpInv /\ [Next]_vars => (TypeOK /\ CatchUpInv)'
    BY CatchUpStep
  <1> QED BY <1>1, CatchUpInit, PTL DEF Spec

\* The cursor of _catch_up_fills never stands for a fill that was not handed to
\* the allocator, for every page size, pages per tick, history and sequence of
\* failed calls and crashes.
THEOREM CursorIsCovered == Spec => []CursorCovered
  <1>1. TypeOK /\ CatchUpInv /\ [Next]_vars => (TypeOK /\ CatchUpInv)'
    BY CatchUpStep
  <1>2. CatchUpInv => CursorCovered
    BY DEF CatchUpInv
  <1> QED BY <1>1, <1>2, CatchUpInit, PTL DEF Spec

-----------------------------------------------------------------------------
(***************************************************************************)
(* The refinement of FillFeed.  What is handed over was executed: the      *)
(* stream carries, and a poll asks for, bills of the history only.         *)
(***************************************************************************)
OfHistory(s) == \A i \in 1..Len(s) : s[i] \in 1..history

FromHistory ==
    /\ seen \subseteq 1..history
    /\ OfHistory(wire) /\ OfHistory(queue)
    /\ cursor.next <= history
    /\ poll.pc \in {"fetch", "ingest"} => poll.after <= history /\ poll.top <= history

\* The stream's thread moves bills of the history about.
LEMMA StreamFromHistory ==
    ASSUME TypeOK, FromHistory, StreamNext
    PROVE  FromHistory'
  <1>0. history \in Nat /\ history' \in Nat /\ history <= history'
    <2>1. history \in Nat
      BY BoundAssumption DEF TypeOK, CursorType
    <2>2. history' = history \/ history' = history + 1
      BY DEF StreamNext, Execute, Enqueue, Connect, Disconnect
    <2> QED BY <2>1, <2>2
  <1>1. wire \in Seq(Bill) /\ queue \in Seq(Bill)
    BY DEF TypeOK
  <1>2. UNCHANGED <<seen, cursor, poll>>
    BY DEF StreamNext, Execute, Enqueue, Connect, Disconnect
  <1>3. OfHistory(wire)' /\ OfHistory(queue)'
    <2>1. CASE Execute
      <3>1. wire' \in {wire, Append(wire, history + 1)} /\ UNCHANGED queue
            /\ history' = history + 1
        BY <2>1 DEF Execute
      <3>2. \A i \in 1..Len(wire) : wire[i] \in 1..(history + 1)
        BY <1>0 DEF FromHistory, OfHistory
      <3>3. \A i \in 1..Len(queue) : queue[i] \in 1..(history + 1)
        BY <1>0 DEF FromHistory, OfHistory
      <3>4. history + 1 \in 1..(history + 1)
        BY <1>0
      <3>5. ASSUME NEW w, w = Append(wire, history + 1), NEW i \in 1..Len(w)
            PROVE  w[i] \in 1..(history + 1)
        BY <1>1, <3>2, <3>4, <3>5
      <3> QED BY <3>1, <3>2, <3>3, <3>5 DEF OfHistory
    <2>2. CASE Enqueue
      <3>1. Head(wire) \in 1..history /\ wire' = Tail(wire) /\ UNCHANGED history
            /\ queue' \in {queue, Append(queue, Head(wire))}
        BY <1>1, <2>2 DEF Enqueue, FromHistory, OfHistory
      <3>2. OfHistory(Tail(wire)) /\ OfHistory(Append(queue, Head(wire)))
        BY <1>1, <2>2, <3>1 DEF Enqueue, FromHistory, OfHistory
      <3> QED BY <3>1, <3>2 DEF FromHistory, OfHistory
    <2>3. CASE Connect \/ Disconnect
      <3>1. wire' \in {wire, <<>>} /\ UNCHANGED <<queue, history>>
        BY <2>3 DEF Connect, Disconnect
      <3> QED BY <3>1 DEF FromHistory, OfHistory
    <2> QED BY <2>1, <2>2, <2>3 DEF StreamNext
  <1>4. 1..history \subseteq 1..history'
    BY <1>0
  <1>5. cursor.next \in Nat /\ poll.after \in Nat /\ poll.top \in Nat
    BY BoundAssumption DEF TypeOK, CursorType
  <1> QED BY <1>0, <1>2, <1>3, <1>4, <1>5 DEF FromHistory

\* Part of a page is part of the history.
LEMMA PartFromHistory ==
    ASSUME CatchUpInv, FromHistory, PartOfPage(seen')
    PROVE  seen' \subseteq 1..history
  <1>1. CASE poll.pc = "ingest"
    <2>1. PICK k \in PageBottom..(poll.top + 1) : seen' = seen \cup k..poll.top
      BY <1>1 DEF PartOfPage
    <2>2. poll.top # 0 /\ poll.top <= history
      BY <1>1 DEF CatchUpInv, IngestCovered, FromHistory
    <2>3. PageBottom \in 1..poll.top
      BY <2>2, PageFacts DEF CatchUpInv
    <2>4. poll.top \in Nat /\ history \in Nat /\ k >= 1
      BY <2>3, BoundAssumption DEF CatchUpInv, CursorType
    <2>5. k..poll.top \subseteq 1..history
      BY <2>2, <2>4
    <2> QED BY <2>1, <2>5 DEF FromHistory
  <1>2. CASE poll.pc # "ingest"
    BY <1>2 DEF PartOfPage, FromHistory
  <1> QED BY <1>1, <1>2

\* A poll asks for pages of the history and a drain takes from the queue.
LEMMA TickFromHistory ==
    ASSUME TypeOK, CatchUpInv, FromHistory, TickNext \/ Crash
    PROVE  FromHistory' /\ UNCHANGED history /\ seen \subseteq seen'
  <1>0. /\ history \in Nat /\ cursor.next \in Nat /\ poll.after \in Nat
        /\ poll.top \in Nat /\ poll.pending \in Nat
    BY BoundAssumption DEF TypeOK, CursorType
  <1>1. CASE StartPoll \/ StartWithoutPoll
    <2>1. UNCHANGED <<history, stream, cursor, seen>>
      BY <1>1 DEF StartPoll, StartWithoutPoll
    <2>2. poll'.after \in {0, cursor.next} /\ poll'.top = 0
      BY <1>1 DEF StartPoll, StartWithoutPoll, Idle, NewestFirst
    <2> QED BY <1>0, <2>1, <2>2 DEF stream, FromHistory, OfHistory
  <1>2. CASE FetchPage
    <2>1. UNCHANGED <<history, stream, seen>>
      BY <1>2 DEF FetchPage
    <2>2. cursor'.next \in {0, cursor.next}
      BY <1>2 DEF FetchPage, EndPoll, Complete, TypeOK, CursorType
    <2>3. poll.after <= history /\ poll.top <= history
      BY <1>2 DEF FetchPage, FromHistory
    <2>4. poll'.after = poll.after /\ poll'.top \in {poll.top, history, poll.after - 1}
      BY <1>2 DEF FetchPage, EndPoll, TypeOK, CursorType
    <2>5. poll'.after <= history /\ poll'.top <= history
      BY <1>0, <2>3, <2>4
    <2> QED BY <1>0, <2>1, <2>2, <2>5 DEF stream, FromHistory, OfHistory
  <1>3. CASE IngestPage
    <2>1. poll.top # 0 /\ poll.top <= history
      BY <1>3 DEF IngestPage, CatchUpInv, IngestCovered, FromHistory
    <2>2. PageBottom \in 1..poll.top
      BY <2>1, PageFacts DEF CatchUpInv
    <2>3. PageBottom \in Nat /\ PageBottom <= history /\ PageBottom..poll.top \subseteq 1..history
      BY <1>0, <2>1, <2>2
    <2>4. UNCHANGED <<history, stream>> /\ seen' = seen \cup PageBottom..poll.top
      BY <1>3 DEF IngestPage
    <2>5. cursor'.next \in {0, PageBottom}
      <3>1. cursor' \in {Complete(cursor, poll.pending),
                         Checkpoint(cursor, poll.pending, PageBottom)}
        BY <1>3 DEF IngestPage, EndPoll
      <3>2. cursor \in [high : 0..MaxBill, pending : 0..MaxBill, next : 0..MaxBill]
        BY DEF TypeOK, CursorType
      <3>3. Complete(cursor, poll.pending).next = 0
        BY DEF Complete
      <3>4. Checkpoint(cursor, poll.pending, PageBottom).next = PageBottom
        BY <3>2 DEF Checkpoint
      <3> QED BY <3>1, <3>3, <3>4
    <2>6. poll'.after \in {poll.after, PageBottom} /\ poll'.top = poll.top
      BY <1>3 DEF IngestPage, EndPoll, TypeOK, CursorType
    <2>7. poll'.after <= history /\ poll'.top <= history
      <3>1. poll.after <= history
        BY <1>3 DEF IngestPage, FromHistory
      <3> QED BY <2>1, <2>3, <2>6, <3>1
    <2>8. seen' \subseteq 1..history /\ seen \subseteq seen'
      BY <2>3, <2>4 DEF FromHistory
    <2>9. cursor'.next <= history
      BY <1>0, <2>3, <2>5
    <2> QED BY <2>4, <2>7, <2>8, <2>9 DEF stream, FromHistory, OfHistory
  <1>4. CASE PollFails
    <2>1. UNCHANGED <<history, stream, cursor>> /\ poll'.pc = "drain"
      BY <1>4 DEF PollFails, EndPoll, TypeOK, CursorType
    <2>2. seen' \subseteq 1..history /\ seen \subseteq seen'
      BY <1>4, PartFromHistory, PartOfPageFacts DEF PollFails
    <2> QED BY <2>1, <2>2 DEF stream, FromHistory, OfHistory
  <1>5. CASE Publish \/ DrainFails
    <2>1. Drained \in 0..Len(queue) /\ Len(queue) \in Nat /\ queue \in Seq(Bill)
      BY QueueAssumption DEF TypeOK, Drained
    <2>2. UNCHANGED <<history, wire, cursor>> /\ poll'.pc = "idle"
          /\ queue' = SubSeq(queue, Drained + 1, Len(queue))
      BY <1>5 DEF Publish, DrainFails, Idle
    <2>3. OfHistory(queue)'
      <3>1. OfHistory(SubSeq(queue, Drained + 1, Len(queue)))
        BY <2>1 DEF FromHistory, OfHistory
      <3> QED BY <2>2, <3>1 DEF OfHistory
    <2>4. seen' \subseteq 1..history /\ seen \subseteq seen'
      <3>1. \A i \in 1..Drained : queue[i] \in 1..history
        BY <2>1 DEF FromHistory, OfHistory
      <3>2. CASE Publish
        BY <3>1, <3>2 DEF Publish, FromHistory
      <3>3. CASE DrainFails
        <4>1. PICK n \in 0..(Drained - 1) : seen' = seen \cup {queue[i] : i \in 1..n}
          BY <3>3 DEF DrainFails
        <4>2. \A i \in 1..n : i \in 1..Drained
          BY <2>1
        <4> QED BY <3>1, <4>1, <4>2 DEF FromHistory
      <3> QED BY <1>5, <3>2, <3>3
    <2> QED BY <2>2, <2>3, <2>4 DEF FromHistory, OfHistory
  <1>6. CASE Crash
    <2>1. UNCHANGED <<history, cursor>> /\ poll'.pc = "idle" /\ wire' = <<>> /\ queue' = <<>>
      BY <1>6 DEF Crash, Idle
    <2>2. seen' \subseteq 1..history /\ seen \subseteq seen'
      BY <1>6, PartFromHistory, PartOfPageFacts DEF Crash
    <2> QED BY <2>1, <2>2 DEF FromHistory, OfHistory
  <1> QED BY <1>1, <1>2, <1>3, <1>4, <1>5, <1>6 DEF TickNext

\* A step of the fill service is a step of the feed, or changes nothing in it.
LEMMA StepIsFeedStep ==
    ASSUME TypeOK, CatchUpInv, FromHistory, [Next]_vars
    PROVE  FromHistory' /\ [Feed!Next]_Feed!feedVars
  <1>0. CatchUpInv' /\ cursor'.high >= cursor.high
    BY CatchUpStep
  <1>1. CASE StreamNext
    <2>1. FromHistory'
      BY <1>1, StreamFromHistory
    <2>2. Execute \/ UNCHANGED <<history, seen, cursor>>
      BY <1>1 DEF StreamNext, Execute, Enqueue, Connect, Disconnect
    <2>3. Execute => Feed!Execute
      BY DEF Execute, Feed!Execute
    <2> QED BY <2>1, <2>2, <2>3 DEF Feed!Next, Feed!feedVars
  <1>2. CASE TickNext \/ Crash
    <2>1. FromHistory' /\ UNCHANGED history /\ seen \subseteq seen'
      BY <1>2, TickFromHistory
    <2>2. seen' \subseteq 1..history
      BY <2>1 DEF FromHistory
    <2>3. \E S \in SUBSET (1..history) : seen' = seen \cup S
      <3>1. seen' \in SUBSET (1..history) /\ seen' = seen \cup seen'
        BY <2>1, <2>2
      <3> QED BY <3>1, Zenon
    <2>4. cursor.high \in Nat /\ cursor'.high \in Nat /\ cursor'.high <= history
      BY <1>0, <2>1, BoundAssumption DEF TypeOK, CatchUpInv, CursorType, MarksInOrder
    <2>5. cursor'.high \in cursor.high..history
      BY <1>0, <2>4, BoundAssumption DEF TypeOK, CursorType
    <2>6. 1..cursor'.high \subseteq seen'
      BY <1>0 DEF CatchUpInv, CursorCovered
    <2> QED BY <2>1, <2>3, <2>5, <2>6 DEF Feed!HandOver, Feed!Next
  <1>3. CASE UNCHANGED vars
    BY <1>3 DEF vars, FromHistory, OfHistory, Feed!feedVars
  <1> QED BY <1>1, <1>2, <1>3 DEF Next

\* The fill service implements the feed, whatever the page size, the pages per
\* tick, the history and the faults: it hands over executed fills only, and the
\* committed mark of _catch_up_fills moves forward over handed-over ones.
THEOREM FeedRefinement == Spec => ImplementsFeed
  <1>1. Init => Feed!Init /\ TypeOK /\ CatchUpInv /\ FromHistory
    <2>1. Init => Feed!Init
      BY DEF Init, Feed!Init, NoCursor
    <2>2. Init => FromHistory
      BY DEF Init, NoCursor, Idle, FromHistory, OfHistory
    <2> QED BY <2>1, <2>2, CatchUpInit
  <1>2. /\ TypeOK /\ CatchUpInv /\ FromHistory /\ [Next]_vars
        => /\ TypeOK' /\ CatchUpInv' /\ FromHistory'
           /\ [Feed!Next]_Feed!feedVars
    BY CatchUpStep, StepIsFeedStep
  <1> QED BY <1>1, <1>2, PTL DEF Spec, ImplementsFeed, Feed!Spec
=============================================================================
