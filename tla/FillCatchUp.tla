---------------------------- MODULE FillCatchUp ----------------------------
(***************************************************************************)
(* How confirmed fills reach the allocator: ExecutionFillService.tick      *)
(* (src/src/daemon/execution_fill_service.py) pages through the exchange's *)
(* fill history behind a durable cursor                                    *)
(* (src/src/trading/execution_cursor_store.py), then drains the bounded    *)
(* queue of the private order stream (src/src/exchange/websocket.py), and  *)
(* publishes the health that gates new entries                             *)
(* (src/src/trading/execution_health.py).                                  *)
(*                                                                         *)
(* A bill id is a natural number, its place in the history; 0 stands for   *)
(* the empty string.  What the allocator does with a fill is PositionLedger*)
(* 's subject; here a fill is seen once it was handed over.                *)
(***************************************************************************)
EXTENDS Integers, Sequences

CONSTANTS
    PageSize,      \* records per page (100)
    PagesPerTick,  \* max_pages_per_tick (5)
    QueueSize,     \* queue_size of the private stream (10,000)
    DrainLimit,    \* events drained per tick (1,000)
    MaxBill,       \* bound on the fills of the history
    MaxFaults      \* bound on failed calls, lost connections and crashes

ASSUME PageAssumption == PageSize \in Nat \ {0} /\ PagesPerTick \in Nat \ {0}
ASSUME QueueAssumption == QueueSize \in Nat \ {0} /\ DrainLimit \in Nat \ {0}
ASSUME BoundAssumption == MaxBill \in Nat /\ MaxFaults \in Nat

VARIABLES
    history,   \* bills 1..history are in the exchange's fill history
    wire,      \* bills whose event is on its way to the stream's thread
    cursor,    \* the row of execution_cursors
    seen,      \* bills handed to the allocator: applied, unmatched or quarantined
    queue,     \* the stream's bounded queue
    drops,     \* bills the stream dropped since it started: dropped_events is its length
    connected, \* the stream is logged in and subscribed
    poll,      \* the tick in progress
    service,   \* what ExecutionFillService keeps between ticks
    healthy,   \* the health last published
    faults     \* faults so far

vars == <<history, wire, cursor, seen, queue, drops, connected, poll, service,
          healthy, faults>>
stream == <<wire, queue, drops, connected>>

NewestFirst == 0  \* after = "": the newest page

NoCursor == [high |-> 0, pending |-> 0, next |-> 0]
InProgress(c) == c.pending # 0 \/ c.next # 0
Checkpoint(c, pending, next) == [c EXCEPT !.pending = pending, !.next = next]

\* Mutant: the page progress is committed as the mark.
CompleteWithNext(c, high) == [high |-> c.next, pending |-> 0, next |-> 0]

Complete(c, high) == [high |-> high, pending |-> 0, next |-> 0]

Idle == [pc |-> "idle", after |-> NewestFirst, pending |-> 0, left |-> 0,
         top |-> 0, mark |-> 0]

\* __init__: no poll yet, so the first tick polls.
FreshService == [caughtUp |-> FALSE, inProgress |-> FALSE, error |-> FALSE,
                 reconciled |-> 0, pollNow |-> TRUE]

-----------------------------------------------------------------------------
(***************************************************************************)
(* The exchange and the stream's thread.                                   *)
(***************************************************************************)
Execute ==
    /\ history < MaxBill
    /\ history' = history + 1
    /\ wire' = IF connected THEN Append(wire, history + 1) ELSE wire
    /\ UNCHANGED <<cursor, seen, queue, drops, connected, poll, service, healthy, faults>>

\* Mutant: an unbounded queue, so that nothing is ever counted as dropped.
EnqueueAlways ==
    /\ wire # <<>>
    /\ wire' = Tail(wire)
    /\ queue' = Append(queue, Head(wire))
    /\ UNCHANGED <<history, cursor, seen, drops, connected, poll, service, healthy, faults>>

Enqueue ==
    /\ wire # <<>>
    /\ wire' = Tail(wire)
    /\ IF Len(queue) < QueueSize
       THEN queue' = Append(queue, Head(wire)) /\ UNCHANGED drops
       ELSE drops' = Append(drops, Head(wire)) /\ UNCHANGED queue
    /\ UNCHANGED <<history, cursor, seen, connected, poll, service, healthy, faults>>

Connect ==
    /\ ~connected
    /\ connected' = TRUE
    /\ UNCHANGED <<history, wire, cursor, seen, queue, drops, poll, service, healthy, faults>>

\* The events on the wire are lost, and nobody counts them.
Disconnect ==
    /\ connected
    /\ faults < MaxFaults
    /\ faults' = faults + 1
    /\ connected' = FALSE
    /\ wire' = <<>>
    /\ UNCHANGED <<history, cursor, seen, queue, drops, poll, service, healthy>>

-----------------------------------------------------------------------------
(***************************************************************************)
(* tick.  The clock decides whether a REST poll is due; drops that wait    *)
(* for one make it due at once.                                            *)
(***************************************************************************)
\* Mutant: a cycle in progress starts over from the newest page.
StartPollNewest ==
    /\ poll.pc = "idle"
    /\ poll' = [Idle EXCEPT !.pc = "fetch", !.left = PagesPerTick, !.mark = Len(drops)]
    /\ UNCHANGED <<history, stream, cursor, seen, service, healthy, faults>>

StartPoll ==
    /\ poll.pc = "idle"
    /\ poll' = [Idle EXCEPT !.pc = "fetch",
                            !.after = IF InProgress(cursor) THEN cursor.next ELSE NewestFirst,
                            !.pending = cursor.pending,
                            !.left = PagesPerTick,
                            !.mark = Len(drops)]
    /\ UNCHANGED <<history, stream, cursor, seen, service, healthy, faults>>

StartWithoutPoll ==
    /\ poll.pc = "idle"
    /\ ~service.pollNow
    /\ poll' = [Idle EXCEPT !.pc = "drain"]
    /\ UNCHANGED <<history, stream, cursor, seen, service, healthy, faults>>

\* The end of the REST part, with c the stored cursor.
EndPoll(c, caughtUp, error) ==
    /\ poll' = [poll EXCEPT !.pc = "drain"]
    /\ service' = [service EXCEPT
                      !.caughtUp = caughtUp, !.error = error, !.inProgress = InProgress(c),
                      !.reconciled = IF error THEN @ ELSE poll.mark,
                      !.pollNow = FALSE]
    /\ cursor' = c

FetchPage ==
    /\ poll.pc = "fetch"
    /\ LET top == IF poll.after = NewestFirst THEN history ELSE poll.after - 1
       IN  IF top = 0
           THEN EndPoll(IF poll.pending # 0 THEN Complete(cursor, poll.pending) ELSE cursor,
                        TRUE, FALSE)
           ELSE /\ poll' = [poll EXCEPT !.pc = "ingest", !.top = top,
                                        !.pending = IF @ = 0 THEN top ELSE @]
                /\ UNCHANGED <<cursor, service>>
    /\ UNCHANGED <<history, stream, seen, healthy, faults>>

\* Bills of the page, newest to oldest: poll.top down to PageBottom.
PageBottom == IF poll.top > PageSize THEN poll.top - PageSize + 1 ELSE 1
Exhausted == poll.top - PageBottom + 1 < PageSize

ReachedBoundary == cursor.high # 0 /\ cursor.high \in PageBottom..poll.top

IngestPage ==
    /\ poll.pc = "ingest"
    /\ seen' = seen \cup PageBottom..poll.top
    /\ IF ReachedBoundary \/ Exhausted
       THEN EndPoll(Complete(cursor, poll.pending), TRUE, FALSE)
       ELSE LET c == Checkpoint(cursor, poll.pending, PageBottom)
            IN  IF poll.left = 1 THEN EndPoll(c, FALSE, FALSE)
                ELSE /\ poll' = [poll EXCEPT !.pc = "fetch", !.after = PageBottom,
                                             !.left = @ - 1]
                     /\ cursor' = c
                     /\ UNCHANGED service
    /\ UNCHANGED <<history, stream, healthy, faults>>

\* The fills of the page that were handed over when the step stopped half-way:
\* none, some of the newest, or all of them without the cursor being saved.
PartOfPage(seenNow) ==
    IF poll.pc = "ingest"
    THEN \E k \in PageBottom..(poll.top + 1) : seenNow = seen \cup k..poll.top
    ELSE seenNow = seen

\* Mutant: a page that fails half-way has still been committed.
PollFailsCommitted ==
    /\ poll.pc \in {"fetch", "ingest"}
    /\ faults < MaxFaults
    /\ faults' = faults + 1
    /\ EndPoll(IF poll.pc = "ingest" THEN Checkpoint(cursor, poll.pending, PageBottom)
               ELSE cursor, FALSE, TRUE)
    /\ UNCHANGED <<history, stream, seen, healthy>>

\* A call fails: the request, the hand-over of a fill, or the cursor's write.
PollFails ==
    /\ poll.pc \in {"fetch", "ingest"}
    /\ faults < MaxFaults
    /\ faults' = faults + 1
    /\ PartOfPage(seen')
    /\ EndPoll(cursor, FALSE, TRUE)
    /\ UNCHANGED <<history, stream, healthy>>

\* The events that one tick drains.
Drained == IF Len(queue) < DrainLimit THEN Len(queue) ELSE DrainLimit
DropsPending == Len(drops) - service.reconciled

Health ==
    /\ service.caughtUp /\ ~service.inProgress /\ ~service.error
    /\ connected /\ DropsPending <= 0

Publish ==
    /\ poll.pc = "drain"
    /\ seen' = seen \cup {queue[i] : i \in 1..Drained}
    /\ queue' = SubSeq(queue, Drained + 1, Len(queue))
    /\ service' = [service EXCEPT !.pollNow = @ \/ DropsPending > 0]
    /\ healthy' = Health
    /\ poll' = Idle
    /\ UNCHANGED <<history, wire, cursor, drops, connected, faults>>

\* The hand-over of a drained event raises: the tick ends there, the rest of what
\* was drained is gone, and the health of the tick before stays published.
DrainFails ==
    /\ poll.pc = "drain"
    /\ faults < MaxFaults
    /\ faults' = faults + 1
    /\ \E n \in 0..(Drained - 1) : seen' = seen \cup {queue[i] : i \in 1..n}
    /\ queue' = SubSeq(queue, Drained + 1, Len(queue))
    /\ poll' = Idle
    /\ UNCHANGED <<history, wire, cursor, drops, connected, service, healthy>>

\* The process dies, perhaps part of the way through a page, and starts again:
\* the cursor and what was handed over survive.
Crash ==
    /\ faults < MaxFaults
    /\ faults' = faults + 1
    /\ PartOfPage(seen')
    /\ wire' = <<>> /\ queue' = <<>> /\ drops' = <<>> /\ connected' = FALSE
    /\ poll' = Idle
    /\ service' = FreshService
    /\ healthy' = FALSE
    /\ UNCHANGED <<history, cursor>>

-----------------------------------------------------------------------------
Init ==
    /\ history = 0 /\ wire = <<>> /\ cursor = NoCursor /\ seen = {}
    /\ queue = <<>> /\ drops = <<>> /\ connected = FALSE
    /\ poll = Idle /\ service = FreshService /\ healthy = FALSE /\ faults = 0

StreamNext == Execute \/ Enqueue \/ Connect \/ Disconnect
TickNext ==
    \/ StartPoll \/ StartWithoutPoll \/ FetchPage \/ IngestPage \/ PollFails
    \/ Publish \/ DrainFails

Next == StreamNext \/ TickNext \/ Crash

Spec == Init /\ [][Next]_vars

\* The daemon loop ticks for ever, and a poll is due whenever rest_poll_interval
\* has passed: ticks without one do not go on for ever.
LiveSpec ==
    /\ Spec
    /\ WF_vars(TickNext)
    /\ SF_vars(StartPoll)

-----------------------------------------------------------------------------
Bill == 1..MaxBill

CursorType ==
    /\ history \in 0..MaxBill
    /\ seen \subseteq Bill
    /\ cursor \in [high : 0..MaxBill, pending : 0..MaxBill, next : 0..MaxBill]
    /\ poll \in [pc : {"idle", "fetch", "ingest", "drain"}, after : 0..MaxBill,
                 pending : 0..MaxBill, left : 0..PagesPerTick, top : 0..MaxBill,
                 mark : Nat]

ServiceType == [caughtUp : BOOLEAN, inProgress : BOOLEAN, error : BOOLEAN,
                reconciled : Nat, pollNow : BOOLEAN]

\* Bills, marks and counters stay in range, and the stream's queue within its
\* size whatever arrives between two ticks (_enqueue).
TypeOK ==
    /\ CursorType
    /\ wire \in Seq(Bill) /\ queue \in Seq(Bill) /\ drops \in Seq(Bill)
    /\ Len(queue) <= QueueSize
    /\ service \in ServiceType
    /\ connected \in BOOLEAN /\ healthy \in BOOLEAN
    /\ faults \in 0..MaxFaults

\* The stored cursor never stands for a fill that was not handed over: all of
\* them up to the committed mark, and, while a cycle is in progress, those from
\* the checkpoint up to the cycle's target; whatever pages, failed calls and
\* crashes (_catch_up_fills, checkpoint, complete) did.
CursorCovered ==
    /\ 1..cursor.high \subseteq seen
    /\ InProgress(cursor) => cursor.next..cursor.pending \subseteq seen

\* Every fill of the history is handed over in the end, however many pages the
\* poll is behind and whatever the stream dropped or lost (tick).
EveryFillIsSeen == \A b \in Bill : (b <= history) ~> (b \in seen)

-----------------------------------------------------------------------------
\* The high-water mark of the stored cursor is the mark of the feed.
Feed == INSTANCE FillFeed WITH mark <- cursor.high

\* The fill service implements the feed that the allocator is written for:
\* pages, checkpoints, drops, reconnects and restarts only ever hand over fills
\* of the history and move the mark forward over a gapless prefix of them
\* (_catch_up_fills, checkpoint, complete, _ingest_fills).
ImplementsFeed == Feed!Spec
=============================================================================
