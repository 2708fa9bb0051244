--------------------------- MODULE Notifications ---------------------------
(***************************************************************************)
(* The lifecycle notification service                                      *)
(* (src/src/daemon/lifecycle_notification_service.py) over the audit       *)
(* events, delivery cursor, acknowledgements and channel health of         *)
(* src/src/trading/audit_event_store.py, with the notifiers of             *)
(* src/src/notifications.                                                  *)
(*                                                                         *)
(* Events are numbered in the order of created_at.  Many threads write     *)
(* them, each stamping its event when it builds the record and committing  *)
(* it some time later.  Time is abstract: an event gets too old to send, a *)
(* backoff and a cooldown end, each at some moment.                        *)
(***************************************************************************)
EXTENDS Naturals, Sequences, FiniteSetsExt

CONSTANTS
    MaxEvent,   \* bound: audit events
    MaxFault,   \* bound: crashes, failed ticks and misreported sends
    Text,       \* normalized messages of events that have a category
    Noise,      \* an event without one
    Enabled     \* channels that are configured

Order == <<"line", "email">>
Channel == {Order[i] : i \in 1..Len(Order)}

ASSUME NoiseAssumption == Noise \notin Text
ASSUME EnabledAssumption == Enabled \subseteq Channel
ASSUME BoundsAssumption == MaxEvent \in Nat /\ MaxFault \in Nat

Event == 1..MaxEvent

VARIABLES
    stamped,      \* events 1..stamped have a created_at
    kind,         \* what each of them says
    written,      \* audit_events
    late,         \* history: written after an event with a later stamp
    old,          \* older than max_event_age_seconds
    cursor,       \* notification_delivery_cursors, 0 for no row
    acks,         \* notification_delivery_acknowledgements
    backoff,      \* channels with next_retry_at in the future
    hot,          \* channel -> messages its notifier suppresses as repeats
    sends,        \* history: messages a channel took, by event
    faults,       \* history
    pc,           \* where the tick is
    batch,        \* events of the tick's list still to deliver
    acknowledged, \* channels read as acknowledged for the first of them
    at,           \* position in Order
    delivered     \* result of _deliver so far

events == <<stamped, kind, written, late, old>>
delivery == <<cursor, acks, backoff>>
tick == <<pc, batch, acknowledged, at, delivered>>
vars == <<events, delivery, hot, sends, faults, tick>>

PC == {"down", "idle", "head", "send", "record", "ack", "advance"}

TypeOK ==
    /\ stamped \in 0..MaxEvent
    /\ kind \in [Event -> Text \cup {Noise}]
    /\ written \subseteq 1..stamped
    /\ late \subseteq written
    /\ old \subseteq 1..stamped
    /\ cursor \in 0..MaxEvent
    /\ acks \subseteq Event \X Channel
    /\ backoff \subseteq Channel
    /\ hot \in [Channel -> SUBSET Text]
    /\ sends \in [Event \X Channel -> 0..MaxFault + 1]
    /\ faults \in 0..MaxFault
    /\ pc \in PC
    /\ batch \subseteq written
    /\ acknowledged \subseteq Channel
    /\ at \in 1..Len(Order) + 1
    /\ delivered \in BOOLEAN

Init ==
    /\ stamped = 0
    /\ kind = [e \in Event |-> Noise]
    /\ written = {} /\ late = {} /\ old = {}
    /\ cursor = 0 /\ acks = {} /\ backoff = {}
    /\ hot = [c \in Channel |-> {}]
    /\ sends = [p \in Event \X Channel |-> 0]
    /\ faults = 0
    /\ pc = "down"
    /\ batch = {} /\ acknowledged = {} /\ at = 1 /\ delivered = TRUE

----------------------------------------------------------------------------
(* Writers of audit events, and time.                                      *)

Stamp(k) ==
    /\ stamped < MaxEvent
    /\ stamped' = stamped + 1
    /\ kind' = [kind EXCEPT ![stamped + 1] = k]
    /\ UNCHANGED <<written, late, old, delivery, hot, sends, faults, tick>>

Commit(e) ==
    /\ e \in 1..stamped \ written
    /\ written' = written \cup {e}
    /\ late' = IF \E f \in written : f > e THEN late \cup {e} ELSE late
    /\ UNCHANGED <<stamped, kind, old, delivery, hot, sends, faults, tick>>

GrowsOld(e) ==
    /\ e \in 1..stamped \ old
    /\ 1..e - 1 \subseteq old
    /\ old' = old \cup {e}
    /\ UNCHANGED <<stamped, kind, written, late, delivery, hot, sends, faults, tick>>

BackoffEnds(c) ==
    /\ c \in backoff
    /\ backoff' = backoff \ {c}
    /\ UNCHANGED <<events, cursor, acks, hot, sends, faults, tick>>

CooldownEnds(c, m) ==
    /\ m \in hot[c]
    /\ hot' = [hot EXCEPT ![c] = @ \ {m}]
    /\ UNCHANGED <<events, delivery, sends, faults, tick>>

\* POST /notifications/test sends with a notifier of its own and records the
\* attempt; the two events it writes have no category.
TestNotification(c) ==
    /\ c \in Enabled
    /\ backoff' \in {backoff \ {c}, backoff \cup {c}}
    /\ UNCHANGED <<events, cursor, acks, hot, sends, faults, tick>>

----------------------------------------------------------------------------
(* The service.                                                            *)

\* initialize_delivery_cursor: with no row, the newest event there is.
Setup ==
    /\ pc = "down"
    /\ pc' = "idle"
    /\ cursor' = IF cursor = 0 /\ written # {} THEN Max(written) ELSE cursor
    /\ UNCHANGED <<events, acks, backoff, hot, sends, faults, batch, acknowledged,
                   at, delivered>>

\* Mutant: the list includes events that are not committed.
BeginTickDirty ==
    /\ pc = "idle"
    /\ \E e \in 1..stamped : e > cursor
    /\ batch' = {e \in 1..stamped : e > cursor}
    /\ pc' = "head"
    /\ UNCHANGED <<events, delivery, hot, sends, faults, acknowledged, at, delivered>>

BeginTick ==
    /\ pc = "idle"
    /\ \E e \in written : e > cursor
    /\ batch' = {e \in written : e > cursor}
    /\ pc' = "head"
    /\ UNCHANGED <<events, delivery, hot, sends, faults, acknowledged, at, delivered>>

First == Min(batch)

\* classify_lifecycle_event finds no category for the other types.
HasCategory(e) == kind[e] # Noise

\* Mutant: no event is too old to be sent.
NeverStale(e) == FALSE

\* _is_stale
IsStale(e) == e \in old

\* No category, or too old to be news.
PassOver ==
    /\ pc = "head"
    /\ ~HasCategory(First) \/ IsStale(First)
    /\ pc' = "advance"
    /\ UNCHANGED <<events, delivery, hot, sends, faults, batch, acknowledged, at,
                   delivered>>

\* Mutant: the acknowledgements of the event are not read.
AcknowledgedNothing(e) == {}

Acknowledged(e) == {c \in Channel : <<e, c>> \in acks}

BeginDeliver ==
    /\ pc = "head"
    /\ HasCategory(First) /\ ~IsStale(First)
    /\ acknowledged' = Acknowledged(First)
    /\ at' = 1
    /\ delivered' = TRUE
    /\ pc' = "send"
    /\ UNCHANGED <<events, delivery, hot, sends, faults, batch>>

At(c) == at <= Len(Order) /\ Order[at] = c
Wanted(c) == c \in Enabled \ acknowledged

SkipChannel(c) ==
    /\ pc = "send" /\ At(c) /\ ~Wanted(c)
    /\ at' = at + 1
    /\ UNCHANGED <<events, delivery, hot, sends, faults, pc, batch, acknowledged,
                   delivered>>

\* Mutant: a channel in backoff does not hold the event back.
WaitForNothing(c) ==
    /\ pc = "send" /\ At(c) /\ Wanted(c) /\ c \in backoff
    /\ at' = at + 1
    /\ UNCHANGED <<events, delivery, hot, sends, faults, pc, batch, acknowledged,
                   delivered>>

WaitForRetry(c) ==
    /\ pc = "send" /\ At(c) /\ Wanted(c) /\ c \in backoff
    /\ delivered' = FALSE
    /\ at' = at + 1
    /\ UNCHANGED <<events, delivery, hot, sends, faults, pc, batch, acknowledged>>

\* A repeat is acknowledged without being sent.
Suppress(c) ==
    /\ pc = "send" /\ At(c) /\ Wanted(c) /\ c \notin backoff
    /\ kind[First] \in hot[c]
    /\ acks' = acks \cup {<<First, c>>}
    /\ at' = at + 1
    /\ UNCHANGED <<events, cursor, backoff, hot, sends, faults, pc, batch,
                   acknowledged, delivered>>

Sends(c) ==
    /\ pc = "send" /\ At(c) /\ Wanted(c) /\ c \notin backoff
    /\ kind[First] \notin hot[c]

SendSucceeds(c) ==
    /\ Sends(c)
    /\ sends' = [sends EXCEPT ![<<First, c>>] = @ + 1]
    /\ hot' = [hot EXCEPT ![c] = @ \cup {kind[First]}]
    /\ pc' = "record"
    /\ UNCHANGED <<events, delivery, faults, batch, acknowledged, at, delivered>>

RecordSuccess ==
    /\ pc = "record"
    /\ backoff' = backoff \ {Order[at]}
    /\ pc' = "ack"
    /\ UNCHANGED <<events, cursor, acks, hot, sends, faults, batch, acknowledged,
                   at, delivered>>

Acknowledge ==
    /\ pc = "ack"
    /\ acks' = acks \cup {<<First, Order[at]>>}
    /\ at' = at + 1
    /\ pc' = "send"
    /\ UNCHANGED <<events, cursor, backoff, hot, sends, faults, batch, acknowledged,
                   delivered>>

\* The transport fails; it may have taken the message all the same.
SendFails(c) ==
    /\ Sends(c)
    /\ \/ UNCHANGED <<sends, faults>>
       \/ /\ faults < MaxFault
          /\ faults' = faults + 1
          /\ sends' = [sends EXCEPT ![<<First, c>>] = @ + 1]
    /\ backoff' = backoff \cup {c}
    /\ delivered' = FALSE
    /\ at' = at + 1
    /\ UNCHANGED <<events, cursor, acks, hot, pc, batch, acknowledged>>

AllChannelsDone ==
    /\ pc = "send" /\ at > Len(Order)
    /\ IF delivered
       THEN pc' = "advance" /\ UNCHANGED batch
       ELSE pc' = "idle" /\ batch' = {}
    /\ UNCHANGED <<events, delivery, hot, sends, faults, acknowledged, at, delivered>>

AdvanceCursor ==
    /\ pc = "advance"
    /\ cursor' = First
    /\ acks' = {a \in acks : a[1] > First}
    /\ batch' = batch \ {First}
    /\ pc' = IF batch' = {} THEN "idle" ELSE "head"
    /\ UNCHANGED <<events, backoff, hot, sends, faults, acknowledged, at, delivered>>

\* The store raises.  The runner publishes service.error, which the service
\* itself turns into an audit event.
TickFails ==
    /\ pc \notin {"down", "idle"} /\ faults < MaxFault
    /\ faults' = faults + 1
    /\ pc' = "idle" /\ batch' = {}
    /\ IF stamped < MaxEvent
       THEN \E m \in Text :
            /\ stamped' = stamped + 1
            /\ kind' = [kind EXCEPT ![stamped + 1] = m]
            /\ written' = written \cup {stamped + 1}
       ELSE UNCHANGED <<stamped, kind, written>>
    /\ UNCHANGED <<late, old, delivery, hot, sends, acknowledged, at, delivered>>

\* The process dies, or that event cannot be written either and the exception
\* ends the runner's loop.  What the notifiers remember is lost.
Stop ==
    /\ pc # "down" /\ faults < MaxFault
    /\ faults' = faults + 1
    /\ pc' = "down" /\ batch' = {}
    /\ hot' = [c \in Channel |-> {}]
    /\ UNCHANGED <<events, delivery, sends, acknowledged, at, delivered>>

Work ==
    \/ BeginTick \/ PassOver \/ BeginDeliver \/ RecordSuccess \/ Acknowledge
    \/ AllChannelsDone \/ AdvanceCursor
    \/ \E c \in Channel : \/ SkipChannel(c) \/ WaitForRetry(c) \/ Suppress(c)
                          \/ SendSucceeds(c) \/ SendFails(c)

Next ==
    \/ Setup \/ Work \/ TickFails \/ Stop
    \/ \E k \in Text \cup {Noise} : Stamp(k)
    \/ \E e \in Event : Commit(e) \/ GrowsOld(e)
    \/ \E c \in Channel : BackoffEnds(c) \/ TestNotification(c)
    \/ \E c \in Channel, m \in Text : CooldownEnds(c, m)

\* The runner is restarted and ticks every two seconds; time passes.
Fairness ==
    /\ WF_vars(Setup) /\ WF_vars(Work)
    /\ \A e \in Event : WF_vars(GrowsOld(e))

Spec == Init /\ [][Next]_vars
FairSpec == Spec /\ Fairness

----------------------------------------------------------------------------
\* Every enabled channel took the event or acknowledged it as a repeat.
Reached(e) == \A c \in Enabled : sends[<<e, c>>] > 0 \/ <<e, c>> \in acks

\* The service's cursor passes an event with news only once every enabled
\* channel took it or suppressed it as a repeat, or it is too old; the one way
\* for an event to be left behind is to be written after a later one was.
PassesOnlyHandled ==
    [][cursor' # cursor /\ pc # "down" =>
        \A e \in written \ late :
            cursor < e /\ e <= cursor' /\ HasCategory(e) => Reached(e) \/ e \in old]_vars

\* A channel takes an event once, and once more for each crash, failed tick or
\* misreported send: a failing sibling channel causes no second message.
SentOnce == \A p \in Event \X Channel : sends[p] <= 1 + faults

\* No channel that keeps failing holds the queue up forever: the service gets
\* past every event it can see.
QueueMoves ==
    \A e \in Event : (e \in written) ~> (cursor >= e)
============================================================================
