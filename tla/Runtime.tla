------------------------------ MODULE Runtime ------------------------------
(***************************************************************************)
(* The connector runtime (rust/connectors/common/src/runtime.rs): the main *)
(* loop that publishes or spools each event, the drain task that replays   *)
(* the spool, and between them one NATS client.  The spool is the queue of *)
(* SpoolQueue.  The client, the link and the broker's stream are external: *)
(* they are modelled from how the runtime uses them.                       *)
(***************************************************************************)
EXTENDS SpoolQueue, FiniteSets, Functions

CONSTANTS
  MaxBuffer,     \* messages the client holds before a publish waits
  MaxLog,        \* records the spool holds before it drops the oldest
  Budgets        \* bounds on faults, by kind: a behaviour keeps to one of them

FaultKinds == {"link", "stream", "window", "crash", "append", "cursor", "rot", "late",
               "stop"}

ASSUME RuntimeAssumption ==
  /\ MaxBuffer \in Nat \ {0} /\ MaxLog \in Nat \ {0}
  /\ \A b \in Budgets : DOMAIN b = FaultKinds

VARIABLES
  has_spool,  \* a spool is configured
  next,       \* the next event the parser yields
  publisher,  \* publish_or_spool: where it is and the event it is called with
  drain,      \* the drain task: where it is and the record it replays
  js_mode,    \* the drain confirms by PubAck
  link,       \* the connection to the broker is up
  connected,  \* client.connection_state() is Connected
  buffer,     \* messages on their way to the broker, oldest first
  ack,        \* the answer to the drain's outstanding publish
  stream,     \* a JetStream stream listens on the subject
  stored,     \* the stream
  window,     \* ids inside its duplicate window
  outcome,    \* what the metrics count each event as
  replayed,   \* history: what the drain confirmed, how, and whether to a stream
  shed,       \* history: events that left the spool undelivered
  rotten,     \* records whose bytes rotted on disk
  budget,     \* the bounds this behaviour keeps to
  faults      \* faults so far, by kind

fixedVars == <<has_spool, budget>>
clientVars == <<link, connected, buffer>>
brokerVars == <<stream, stored, window>>
historyVars == <<outcome, replayed, shed, rotten>>
runtimeVars == <<fixedVars, queueVars, next, publisher, drain, js_mode, clientVars, ack,
                 brokerVars, historyVars, faults>>

Idle == [pc |-> "idle", event |-> None]
Fault(f) ==
  /\ faults[f] < budget[f]
  /\ faults' = [faults EXCEPT ![f] = @ + 1]

\* A sealed event with ingest_headers: Nats-Msg-Id carries the event id.
MessageNoId(e, reply) == [event |-> e, id |-> None, reply |-> reply]
Message(e, reply) == [event |-> e, id |-> e, reply |-> reply]
\* A publish that awaits an answer gives up those sent before it.
Unanswered(q) == [i \in DOMAIN q |-> [q[i] EXCEPT !.reply = FALSE]]

----------------------------------------------------------------------------
(* The main loop: publish_or_spool and spool_append. *)

\* An event is parsed, marked and sealed; with a spool and the client known to
\* be disconnected it goes straight to the spool.
Receive ==
  /\ publisher = Idle
  /\ next \in Events
  /\ next' = next + 1
  /\ publisher' = [pc |-> IF has_spool /\ ~connected THEN "spool" ELSE "publish",
                   event |-> next]
  /\ UNCHANGED <<fixedVars, queueVars, drain, js_mode, clientVars, ack, brokerVars,
                 historyVars, faults>>

\* The client takes the message: the event counts as published.
PublishOk ==
  /\ publisher.pc = "publish"
  /\ Len(buffer) < MaxBuffer
  /\ buffer' = Append(buffer, Message(publisher.event, FALSE))
  /\ outcome' = [outcome EXCEPT ![publisher.event] = "published"]
  /\ publisher' = Idle
  /\ UNCHANGED <<fixedVars, queueVars, next, drain, js_mode, link, connected, ack,
                 brokerVars, replayed, shed, rotten, faults>>

\* PUBLISH_DEADLINE passes with the client full.
PublishStallsForever == FALSE /\ UNCHANGED runtimeVars
PublishStalls ==
  /\ publisher.pc = "publish"
  /\ Len(buffer) >= MaxBuffer
  /\ IF has_spool
     THEN publisher' = [publisher EXCEPT !.pc = "spool"] /\ UNCHANGED outcome
     ELSE /\ publisher' = Idle
          /\ outcome' = [outcome EXCEPT ![publisher.event] = "dropped_backpressure"]
  /\ UNCHANGED <<fixedVars, queueVars, next, drain, js_mode, clientVars, ack, brokerVars,
                 replayed, shed, rotten, faults>>

\* Records the bound takes: none while there is room, else whole segments.
Overflow == IF Len(log) < MaxLog THEN {0} ELSE 1 .. Len(log)

SpoolAppend ==
  /\ publisher.pc = "spool"
  /\ \E k \in Overflow :
       /\ Put(publisher.event, k)
       /\ shed' = shed \cup {log[i] : i \in pos + 1 .. k}
  /\ outcome' = [outcome EXCEPT ![publisher.event] = "spooled"]
  /\ publisher' = Idle
  /\ UNCHANGED <<fixedVars, next, drain, js_mode, clientVars, ack, brokerVars, replayed,
                 rotten, faults>>

\* append fails: usually nothing was written, but the record is on disk when
\* only the listing of the directory failed.
SpoolAppendFailsCounted ==
  /\ publisher.pc = "spool"
  /\ Fault("append")
  /\ UNCHANGED queueVars \/ Put(publisher.event, 0)
  /\ outcome' = [outcome EXCEPT ![publisher.event] = "spooled"]
  /\ publisher' = Idle
  /\ UNCHANGED <<fixedVars, next, drain, js_mode, clientVars, ack, brokerVars, replayed,
                 shed, rotten>>
SpoolAppendFails ==
  /\ publisher.pc = "spool"
  /\ Fault("append")
  /\ UNCHANGED queueVars \/ Put(publisher.event, 0)
  /\ outcome' = [outcome EXCEPT ![publisher.event] = "spool_failed"]
  /\ publisher' = Idle
  /\ UNCHANGED <<fixedVars, next, drain, js_mode, clientVars, ack, brokerVars, replayed,
                 shed, rotten>>

\* SIGTERM or SIGINT between two frames: run flushes the client, for as long as
\* that takes.
Signal ==
  /\ publisher = Idle
  /\ Fault("stop")
  /\ publisher' = [pc |-> "flush", event |-> None]
  /\ UNCHANGED <<fixedVars, queueVars, next, drain, js_mode, clientVars, ack, brokerVars,
                 historyVars>>

\* The flush ends once the client believes itself connected: what it held is on
\* the socket.  The spool is synced, the process ends, and is started again.
Stop ==
  /\ publisher.pc = "flush"
  /\ connected
  /\ Reopen
  /\ publisher' = Idle
  /\ drain' = [pc |-> "peek", record |-> None]
  /\ js_mode' = TRUE
  /\ connected' = link
  /\ buffer' = IF link THEN Unanswered(buffer) ELSE <<>>
  /\ ack' = "none"
  /\ UNCHANGED <<fixedVars, next, link, brokerVars, historyVars, faults>>

----------------------------------------------------------------------------
(* The drain task: spawn_drain. *)

drainIdle == [pc |-> "peek", record |-> None]

DrainPeek ==
  /\ has_spool
  /\ drain.pc = "peek"
  /\ Take
  /\ drain' = IF held' = None THEN drainIdle
              ELSE [pc |-> "verify", record |-> held']
  /\ UNCHANGED <<fixedVars, next, publisher, js_mode, clientVars, ack, brokerVars,
                 historyVars, faults>>

\* advance, as the drain calls it: persisted, in memory only, or refused.
Advance ==
  \/ Settle /\ UNCHANGED faults
  \/ SettleInMemory /\ Fault("cursor")
  \/ SettleDropped /\ UNCHANGED faults

\* A record whose seal no longer verifies is skipped, never published.
DrainSkip ==
  /\ drain.pc = "verify"
  /\ drain.record \in rotten
  /\ Advance
  /\ shed' = shed \cup {drain.record}
  /\ drain' = drainIdle
  /\ UNCHANGED <<fixedVars, next, publisher, js_mode, clientVars, ack, brokerVars,
                 outcome, replayed, rotten>>

\* js.publish_with_headers: the message is queued and an answer awaited.
DrainPublish ==
  /\ drain.pc = "verify"
  /\ drain.record \notin rotten
  /\ js_mode
  /\ Len(buffer) < MaxBuffer
  /\ buffer' = Append(Unanswered(buffer), Message(drain.record, TRUE))
  /\ ack' = "none"
  /\ drain' = [drain EXCEPT !.pc = "await"]
  /\ UNCHANGED <<fixedVars, queueVars, next, publisher, js_mode, link, connected,
                 brokerVars, historyVars, faults>>

DrainAcked ==
  /\ drain.pc = "await"
  /\ ack = "acked"
  /\ drain' = [drain EXCEPT !.pc = "acked"]
  /\ UNCHANGED <<fixedVars, queueVars, next, publisher, js_mode, clientVars, ack,
                 brokerVars, historyVars, faults>>

\* "no responders": from here on this process confirms by publish and flush,
\* starting with this record.
DrainNoResponders ==
  /\ drain.pc = "await"
  /\ ack = "no responders"
  /\ js_mode' = FALSE
  /\ drain' = [drain EXCEPT !.pc = "fallback"]
  /\ UNCHANGED <<fixedVars, queueVars, next, publisher, clientVars, ack, brokerVars,
                 historyVars, faults>>

\* The ack timeout: keep the cursor and retry from peek.
DrainAckTimeoutCounts ==
  /\ drain.pc = "await"
  /\ ack = "none"
  /\ drain' = [drain EXCEPT !.pc = "acked"]
  /\ UNCHANGED <<fixedVars, queueVars, next, publisher, js_mode, clientVars, ack,
                 brokerVars, historyVars, faults>>
DrainAckTimeoutNever == FALSE /\ UNCHANGED runtimeVars
DrainAckTimeout ==
  /\ drain.pc = "await"
  /\ ack = "none"
  /\ IF link /\ \E i \in DOMAIN buffer : buffer[i].reply
     THEN Fault("late")
     ELSE UNCHANGED faults
  /\ buffer' = Unanswered(buffer)
  /\ drain' = drainIdle
  /\ UNCHANGED <<fixedVars, queueVars, next, publisher, js_mode, link, connected, ack,
                 brokerVars, historyVars>>

\* Outside js_mode the record is published as the live path publishes ...
DrainFallback ==
  /\ \/ drain.pc = "fallback"
     \/ drain.pc = "verify" /\ drain.record \notin rotten /\ ~js_mode
  /\ Len(buffer) < MaxBuffer
  /\ buffer' = Append(buffer, Message(drain.record, FALSE))
  /\ drain' = [drain EXCEPT !.pc = "flush"]
  /\ UNCHANGED <<fixedVars, queueVars, next, publisher, js_mode, link, connected, ack,
                 brokerVars, historyVars, faults>>

\* ... and flushed, which a client that believes itself connected does.
DrainFlushed ==
  /\ drain.pc = "flush"
  /\ connected
  /\ drain' = [drain EXCEPT !.pc = "flushed"]
  /\ UNCHANGED <<fixedVars, queueVars, next, publisher, js_mode, clientVars, ack,
                 brokerVars, historyVars, faults>>

\* Delivered: advance, and count the record even when advance failed.
DrainConfirm ==
  /\ drain.pc \in {"acked", "flushed"}
  /\ Advance
  /\ replayed' = replayed \cup {[event |-> drain.record, how |-> drain.pc,
                                  stream |-> stream]}
  /\ drain' = drainIdle
  /\ UNCHANGED <<fixedVars, next, publisher, js_mode, clientVars, ack, brokerVars,
                 outcome, shed, rotten>>

----------------------------------------------------------------------------
(* External: the link, the client's view of it, the stream. *)

\* The link breaks, perhaps with an answer on its way.
LinkDrops ==
  /\ link
  /\ Fault("link")
  /\ link' = FALSE
  /\ ack' \in {ack, "none"}
  /\ UNCHANGED <<fixedVars, queueVars, next, publisher, drain, js_mode, connected, buffer,
                 brokerVars, historyVars>>

\* The client notices; what it had written to the dead socket is gone.
ClientNotices ==
  /\ ~link
  /\ connected
  /\ connected' = FALSE
  /\ \E k \in 0 .. Len(buffer) : buffer' = SubSeq(buffer, k + 1, Len(buffer))
  /\ UNCHANGED <<fixedVars, queueVars, next, publisher, drain, js_mode, link, ack,
                 brokerVars, historyVars, faults>>

Reconnects ==
  /\ ~link
  /\ ~connected
  /\ link' = TRUE
  /\ connected' = TRUE
  /\ UNCHANGED <<fixedVars, queueVars, next, publisher, drain, js_mode, buffer, ack,
                 brokerVars, historyVars, faults>>

\* The broker takes the next message.  The stream stores it unless its
\* Nats-Msg-Id is in the duplicate window, and answers either way; without a
\* stream a publish that wants an answer hears "no responders".
BrokerReceives ==
  /\ link
  /\ buffer # <<>>
  /\ buffer' = Tail(buffer)
  /\ LET msg == Head(buffer)
         Answer(a) == ack' = IF msg.reply THEN a ELSE ack
     IN  IF stream
         THEN /\ stored' = IF msg.id \in window THEN stored
                           ELSE Append(stored, msg.event)
              /\ window' = window \cup ({msg.id} \ {None})
              /\ Answer("acked")
         ELSE UNCHANGED <<stored, window>> /\ Answer("no responders")
  /\ UNCHANGED <<fixedVars, queueVars, next, publisher, drain, js_mode, link, connected,
                 stream, historyVars, faults>>

WindowPasses ==
  /\ Fault("window")
  /\ \E e \in window : window' = window \ {e}
  /\ UNCHANGED <<fixedVars, queueVars, next, publisher, drain, js_mode, clientVars, ack,
                 stream, stored, historyVars>>

StreamGoes ==
  /\ stream
  /\ Fault("stream")
  /\ stream' = FALSE
  /\ UNCHANGED <<fixedVars, queueVars, next, publisher, drain, js_mode, clientVars, ack,
                 stored, window, historyVars>>

StreamReturns ==
  /\ ~stream
  /\ stream' = TRUE
  /\ UNCHANGED <<fixedVars, queueVars, next, publisher, drain, js_mode, clientVars, ack,
                 stored, window, historyVars, faults>>

\* A spooled record's bytes go bad on disk.
RecordRots ==
  /\ Fault("rot")
  /\ \E i \in DOMAIN log : rotten' = rotten \cup {log[i]}
  /\ drain.record \notin rotten' \ rotten
  /\ UNCHANGED <<fixedVars, queueVars, next, publisher, drain, js_mode, clientVars, ack,
                 brokerVars, outcome, replayed, shed>>

\* The process dies and run starts again: the event in hand and what the
\* client had not written are gone, the spool is reopened.
Crash ==
  /\ Fault("crash")
  /\ Reopen
  /\ publisher' = Idle
  /\ drain' = drainIdle
  /\ js_mode' = TRUE
  /\ connected' = link
  /\ \E k \in IF link THEN 0 .. Len(buffer) ELSE {0} :
       buffer' = Unanswered(SubSeq(buffer, 1, k))
  /\ ack' = "none"
  /\ UNCHANGED <<fixedVars, next, link, brokerVars, historyVars>>

Init ==
  /\ QueueInit
  /\ has_spool \in BOOLEAN
  /\ next = 1
  /\ publisher = Idle
  /\ drain = drainIdle
  /\ js_mode = TRUE
  /\ link = TRUE
  /\ connected = TRUE
  /\ buffer = <<>>
  /\ ack = "none"
  /\ stream = TRUE
  /\ stored = <<>>
  /\ window = {}
  /\ outcome = [e \in Events |-> "none"]
  /\ replayed = {}
  /\ shed = {}
  /\ rotten = {}
  /\ budget \in Budgets
  /\ faults = [f \in FaultKinds |-> 0]

Publishing == Receive \/ PublishOk \/ PublishStalls \/ SpoolAppend \/ SpoolAppendFails
Draining == DrainPeek \/ DrainSkip \/ DrainPublish \/ DrainAcked \/ DrainNoResponders
              \/ DrainAckTimeout \/ DrainFallback \/ DrainFlushed \/ DrainConfirm
Network == LinkDrops \/ ClientNotices \/ Reconnects \/ BrokerReceives
              \/ WindowPasses \/ StreamGoes \/ StreamReturns

Next == Publishing \/ Signal \/ Stop \/ Draining \/ Network \/ RecordRots \/ Crash

Spec == Init /\ [][Next]_runtimeVars

\* Each task runs on, a dead link is noticed and the broker takes what reaches
\* it; whether the link ever comes back is up to the network.
Fairness ==
  /\ WF_runtimeVars(Publishing)
  /\ WF_runtimeVars(Stop)
  /\ WF_runtimeVars(Draining)
  /\ WF_runtimeVars(ClientNotices)
  /\ WF_runtimeVars(BrokerReceives)
LiveSpec == Spec /\ Fairness

----------------------------------------------------------------------------
(* Properties. *)

Outcomes == {"none", "published", "spooled", "spool_failed", "dropped_backpressure"}

Flushed == {r.event : r \in {q \in replayed : q.how = "flushed"}}

\* An event counted as spooled is on disk ahead of the drain, in the stream,
\* or was dropped at the bound or skipped as corrupt: no order of appends,
\* acks, timeouts, retries, link losses and crashes loses it silently.  Once
\* the drain has met a subject without a stream, flushed is all it can say.
SpooledSurvives ==
  \A e \in Events : outcome[e] = "spooled" =>
    e \in Range(Backlog) \cup Range(stored) \cup shed \cup Flushed

\* "Advancing the cursor only on confirmed delivery": what the drain counts as
\* drained while a stream listens on the subject is stored in it.
ConfirmedIsStored ==
  \A r \in replayed : r.stream => r.event \in Range(stored)

\* The part of it the code keeps: a record drained on a PubAck is stored, and
\* so is every drained record of a process whose stream never went away.
AckedIsStored ==
  \A r \in replayed : r.how = "acked" \/ faults["stream"] = 0 =>
    r.event \in Range(stored)

\* The duplicate window absorbs every retry and every replay after a crash: an
\* event is stored again only once its id has left the window.
StoredOnce == Len(stored) - Cardinality(Range(stored)) <= faults["window"]

\* Spooled events are replayed oldest first: of two of them the older is first
\* stored first.  Not so when both the stream and the cursor file have failed:
\* what was flushed to a subject without a stream is replayed after a restart,
\* behind what the stream has stored since.
ReplayInOrder ==
  faults["cursor"] = 0 \/ faults["stream"] = 0 =>
    \A i, j \in DOMAIN stored :
      LET bothSpooled == outcome[stored[i]] = "spooled" /\ outcome[stored[j]] = "spooled"
      IN  bothSpooled /\ i < j /\ stored[i] > stored[j]
            => \E h \in 1 .. i - 1 : stored[h] = stored[j]

\* If the link keeps coming back, every spooled event reaches the stream unless
\* it was dropped at the bound or rotted; where the stream has gone away the
\* drain falls back, and the event is still confirmed in the way it then can be.
BacklogDrains ==
  []<>link =>
    \A e \in Events :
      outcome[e] = "spooled" ~>
        e \in shed \cup (IF faults["stream"] = 0 THEN Range(stored)
                         ELSE {r.event : r \in replayed})

\* Freezing ingest is not recoverable: whatever the link does, each event
\* leaves publish_or_spool, published, spooled or counted as shed.  The flush on
\* a signal has no deadline of its own: it ends if the link keeps coming back.
IngestNeverFreezes ==
  /\ publisher.pc \in {"publish", "spool"} ~> publisher.pc = "idle"
  /\ []<>link => (publisher.pc = "flush" ~> publisher.pc = "idle")
=============================================================================
