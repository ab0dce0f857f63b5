---------------------------- MODULE SapientEgress ----------------------------
(***************************************************************************)
(* The SAPIENT egress connector: a sensor node registered on a fusion      *)
(* node.  One task runs the loop of run(); `pc` is where it stands and     *)
(* `call` is who called into FusionLink: the top of the loop, the drain of *)
(* the relay, the status tick, the answer to a task, or the final drain.   *)
(* Events are numbered as they arrive; those in Unlocated carry no         *)
(* position.                                                               *)
(*                                                                         *)
(* `wire` and `inbound` are the two directions of the current connection;  *)
(* `talk` is what the fusion node has read on it.  A connection that dies  *)
(* takes both directions along.                                            *)
(***************************************************************************)
EXTENDS Relay

CONSTANTS BufferMax,   \* sapient.buffer_max
          DedupeMax,   \* DEDUPE_WINDOW
          MaxEvents,   \* bound: governed events
          Unlocated,   \* events without a position
          MaxAgain,    \* bound: redeliveries by the bus
          MaxStatus,   \* bound: status ticks
          MaxTasks,    \* bound: tasks from the fusion node
          MaxFaults    \* bound: lost connections, failed connects, rejections

ASSUME SapientAssumption ==
  /\ BufferMax \in Nat \ {0} /\ DedupeMax \in Nat \ {0}
  /\ MaxEvents \in Nat /\ Unlocated \subseteq 1 .. MaxEvents
  /\ MaxAgain \in Nat /\ MaxStatus \in Nat /\ MaxTasks \in Nat /\ MaxFaults \in Nat

VARIABLES
  arrived, again,             \* events seen, redeliveries used
  order,                      \* the dedupe window
  buffer, delivered, gap_dropped, unlocated,
  pc, call, first_status,
  connected, up,              \* writer.is_some(), and the gauge
  listening,                  \* the fusion node accepts connections
  conn, wire, inbound, talk, accepted,  \* the connection itself
  fusion,                     \* reports the fusion node has read, ever
  shutdown, ticks, tasks, faults

busVars == <<arrived, again, order>>
relayVars == <<buffer, delivered, gap_dropped, unlocated>>
taskVars == <<pc, call, first_status>>
linkVars == <<connected, up>>
peerVars == <<listening, conn, wire, inbound, talk, accepted, fusion>>
boundVars == <<shutdown, ticks, tasks, faults>>
sapientVars == <<busVars, relayVars, taskVars, linkVars, peerVars, boundVars>>

Fault == faults < MaxFaults /\ faults' = faults + 1
Report(n) == [kind |-> "report", of |-> n]
Status(new) == [kind |-> "status", of |-> IF new THEN "new" ELSE "unchanged"]
Registration == [kind |-> "registration", of |-> "node"]
TaskAck == [kind |-> "task_ack", of |-> "rejected"]
-----------------------------------------------------------------------------
(* FusionLink *)

\* Where a failed call leaves the loop.  The drain breaks off; the error of a
\* failed registration at the top is logged, and the drain is tried anyway.
CallFails ==
  pc' = CASE call = "top"    -> "drain"
          [] call = "drain"  -> "select"
          [] call = "final"  -> "stopped"
          [] OTHER           -> "top"

DropConnection == connected' = FALSE /\ up' = 0

ConnectOk ==
  /\ pc = "connect"
  /\ listening
  /\ connected' = TRUE
  /\ conn' = "open"
  /\ wire' = <<>> /\ inbound' = <<>> /\ talk' = <<>>
  /\ accepted' = FALSE
  /\ pc' = "register"
  /\ UNCHANGED <<busVars, relayVars, call, first_status, up, listening, fusion,
                 boundVars>>

\* Refused, or timed out.
ConnectFails ==
  /\ pc = "connect"
  /\ (~ listening /\ UNCHANGED faults) \/ Fault
  /\ CallFails
  /\ UNCHANGED <<busVars, relayVars, call, first_status, linkVars, peerVars,
                 shutdown, ticks, tasks>>

\* A write reaches the wire, or a connection that is dead without saying so.
Write(m) ==
  /\ wire' = IF conn = "open" THEN Append(wire, m) ELSE wire
  /\ UNCHANGED <<listening, conn, inbound, talk, accepted, fusion>>

RegisterUnanswered ==
  /\ pc = "register"
  /\ Write(Registration)
  /\ up' = 1
  /\ pc' = IF call = "top" THEN "drain" ELSE "write"
  /\ first_status' = (first_status \/ call = "top")
  /\ UNCHANGED <<busVars, relayVars, call, connected, boundVars>>
Register ==
  /\ pc = "register"
  /\ Write(Registration)
  /\ pc' = "ack"
  /\ UNCHANGED <<busVars, relayVars, call, first_status, linkVars, boundVars>>

\* Registered at last: only the top of the loop notes it in first_status.
AckAccepted ==
  /\ pc = "ack"
  /\ inbound # <<>> /\ inbound[1] = "accept"
  /\ inbound' = Tail(inbound)
  /\ up' = 1
  /\ pc' = IF call = "top" THEN "drain" ELSE "write"
  /\ first_status' = (first_status \/ call = "top")
  /\ UNCHANGED <<busVars, relayVars, call, connected, listening, conn, wire, talk,
                 accepted, fusion, boundVars>>

\* A rejection, a closed connection or ten seconds without an answer.
AckFails ==
  /\ pc = "ack"
  /\ \/ inbound # <<>> /\ inbound[1] = "reject" /\ UNCHANGED faults
     \/ inbound = <<>> /\ conn = "dead" /\ UNCHANGED faults
     \/ inbound = <<>> /\ conn = "open" /\ Fault
  /\ conn' = "none"
  /\ DropConnection
  /\ CallFails
  /\ UNCHANGED <<busVars, relayVars, call, first_status, listening, wire,
                 inbound, talk,
                 accepted, fusion, shutdown, ticks, tasks>>

\* send: the caller's message is on the wire.
WriteReport ==
  /\ pc = "write" /\ call \in {"drain", "final"}
  /\ Write(Report(buffer[1]))
  /\ buffer' = Tail(buffer)
  /\ delivered' = delivered + 1
  /\ pc' = "drain"
  /\ UNCHANGED <<busVars, gap_dropped, unlocated, call, first_status, linkVars,
                 boundVars>>

WriteStatus ==
  /\ pc = "write" /\ call = "status"
  /\ Write(Status(first_status))
  /\ first_status' = FALSE
  /\ pc' = "top"
  /\ UNCHANGED <<busVars, relayVars, call, linkVars, boundVars>>

WriteAnswer ==
  /\ pc = "write" /\ call = "answer"
  /\ Write(TaskAck)
  /\ pc' = "top"
  /\ UNCHANGED <<busVars, relayVars, call, first_status, linkVars, boundVars>>

\* The registration or the message hits a dead connection.
WriteFailsRequeued ==
  /\ pc \in {"register", "write"}
  /\ conn = "dead"
  /\ DropConnection
  /\ conn' = "none"
  /\ CallFails
  /\ buffer' = IF pc = "write" /\ call = "drain"
               THEN Append(Tail(buffer), buffer[1]) ELSE buffer
  /\ UNCHANGED <<busVars, delivered, gap_dropped, unlocated, call, first_status,
                 listening, wire, inbound, talk, accepted, fusion,
                 boundVars>>
WriteFailsDropped ==
  /\ pc \in {"register", "write"}
  /\ conn = "dead"
  /\ DropConnection
  /\ conn' = "none"
  /\ CallFails
  /\ buffer' = IF call \in {"drain", "final"} THEN Tail(buffer) ELSE buffer
  /\ UNCHANGED <<busVars, delivered, gap_dropped, unlocated, call, first_status,
                 listening, wire, inbound, talk, accepted, fusion,
                 boundVars>>
WriteFails ==
  /\ pc \in {"register", "write"}
  /\ conn = "dead"
  /\ DropConnection
  /\ conn' = "none"
  /\ CallFails
  /\ UNCHANGED <<busVars, relayVars, call, first_status, listening, wire,
                 inbound, talk,
                 accepted, fusion, boundVars>>
-----------------------------------------------------------------------------
(* run *)

TopOfLoop ==
  /\ pc = "top"
  /\ pc' = IF connected THEN "drain" ELSE "connect"
  /\ call' = IF connected THEN "drain" ELSE "top"
  /\ UNCHANGED <<busVars, relayVars, first_status, linkVars, peerVars, boundVars>>

\* Relay::drain: the front of the buffer, or the end of the drain.
DrainNext ==
  /\ pc = "drain"
  /\ call' = IF call = "final" THEN "final" ELSE "drain"
  /\ pc' = IF buffer = <<>>
           THEN IF call = "final" THEN "stopped" ELSE "select"
           ELSE IF connected THEN "write" ELSE "connect"
  /\ UNCHANGED <<busVars, relayVars, first_status, linkVars, peerVars, boundVars>>

\* What happens to an event that verified.
Take(n) ==
  /\ order' = Remember(order, DedupeMax, n)
  /\ IF n \in Unlocated
     THEN /\ unlocated' = unlocated + 1
          /\ UNCHANGED <<buffer, gap_dropped>>
     ELSE /\ buffer' = Push(buffer, BufferMax, n)
          /\ gap_dropped' = gap_dropped + PushDrops(buffer, BufferMax)
          /\ UNCHANGED unlocated
  /\ UNCHANGED delivered

SelectEvent ==
  /\ pc = "select"
  /\ arrived < MaxEvents
  /\ arrived' = arrived + 1
  /\ Take(arrived + 1)
  /\ pc' = "top"
  /\ UNCHANGED <<again, call, first_status, linkVars, peerVars, boundVars>>

\* The bus delivers an event a second time.
SelectAgain(n) ==
  /\ pc = "select"
  /\ again < MaxAgain
  /\ again' = again + 1
  /\ IF FirstTime(order, n) THEN Take(n) ELSE UNCHANGED <<order, relayVars>>
  /\ pc' = "top"
  /\ UNCHANGED <<arrived, call, first_status, linkVars, peerVars, boundVars>>

SelectStatusTick ==
  /\ pc = "select"
  /\ ticks < MaxStatus
  /\ ticks' = ticks + 1
  /\ pc' = IF connected THEN "write" ELSE "top"
  /\ call' = "status"
  /\ UNCHANGED <<busVars, relayVars, first_status, linkVars, peerVars, shutdown,
                 tasks, faults>>

\* next_inbound: a task is answered with a refusal.
SelectTask ==
  /\ pc = "select"
  /\ connected
  /\ inbound # <<>>
  /\ inbound' = Tail(inbound)
  /\ pc' = "write"
  /\ call' = "answer"
  /\ UNCHANGED <<busVars, relayVars, first_status, linkVars, listening, conn, wire,
                 talk, accepted, fusion, boundVars>>

SelectHungUp ==
  /\ pc = "select"
  /\ connected
  /\ inbound = <<>> /\ conn = "dead"
  /\ DropConnection
  /\ conn' = "none"
  /\ pc' = "top"
  /\ UNCHANGED <<busVars, relayVars, call, first_status, listening, wire,
                 inbound, talk,
                 accepted, fusion, boundVars>>

SelectRetryWithBacklog ==
  /\ pc = "select"
  /\ buffer # <<>>
  /\ pc' = "top"
  /\ UNCHANGED <<busVars, relayVars, call, first_status, linkVars, peerVars,
                 boundVars>>
SelectRetry ==
  /\ pc = "select"
  /\ ~ connected \/ buffer # <<>>
  /\ pc' = "top"
  /\ UNCHANGED <<busVars, relayVars, call, first_status, linkVars, peerVars,
                 boundVars>>

SelectShutdown ==
  /\ pc = "select"
  /\ shutdown
  /\ pc' = "drain"
  /\ call' = "final"
  /\ UNCHANGED <<busVars, relayVars, first_status, linkVars, peerVars, boundVars>>

\* Two seconds of the final drain are over, wherever it is.
FinalTimeout ==
  /\ call = "final"
  /\ pc # "stopped"
  /\ pc' = "stopped"
  /\ UNCHANGED <<busVars, relayVars, call, first_status, linkVars, peerVars,
                 boundVars>>
-----------------------------------------------------------------------------
(* The fusion node, the network and the operator *)

FusionReads ==
  /\ conn = "open"
  /\ wire # <<>>
  /\ wire' = Tail(wire)
  /\ talk' = Append(talk, wire[1].kind)
  /\ fusion' = IF wire[1].kind = "report" THEN Append(fusion, wire[1].of) ELSE fusion
  /\ IF wire[1].kind = "registration"
     THEN \/ /\ accepted' = TRUE
             /\ inbound' = Append(inbound, "accept")
             /\ UNCHANGED faults
          \/ /\ Fault
             /\ inbound' = Append(inbound, "reject")
             /\ UNCHANGED accepted
     ELSE UNCHANGED <<accepted, inbound, faults>>
  /\ UNCHANGED <<busVars, relayVars, taskVars, linkVars, listening, conn, shutdown,
                 ticks, tasks>>

FusionTasks ==
  /\ conn = "open" /\ accepted
  /\ tasks < MaxTasks
  /\ tasks' = tasks + 1
  /\ inbound' = Append(inbound, "task")
  /\ UNCHANGED <<busVars, relayVars, taskVars, linkVars, listening, conn, wire, talk,
                 accepted, fusion, shutdown, ticks, faults>>

ConnDies ==
  /\ conn = "open"
  /\ Fault
  /\ conn' = "dead"
  /\ wire' = <<>>
  /\ inbound' \in {<<>>, inbound}
  /\ listening' \in BOOLEAN
  /\ UNCHANGED <<busVars, relayVars, taskVars, linkVars, talk, accepted, fusion,
                 shutdown, ticks, tasks>>

FusionReturns ==
  /\ ~ listening
  /\ listening' = TRUE
  /\ UNCHANGED <<busVars, relayVars, taskVars, linkVars, conn, wire, inbound, talk,
                 accepted, fusion, boundVars>>

Signal ==
  /\ ~ shutdown
  /\ shutdown' = TRUE
  /\ UNCHANGED <<busVars, relayVars, taskVars, linkVars, peerVars, ticks, tasks, faults>>
-----------------------------------------------------------------------------
Init ==
  /\ arrived = 0 /\ again = 0 /\ order = <<>>
  /\ buffer = <<>> /\ delivered = 0 /\ gap_dropped = 0 /\ unlocated = 0
  /\ pc = "top" /\ call = "top" /\ first_status = TRUE
  /\ connected = FALSE /\ up = 0
  /\ listening \in BOOLEAN
  /\ conn = "none" /\ wire = <<>> /\ inbound = <<>> /\ talk = <<>>
  /\ accepted = FALSE /\ fusion = <<>>
  /\ shutdown = FALSE /\ ticks = 0 /\ tasks = 0 /\ faults = 0

Linking == \/ ConnectOk \/ ConnectFails \/ Register \/ AckAccepted \/ AckFails
           \/ WriteReport \/ WriteStatus \/ WriteAnswer \/ WriteFails
Selecting == \/ SelectEvent \/ \E n \in 1 .. arrived : SelectAgain(n)
             \/ SelectStatusTick \/ SelectTask \/ SelectHungUp \/ SelectRetry
             \/ SelectShutdown
World == FusionReads \/ FusionTasks \/ ConnDies \/ FusionReturns \/ Signal

Next == Linking \/ TopOfLoop \/ DrainNext \/ Selecting \/ FinalTimeout \/ World
Spec == Init /\ [][Next]_sapientVars

\* The task runs; select! polls its branches in random order, so a branch that
\* is ready again and again is taken; timeouts fire.
Fairness ==
  /\ WF_sapientVars(Linking \/ TopOfLoop \/ DrainNext \/ SelectHungUp \/ SelectRetry)
  /\ SF_sapientVars(SelectShutdown)
  /\ WF_sapientVars(FinalTimeout)
  /\ WF_sapientVars(FusionReads) /\ WF_sapientVars(FusionReturns)
LiveSpec == Spec /\ Fairness
-----------------------------------------------------------------------------
\* "BSI Flex 335 makes registration the first message on a connection, and a
\* node reports nothing until it is acknowledged": what the fusion node reads
\* on any connection starts with the registration, which is not repeated, and
\* goes on only after it was accepted; and the gauge that is "1 while registered
\* and connected" is 1 exactly while an accepted link is held, whenever the loop
\* is at rest.  (ensure_registered, from every caller)
RegistersFirst ==
  /\ talk # <<>> =>
       /\ talk[1] = "registration"
       /\ \A i \in 2 .. Len(talk) : talk[i] # "registration"
       /\ Len(talk) > 1 => accepted
  /\ pc = "select" => (connected <=> up = 1)
  /\ up = 1 => connected /\ accepted

\* Every event is in exactly one place: reported, buffered, or in one of the
\* counters that say why it is not.  (Relay::push, Relay::drain and the event
\* branch of run; the window is large enough to know every event)
SapientAccounted ==
  arrived = delivered + gap_dropped + unlocated + Len(buffer)

\* The fusion node reads the reports in the order of the events and none
\* twice, over reconnections and overflow: drain stops "at the first failure
\* so order is kept".
FusionSeesInOrder == \A i, j \in DOMAIN fusion : i < j => fusion[i] < fusion[j]

\* A lost link is set up again, even when no report waits for it.
LinkReturns == ~ connected ~> (connected \/ pc = "stopped")

=============================================================================
