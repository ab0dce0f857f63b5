--------------------------- MODULE WebhookSource ---------------------------
(***************************************************************************)
(* The http-server transport: senders post events over keep-alive          *)
(* connections; each request body becomes a frame in a bounded channel     *)
(* that recv drains.                                                       *)
(*                                                                         *)
(* A request is two cells of a connection's wire, head and body; what the  *)
(* head and the body say is the event's shape.  The sender is the one the  *)
(* transport is written for: it posts an event until it is answered with   *)
(* something other than a 503.                                             *)
(***************************************************************************)
EXTENDS Transport, SequencesExt, FiniteSetsExt

CONSTANTS Hooks,        \* the events
          HookShapes,   \* the requests each event may be posted as
          HookConns,    \* the connections
          HookChannel,  \* CHANNEL_FRAMES
          HookMaxFrame, \* MAX_FRAME
          HookToken,    \* whether a token is configured
          MaxLosses     \* bound: requests that lose their answer

\* head: how read_head ends; framing and sizes: what describes the body.
Shapes == [head : {"ok", "BadRequest", "NotImplemented"}, path : BOOLEAN,
           method : BOOLEAN, token : {"none", "right", "wrong"}, expect : BOOLEAN,
           framing : {"none", "length", "chunked"}, sizes : Seq(Nat)]

ASSUME HookAssumption ==
  /\ HookShapes \in [Hooks -> SUBSET Shapes]
  /\ HookChannel \in Nat \ {0} /\ HookMaxFrame \in Nat /\ MaxLosses \in Nat
  /\ HookToken \in BOOLEAN

IsHook == kind = "http-server"
Outcomes == {"Accepted", "BadRequest", "Unauthorized", "NotFound", "MethodNotAllowed",
             "PayloadTooLarge", "NotImplemented", "Saturated"}
-----------------------------------------------------------------------------
(* serve, up to the body: the outcome of the head, or "read" *)

Authorised(shape) == HookToken => shape.token = "right"

HeadOutcome(shape) ==
  CASE shape.head # "ok"  -> shape.head
    [] ~shape.path        -> "NotFound"
    [] ~shape.method      -> "MethodNotAllowed"
    [] ~Authorised(shape) -> "Unauthorized"
    [] shape.framing = "length" /\ shape.sizes[1] > HookMaxFrame -> "PayloadTooLarge"
    [] shape.framing = "none" -> "Accepted"
    [] OTHER -> "read"

\* read_body, read_chunked: a total above the frame bound is refused.
BodyFits(shape) == FoldSeq(+, 0, shape.sizes) <= HookMaxFrame

Closed == [phase |-> "closed", up |-> FALSE, wire |-> <<>>,
           outcome |-> "Accepted", reusable |-> TRUE]

HookInit ==
  /\ kind \in Kinds \cap {"http-server"}
  /\ source = [open |-> TRUE, channel |-> <<>>, conns |-> [c \in HookConns |-> Closed]]
  /\ peer \in [shape : {f \in [Hooks -> UNION Range(HookShapes)] :
                          \A e \in Hooks : f[e] \in HookShapes[e]},
               status : {[e \in Hooks |-> "new"]}, on : {[c \in HookConns |-> {}]},
               lost : {[e \in Hooks |-> 0]}]
  /\ delivered = [e \in Hooks |-> 0]
-----------------------------------------------------------------------------
(* The senders (external).  What they begin once the runtime has stopped, the     *)
(* process about to end, is left out.                                             *)

HookConnect(c) ==
  /\ IsHook /\ source.open /\ source.conns[c].phase = "closed" /\ peer.on[c] = {}
  /\ \E e \in Hooks : peer.status[e] = "new"
  /\ source' = [source EXCEPT !.conns[c] = [Closed EXCEPT !.phase = "idle", !.up = TRUE]]
  /\ UNCHANGED <<kind, peer, delivered>>

\* The body follows the head at once, or waits for the 100 Continue.
Posted(e) == LET head == <<[event |-> e, part |-> "head"]>>
                 body == <<[event |-> e, part |-> "body"]>>
             IN  IF peer.shape[e].expect \/ peer.shape[e].framing = "none"
                 THEN head ELSE head \o body

HookPost(c, e) ==
  /\ IsHook /\ source.open /\ source.conns[c].up /\ peer.on[c] = {} /\ peer.status[e] = "new"
  /\ peer' = [peer EXCEPT !.status[e] = "posted", !.on[c] = {e}]
  /\ source' = [source EXCEPT !.conns[c].wire = @ \o Posted(e)]
  /\ UNCHANGED <<kind, delivered>>

\* The sender learns that its request will not be answered, and will retry.
Unanswered(c) ==
  peer' = [peer EXCEPT !.on[c] = {},
             !.status = [e \in Hooks |-> IF e \in peer.on[c] THEN "new" ELSE @[e]],
             !.lost = [e \in Hooks |-> IF e \in peer.on[c] THEN @[e] + 1 ELSE @[e]]]
MayLose(c) == peer.on[c] # {} => SumFunction(peer.lost) < MaxLosses

\* The connection breaks; the server may still find part of what was sent.
HookBreaks(c) ==
  /\ IsHook /\ source.conns[c].up /\ MayLose(c) /\ peer.on[c] # {}
  /\ \E m \in 0 .. Len(source.conns[c].wire) :
       source' = [source EXCEPT !.conns[c].up = FALSE, !.conns[c].wire = SubSeq(@, 1, m)]
  /\ Unanswered(c)
  /\ UNCHANGED <<kind, delivered>>
-----------------------------------------------------------------------------
(* connection_loop and serve *)

Answers(conns, c, outcome, reusable) ==
  [conns EXCEPT ![c].phase = "answer", ![c].outcome = outcome, ![c].reusable = reusable]

ServeHeadKeeping(c) ==
  LET e == Head(source.conns[c].wire).event
      outcome == HeadOutcome(peer.shape[e])
      rest == [source.conns EXCEPT ![c].wire = Tail(@)]
  IN
  /\ IsHook /\ source.conns[c].phase = "idle" /\ source.conns[c].wire # <<>>
  /\ source' = [source EXCEPT !.conns =
       IF outcome = "read" THEN [rest EXCEPT ![c].phase = "body"]
       ELSE Answers(rest, c, outcome, TRUE)]
  /\ UNCHANGED <<kind, peer, delivered>>
\* The head is routed, authorised and bounded before any body is read.  A request
\* refused here leaves its body unread, so the connection is not used again.
ServeHead(c) ==
  LET e == Head(source.conns[c].wire).event
      shape == peer.shape[e]
      outcome == HeadOutcome(shape)
      rest == [source.conns EXCEPT ![c].wire = Tail(@)]
      continue == IF shape.expect /\ rest[c].up
                  THEN [rest EXCEPT ![c].wire = <<[event |-> e, part |-> "body"]>>]
                  ELSE rest
  IN
  /\ IsHook /\ source.conns[c].phase = "idle" /\ source.conns[c].wire # <<>>
  /\ source' = [source EXCEPT !.conns =
       IF outcome # "read" THEN Answers(rest, c, outcome, outcome = "Accepted")
       ELSE IF shape.expect /\ ~rest[c].up THEN Answers(rest, c, "BadRequest", FALSE)
       ELSE [continue EXCEPT ![c].phase = "body"]]
  /\ UNCHANGED <<kind, peer, delivered>>

\* try_send: never waits, so a full channel is a 503 and the body is dropped.
ServeBodyUnbounded(c) ==
  LET e == Head(source.conns[c].wire).event
      rest == [source.conns EXCEPT ![c].wire = Tail(@)]
  IN
  /\ IsHook /\ source.conns[c].phase = "body" /\ source.conns[c].wire # <<>>
  /\ source' = [source EXCEPT !.channel = Append(@, e),
       !.conns = Answers(rest, c, IF Len(source.channel) < HookChannel
                                  THEN "Accepted" ELSE "Saturated", TRUE)]
  /\ UNCHANGED <<kind, peer, delivered>>
ServeBody(c) ==
  LET e == Head(source.conns[c].wire).event
      rest == [source.conns EXCEPT ![c].wire = Tail(@)]
      room == source.open /\ Len(source.channel) < HookChannel
      fits == BodyFits(peer.shape[e])
  IN
  /\ IsHook /\ source.conns[c].phase = "body" /\ source.conns[c].wire # <<>>
  /\ source' = [source EXCEPT
       !.channel = IF fits /\ room THEN Append(@, e) ELSE @,
       !.conns = CASE ~fits -> Answers(rest, c, "PayloadTooLarge", FALSE)
                   [] fits /\ room  -> Answers(rest, c, "Accepted", TRUE)
                   [] fits /\ ~room -> Answers(rest, c, "Saturated", source.open)]
  /\ UNCHANGED <<kind, peer, delivered>>

\* The rest of the request never arrives: a bad request nobody reads the answer to.
ServeEnds(c) ==
  /\ IsHook /\ source.conns[c].phase \in {"idle", "body"}
  /\ ~source.conns[c].up /\ source.conns[c].wire = <<>>
  /\ source' = [source EXCEPT !.conns[c] = Closed]
  /\ UNCHANGED <<kind, peer, delivered>>

\* REQUEST_TIMEOUT or IDLE_TIMEOUT: closed without an answer.
HookTimesOut(c) ==
  /\ IsHook /\ source.conns[c].phase \in {"idle", "body"} /\ source.conns[c].up
  /\ MayLose(c)
  /\ source' = [source EXCEPT !.conns[c] = Closed]
  /\ Unanswered(c)
  /\ UNCHANGED <<kind, delivered>>

\* What the sender makes of an answer.
Told(outcome) ==
  CASE outcome = "Accepted" -> "done" [] outcome = "Saturated" -> "new" [] OTHER -> "refused"

Respond(c) ==
  LET conn == source.conns[c] IN
  /\ IsHook /\ conn.phase = "answer"
  /\ peer' = IF ~conn.up THEN peer
             ELSE [peer EXCEPT !.on[c] = {},
                    !.status = [e \in Hooks |-> IF e \in peer.on[c] THEN Told(conn.outcome) ELSE @[e]]]
  /\ source' = [source EXCEPT !.conns[c] =
       IF conn.up /\ conn.reusable THEN [conn EXCEPT !.phase = "idle"] ELSE Closed]
  /\ UNCHANGED <<kind, delivered>>

HookRecv ==
  /\ IsHook /\ source.open /\ source.channel # <<>>
  /\ delivered' = [delivered EXCEPT ![Head(source.channel)] = @ + 1]
  /\ source' = [source EXCEPT !.channel = Tail(@)]
  /\ UNCHANGED <<kind, peer>>

\* The runtime stops and drops the source, with what the channel holds.
HookStops ==
  /\ IsHook /\ source.open
  /\ source' = [source EXCEPT !.open = FALSE, !.channel = <<>>]
  /\ UNCHANGED <<kind, peer, delivered>>

Serving(c) == ServeHead(c) \/ ServeBody(c) \/ ServeEnds(c) \/ Respond(c)
Retrying(e) == \E c \in HookConns : HookPost(c, e)

HookNext ==
  \/ \E c \in HookConns :
       \/ HookConnect(c) \/ HookBreaks(c) \/ HookTimesOut(c) \/ Serving(c)
       \/ \E e \in Hooks : HookPost(c, e)
  \/ HookRecv
  \/ HookStops
-----------------------------------------------------------------------------
(* What the http-server transport promises *)

Queued(e) == Cardinality({i \in DOMAIN source.channel : source.channel[i] = e})

\* A request a delivery needs to be: seen from outside, not by the order of checks.
Deliverable(e) ==
  LET shape == peer.shape[e] IN
  /\ shape.head = "ok" /\ shape.path /\ shape.method /\ shape.framing # "none"
  /\ HookToken => shape.token = "right"
  /\ FoldSeq(+, 0, shape.sizes) <= HookMaxFrame

\* Between requests a connection stands at the head of one: no body, refused or
\* not, is ever read as a request.  (connection_loop: "An outcome that leaves a
\* body unread closes it rather than guess where the next request starts")
RequestBoundary ==
  IsHook => \A c \in HookConns :
    LET conn == source.conns[c] IN
    (conn.phase = "idle" \/ (conn.phase = "answer" /\ conn.reusable)) /\ conn.wire # <<>> =>
       Head(conn.wire).part = "head"

\* A sender's books: told 204 for an event with a body, it is in the channel or was
\* delivered; refused, it is in neither and never was; and it is taken again only
\* when the answer to it was lost: a 503 has queued nothing, so the retry it invites
\* is no duplicate.  (serve, respond)
AnswerIsTrue ==
  IsHook => \A e \in Hooks :
    /\ peer.status[e] = "done" /\ peer.shape[e].framing # "none" /\ source.open =>
         Queued(e) + delivered[e] > 0
    /\ Queued(e) + delivered[e] > 0 => Deliverable(e) /\ peer.status[e] # "refused"
    /\ Queued(e) + delivered[e] <= 1 + peer.lost[e]

\* "A saturated pipeline answers 503, so a well-behaved sender retries instead of
\* losing the event": every deliverable event is eventually delivered while the
\* connector runs, whatever connections break or time out meanwhile.
PersistentSenderDelivers ==
  \A e \in Hooks : <>(IsHook =>
    (~source.open \/ ~Deliverable(e) \/ delivered[e] > 0))
=============================================================================
