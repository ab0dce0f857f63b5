--------------------------- MODULE GenericEgress ---------------------------
(***************************************************************************)
(* The generic egress relay's delivery loop: verify an envelope, suppress  *)
(* a redelivery, render, POST to the consumer, retry a fixed number of     *)
(* times.  One task; while it retries, messages wait in the subscription's *)
(* channel, which drops what does not fit.                                 *)
(*                                                                         *)
(* A message is the id of the event it carries, a request the id and the   *)
(* object rendered.  A request that timed out may still be on its way:     *)
(* `late` holds those the consumer has yet to see.                         *)
(***************************************************************************)
EXTENDS Relay, Render, FiniteSets, Bags

CONSTANTS Genuine,       \* ids of events whose envelope verifies and decodes
          Forged,        \* ids on envelopes that do not
          EventOf,       \* the event in each message
          Configs,       \* the mapping, unmapped mode and label configured
          Attempts,      \* deliver.attempts
          Window,        \* DEDUPE_WINDOW
          InboxMax,      \* capacity of the subscription's channel
          MaxMessages    \* bound: messages on the bus

Ids == Genuine \cup Forged

\* Config::validate wants an attempt.
ASSUME GenericAssumption ==
  /\ Genuine \cap Forged = {} /\ EventOf \in [Ids -> Events]
  /\ \A c \in Configs : ValidConfig(c)
  /\ Attempts \in Nat \ {0} /\ Window \in Nat \ {0} /\ InboxMax \in Nat \ {0}
  /\ MaxMessages \in Nat

VARIABLES
  config,
  mode,                  \* delivering, or a dry run with or without the key
  sent, inbox, open,     \* the bus, the subscription's channel and its state
  pc, current, body, attempt,
  order,                 \* the dedupe window
  received, delivered, rejected, deduped, gap_dropped,
  printed,               \* payload sizes and objects printed by a dry run
  consumer, late,        \* requests the consumer has taken; those still coming
  opened                 \* history: the ids taken as new, in order

counters == <<received, delivered, rejected, deduped, gap_dropped, printed>>
busVars == <<config, mode, sent, inbox, open>>
loopVars == <<pc, current, body, attempt, order>>
peerVars == <<consumer, late>>
history == <<opened>>
genericVars == <<busVars, loopVars, counters, peerVars, history>>

None == "none"
Modes == {"deliver", "dry", "dry_no_key"}
DryRun == mode # "deliver"
\* main goes on without the key only under --dry-run.
HasKey == mode # "dry_no_key"
Count(f) == f' = f + 1
-----------------------------------------------------------------------------
(* The bus: redelivers freely; a full channel drops. *)

BusPublish(id) ==
  /\ sent < MaxMessages /\ open
  /\ sent' = sent + 1
  /\ inbox' = IF Len(inbox) < InboxMax THEN Append(inbox, id) ELSE inbox
  /\ UNCHANGED <<config, mode, open, loopVars, counters, peerVars, history>>

BusEnds ==
  /\ open /\ open' = FALSE
  /\ UNCHANGED <<config, mode, sent, inbox, loopVars, counters, peerVars, history>>
-----------------------------------------------------------------------------
(* main's loop *)

Take == pc = "select" /\ inbox # <<>> /\ inbox' = Tail(inbox) /\ Count(received)

\* A dry run without a key: sizes only.
Unverified ==
  /\ Take /\ ~HasKey
  /\ Count(printed)
  /\ UNCHANGED <<config, mode, sent, open, loopVars, delivered, rejected, deduped, gap_dropped,
                 peerVars, history>>

Reject ==
  /\ Take /\ HasKey /\ Head(inbox) \in Forged
  /\ Count(rejected)
  /\ UNCHANGED <<config, mode, sent, open, loopVars, delivered, deduped, gap_dropped, printed,
                 peerVars, history>>

\* What accept lets through: verify, then decode.
AcceptedAny(id) == HasKey
Accepted(id) == HasKey /\ id \in Genuine

Suppress ==
  /\ Take /\ Accepted(Head(inbox)) /\ ~FirstTime(order, Head(inbox))
  /\ Count(deduped)
  /\ UNCHANGED <<config, mode, sent, open, loopVars, delivered, rejected, gap_dropped, printed,
                 peerVars, opened>>

\* A new event: remembered before anything is known of its delivery.
Open(id) ==
  /\ Take /\ Accepted(id) /\ FirstTime(order, id)
  /\ order' = Remember(order, Window, id)
  /\ opened' = Append(opened, id)

RefuseUnmapped ==
  LET id == Head(inbox) IN
  /\ Open(id) /\ Refuses(EventOf[id], config)
  /\ Count(gap_dropped)
  /\ UNCHANGED <<config, mode, sent, open, pc, current, body, attempt, delivered,
                 rejected, deduped, printed, peerVars>>

PrintBody ==
  LET id == Head(inbox) IN
  /\ Open(id) /\ ~Refuses(EventOf[id], config) /\ DryRun
  /\ Count(printed) /\ Count(delivered)
  /\ UNCHANGED <<config, mode, sent, open, pc, current, body, attempt, rejected, deduped,
                 gap_dropped, peerVars>>

StartDelivery ==
  LET id == Head(inbox) IN
  /\ Open(id) /\ ~Refuses(EventOf[id], config) /\ ~DryRun
  /\ pc' = "post" /\ current' = id /\ attempt' = 0
  /\ body' = Render(EventOf[id], config)
  /\ UNCHANGED <<config, mode, sent, open, delivered, rejected, deduped, gap_dropped, printed,
                 peerVars>>

LoopEnds ==
  /\ pc = "select" /\ inbox = <<>> /\ ~open
  /\ pc' = "ended"
  /\ UNCHANGED <<busVars, current, body, attempt, order, counters, peerVars, history>>
-----------------------------------------------------------------------------
(* The attempts *)

Request == [id |-> current, body |-> body]
Settle == pc' = "select" /\ current' = None /\ body' = <<>>

PostOk ==
  /\ pc = "post"
  /\ consumer' = consumer (+) SetToBag({Request})
  /\ Count(delivered)
  /\ Settle
  /\ UNCHANGED <<busVars, attempt, order, received, rejected, deduped, gap_dropped,
                 printed, late, opened>>

\* An attempt failed: the next one after a pause, or the event is given up.
NextAttemptSilent ==
  /\ attempt' = attempt + 1
  /\ IF attempt + 1 < Attempts
     THEN UNCHANGED <<pc, current, body, gap_dropped>>
     ELSE Settle /\ UNCHANGED gap_dropped
NextAttempt ==
  /\ attempt' = attempt + 1
  /\ IF attempt + 1 < Attempts
     THEN UNCHANGED <<pc, current, body, gap_dropped>>
     ELSE Settle /\ Count(gap_dropped)

attemptLeaves == <<busVars, order, received, delivered, rejected, deduped, printed,
                   history>>

PostRefused ==
  /\ pc = "post" /\ NextAttempt
  /\ consumer' = consumer (+) SetToBag({Request})
  /\ UNCHANGED <<late, attemptLeaves>>

PostNotSent ==
  /\ pc = "post" /\ NextAttempt
  /\ UNCHANGED <<peerVars, attemptLeaves>>

\* The 10 s timeout: the request is out and may yet be taken.
PostHangs ==
  /\ pc = "post" /\ pc' = "hung"
  /\ UNCHANGED <<current, body, attempt, gap_dropped, peerVars, attemptLeaves>>
PostTimesOut ==
  /\ pc = "post" /\ NextAttempt
  /\ late' = late (+) SetToBag({Request})
  /\ UNCHANGED <<consumer, attemptLeaves>>

LateArrival(request) ==
  /\ late' = late (-) SetToBag({request})
  /\ consumer' = consumer (+) SetToBag({request})
  /\ UNCHANGED <<busVars, loopVars, counters, history>>
-----------------------------------------------------------------------------
Init ==
  /\ config \in Configs
  /\ mode \in Modes
  /\ sent = 0 /\ inbox = <<>> /\ open = TRUE
  /\ pc = "select" /\ current = None /\ body = <<>> /\ attempt = 0 /\ order = <<>>
  /\ received = 0 /\ delivered = 0 /\ rejected = 0 /\ deduped = 0
  /\ gap_dropped = 0 /\ printed = 0
  /\ consumer = EmptyBag /\ late = EmptyBag
  /\ opened = <<>>

Handle ==
  \/ Unverified \/ Reject \/ Suppress \/ RefuseUnmapped \/ PrintBody
  \/ StartDelivery \/ LoopEnds
Post == PostOk \/ PostRefused \/ PostNotSent \/ PostTimesOut
Next ==
  \/ \E id \in Ids : BusPublish(id)
  \/ BusEnds
  \/ Handle
  \/ Post
  \/ \E request \in BagToSet(late) : LateArrival(request)

Spec == Init /\ [][Next]_genericVars

\* tokio runs the task, and reqwest's timeout ends every request.
LiveSpec == Spec /\ WF_genericVars(Handle) /\ WF_genericVars(Post)
-----------------------------------------------------------------------------
Leaving == BagToSet(consumer (+) late)

\* Every message taken is counted exactly once, or is the one being posted.
\* (EgressMetrics)
EgressAccounted ==
  received = delivered + rejected + deduped + gap_dropped
               + (IF pc = "post" THEN 1 ELSE 0)
               + (IF HasKey THEN 0 ELSE printed)

\* Nothing reaches the consumer, even late, that did not verify or that the
\* mapping refuses, and a dry run sends nothing.  (accept, render, --dry-run)
OnlyGovernedLeaves ==
  \A r \in Leaving :
    r.id \in Genuine /\ ~Refuses(EventOf[r.id], config) /\ ~DryRun

\* Whatever the mapping, in either mode, as long as it keeps clear of the names
\* render uses itself, every object sent carries the id, the tags and the
\* governance block of its event, and no attribute or metadata entry of the event
\* is left out of it.  (render, Unmapped)
ContentDelivered ==
  DOMAIN config.fields \cap Reserved = {} =>
    \A r \in Leaving :
      /\ {Field("id"), Field("policy_tags"), Verified} \subseteq Content(r.body)
      /\ AttrsOf(EventOf[r.id]) \subseteq Content(r.body)

\* An event is taken as new again only once a full window of other events has
\* been.  (Dedupe::first_time)
WindowHolds ==
  \A i, j \in DOMAIN opened :
    i < j /\ opened[i] = opened[j] =>
      Cardinality({opened[k] : k \in i + 1 .. j - 1} \ {opened[i]}) >= Window

\* An event being posted is settled, so one consumer that refuses or hangs
\* cannot hold the loop.  (the attempts loop, the request timeout)
AttemptsEnd == pc = "post" ~> pc = "select"

\* "The event id, the policy tags and the governance block are in every object.
\* A mapping can rename the id and the tags by naming their paths; it cannot
\* omit them."  (render)
MappingCannotOmit ==
  \A r \in Leaving :
    {Field("id"), Field("policy_tags"), Verified} \subseteq Content(r.body)
============================================================================
