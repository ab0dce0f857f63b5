------------------------ MODULE GenericEgressProofs ------------------------
(***************************************************************************)
(* What leaves the generic egress relay, and how it is counted, for every  *)
(* configuration, window, attempt bound and interleaving of late requests. *)
(***************************************************************************)
EXTENDS GenericEgress, TLAPS, FiniteSetTheorems

(* Sequences: their entries, and what the operators do to them. *)

\* A sequence, its indices and its entries.
LEMMA AnySeq ==
  ASSUME NEW S, NEW s \in Seq(S)
  PROVE  Len(s) \in Nat /\ DOMAIN s = 1 .. Len(s) /\ \A i \in 1 .. Len(s) : s[i] \in S
  OBVIOUS

\* The front of a sequence, and the entries behind it.
LEMMA AnyTail ==
  ASSUME NEW S, NEW s \in Seq(S), s # <<>>
  PROVE  /\ Tail(s) \in Seq(S) /\ Len(Tail(s)) = Len(s) - 1
         /\ 1 \in DOMAIN s /\ s[1] \in S
         /\ \A i \in DOMAIN Tail(s) : i + 1 \in DOMAIN s /\ Tail(s)[i] = s[i + 1]
  <1>1. Len(s) \in Nat /\ DOMAIN s = 1 .. Len(s) /\ Len(s) # 0
    BY AnySeq
  <1>2. Tail(s) \in Seq(S) /\ Len(Tail(s)) = Len(s) - 1
    OBVIOUS
  <1>3. DOMAIN Tail(s) = 1 .. Len(s) - 1
    BY <1>2, AnySeq
  <1>4. \A i \in 1 .. Len(s) - 1 : Tail(s)[i] = s[i + 1]
    BY <1>1
  <1>5. 1 \in DOMAIN s /\ \A i \in 1 .. Len(s) - 1 : i + 1 \in DOMAIN s
    BY <1>1
  <1>q. QED
    BY <1>1, <1>2, <1>3, <1>4, <1>5, AnySeq

\* The entries of a sequence with one more at the back.
LEMMA AnyAppend ==
  ASSUME NEW S, NEW s \in Seq(S), NEW x \in S
  PROVE  /\ Append(s, x) \in Seq(S) /\ Len(Append(s, x)) = Len(s) + 1 /\ Len(s) \in Nat
         /\ Append(s, x) # <<>>
         /\ \A i \in DOMAIN s : Append(s, x)[i] = s[i]
         /\ Append(s, x)[Len(s) + 1] = x
         /\ \A i \in DOMAIN Append(s, x) : i \in DOMAIN s \/ i = Len(s) + 1
  <1>1. Len(s) \in Nat /\ DOMAIN s = 1 .. Len(s)
    BY AnySeq
  <1>2. Append(s, x) \in Seq(S) /\ Len(Append(s, x)) = Len(s) + 1
    OBVIOUS
  <1>3. DOMAIN Append(s, x) = 1 .. Len(s) + 1
    BY <1>2, AnySeq
  <1>4. (\A i \in DOMAIN s : Append(s, x)[i] = s[i]) /\ Append(s, x)[Len(s) + 1] = x
    BY <1>1
  <1>5. \A i \in 1 .. Len(s) + 1 : i \in 1 .. Len(s) \/ i = Len(s) + 1
    BY <1>1
  <1>6. Append(s, x) # <<>>
    BY <1>1, <1>2
  <1>q. QED
    BY <1>1, <1>2, <1>3, <1>4, <1>5, <1>6

\* The same, entry by entry.
LEMMA EachAppended ==
  ASSUME NEW S, NEW s \in Seq(S), NEW x \in S, NEW t, t = Append(s, x)
  PROVE  \A i \in DOMAIN t : \/ i \in DOMAIN s /\ t[i] = s[i]
                             \/ i = Len(s) + 1 /\ t[i] = x
  BY AnyAppend

----------------------------------------------------------------------------

----------------------------------------------------------------------------
(* What a rendered object carries, for every event and every mapping.      *)

\* Inserting under a name that was free keeps everything the object carried and
\* adds the value.  (serde_json's Map::insert)
LEMMA InsertFree ==
  ASSUME NEW object, NEW name, name \notin DOMAIN object, NEW value
  PROVE  /\ Content(Insert(object, name, value)) = Content(object) \cup value
         /\ DOMAIN Insert(object, name, value) = DOMAIN object \cup {name}
  BY Zenon DEF Content, Insert

\* Under a guard, likewise.
LEMMA InsertIfFree ==
  ASSUME NEW object, NEW name, name \notin DOMAIN object, NEW value,
         NEW guard \in BOOLEAN
  PROVE  /\ Content(object) \subseteq Content(InsertIf(object, guard, name, value))
         /\ guard => value \subseteq Content(InsertIf(object, guard, name, value))
         /\ DOMAIN InsertIf(object, guard, name, value)
              \subseteq DOMAIN object \cup {name}
  <1>1. CASE guard
    <2>1. InsertIf(object, guard, name, value) = Insert(object, name, value)
      BY <1>1 DEF InsertIf
    <2>2. /\ Content(Insert(object, name, value)) = Content(object) \cup value
          /\ DOMAIN Insert(object, name, value) = DOMAIN object \cup {name}
      BY InsertFree, Zenon
    <2> QED
      BY <2>1, <2>2
  <1>2. CASE ~guard
    BY <1>2 DEF InsertIf
  <1> QED
    BY <1>1, <1>2

\* A path the mapping names and the event has a value for is carried, and only
\* the mapping's names are taken.  (render's first loop)
LEMMA MappedCarries ==
  ASSUME NEW e, NEW fields
  PROVE  /\ \A path \in PathsOf(fields) :
              Carries(e, path) => path \in Content(Mapped(e, fields))
         /\ DOMAIN Mapped(e, fields) \subseteq DOMAIN fields
  BY DEF PathsOf, Mapped, Content

\* What Governed adds survives, and it uses only its own names besides the
\* mapping's.
LEMMA GovernedCarries ==
  ASSUME NEW e, NEW fields, DOMAIN fields \cap Reserved = {}
  PROVE  /\ Content(Mapped(e, fields)) \subseteq Content(Governed(e, fields))
         /\ {Field("id"), Field("policy_tags"), Verified}
              \subseteq Content(Governed(e, fields))
         /\ DOMAIN Governed(e, fields)
              \subseteq DOMAIN fields \cup {"event_id", "policy_tags", "governance"}
  <1> DEFINE object == Mapped(e, fields)
             noId == Field("id") \notin PathsOf(fields)
             noTags == Field("policy_tags") \notin PathsOf(fields)
             withId == InsertIf(object, noId, "event_id", {Field("id")})
             withTags == InsertIf(withId, noTags, "policy_tags",
                                  {Field("policy_tags")})
  <1>1. /\ DOMAIN object \subseteq DOMAIN fields
        /\ ~noId => Field("id") \in Content(object)
        /\ ~noTags => Field("policy_tags") \in Content(object)
    BY MappedCarries DEF Carries, Always
  <1>2. noId \in BOOLEAN /\ noTags \in BOOLEAN
    OBVIOUS
  <1>3. "event_id" \notin DOMAIN fields /\ "policy_tags" \notin DOMAIN fields
          /\ "governance" \notin DOMAIN fields
    BY DEF Reserved
  <1> HIDE DEF object, noId, noTags
  <1>4. /\ Content(object) \subseteq Content(withId)
        /\ Field("id") \in Content(withId)
        /\ DOMAIN withId \subseteq DOMAIN fields \cup {"event_id"}
    <2>1. "event_id" \notin DOMAIN object
      BY <1>1, <1>3
    <2> QED
      BY <1>1, <1>2, <2>1, InsertIfFree
  <1> HIDE DEF withId
  <1>5. /\ Content(withId) \subseteq Content(withTags)
        /\ Field("policy_tags") \in Content(withTags)
        /\ DOMAIN withTags \subseteq DOMAIN fields \cup {"event_id", "policy_tags"}
    <2>1. "policy_tags" \notin DOMAIN withId
      BY <1>3, <1>4
    <2> QED
      BY <1>1, <1>2, <1>4, <2>1, InsertIfFree
  <1> HIDE DEF withTags
  <1>6. "governance" \notin DOMAIN withTags
    BY <1>3, <1>5
  <1>7. /\ Content(Insert(withTags, "governance", {Verified}))
             = Content(withTags) \cup {Verified}
        /\ DOMAIN Insert(withTags, "governance", {Verified})
             = DOMAIN withTags \cup {"governance"}
    BY <1>6, InsertFree, Zenon
  <1>8. Governed(e, fields) = Insert(withTags, "governance", {Verified})
    BY DEF Governed, withTags, withId, noTags, noId, object
  <1> QED
    BY <1>4, <1>5, <1>7, <1>8 DEF object

\* A mapping that keeps clear of the names render uses itself can neither omit
\* the id, the tags or the governance block, nor strip an attribute or metadata
\* entry off an event: for every event, every mapping and either mode, the
\* object carries them all.  (render)
THEOREM RenderKeeps ==
  ASSUME NEW e \in Events, NEW c, ValidConfig(c),
         DOMAIN c.fields \cap Reserved = {}
  PROVE  {Field("id"), Field("policy_tags"), Verified} \cup AttrsOf(e)
           \subseteq Content(Render(e, c))
  <1> DEFINE governed == Governed(e, c.fields)
             labelled == Labelled(governed, e, c.label)
             extra == Extra(e, c.fields)
  <1>1. c.label \in BOOLEAN /\ e.classified \in BOOLEAN
    BY DEF ValidConfig, Events
  <1>2. "confidentiality_label" \notin DOMAIN c.fields /\ "unmapped" \notin DOMAIN c.fields
    BY DEF Reserved
  <1>3. /\ Content(Mapped(e, c.fields)) \subseteq Content(governed)
        /\ {Field("id"), Field("policy_tags"), Verified} \subseteq Content(governed)
        /\ DOMAIN governed
             \subseteq DOMAIN c.fields \cup {"event_id", "policy_tags", "governance"}
    BY GovernedCarries
  <1>4. AttrsOf(e) \ extra \subseteq Content(Mapped(e, c.fields))
    BY MappedCarries DEF Extra, Carries
  <1> HIDE DEF governed, extra
  <1>5. /\ Content(governed) \subseteq Content(labelled)
        /\ DOMAIN labelled \subseteq DOMAIN governed \cup {"confidentiality_label"}
    <2>1. "confidentiality_label" \notin DOMAIN governed
      BY <1>2, <1>3
    <2>2. (c.label /\ e.classified) \in BOOLEAN
      BY <1>1
    <2> QED
      BY <2>1, <2>2, InsertIfFree, Zenon DEF Labelled
  <1> HIDE DEF labelled
  <1>6. /\ Content(labelled) \subseteq Content(Render(e, c))
        /\ extra \subseteq Content(Render(e, c))
    <2>1. "unmapped" \notin DOMAIN labelled
      BY <1>2, <1>3, <1>5
    <2>2. Render(e, c) = InsertIf(labelled, extra # {}, "unmapped", extra)
      BY DEF Render, labelled, governed, extra
    <2> DEFINE guard == extra # {}
    <2>3. guard \in BOOLEAN
      OBVIOUS
    <2> HIDE DEF guard
    <2>4. /\ Content(labelled)
               \subseteq Content(InsertIf(labelled, guard, "unmapped", extra))
          /\ guard => extra \subseteq Content(InsertIf(labelled, guard, "unmapped", extra))
      BY <2>1, <2>3, InsertIfFree
    <2>5. ~guard => extra = {}
      BY DEF guard
    <2>6. Render(e, c) = InsertIf(labelled, guard, "unmapped", extra)
      BY <2>2 DEF guard
    <2> QED
      BY <2>4, <2>5, <2>6
  <1> QED
    BY <1>3, <1>4, <1>5, <1>6

----------------------------------------------------------------------------
(* The delivery loop.                                                      *)

\* A request as the loop renders it: for a verified event its mapping accepts,
\* outside a dry run.
Proper(r) ==
  /\ r.id \in Genuine
  /\ ~DryRun
  /\ ~Refuses(EventOf[r.id], config)
  /\ r.body = Render(EventOf[r.id], config)

\* The counters are numbers, the request being posted and every request that
\* left are proper, and the counters add up.
GenericInv ==
  /\ config \in Configs
  /\ mode \in Modes
  /\ inbox \in Seq(Ids)
  /\ pc \in {"select", "post", "ended"}
  /\ received \in Nat /\ delivered \in Nat /\ rejected \in Nat
  /\ deduped \in Nat /\ gap_dropped \in Nat /\ printed \in Nat
  /\ pc = "post" => Proper(Request)
  /\ EgressAccounted
  /\ \A r \in DOMAIN consumer \cup DOMAIN late : Proper(r)

\* A bag with one more request in it, and with one fewer.
LEMMA BagDomains ==
  ASSUME NEW B, NEW r
  PROVE  /\ DOMAIN (B (+) SetToBag({r})) = DOMAIN B \cup {r}
         /\ DOMAIN (B (-) SetToBag({r})) \subseteq DOMAIN B
         /\ \A C : DOMAIN (B (+) C) = DOMAIN B \cup DOMAIN C
  BY DEF (+), (-), SetToBag

\* What has left is what the consumer has and what is still coming.
LEMMA LeavingIs == Leaving = DOMAIN consumer \cup DOMAIN late
  BY DEF Leaving, BagToSet, (+)

\* The invariant holds of an egress that has read nothing.
LEMMA GenericInit == Init => GenericInv
  <1> SUFFICES ASSUME Init PROVE GenericInv
    OBVIOUS
  <1>1. DOMAIN consumer = {} /\ DOMAIN late = {}
    BY DEF Init, EmptyBag, SetToBag
  <1> QED
    BY <1>1 DEF Init, GenericInv, EgressAccounted, Modes

\* Every step of the egress and of its peers keeps the invariant.
LEMMA GenericStep == GenericInv /\ [Next]_genericVars => GenericInv'
  <1> SUFFICES ASSUME GenericInv, [Next]_genericVars PROVE GenericInv'
    OBVIOUS
  <1>1. CASE UNCHANGED genericVars
    BY <1>1 DEF GenericInv, genericVars, busVars, loopVars, counters, peerVars,
                history, EgressAccounted, Proper, Request, DryRun, HasKey
  <1>2. ASSUME NEW id \in Ids, BusPublish(id) PROVE GenericInv'
    BY <1>2 DEF BusPublish, GenericInv, loopVars, counters, peerVars,
                history, EgressAccounted, Proper, Request, DryRun, HasKey
  <1>3. CASE BusEnds
    BY <1>3 DEF BusEnds, GenericInv, loopVars, counters, peerVars,
                history, EgressAccounted, Proper, Request, DryRun, HasKey
  <1>4. CASE Handle
    <2>0. inbox # <<>> => Tail(inbox) \in Seq(Ids)
      BY DEF GenericInv
    <2>1. CASE Unverified
      BY <2>0, <2>1 DEF Unverified, Take, Count,
                  GenericInv, loopVars, counters, peerVars, history,
                  EgressAccounted, Proper, Request, DryRun, HasKey
    <2>2. CASE Reject
      BY <2>0, <2>2 DEF Reject, Take, Count,
                  GenericInv, loopVars, counters, peerVars, history,
                  EgressAccounted, Proper, Request, DryRun, HasKey
    <2>3. CASE Suppress
      BY <2>0, <2>3 DEF Suppress, Take, Count, Accepted,
                  GenericInv, loopVars, counters, peerVars, history,
                  EgressAccounted, Proper, Request, DryRun, HasKey
    <2>4. CASE RefuseUnmapped
      BY <2>0, <2>4 DEF RefuseUnmapped, Open, Take, Count, Accepted,
                  GenericInv, loopVars, counters, peerVars, history,
                  EgressAccounted, Proper, Request, DryRun, HasKey
    <2>5. CASE PrintBody
      BY <2>0, <2>5 DEF PrintBody, Open, Take, Count, Accepted,
                  GenericInv, loopVars, counters, peerVars, history,
                  EgressAccounted, Proper, Request, DryRun, HasKey
    <2>6. CASE LoopEnds
      BY <2>0, <2>6 DEF LoopEnds, busVars,
                  GenericInv, loopVars, counters, peerVars, history,
                  EgressAccounted, Proper, Request, DryRun, HasKey
    <2>7. CASE StartDelivery
      BY <2>0, <2>7 DEF StartDelivery, Open, Take, Count, Accepted,
                  GenericInv, loopVars, counters, peerVars, history,
                  EgressAccounted, Proper, Request, DryRun, HasKey
    <2> QED
      BY <1>4, <2>1, <2>2, <2>3, <2>4, <2>5, <2>6, <2>7 DEF Handle
  <1>5. CASE Post
    <2> DEFINE Sends ==
                 /\ pc = "post" /\ config' = config /\ mode' = mode
                 /\ consumer' \in {consumer, consumer (+) SetToBag({Request})}
                 /\ late' \in {late, late (+) SetToBag({Request})}
               Counts ==
                 /\ UNCHANGED <<inbox, received, rejected, deduped, printed>>
                 /\ pc' \in {"post", "select"}
                 /\ \/ pc' = "select" /\ delivered' = delivered + 1
                                     /\ gap_dropped' = gap_dropped
                    \/ pc' = "select" /\ delivered' = delivered
                                     /\ gap_dropped' = gap_dropped + 1
                    \/ pc' = "post" /\ delivered' = delivered
                                   /\ gap_dropped' = gap_dropped
    <2>1. DOMAIN (consumer (+) SetToBag({Request})) = DOMAIN consumer \cup {Request}
      BY BagDomains, Zenon
    <2>2. DOMAIN (late (+) SetToBag({Request})) = DOMAIN late \cup {Request}
      BY BagDomains, Zenon
    <2>3. ASSUME Sends, Counts, (pc = "post" => Proper(Request))'
          PROVE  GenericInv'
      <3>1. (\A r \in DOMAIN consumer \cup DOMAIN late : Proper(r))'
        BY <2>1, <2>2, <2>3 DEF GenericInv, Proper, DryRun
      <3>2. /\ config \in Configs /\ mode \in Modes /\ inbox \in Seq(Ids)
            /\ received \in Nat /\ delivered \in Nat /\ rejected \in Nat
            /\ deduped \in Nat /\ gap_dropped \in Nat /\ printed \in Nat
            /\ EgressAccounted
        BY DEF GenericInv
      <3>3. PICK unkeyed \in Nat :
              /\ received = delivered + rejected + deduped + gap_dropped + 1 + unkeyed
              /\ unkeyed = (IF HasKey THEN 0 ELSE printed)
        BY <2>3, <3>2 DEF EgressAccounted
      <3>4. unkeyed = (IF HasKey THEN 0 ELSE printed)'
        BY <2>3, <3>3 DEF HasKey
      <3>5. delivered' \in Nat /\ gap_dropped' \in Nat
        BY <2>3, <3>2
      <3>6. received' = delivered' + rejected' + deduped' + gap_dropped'
                          + (IF pc' = "post" THEN 1 ELSE 0) + unkeyed
        BY <2>3, <3>2, <3>3
      <3>7. EgressAccounted'
        BY <3>4, <3>5, <3>6 DEF EgressAccounted
      <3> QED
        BY <2>3, <3>1, <3>2, <3>5, <3>7 DEF GenericInv
    <2>4. CASE PostOk
      <3>1. Sends
        BY <2>4 DEF PostOk, busVars
      <3>2. Counts
        BY <2>4 DEF PostOk, Settle, Count, busVars
      <3>3. (pc = "post" => Proper(Request))'
        BY <2>4 DEF PostOk, Settle, Count, busVars,
                      GenericInv, Proper, Request, DryRun
      <3> QED
        BY <2>3, <3>1, <3>2, <3>3
    <2>5. CASE PostRefused
      <3>1. Sends
        BY <2>5 DEF PostRefused, busVars, peerVars, attemptLeaves
      <3>2. Counts
        BY <2>5 DEF PostRefused, NextAttempt, Settle, Count,
                      attemptLeaves, busVars, history
      <3>3. (pc = "post" => Proper(Request))'
        BY <2>5 DEF PostRefused, NextAttempt, Settle, Count,
                      attemptLeaves, busVars, history,
                      GenericInv, Proper, Request, DryRun
      <3> QED
        BY <2>3, <3>1, <3>2, <3>3
    <2>6. CASE PostNotSent
      <3>1. Sends
        BY <2>6 DEF PostNotSent, busVars, peerVars, attemptLeaves
      <3>2. Counts
        BY <2>6 DEF PostNotSent, NextAttempt, Settle, Count,
                      attemptLeaves, busVars, history
      <3>3. (pc = "post" => Proper(Request))'
        BY <2>6 DEF PostNotSent, NextAttempt, Settle, Count,
                      attemptLeaves, busVars, history,
                      GenericInv, Proper, Request, DryRun
      <3> QED
        BY <2>3, <3>1, <3>2, <3>3
    <2>7. CASE PostTimesOut
      <3>1. Sends
        BY <2>7 DEF PostTimesOut, busVars, peerVars, attemptLeaves
      <3>2. Counts
        BY <2>7 DEF PostTimesOut, NextAttempt, Settle, Count,
                      attemptLeaves, busVars, history
      <3>3. (pc = "post" => Proper(Request))'
        BY <2>7 DEF PostTimesOut, NextAttempt, Settle, Count,
                      attemptLeaves, busVars, history,
                      GenericInv, Proper, Request, DryRun
      <3> QED
        BY <2>3, <3>1, <3>2, <3>3
    <2> QED
      BY <1>5, <2>4, <2>5, <2>6, <2>7 DEF Post
  <1>6. ASSUME NEW r \in BagToSet(late), LateArrival(r) PROVE GenericInv'
    <2>1. /\ DOMAIN consumer' = DOMAIN consumer \cup {r}
          /\ DOMAIN late' \subseteq DOMAIN late
      BY <1>6, BagDomains, Zenon DEF LateArrival
    <2>2. r \in DOMAIN late
      BY <1>6 DEF BagToSet
    <2> QED
      BY <1>6, <2>1, <2>2, Zenon DEF LateArrival, busVars, loopVars, counters, history,
        GenericInv, EgressAccounted, Proper, Request, DryRun, HasKey
  <1> QED
    BY <1>1, <1>2, <1>3, <1>4, <1>5, <1>6 DEF Next

\* Every request that leaves the relay, on time or late, is for an event that
\* verified and that the mapping accepts; none leaves in a dry run.
THEOREM OnlyGovernedLeavesHolds == Spec => []OnlyGovernedLeaves
  <1>1. GenericInv => OnlyGovernedLeaves
    BY LeavingIs DEF GenericInv, OnlyGovernedLeaves, Proper
  <1> QED
    BY <1>1, GenericInit, GenericStep, PTL DEF Spec

\* Every object that leaves carries its event's id, its tags, the governance block
\* and all of its attributes and metadata, for every mapping that keeps clear of
\* render's own names.
THEOREM ContentDeliveredHolds == Spec => []ContentDelivered
  <1>1. GenericInv => ContentDelivered
    <2> SUFFICES ASSUME GenericInv, DOMAIN config.fields \cap Reserved = {},
                        NEW r \in Leaving
                 PROVE  /\ {Field("id"), Field("policy_tags"), Verified} \subseteq Content(r.body)
                        /\ AttrsOf(EventOf[r.id]) \subseteq Content(r.body)
      BY DEF ContentDelivered
    <2>1. Proper(r)
      BY LeavingIs DEF GenericInv
    <2>2. EventOf[r.id] \in Events /\ ValidConfig(config)
      BY <2>1, GenericAssumption DEF GenericInv, Proper, Ids
    <2> QED
      BY <2>1, <2>2, RenderKeeps DEF Proper
  <1> QED
    BY <1>1, GenericInit, GenericStep, PTL DEF Spec

\* The counters account for every message taken, exactly once.
THEOREM EgressAccountedHolds == Spec => []EgressAccounted
  <1>1. GenericInv => EgressAccounted
    BY DEF GenericInv
  <1> QED
    BY <1>1, GenericInit, GenericStep, PTL DEF Spec

----------------------------------------------------------------------------
(* The dedupe window.                                                      *)

\* s is the end of t.
EndOf(s, t) ==
  /\ Len(s) <= Len(t)
  /\ \A i \in DOMAIN s : s[i] = t[Len(t) - Len(s) + i]

\* Equal entries are more than a window apart.
Spread(t) == \A i, j \in DOMAIN t : i < j /\ t[i] = t[j] => j - i > Window

\* The window is the end of what was taken as new, all of it until it is full.
DedupeInv ==
  /\ opened \in Seq(Genuine) /\ order \in Seq(Genuine)
  /\ EndOf(order, opened)
  /\ Len(order) <= Window
  /\ Len(order) < Window => Len(order) = Len(opened)
  /\ Spread(opened)

\* Dedupe::first_time pushes the id and gives up the oldest one of a full window.
LEMMA RememberFacts ==
  ASSUME NEW s \in Seq(Genuine), NEW t \in Seq(Genuine), NEW id \in Genuine,
         EndOf(s, t), Len(s) <= Window, Len(s) < Window => Len(s) = Len(t)
  PROVE  LET u == Remember(s, Window, id)
             v == Append(t, id)
         IN  /\ u \in Seq(Genuine) /\ v \in Seq(Genuine)
             /\ EndOf(u, v)
             /\ Len(u) <= Window /\ (Len(u) < Window => Len(u) = Len(v))
  <1> DEFINE kept == IF Len(s) >= Window THEN Tail(s) ELSE s
             u == Append(kept, id)
             v == Append(t, id)
             m == Len(s)
             n == Len(t)
             c == Len(kept)
  <1>0. Window \in Nat /\ Window >= 1
    BY GenericAssumption
  <1>1. m \in Nat /\ n \in Nat /\ DOMAIN s = 1 .. m /\ DOMAIN t = 1 .. n
    BY AnySeq
  <1>a. m <= n /\ m <= Window /\ (m < Window => m = n) /\ \A i \in 1 .. m : s[i] = t[n - m + i]
    BY <1>1, Zenon DEF EndOf
  <1>2. /\ kept \in Seq(Genuine) /\ c \in Nat
        /\ c = IF m >= Window THEN m - 1 ELSE m
        /\ \A i \in 1 .. c : kept[i] = t[n - c + i]
    <2>1. CASE m >= Window
      <3>1. s # <<>> /\ kept = Tail(s)
        BY <1>0, <2>1
      <3>2. /\ Tail(s) \in Seq(Genuine) /\ Len(Tail(s)) = Len(s) - 1
            /\ \A i \in DOMAIN Tail(s) : i + 1 \in DOMAIN s /\ Tail(s)[i] = s[i + 1]
        BY <3>1, AnyTail
      <3>3. DOMAIN Tail(s) = 1 .. Len(Tail(s)) /\ Len(Tail(s)) \in Nat
        BY <3>2, AnySeq
      <3>4. /\ c = m - 1 /\ c \in Nat /\ kept \in Seq(Genuine)
            /\ \A i \in 1 .. c : i + 1 \in DOMAIN s /\ kept[i] = s[i + 1]
        BY <3>1, <3>2, <3>3, Zenon
      <3> HIDE DEF m, n, c, kept
      <3>5. ASSUME NEW i \in 1 .. c PROVE kept[i] = t[n - c + i]
        <4>1. kept[i] = s[i + 1] /\ i + 1 \in 1 .. m
          BY <1>1, <3>4
        <4>2. s[i + 1] = t[n - m + (i + 1)]
          BY <1>a, <4>1
        <4>3. n - m + (i + 1) = n - c + i
          BY <1>1, <3>4
        <4>q. QED
          BY <4>1, <4>2, <4>3
      <3>q. QED
        BY <2>1, <3>4, <3>5
    <2>2. CASE ~(m >= Window)
      <3>1. kept = s
        BY <2>2
      <3>q. QED
        BY <1>1, <1>a, <2>2, <3>1, Zenon
    <2>q. QED
      BY <2>1, <2>2, Zenon
  <1>b. c < Window /\ c <= n /\ (c + 1 < Window => c = n)
    <2> HIDE DEF m, n, c, kept
    <2>q. QED
      BY <1>0, <1>1, <1>2, <1>a
  <1>5. DOMAIN kept = 1 .. c
    BY <1>2, AnySeq
  <1>6. u = Remember(s, Window, id)
    BY DEF Remember
  <1> HIDE DEF kept
  <1>3. u \in Seq(Genuine) /\ Len(u) = c + 1
    BY <1>2, AnyAppend
  <1>c. \A i \in DOMAIN u : \/ i \in DOMAIN kept /\ u[i] = kept[i]
                            \/ i = c + 1 /\ u[i] = id
    BY <1>2, EachAppended
  <1>4. /\ v \in Seq(Genuine) /\ Len(v) = n + 1
        /\ (\A i \in DOMAIN t : v[i] = t[i]) /\ v[n + 1] = id
    BY AnyAppend
  <1> HIDE DEF u, v, m, n, c
  <1>7. ASSUME NEW i \in DOMAIN u PROVE u[i] = v[Len(v) - Len(u) + i]
    <2>1. CASE i \in DOMAIN kept /\ u[i] = kept[i]
      <3>0. i \in 1 .. c
        BY <1>5, <2>1
      <3>1. (n + 1) - (c + 1) + i = n - c + i /\ n - c + i \in 1 .. n
        BY <1>1, <1>2, <1>b, <3>0
      <3>2. kept[i] = t[n - c + i]
        BY <1>2, <3>0
      <3>3. v[n - c + i] = t[n - c + i]
        BY <1>1, <1>4, <3>1
      <3>q. QED
        BY <1>3, <1>4, <2>1, <3>1, <3>2, <3>3
    <2>2. CASE i = c + 1 /\ u[i] = id
      <3>1. (n + 1) - (c + 1) + i = n + 1
        BY <1>1, <1>2, <2>2
      <3>q. QED
        BY <1>3, <1>4, <2>2, <3>1
    <2>q. QED
      BY <1>c, <2>1, <2>2
  <1>8. Len(u) <= Len(v) /\ Len(u) <= Window /\ (Len(u) < Window => Len(u) = Len(v))
    BY <1>0, <1>1, <1>2, <1>3, <1>4, <1>b
  <1>9. EndOf(u, v)
    BY <1>7, <1>8 DEF EndOf
  <1>q. QED
    BY <1>3, <1>4, <1>6, <1>8, <1>9 DEF v

\* An id that is not in the window was last taken more than a window ago.
LEMMA SpreadFacts ==
  ASSUME NEW s \in Seq(Genuine), NEW t \in Seq(Genuine), NEW id \in Genuine,
         EndOf(s, t), Len(s) <= Window, Len(s) < Window => Len(s) = Len(t),
         FirstTime(s, id), Spread(t)
  PROVE  Spread(Append(t, id))
  <1> DEFINE v == Append(t, id)
             m == Len(s)
             n == Len(t)
  <1>0. Window \in Nat
    BY GenericAssumption
  <1>1. m \in Nat /\ n \in Nat /\ DOMAIN s = 1 .. m /\ DOMAIN t = 1 .. n
    BY AnySeq
  <1>a. m <= n /\ m <= Window /\ (m < Window => m = n) /\ \A i \in 1 .. m : s[i] = t[n - m + i]
    BY <1>1, Zenon DEF EndOf
  <1>2. \A i \in DOMAIN v : \/ i \in DOMAIN t /\ v[i] = t[i]
                            \/ i = n + 1 /\ v[i] = id
    BY EachAppended
  <1> HIDE DEF v, m, n
  <1>3. ASSUME NEW i \in 1 .. n, t[i] = id PROVE n + 1 - i > Window
    <2>1. ~(i > n - m)
      <3>1. SUFFICES ASSUME i > n - m PROVE FALSE
        OBVIOUS
      <3> DEFINE k == i - (n - m)
      <3>2. k \in 1 .. m /\ n - m + k = i
        BY <1>1, <1>a, <3>1
      <3> HIDE DEF k
      <3>3. s[k] = t[i]
        BY <1>a, <3>2
      <3>q. QED
        BY <1>1, <1>3, <3>2, <3>3 DEF FirstTime
    <2>q. QED
      BY <1>0, <1>1, <1>a, <2>1
  <1>4. ASSUME NEW i \in DOMAIN v, NEW j \in DOMAIN v, i < j, v[i] = v[j]
        PROVE  j - i > Window
    <2>1. CASE i \in 1 .. n /\ j \in 1 .. n
      <3>1. v[i] = t[i] /\ v[j] = t[j]
        <4>1. i # n + 1 /\ j # n + 1
          BY <1>1, <2>1
        <4>q. QED
          BY <1>2, <4>1
      <3>q. QED
        BY <1>1, <1>4, <2>1, <3>1, Zenon DEF Spread
    <2>2. CASE i \in 1 .. n /\ j = n + 1
      <3>1. v[i] = t[i] /\ v[j] = id
        <4>1. i # n + 1 /\ j \notin 1 .. n
          BY <1>1, <2>2
        <4>q. QED
          BY <1>1, <1>2, <4>1
      <3>2. t[i] = id
        BY <1>4, <3>1, Zenon
      <3>3. n + 1 - i > Window
        BY <1>3, <2>2, <3>2
      <3>q. QED
        BY <1>0, <1>1, <2>2, <3>3
    <2>3. CASE i = n + 1
      <3>1. j \in 1 .. n \/ j = n + 1
        BY <1>1, <1>2
      <3>2. ~(i < j)
        BY ONLY <1>1, <2>3, <3>1
      <3>q. QED
        BY <1>4, <3>2
    <2>q. QED
      BY <1>1, <1>2, <2>1, <2>2, <2>3
  <1>5. Spread(v)
    BY <1>4 DEF Spread
  <1>q. QED
    BY <1>5 DEF v

\* Only a new event changes the window.
LEMMA DedupeStep == DedupeInv /\ [Next]_genericVars => DedupeInv'
  <1> SUFFICES ASSUME DedupeInv, [Next]_genericVars PROVE DedupeInv'
    OBVIOUS
  <1>1. CASE UNCHANGED <<order, opened>>
    BY <1>1 DEF DedupeInv, EndOf, Spread
  <1>2. CASE \E id \in Genuine : /\ FirstTime(order, id)
                                 /\ order' = Remember(order, Window, id)
                                 /\ opened' = Append(opened, id)
    <2>1. PICK id \in Genuine : /\ FirstTime(order, id)
                                /\ order' = Remember(order, Window, id)
                                /\ opened' = Append(opened, id)
      BY <1>2
    <2>2. /\ opened \in Seq(Genuine) /\ order \in Seq(Genuine) /\ EndOf(order, opened)
          /\ Len(order) <= Window /\ (Len(order) < Window => Len(order) = Len(opened))
          /\ Spread(opened)
      BY DEF DedupeInv
    <2>3. /\ order' \in Seq(Genuine) /\ opened' \in Seq(Genuine) /\ EndOf(order', opened')
          /\ Len(order') <= Window /\ (Len(order') < Window => Len(order') = Len(opened'))
      BY <2>1, <2>2, RememberFacts
    <2>4. Spread(opened')
      BY <2>1, <2>2, SpreadFacts
    <2>q. QED
      BY <2>3, <2>4 DEF DedupeInv, EndOf, Spread
  <1>3. CASE UNCHANGED genericVars \/ BusEnds \/ Post
    BY <1>1, <1>3 DEF genericVars, loopVars, history, BusEnds, Post, PostOk, PostRefused,
         PostNotSent, PostTimesOut, attemptLeaves
  <1>4. ASSUME NEW id \in Ids, BusPublish(id) PROVE DedupeInv'
    BY <1>1, <1>4 DEF BusPublish, loopVars, history
  <1>5. ASSUME NEW r, LateArrival(r) PROVE DedupeInv'
    BY <1>1, <1>5 DEF LateArrival, loopVars, history
  <1>6. CASE RefuseUnmapped \/ PrintBody \/ StartDelivery
    <2>1. Open(Head(inbox))
      BY <1>6 DEF RefuseUnmapped, PrintBody, StartDelivery
    <2>q. QED
      BY <1>2, <2>1 DEF Open, Accepted
  <1>7. CASE Unverified \/ Reject \/ Suppress \/ LoopEnds
    BY <1>1, <1>7 DEF Unverified, Reject, Suppress, LoopEnds, loopVars, history
  <1>q. QED
    BY <1>3, <1>4, <1>5, <1>6, <1>7 DEF Next, Handle

\* A window's worth of entries behind one of them are that many others.
LEMMA SpreadCounts ==
  ASSUME NEW t \in Seq(Genuine), Spread(t), NEW i \in DOMAIN t, NEW j \in DOMAIN t, j - i > Window
  PROVE  Cardinality({t[k] : k \in i + 1 .. j - 1} \ {t[i]}) >= Window
  <1> DEFINE I == i + 1 .. i + Window
             J == i + 1 .. j - 1
             T == {t[k] : k \in J}
             U == T \ {t[i]}
             f == [k \in I |-> t[k]]
             g == [k \in J |-> t[k]]
  <1>0. Window \in Nat /\ Window >= 1
    BY GenericAssumption
  <1>1. Len(t) \in Nat /\ DOMAIN t = 1 .. Len(t) /\ i \in Nat /\ j \in Nat
    BY AnySeq
  <1>2. IsFiniteSet(I) /\ Cardinality(I) = Window /\ IsFiniteSet(J)
    <2>1. i + 1 \in Int /\ i + Window \in Int /\ j - 1 \in Int
      BY <1>0, <1>1
    <2>2. ~(i + 1 > i + Window) /\ (i + Window) - (i + 1) + 1 = Window
      BY <1>0, <1>1
    <2>q. QED
      BY <2>1, <2>2, FS_Interval
  <1>3. I \subseteq J /\ I \subseteq DOMAIN t
    BY <1>0, <1>1
  <1>4. \A k, l \in I : t[k] = t[l] => k = l
    <2>1. SUFFICES ASSUME NEW k \in I, NEW l \in I, k < l, t[k] = t[l] PROVE FALSE
      BY <1>0, <1>1
    <2>2. l - k > Window
      BY <1>3, <2>1 DEF Spread
    <2>q. QED
      BY <1>0, <1>1, <2>2
  <1>5. \A k \in I : t[k] # t[i]
    <2>1. SUFFICES ASSUME NEW k \in I, t[k] = t[i] PROVE FALSE
      OBVIOUS
    <2>2. i < k /\ k \in DOMAIN t
      BY <1>0, <1>1, <1>3
    <2>3. k - i > Window
      BY <2>1, <2>2 DEF Spread
    <2>q. QED
      BY <1>0, <1>1, <2>3
  <1> HIDE DEF I, J
  <1>6. IsFiniteSet(T)
    <2>1. g \in Surjection(J, T)
      BY DEF Surjection
    <2>q. QED
      BY <1>2, <2>1, FS_Surjection
  <1>7. IsFiniteSet(U)
    BY <1>6, FS_Subset
  <1>8. f \in Injection(I, U)
    BY <1>3, <1>4, <1>5 DEF Injection, IsInjective
  <1>9. Cardinality(I) <= Cardinality(U) /\ Cardinality(U) \in Nat
    BY <1>7, <1>8, FS_Injection, FS_CardinalityType
  <1>q. QED
    BY <1>0, <1>2, <1>9 DEF J

\* Dedupe::first_time takes an event as new again only once a full window of other
\* events has been, for every window size and any number of redeliveries.
THEOREM DedupeWindowHolds == Spec => []WindowHolds
  <1>1. Init => DedupeInv
    <2> SUFFICES ASSUME Init PROVE DedupeInv
      OBVIOUS
    <2>1. opened = <<>> /\ order = <<>> /\ Window \in Nat
      BY GenericAssumption DEF Init
    <2>2. Len(<<>>) = 0 /\ DOMAIN <<>> = {} /\ <<>> \in Seq(Genuine)
      OBVIOUS
    <2>q. QED
      BY <2>1, <2>2 DEF DedupeInv, EndOf, Spread
  <1>2. ASSUME DedupeInv PROVE WindowHolds
    <2> SUFFICES ASSUME NEW i \in DOMAIN opened, NEW j \in DOMAIN opened, i < j,
                        opened[i] = opened[j]
                 PROVE  Cardinality({opened[k] : k \in i + 1 .. j - 1} \ {opened[i]}) >= Window
      BY DEF WindowHolds
    <2>1. opened \in Seq(Genuine) /\ Spread(opened)
      BY <1>2 DEF DedupeInv
    <2>2. j - i > Window
      BY <2>1 DEF Spread
    <2>q. QED
      BY <2>1, <2>2, SpreadCounts
  <1>q. QED
    BY <1>1, <1>2, DedupeStep, PTL DEF Spec
=============================================================================
