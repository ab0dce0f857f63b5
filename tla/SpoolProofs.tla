---------------------------- MODULE SpoolProofs ----------------------------
(* Theorems about the spool, for every segment size, bound and number of   *)
(* events and faults.                                                      *)
EXTENDS SpoolRefinement, TLAPS

(* Sequences: their entries, and what the operators do to them. *)

\* A sequence, its indices and its entries.
LEMMA AnySeq ==
  ASSUME NEW S, NEW s \in Seq(S)
  PROVE  Len(s) \in Nat /\ DOMAIN s = 1 .. Len(s) /\ \A i \in 1 .. Len(s) : s[i] \in S
  OBVIOUS

\* The empty sequence, and no other, has no entry.
LEMMA AnyEmpty ==
  ASSUME NEW S
  PROVE  /\ <<>> \in Seq(S) /\ Len(<<>>) = 0
         /\ \A s \in Seq(S) : s # <<>> => Len(s) \in Nat \ {0}
  OBVIOUS

\* A sequence is a function on the numbers up to its length.
LEMMA AnyFunction ==
  ASSUME NEW S, NEW n \in Nat, NEW f \in [1 .. n -> S]
  PROVE  f \in Seq(S) /\ Len(f) = n
  OBVIOUS

\* The slice that is everything.
LEMMA AnyWhole ==
  ASSUME NEW S, NEW s \in Seq(S)
  PROVE  SubSeq(s, 1, Len(s)) = s
  <1>1. Len(s) \in Nat /\ s = [i \in 1 .. Len(s) |-> s[i]]
    OBVIOUS
  <1>q. QED
    BY <1>1

\* The entries of a sequence with one more at the back.
LEMMA AnyAppend ==
  ASSUME NEW S, NEW s \in Seq(S), NEW x \in S
  PROVE  /\ Append(s, x) \in Seq(S) /\ Len(Append(s, x)) = Len(s) + 1 /\ Len(s) \in Nat
         /\ Append(s, x) # <<>>
         /\ \A i \in DOMAIN s : Append(s, x)[i] = s[i]
         /\ Append(s, x)[Len(s) + 1] = x
         /\ \A i \in DOMAIN Append(s, x) : i \in DOMAIN s \/ i = Len(s) + 1
  <1>1. Len(s) \in Nat /\ DOMAIN s = 1 .. Len(s)
    BY AnySeq
  <1>2. Append(s, x) \in Seq(S) /\ Len(Append(s, x)) = Len(s) + 1
    OBVIOUS
  <1>3. DOMAIN Append(s, x) = 1 .. Len(s) + 1
    BY <1>2, AnySeq
  <1>4. (\A i \in DOMAIN s : Append(s, x)[i] = s[i]) /\ Append(s, x)[Len(s) + 1] = x
    BY <1>1
  <1>5. \A i \in 1 .. Len(s) + 1 : i \in 1 .. Len(s) \/ i = Len(s) + 1
    BY <1>1
  <1>6. Append(s, x) # <<>>
    BY <1>1, <1>2
  <1>q. QED
    BY <1>1, <1>2, <1>3, <1>4, <1>5, <1>6

----------------------------------------------------------------------------

Fates == Live \cup {"failed", "dropped", "drained", "unsynced"}
FaultKinds == {"io", "read", "torn", "restart", "power"}

\* The head's file exists unless the next append rotates first: a rotation
\* that failed leaves head_len at its old, full length.
HeadExists == head_len < SegmentCells => head_seq \in Segments

\* A cursor the drain holds between peek and advance is the spool's own
\* cursor, unless its segment was dropped meanwhile.
PeekedFresh ==
  peeked # NoCursor =>
    /\ peeked.seg <= head_seq
    /\ peeked.seg \in Segments => peeked = cursor

\* The shape of the state, but for the count of the segments given up, which
\* nothing else depends on.
Typed ==
  /\ disk \in [Segments -> Seq(Int)]
  /\ Segments \in SUBSET Nat
  /\ Segments # {}
  /\ synced \in Nat
  /\ persisted \in Cursor \cup {NoCursor}
  /\ head_seq \in Nat
  /\ head_len \in Nat
  /\ cursor \in Cursor
  /\ peeked \in Cursor \cup {NoCursor}
  /\ fate \in Seq(Fates)
  /\ faults \in [FaultKinds -> Nat]

IInv == Typed /\ ResumesInsideLog /\ HeadExists /\ PeekedFresh

----------------------------------------------------------------------------
(* Facts about the operators. *)

\* Rewriting entries of a sequence in place leaves a sequence.
LEMMA SeqMap ==
  ASSUME NEW S, NEW q \in Seq(S), NEW f \in [DOMAIN q -> S]
  PROVE  f \in Seq(S)
<1>1. DOMAIN q = 1 .. Len(q) /\ Len(q) \in Nat
  BY AnySeq
<1> QED
  BY <1>1, AnyFunction

\* peek's walk stays a cursor and never moves it back.
LEMMA EntryForward ==
  ASSUME NEW c \in Cursor, NEW s \in Nat, c.seg <= s
  PROVE  /\ EntryOf(c, s) \in Cursor
         /\ EntryOf(c, s).seg = s
         /\ AtOrBefore(c, EntryOf(c, s))
BY DEF EntryOf, Cursor, AtOrBefore

\* The numbers the invariant is about are numbers.
LEMMA InvNumbers ==
  ASSUME IInv
  PROVE  /\ persisted.seg \in Int /\ persisted.offset \in Nat
         /\ cursor.seg \in Nat /\ cursor.offset \in Nat
         /\ head_seq \in Nat /\ head_len \in Nat
         /\ \A s \in Segments : s \in Nat /\ s <= head_seq
<1>1. /\ persisted \in Cursor \cup {NoCursor}
      /\ cursor \in Cursor
      /\ head_seq \in Nat /\ head_len \in Nat
      /\ Segments \in SUBSET Nat
      /\ \A s \in Segments : s <= head_seq
  BY DEF IInv, Typed, ResumesInsideLog
<1>2. persisted.seg \in Int /\ persisted.offset \in Nat
  <2>1. CASE persisted \in Cursor
    BY <2>1 DEF Cursor
  <2>2. CASE persisted = NoCursor
    BY <2>2 DEF NoCursor
  <2> QED
    BY <1>1, <2>1, <2>2
<1>3. cursor.seg \in Nat /\ cursor.offset \in Nat
  BY <1>1 DEF Cursor
<1> QED
  BY <1>1, <1>2, <1>3

----------------------------------------------------------------------------
(* Init, and each action, preserves the invariant. *)

\* The invariant holds of an empty spool.
LEMMA InitIInv == Init => IInv
<1> SUFFICES ASSUME Init PROVE IInv
  OBVIOUS
<1>1. Typed
  <2>1. fate \in Seq(Fates)
    BY AnyEmpty DEF Init
  <2>2. faults \in [FaultKinds -> Nat]
    BY DEF Init, FaultKinds
  <2> QED
    BY <2>1, <2>2 DEF Init, Typed, Segments, Cursor, NoCursor
<1>2. ResumesInsideLog /\ HeadExists /\ PeekedFresh
  BY SpoolAssumption
  DEF Init, ResumesInsideLog, HeadExists, PeekedFresh, Segments, NoCursor, AtOrBefore
<1> QED
  BY <1>1, <1>2 DEF IInv

\* What append leaves on disk, whichever cells reached the file.
LEMMA WrittenType ==
  ASSUME IInv, NEW cells \in Seq(Int)
  PROVE  /\ DOMAIN Written(cells) = Segments \cup {WriteSeq}
         /\ Written(cells) \in [Segments \cup {WriteSeq} -> Seq(Int)]
         /\ WriteSeq \in Nat
         /\ head_seq <= WriteSeq
         /\ LenBefore \in Nat
         /\ Rotates <=> WriteSeq = head_seq + 1
<1> USE DEF IInv, Typed
<1>1. /\ WriteSeq \in Nat
      /\ head_seq <= WriteSeq
      /\ LenBefore \in Nat
      /\ Rotates <=> WriteSeq = head_seq + 1
  BY DEF WriteSeq, LenBefore
<1>2. ~Rotates => WriteSeq \in Segments
  BY SpoolAssumption DEF Rotates, HeadExists, WriteSeq
<1>3. \A s \in Segments : disk[s] \o cells \in Seq(Int)
  OBVIOUS
<1>4. Written(cells) \in [Segments \cup {WriteSeq} -> Seq(Int)]
  BY <1>2, <1>3, Zenon DEF Written
<1> QED
  BY <1>1, <1>4 DEF Written

\* The next event, and its record in the log, as sequences of bytes.
LEMMA RecordType ==
  ASSUME IInv
  PROVE  Event \in Nat \ {0} /\ Record(Event) \in Seq(Int) /\ <<Event>> \in Seq(Int)
BY AnySeq DEF IInv, Typed, Event, Record

\* An append that fits keeps the invariant.
LEMMA AppendOkIInv == IInv /\ AppendOk => IInv'
<1> SUFFICES ASSUME IInv, AppendOk PROVE IInv'
  OBVIOUS
<1> DEFINE D == Written(Record(Event))
<1>1. /\ D \in [Segments \cup {WriteSeq} -> Seq(Int)]
      /\ DOMAIN D = Segments \cup {WriteSeq}
      /\ WriteSeq \in Nat /\ head_seq <= WriteSeq /\ LenBefore \in Nat
      /\ Rotates <=> WriteSeq = head_seq + 1
  BY WrittenType, RecordType, Zenon
<1>2. PICK m \in {-1} \cup (Segments \ {WriteSeq}) :
        /\ disk' = [s \in {t \in DOMAIN D : t > m} |-> D[s]]
        /\ cursor' = Bumped(m)
        /\ fate' = Append([e \in DOMAIN fate |->
                             IF e \in Shed(D, m) THEN "dropped" ELSE fate[e]],
                          IF HeadIsSound THEN "spooled" ELSE "exposed")
  BY Zenon DEF AppendOk
<1>3. m \in Int /\ m < WriteSeq /\ m + 1 \in Nat
  BY <1>1 DEF IInv, Typed, ResumesInsideLog
<1>4. /\ Segments' = {t \in Segments \cup {WriteSeq} : t > m}
      /\ WriteSeq \in Segments'
      /\ head_seq' = WriteSeq
      /\ persisted' = persisted /\ peeked' = peeked /\ faults' = faults
      /\ head_len' = LenBefore + 2
  BY <1>1, <1>2, <1>3, Zenon DEF AppendOk, WriteHead, Segments
<1> HIDE DEF D
<1>5. Typed'
  <2>1. disk' \in [Segments' -> Seq(Int)] /\ Segments' \in SUBSET Nat /\ Segments' # {}
    BY <1>1, <1>2, <1>4, Zenon DEF Segments, IInv, Typed
  <2>3. fate' \in Seq(Fates)
    <3> DEFINE f == [e \in DOMAIN fate |->
                       IF e \in Shed(D, m) THEN "dropped" ELSE fate[e]]
    <3>1. fate \in Seq(Fates)
      BY DEF IInv, Typed, Fates
    <3>2. f \in [DOMAIN fate -> Fates]
      BY <3>1, AnySeq DEF Fates
    <3>3. f \in Seq(Fates)
      BY <3>1, <3>2, SeqMap
    <3> QED
      BY <1>2, <3>3, AnyAppend DEF Fates, Live
  <2>4. cursor' \in Cursor /\ head_seq' \in Nat /\ head_len' \in Nat /\ synced' \in Nat
    BY <1>1, <1>2, <1>3, <1>4 DEF Bumped, Cursor, IInv, Typed, AppendOk, WriteHead
  <2> QED
    BY <1>4, <2>1, <2>3, <2>4 DEF IInv, Typed
<1>6. ResumesInsideLog'
  <2>0. /\ persisted.seg \in Int /\ persisted.offset \in Nat
        /\ cursor.seg \in Nat /\ cursor.offset \in Nat
        /\ cursor.seg <= head_seq
        /\ AtOrBefore(persisted, cursor)
        /\ head_seq \in Nat
        /\ \A s \in Segments : s \in Nat /\ s <= head_seq
    BY InvNumbers DEF IInv, ResumesInsideLog
  <2>1. AtOrBefore(persisted, cursor)' /\ (cursor.seg <= head_seq)'
    <3>1. CASE cursor.seg <= m
      BY <1>1, <1>2, <1>3, <1>4, <2>0, <3>1 DEF AtOrBefore, Bumped
    <3>2. CASE ~(cursor.seg <= m)
      BY <1>1, <1>2, <1>4, <2>0, <3>2 DEF AtOrBefore, Bumped
    <3> QED
      BY <3>1, <3>2
  <2>2. persisted'.seg <= WriteSeq
    BY <1>1, <1>4, <2>0 DEF AtOrBefore
  <2>3. \A s \in Segments' : s <= head_seq'
    BY <1>1, <1>4, <2>0
  <2> QED
    BY <1>4, <2>1, <2>2, <2>3 DEF ResumesInsideLog
<1>7. HeadExists'
  BY <1>4 DEF HeadExists
<1>8. PeekedFresh'
  <2> SUFFICES ASSUME peeked # NoCursor
               PROVE  /\ peeked.seg <= WriteSeq
                      /\ peeked.seg \in Segments' => peeked = cursor'
    BY <1>4 DEF PeekedFresh
  <2>1. peeked \in Cursor /\ peeked.seg <= head_seq
    BY DEF IInv, Typed, PeekedFresh
  <2>2. ASSUME peeked.seg \in Segments' PROVE peeked = cursor'
    <3>1. peeked.seg \in Segments /\ peeked.seg > m
      BY <1>1, <1>4, <2>1, <2>2, SpoolAssumption
      DEF Cursor, IInv, HeadExists, Typed, Rotates
    <3> QED
      BY <1>2, <1>3, <2>1, <3>1 DEF IInv, PeekedFresh, Bumped, Cursor
  <2> QED
    BY <1>1, <2>1, <2>2 DEF Cursor, IInv, Typed
<1> QED
  BY <1>5, <1>6, <1>7, <1>8 DEF IInv

\* The failed appends: what they leave of the record is on disk, and the
\* cursors are untouched.
LEMMA AppendErrIInv ==
  ASSUME IInv, NEW cells \in Seq(Int), NEW counted \in Nat, NEW f \in FaultKinds,
         AppendErr(cells, counted, f)
  PROVE  IInv'
<1>1. /\ Written(cells) \in [Segments \cup {WriteSeq} -> Seq(Int)]
      /\ DOMAIN Written(cells) = Segments \cup {WriteSeq}
      /\ WriteSeq \in Nat /\ head_seq <= WriteSeq /\ LenBefore \in Nat
      /\ Rotates <=> WriteSeq = head_seq + 1
  BY WrittenType, Zenon
<1>2. /\ Segments' = Segments \cup {WriteSeq}
      /\ head_seq' = WriteSeq /\ head_len' = LenBefore + counted
      /\ UNCHANGED <<persisted, cursor, peeked, dropped_segments>>
      /\ faults' = [faults EXCEPT ![f] = @ + 1]
      /\ fate' = Append(fate, "failed")
      /\ disk' = Written(cells)
      /\ synced' = IF Rotates THEN 0 ELSE synced
  BY <1>1 DEF AppendErr, WriteHead, Segments, Fault
<1>3. Typed'
  <2>1. fate' \in Seq(Fates)
    BY <1>2, AnyAppend DEF IInv, Typed, Fates
  <2>2. faults' \in [FaultKinds -> Nat]
    BY <1>2 DEF IInv, Typed, FaultKinds
  <2>3. /\ disk' \in [Segments' -> Seq(Int)]
        /\ Segments' \in SUBSET Nat /\ Segments' # {}
    BY <1>1, <1>2 DEF IInv, Typed
  <2>4. head_len' \in Nat /\ synced' \in Nat
    BY <1>1, <1>2 DEF IInv, Typed
  <2> QED
    BY <1>1, <1>2, <2>1, <2>2, <2>3, <2>4 DEF IInv, Typed, Fates, FaultKinds
<1>4. ResumesInsideLog'
  <2>1. ResumesInsideLog
    BY DEF IInv
  <2>2. AtOrBefore(persisted, cursor)' /\ \E s \in Segments' : persisted'.seg <= s
    BY <1>2, <2>1 DEF ResumesInsideLog, AtOrBefore
  <2>3. cursor'.seg <= head_seq' /\ \A s \in Segments' : s <= head_seq'
    <3>1. cursor.seg <= head_seq
      BY <2>1 DEF ResumesInsideLog
    <3> QED
      BY <1>1, <1>2, <3>1, InvNumbers
  <2> QED
    BY <2>2, <2>3 DEF ResumesInsideLog
<1>5. HeadExists' /\ PeekedFresh'
  <2>1. HeadExists'
    BY <1>2 DEF HeadExists
  <2>2. peeked # NoCursor =>
          /\ peeked.seg \in Nat /\ peeked.seg <= head_seq
          /\ peeked.seg \in Segments => peeked = cursor
    BY DEF IInv, Typed, PeekedFresh, Cursor
  <2>3. ~Rotates => WriteSeq \in Segments
    BY <1>1, InvNumbers, SpoolAssumption DEF IInv, HeadExists, Rotates, WriteSeq
  <2> QED
    BY <1>1, <1>2, <2>1, <2>2, <2>3, InvNumbers DEF PeekedFresh
<1> QED
  BY <1>3, <1>4, <1>5 DEF IInv

\* An append whose new segment cannot be created keeps it.
LEMMA RotateFailsIInv == IInv /\ RotateFails => IInv'
<1> SUFFICES ASSUME IInv, RotateFails PROVE IInv'
  OBVIOUS
<1>1. /\ head_seq' = head_seq + 1
      /\ \E last \in Segments : synced' = Len(disk[last])
      /\ fate' = Append(fate, "failed")
      /\ faults' = [faults EXCEPT !["io"] = @ + 1]
      /\ UNCHANGED <<disk, persisted, head_len, cursor, peeked, dropped_segments>>
      /\ Segments' = Segments
      /\ Rotates
  BY DEF RotateFails, Fault, Segments
<1>2. Typed'
  <2>1. fate' \in Seq(Fates)
    BY <1>1, AnyAppend DEF IInv, Typed, Fates
  <2>2. synced' \in Nat
    BY <1>1, AnySeq DEF IInv, Typed
  <2>3. faults' \in [FaultKinds -> Nat]
    BY <1>1 DEF IInv, Typed, FaultKinds
  <2> QED
    BY <1>1, <2>1, <2>2, <2>3 DEF IInv, Typed, Fates, FaultKinds
<1>3. ResumesInsideLog'
  BY <1>1, InvNumbers DEF IInv, ResumesInsideLog, AtOrBefore
<1>4. HeadExists'
  BY <1>1, InvNumbers, SpoolAssumption DEF Rotates, HeadExists
<1>5. PeekedFresh'
  BY <1>1, InvNumbers DEF IInv, Typed, PeekedFresh, Cursor
<1> QED
  BY <1>2, <1>3, <1>4, <1>5 DEF IInv

\* A step that only reads leaves the drain at or after where it was.
LEMMA PeekFromMoves ==
  ASSUME IInv, NEW c \in Cursor, AtOrBefore(cursor, c), c.seg <= head_seq, PeekFrom(c)
  PROVE  /\ cursor' \in Cursor
         /\ AtOrBefore(cursor, cursor')
         /\ cursor'.seg <= head_seq
         /\ peeked' \in {cursor', NoCursor}
<1>1. PICK s \in c.seg .. head_seq :
        /\ cursor' = EntryOf(c, s)
        /\ peeked' = IF ReadableAt(EntryOf(c, s)) THEN EntryOf(c, s) ELSE NoCursor
  BY DEF PeekFrom
<1>2. s \in Nat /\ c.seg <= s /\ s <= head_seq /\ c.seg \in Nat /\ c.offset \in Nat
  BY InvNumbers DEF Cursor
<1>3. /\ EntryOf(c, s) \in Cursor
      /\ EntryOf(c, s).seg = s
      /\ AtOrBefore(c, EntryOf(c, s))
  BY <1>2, EntryForward
<1>4. cursor'.offset \in Nat
  BY <1>1, <1>3 DEF Cursor
<1>5. AtOrBefore(cursor, cursor')
  BY <1>1, <1>2, <1>3, <1>4, InvNumbers DEF AtOrBefore
<1> QED
  BY <1>1, <1>2, <1>3, <1>5

\* The parts of the invariant a step on the drain's side must re-establish
\* when the log itself is unchanged.
LEMMA DrainSideIInv ==
  ASSUME IInv, UNCHANGED <<disk, synced, head_seq, head_len, dropped_segments>>,
         persisted' \in {persisted, cursor'},
         fate' \in Seq(Fates), faults' \in [FaultKinds -> Nat],
         cursor' \in Cursor, AtOrBefore(cursor, cursor'), cursor'.seg <= head_seq,
         peeked' \in {cursor', NoCursor},
         persisted' = cursor' => cursor'.seg \in Segments \/ persisted' = persisted
  PROVE  IInv'
<1>1. Segments' = Segments
  BY DEF Segments
<1>2. Typed'
  BY <1>1 DEF IInv, Typed, Fates, FaultKinds
<1>3. cursor'.seg \in Nat /\ cursor'.offset \in Nat
  BY DEF Cursor
<1>4. AtOrBefore(persisted, cursor)'
  <2>1. CASE persisted' = persisted
    BY <1>3, <2>1, InvNumbers DEF IInv, ResumesInsideLog, AtOrBefore
  <2>2. CASE persisted' = cursor'
    BY <1>3, <2>2 DEF AtOrBefore
  <2> QED
    BY <2>1, <2>2
<1>5. \E s \in Segments : persisted'.seg <= s
  <2>1. CASE persisted' = persisted
    BY <2>1 DEF IInv, ResumesInsideLog
  <2>2. CASE persisted' = cursor' /\ cursor'.seg \in Segments
    BY <1>3, <2>2
  <2> QED
    BY <2>1, <2>2
<1>6. ResumesInsideLog'
  BY <1>1, <1>4, <1>5 DEF IInv, ResumesInsideLog
<1>7. HeadExists' /\ PeekedFresh'
  BY <1>1 DEF IInv, HeadExists, PeekedFresh
<1> QED
  BY <1>2, <1>6, <1>7 DEF IInv

\* A peek keeps it, and moves the cursor forward only, over segments read to the end.
LEMMA PeekIInv == IInv /\ (Peek \/ PeekReadError) => IInv' /\ AtOrBefore(cursor, cursor')
<1>0. ASSUME IInv
      PROVE  /\ fate \in Seq(Fates) /\ faults \in [FaultKinds -> Nat]
             /\ cursor \in Cursor /\ cursor.seg <= head_seq
  BY <1>0 DEF IInv, Typed, ResumesInsideLog, Fates, FaultKinds
<1>1. ASSUME IInv, Peek PROVE IInv' /\ AtOrBefore(cursor, cursor')
  <2>1. AtOrBefore(cursor, cursor)
    BY <1>1, InvNumbers DEF AtOrBefore
  <2>2. PeekFrom(cursor) /\ UNCHANGED <<disk, synced, persisted, head_seq, head_len,
                                        dropped_segments, fate, faults>>
    BY <1>1 DEF Peek
  <2> QED
    BY <1>0, <1>1, <2>1, <2>2, PeekFromMoves, DrainSideIInv
<1>2. ASSUME IInv, PeekReadError PROVE IInv' /\ AtOrBefore(cursor, cursor')
  <2> DEFINE c == [seg |-> cursor.seg + 1, offset |-> 0]
  <2>1. c \in Cursor /\ AtOrBefore(cursor, c) /\ c.seg <= head_seq
    BY <1>2, InvNumbers DEF AtOrBefore, Cursor, PeekReadError
  <2>2. /\ PeekFrom(c)
        /\ UNCHANGED <<disk, synced, persisted, head_seq, head_len,
                       dropped_segments>>
        /\ faults' = [faults EXCEPT !["read"] = @ + 1]
    BY <1>2 DEF PeekReadError, Fault
  <2>3. faults' \in [FaultKinds -> Nat]
    BY <1>0, <1>2, <2>2 DEF FaultKinds
  <2>4. fate' \in [DOMAIN fate -> Fates]
    BY <1>0, <1>2, AnySeq DEF PeekReadError, Fates, Live
  <2>5. fate' \in Seq(Fates)
    BY <1>0, <1>2, <2>4, SeqMap
  <2> HIDE DEF c
  <2> QED
    BY <1>0, <1>2, <2>1, <2>2, <2>3, <2>5, PeekFromMoves, DrainSideIInv
<1> QED
  BY <1>1, <1>2

\* advance moves on from where the drain is: a stale cursor was refused.
LEMMA MoveCursorMoves ==
  ASSUME IInv, MoveCursor
  PROVE  /\ cursor' \in Cursor /\ AtOrBefore(cursor, cursor')
         /\ cursor'.seg = cursor.seg /\ cursor.seg \in Segments
         /\ peeked' = NoCursor
         /\ fate' \in Seq(Fates)
         /\ UNCHANGED <<synced, head_seq, head_len, dropped_segments>>
<1>1. /\ peeked # NoCursor /\ peeked.seg \in Segments
      /\ cursor' = After(peeked) /\ peeked' = NoCursor
      /\ UNCHANGED <<synced, head_seq, head_len, dropped_segments>>
  BY DEF MoveCursor, ReadableAt
<1>2. peeked = cursor
  BY <1>1 DEF IInv, PeekedFresh
<1>3. cursor' \in Cursor /\ AtOrBefore(cursor, cursor') /\ cursor'.seg = cursor.seg
  <2>1. cursor \in [seg : Nat, offset : Nat]
    BY DEF IInv, Typed, Cursor
  <2>2. cursor' = [cursor EXCEPT !.offset = @ + 2]
    BY <1>1, <1>2 DEF After
  <2> QED
    BY <2>1, <2>2 DEF Cursor, AtOrBefore
<1>4. fate' \in Seq(Fates)
  <2>1. fate \in Seq(Fates)
    BY DEF IInv, Typed, Fates
  <2>2. fate \in [DOMAIN fate -> Fates] /\ "drained" \in Fates
    BY <2>1, AnySeq DEF Fates
  <2>3. fate' = fate \/ fate' = [fate EXCEPT ![IdAt(peeked)] = "drained"]
    BY DEF MoveCursor, Confirmed
  <2>4. fate' \in [DOMAIN fate -> Fates]
    BY <2>2, <2>3
  <2> QED
    BY <2>1, <2>4, SeqMap
<1> QED
  BY <1>1, <1>2, <1>3, <1>4

\* An advance keeps it, and moves the cursor forward only.
LEMMA AdvanceIInv ==
  ASSUME IInv,
         AdvanceOk \/ AdvanceUnpersisted \/ AdvanceUnlisted \/ AdvanceGone
  PROVE  IInv' /\ AtOrBefore(cursor, cursor')
<1>0. /\ fate \in Seq(Fates) /\ faults \in [FaultKinds -> Nat]
      /\ cursor \in Cursor /\ cursor.seg <= head_seq /\ AtOrBefore(cursor, cursor)
  BY InvNumbers DEF IInv, Typed, ResumesInsideLog, Fates, FaultKinds, AtOrBefore
<1>1. ASSUME faults' = [faults EXCEPT !["io"] = @ + 1]
      PROVE  faults' \in [FaultKinds -> Nat]
  BY <1>0, <1>1 DEF FaultKinds
<1>2. CASE AdvanceUnpersisted
  <2>1. /\ MoveCursor /\ UNCHANGED <<disk, persisted>>
        /\ faults' = [faults EXCEPT !["io"] = @ + 1]
    BY <1>2 DEF AdvanceUnpersisted, Fault
  <2> QED
    BY <1>0, <1>1, <2>1, MoveCursorMoves, DrainSideIInv
<1>3. CASE AdvanceUnlisted
  <2>1. /\ MoveCursor /\ UNCHANGED disk /\ persisted' = cursor'
        /\ faults' = [faults EXCEPT !["io"] = @ + 1]
    BY <1>3 DEF AdvanceUnlisted, Fault
  <2> QED
    BY <1>0, <1>1, <2>1, MoveCursorMoves, DrainSideIInv
<1>4. CASE AdvanceGone
  <2>1. /\ UNCHANGED <<disk, synced, persisted, head_seq, head_len, cursor,
                       dropped_segments, fate, faults>>
        /\ peeked' = NoCursor
    BY <1>4 DEF AdvanceGone
  <2> QED
    BY <1>0, <2>1, DrainSideIInv
<1>5. CASE AdvanceOk
  <2>1. /\ MoveCursor /\ persisted' = cursor' /\ UNCHANGED faults
        /\ disk' = [s \in {t \in Segments : t >= cursor'.seg} |-> disk[s]]
    BY <1>5 DEF AdvanceOk, Kept
  <2>2. /\ cursor' \in Cursor /\ AtOrBefore(cursor, cursor')
        /\ cursor'.seg = cursor.seg /\ cursor.seg \in Segments
        /\ peeked' = NoCursor
        /\ fate' \in Seq(Fates)
        /\ UNCHANGED <<synced, head_seq, head_len, dropped_segments>>
    BY <2>1, MoveCursorMoves
  <2>3. Segments' = {t \in Segments : t >= cursor.seg}
    BY <2>1, <2>2 DEF Segments
  <2>4. cursor.seg \in Segments'
    BY <2>2, <2>3, InvNumbers
  <2>5. Typed'
    <3>1. /\ disk' \in [Segments' -> Seq(Int)]
          /\ Segments' \in SUBSET Nat /\ Segments' # {}
      BY <2>1, <2>2, <2>3, <2>4, Zenon DEF IInv, Typed
    <3> QED
      BY <2>1, <2>2, <3>1 DEF IInv, Typed, Fates
  <2>6. ResumesInsideLog'
    <3>1. AtOrBefore(persisted, cursor)'
      BY <2>1, <2>2 DEF AtOrBefore, Cursor
    <3> QED
      BY <1>0, <2>1, <2>2, <2>3, <2>4, <3>1, InvNumbers DEF ResumesInsideLog
  <2>7. HeadExists'
    BY <1>0, <2>2, <2>3, InvNumbers DEF IInv, HeadExists
  <2>8. PeekedFresh'
    BY <2>2 DEF PeekedFresh
  <2> QED
    BY <2>2, <2>5, <2>6, <2>7, <2>8 DEF IInv
<1> QED
  BY <1>2, <1>3, <1>4, <1>5

\* A sync keeps it.
LEMMA SyncIInv == IInv /\ Sync => IInv'
<1> SUFFICES ASSUME IInv, Sync PROVE IInv'
  OBVIOUS
<1>1. /\ UNCHANGED <<disk, persisted, head_seq, head_len, cursor, peeked,
                     dropped_segments, fate, faults>>
      /\ \E last \in Segments : synced' = Len(disk[last])
      /\ Segments' = Segments
  BY DEF Sync, Segments
<1>2. synced' \in Nat
  BY <1>1, AnySeq DEF IInv, Typed
<1> QED
  BY <1>1, <1>2 DEF IInv, Typed, ResumesInsideLog, HeadExists, PeekedFresh, AtOrBefore

\* open, on a last file of any contents, starts the drain inside the log.
LEMMA OpenIInv ==
  ASSUME IInv, NEW last \in Segments, IsLast(last), NEW cells \in Seq(Int),
         Open(last, cells), fate' \in Seq(Fates), faults' \in [FaultKinds -> Nat],
         synced' \in Nat \/ synced' = head_len'
  PROVE  IInv'
<1>1. PICK end \in 0 .. Len(cells) :
        disk' = [disk EXCEPT ![last] = SubSeq(cells, 1, end)] /\ head_len' = end
  BY Zenon DEF Open
<1>2. PICK c \in [seg : Segments, offset : {0}] \cup {persisted} :
        Resume(c) /\ cursor' = c
  BY DEF Open
<1>3. /\ head_seq' = last /\ peeked' = NoCursor /\ dropped_segments' = 0
      /\ persisted' = persisted /\ Segments' = Segments
  BY <1>1 DEF Open, Segments
<1>4. SubSeq(cells, 1, end) \in Seq(Int) /\ end \in Nat
  BY AnySeq
<1>5. cursor' \in Cursor /\ cursor'.seg <= last /\ AtOrBefore(persisted, cursor')
  <2>1. CASE persisted = NoCursor
    <3>1. IsFirst(c.seg) /\ c.offset = 0
      BY <1>2, <2>1 DEF Resume
    <3>2. c # NoCursor
      BY <3>1, InvNumbers DEF IsFirst, NoCursor
    <3>3. c \in [seg : Segments, offset : {0}]
      BY <1>2, <2>1, <3>2
    <3> QED
      BY <1>2, <2>1, <3>3, InvNumbers DEF Cursor, AtOrBefore, NoCursor, IsLast
  <2>2. CASE persisted # NoCursor
    <3>1. cursor' = persisted /\ persisted \in Cursor
      BY <1>2, <2>2 DEF Resume, IInv, Typed
    <3>2. PICK s \in Segments : persisted.seg <= s
      BY DEF IInv, ResumesInsideLog
    <3> QED
      BY <3>1, <3>2, InvNumbers DEF IsLast, AtOrBefore
  <2> QED
    BY <2>1, <2>2
<1>6. Typed'
  BY <1>1, <1>3, <1>4, <1>5, InvNumbers, Zenon DEF IInv, Typed, Fates, FaultKinds
<1>7. ResumesInsideLog'
  BY <1>3, <1>5 DEF IInv, ResumesInsideLog, IsLast
<1>8. HeadExists' /\ PeekedFresh'
  BY <1>3 DEF HeadExists, PeekedFresh
<1> QED
  BY <1>6, <1>7, <1>8 DEF IInv

\* A restart keeps it, after a stop and after a loss of power.
LEMMA RestartIInv == IInv /\ (Restart \/ PowerLoss) => IInv'
<1>1. ASSUME IInv, Restart PROVE IInv'
  <2>1. PICK last \in Segments : IsLast(last) /\ Open(last, disk[last])
    BY <1>1 DEF Restart
  <2>2. disk[last] \in Seq(Int) /\ fate' \in Seq(Fates) /\ faults' \in [FaultKinds -> Nat]
    BY <1>1 DEF IInv, Typed, Restart, Fault, Fates, FaultKinds
  <2>3. synced' \in Nat \/ synced' = head_len'
    BY <1>1 DEF IInv, Typed, Restart
  <2> QED
    BY <1>1, <2>1, <2>2, <2>3, OpenIInv
<1>2. ASSUME IInv, PowerLoss PROVE IInv'
  <2>0. PICK last \in Segments : \E n \in synced .. Len(disk[last]) :
          /\ IsLast(last)
          /\ Open(last, SubSeq(disk[last], 1, n))
          /\ fate' = [e \in DOMAIN fate |->
                       IF fate[e] \in Live
                          /\ \E i \in n + 1 .. Len(disk[last]) : disk[last][i] = -e
                       THEN "unsynced" ELSE fate[e]]
    BY <1>2 DEF PowerLoss
  <2>1. PICK n \in synced .. Len(disk[last]) :
          /\ IsLast(last)
          /\ Open(last, SubSeq(disk[last], 1, n))
          /\ fate' = [e \in DOMAIN fate |->
                       IF fate[e] \in Live
                          /\ \E i \in n + 1 .. Len(disk[last]) : disk[last][i] = -e
                       THEN "unsynced" ELSE fate[e]]
    BY <2>0
  <2>2. disk[last] \in Seq(Int) /\ fate \in Seq(Fates) /\ n \in Int
    BY <1>2 DEF IInv, Typed, Fates
  <2>3. SubSeq(disk[last], 1, n) \in Seq(Int)
    BY <1>2, <2>2, AnySeq DEF IInv, Typed
  <2>4. fate' \in [DOMAIN fate -> Fates]
    BY <2>1, <2>2, AnySeq DEF Fates
  <2>5. fate' \in Seq(Fates)
    BY <2>2, <2>4, SeqMap
  <2>6. faults' \in [FaultKinds -> Nat] /\ synced' = head_len'
    BY <1>2 DEF IInv, Typed, PowerLoss, Fault, FaultKinds
  <2> QED
    BY <1>2, <2>1, <2>3, <2>5, <2>6, OpenIInv, Zenon
<1> QED
  BY <1>1, <1>2

----------------------------------------------------------------------------
(* The theorems. *)

\* An append that is refused or fails half way keeps it.
LEMMA AppendFailsIInv ==
  IInv /\ (AppendRefused \/ AppendTorn \/ AppendUnlisted) => IInv'
<1> SUFFICES ASSUME IInv, AppendRefused \/ AppendTorn \/ AppendUnlisted PROVE IInv'
  OBVIOUS
<1>1. /\ <<>> \in Seq(Int) /\ <<Event>> \in Seq(Int) /\ Record(Event) \in Seq(Int)
      /\ "io" \in FaultKinds /\ "torn" \in FaultKinds /\ 0 \in Nat /\ 2 \in Nat
  BY RecordType, AnyEmpty DEF FaultKinds
<1>2. CASE AppendRefused
  BY <1>1, <1>2, AppendErrIInv, Zenon DEF AppendRefused
<1>3. CASE AppendTorn
  BY <1>1, <1>3, AppendErrIInv, Zenon DEF AppendTorn
<1>4. CASE AppendUnlisted
  BY <1>1, <1>4, AppendErrIInv DEF AppendUnlisted
<1> QED
  BY <1>2, <1>3, <1>4

\* Every step keeps it.
LEMMA NextIInv == IInv /\ [Next]_vars => IInv'
<1>1. IInv /\ UNCHANGED vars => IInv'
  BY DEF vars, IInv, Typed, ResumesInsideLog, HeadExists, PeekedFresh, AtOrBefore,
         Segments
<1>2. IInv /\ Next => IInv'
  BY AppendOkIInv, AppendFailsIInv, RotateFailsIInv, PeekIInv, AdvanceIInv,
     SyncIInv, RestartIInv
  DEF Next
<1> QED
  BY <1>1, <1>2

\* The inductive invariant holds of the spool in every reachable state.
THEOREM SpoolInvariant == Spec => []IInv
BY InitIInv, NextIInv, PTL DEF Spec

\* The cursor file is never ahead of the drain nor past the last segment, and
\* the drain is never past the head: open always resumes inside the log.
THEOREM SpoolResumes == Spec => []ResumesInsideLog
<1>1. IInv => ResumesInsideLog
  BY DEF IInv
<1> QED
  BY <1>1, SpoolInvariant, PTL

\* A failed append and a failed rotation leave the cursor where it was.
LEMMA AppendSideCursor ==
  ASSUME IInv, AppendRefused \/ AppendTorn \/ AppendUnlisted \/ RotateFails \/ Sync
  PROVE  cursor' = cursor /\ Segments \subseteq Segments'
<1>1. CASE RotateFails \/ Sync
  BY <1>1 DEF RotateFails, Sync, Segments
<1>2. ASSUME NEW cells \in Seq(Int), NEW n, NEW f, AppendErr(cells, n, f)
      PROVE  cursor' = cursor /\ Segments \subseteq Segments'
  BY <1>2 DEF AppendErr, Segments, Written
<1>3. /\ <<>> \in Seq(Int) /\ <<Event>> \in Seq(Int) /\ Record(Event) \in Seq(Int)
  BY RecordType, AnyEmpty
<1> QED
  BY <1>1, <1>2, <1>3, Zenon DEF AppendRefused, AppendTorn, AppendUnlisted

\* append moves the cursor only forwards, past every segment it removes.
LEMMA AppendOkCursor ==
  ASSUME IInv, AppendOk
  PROVE  /\ AtOrBefore(cursor, cursor')
         /\ \A s \in Segments \ Segments' : s < cursor'.seg
<1> DEFINE D == Written(Record(Event))
<1>1. PICK m \in {-1} \cup (Segments \ {WriteSeq}) :
        /\ disk' = [s \in {t \in DOMAIN D : t > m} |-> D[s]]
        /\ cursor' = Bumped(m)
  BY DEF AppendOk
<1>2. DOMAIN D = Segments \cup {WriteSeq}
  BY WrittenType, RecordType, Zenon
<1>3. m \in Int /\ \A s \in Segments \ Segments' : s \in Nat /\ s <= m
  BY <1>1, <1>2, InvNumbers DEF Segments
<1>4. CASE cursor.seg <= m
  BY <1>1, <1>3, <1>4, InvNumbers DEF Bumped, AtOrBefore
<1>5. CASE ~(cursor.seg <= m)
  BY <1>1, <1>3, <1>5, InvNumbers DEF Bumped, AtOrBefore
<1> QED
  BY <1>4, <1>5

\* While the process lives the drain never moves backwards, however appends
\* that drop segments interleave with its peek and its advance.
LEMMA SpoolCursorMonotone ==
  Spec => [][faults'.restart = faults.restart /\ faults'.power = faults.power
               => AtOrBefore(cursor, cursor')]_vars
<1> DEFINE A == faults'.restart = faults.restart /\ faults'.power = faults.power
                  => AtOrBefore(cursor, cursor')
<1>1. IInv /\ [Next]_vars => [A]_vars
  <2> SUFFICES ASSUME IInv, Next PROVE A
    BY DEF vars
  <2>1. CASE AppendOk
    BY <2>1, AppendOkCursor
  <2>2. CASE AppendRefused \/ AppendTorn \/ AppendUnlisted \/ RotateFails \/ Sync
    BY <2>2, AppendSideCursor, InvNumbers DEF AtOrBefore
  <2>3. CASE Peek \/ PeekReadError
    BY <2>3, PeekIInv
  <2>4. CASE AdvanceOk \/ AdvanceUnpersisted \/ AdvanceUnlisted \/ AdvanceGone
    BY <2>4, AdvanceIInv
  <2>5. CASE Restart \/ PowerLoss
    <3>1. faults \in [{"io", "read", "torn", "restart", "power"} -> Nat]
      BY DEF IInv, Typed, FaultKinds
    <3> QED
      BY <2>5, <3>1 DEF Restart, PowerLoss, Fault
  <2> QED
    BY <2>1, <2>2, <2>3, <2>4, <2>5 DEF Next
<1> QED
  BY <1>1, SpoolInvariant, PTL DEF Spec

\* enforce_bound and advance delete only segments the drain has left behind.
LEMMA SpoolDeletesBehind ==
  Spec => [][\A s \in Segments \ Segments' : s < cursor'.seg]_vars
<1> DEFINE A == \A s \in Segments \ Segments' : s < cursor'.seg
<1>1. IInv /\ [Next]_vars => [A]_vars
  <2> SUFFICES ASSUME IInv, Next PROVE A
    BY DEF vars
  <2>1. CASE AppendOk
    BY <2>1, AppendOkCursor
  <2>2. CASE AppendRefused \/ AppendTorn \/ AppendUnlisted \/ RotateFails \/ Sync
    BY <2>2, AppendSideCursor
  <2>3. CASE Peek \/ PeekReadError \/ AdvanceUnpersisted \/ AdvanceUnlisted \/ AdvanceGone
    BY <2>3 DEF Peek, PeekReadError, AdvanceUnpersisted, AdvanceUnlisted, AdvanceGone,
                Segments
  <2>4. CASE AdvanceOk
    <3>1. disk' = Kept(cursor') /\ cursor'.seg \in Nat
      BY <2>4, MoveCursorMoves DEF AdvanceOk, Cursor
    <3> QED
      BY <3>1, InvNumbers DEF Kept, Segments
  <2>5. CASE Restart \/ PowerLoss
    BY <2>5 DEF Restart, PowerLoss, Open, Segments
  <2> QED
    BY <2>1, <2>2, <2>3, <2>4, <2>5 DEF Next
<1> QED
  BY <1>1, SpoolInvariant, PTL DEF Spec

\* Together: the drain only moves forward, and deletions stay behind it.
THEOREM SpoolOnlyForward == Spec => DrainOnlyForward
  BY SpoolCursorMonotone, SpoolDeletesBehind, PTL DEF DrainOnlyForward

----------------------------------------------------------------------------
(* Nothing is lost.  A record is sound where the file parses up to it: then  *)
(* no reader that starts at a record boundary misses it.                     *)

Even(n) == n % 2 = 0

SoundAt(cells, o, e) ==
  /\ Even(o) /\ o + 2 <= Len(cells)
  /\ cells[o + 1] = e /\ cells[o + 2] = -e
  /\ \A p \in 0 .. o : Even(p) => Readable(cells, p)

\* A reader at c has offset o of segment s before it.
Reaches(c, s, o) == c.seg < s \/ (c.seg = s /\ c.offset <= o)

Ahead(c, D, e) ==
  \E s \in DOMAIN D : \E o \in Nat : SoundAt(D[s], o, e) /\ Reaches(c, s, o)

\* Cursors stand between records, and what append accepted is ahead of the drain's.
EvenOffsets == Even(cursor.offset) /\ Even(persisted.offset) /\ Even(peeked.offset)
Located == \A e \in DOMAIN fate : fate[e] = "spooled" => Ahead(cursor, disk, e)

\* Records are two cells long.
LEMMA EvenFacts ==
  /\ Even(0)
  /\ \A n \in Nat : Even(n) => Even(n + 2)
  /\ \A m, n \in Nat : Even(m) /\ Even(n) /\ m < n => m + 2 <= n
  /\ \A m, n \in Nat : Even(m) /\ Even(m - n) => Even(n)
  /\ \A m, n \in Nat : Even(m) /\ Even(n) => Even(m - n)
  BY SMT DEF Even

\* A file with the same cells up to the end of the record.
LEMMA SoundKept ==
  ASSUME NEW a, NEW b, NEW o \in Nat, NEW e, SoundAt(a, o, e),
         Len(b) \in Nat, o + 2 <= Len(b), \A i \in 1 .. o + 2 : b[i] = a[i]
  PROVE  SoundAt(b, o, e)
  <1>1. b[o + 1] = e /\ b[o + 2] = -e
    BY DEF SoundAt
  <1>2. ASSUME NEW p \in 0 .. o, Even(p) PROVE Readable(b, p)
    <2>1. Readable(a, p)
      BY <1>2 DEF SoundAt
    <2>2. p + 1 \in 1 .. o + 2 /\ p + 2 <= Len(b)
      OBVIOUS
    <2>q. QED
      BY <2>1, <2>2 DEF Readable
  <1>q. QED
    BY <1>1, <1>2 DEF SoundAt

\* The front of a file.
LEMMA AnyFront ==
  ASSUME NEW s \in Seq(Int), NEW n \in 0 .. Len(s)
  PROVE  /\ SubSeq(s, 1, n) \in Seq(Int) /\ Len(SubSeq(s, 1, n)) = n
         /\ \A i \in 1 .. n : SubSeq(s, 1, n)[i] = s[i]
  <1>1. Len(s) \in Nat /\ n \in Nat
    BY AnySeq
  <1>2. \A i \in 1 .. n : s[i] \in Int
    BY <1>1, AnySeq
  <1>3. SubSeq(s, 1, n) \in Seq(Int)
    BY <1>1, <1>2
  <1>q. QED
    BY <1>1, <1>3

\* A reader further back reaches as much.
LEMMA ReachesBack ==
  ASSUME NEW c, NEW d, c.seg \in Int, d.seg \in Int, c.offset \in Nat, d.offset \in Nat,
         AtOrBefore(c, d), NEW s \in Nat, NEW o \in Nat, Reaches(d, s, o)
  PROVE  Reaches(c, s, o)
  BY DEF AtOrBefore, Reaches

\* A write at the head disturbs no record that is there.
LEMMA WrittenKeeps ==
  ASSUME IInv, NEW cells \in Seq(Int), NEW s \in Segments, NEW o \in Nat, NEW e,
         SoundAt(disk[s], o, e)
  PROVE  s \in DOMAIN Written(cells) /\ SoundAt(Written(cells)[s], o, e)
  <1>1. /\ DOMAIN Written(cells) = Segments \cup {WriteSeq}
        /\ Rotates <=> WriteSeq = head_seq + 1
    BY WrittenType, Zenon
  <1>2. CASE s # WriteSeq
    <2>1. Written(cells)[s] = disk[s]
      BY <1>2 DEF Written
    <2>q. QED
      BY <1>1, <2>1
  <1>3. CASE s = WriteSeq
    <2>1. ~Rotates
      BY <1>1, <1>3, InvNumbers
    <2>2. Written(cells)[s] = disk[s] \o cells
      BY <1>3, <2>1 DEF Written
    <2>3. disk[s] \in Seq(Int)
      BY DEF IInv, Typed
    <2>4. /\ Len(disk[s] \o cells) = Len(disk[s]) + Len(cells)
          /\ Len(disk[s]) \in Nat /\ Len(cells) \in Nat
          /\ \A i \in 1 .. Len(disk[s]) : (disk[s] \o cells)[i] = disk[s][i]
      BY <2>3, AnySeq
    <2>5. o + 2 <= Len(disk[s])
      BY DEF SoundAt
    <2>6. /\ Len(disk[s] \o cells) \in Nat /\ o + 2 <= Len(disk[s] \o cells)
          /\ \A i \in 1 .. o + 2 : (disk[s] \o cells)[i] = disk[s][i]
      BY <2>4, <2>5
    <2>7. SoundAt(disk[s] \o cells, o, e)
      BY <2>6, SoundKept, Zenon
    <2>q. QED
      BY <1>1, <2>2, <2>7
  <1>q. QED
    BY <1>2, <1>3

\* The record append writes behind a sound file is sound, and ahead of the drain.
LEMMA RecordSound ==
  ASSUME IInv, HeadIsSound, NEW e \in Nat \ {0}
  PROVE  \E o \in Nat : /\ SoundAt(Written(Record(e))[WriteSeq], o, e)
                        /\ Reaches(cursor, WriteSeq, o)
  <1> DEFINE file == IF Rotates THEN <<>> ELSE disk[head_seq]
             o == Len(file)
             t == file \o Record(e)
  <1>1. /\ WriteSeq \in Nat /\ head_seq <= WriteSeq
        /\ (Rotates <=> WriteSeq = head_seq + 1) /\ Record(e) \in Seq(Int)
    <2>1. /\ WriteSeq \in Nat /\ head_seq <= WriteSeq
          /\ Rotates <=> WriteSeq = head_seq + 1
      BY WrittenType, RecordType
    <2>2. Record(e) \in Seq(Int)
      BY DEF Record
    <2>q. QED
      BY <2>1, <2>2
  <1>2. ~Rotates => WriteSeq = head_seq /\ head_seq \in Segments
    <2>1. head_len \in Nat /\ SegmentCells \in Nat
      BY SpoolAssumption, InvNumbers
    <2>q. QED
      BY <2>1 DEF Rotates, HeadExists, WriteSeq, IInv
  <1>3. file \in Seq(Int)
    <2>1. ~Rotates => disk[head_seq] \in Seq(Int)
      BY <1>2 DEF IInv, Typed
    <2>q. QED
      BY <2>1, AnyEmpty
  <1>4. Written(Record(e))[WriteSeq] = t
    <2>1. CASE Rotates
      <3>1. Written(Record(e))[WriteSeq] = Record(e)
        BY <2>1 DEF Written
      <3>2. <<>> \o Record(e) = Record(e)
        BY <1>1
      <3>q. QED
        BY <2>1, <3>1, <3>2, Zenon
    <2>2. CASE ~Rotates
      BY <1>2, <2>2 DEF Written
    <2>q. QED
      BY <2>1, <2>2
  <1>5. o \in Nat
    BY <1>3, AnySeq
  <1>6. /\ Len(t) = o + 2
        /\ \A i \in 1 .. o : t[i] = file[i]
        /\ t[o + 1] = e /\ t[o + 2] = -e
    <2>1. Len(Record(e)) = 2 /\ Record(e)[1] = e /\ Record(e)[2] = -e
      BY DEF Record
    <2>2. /\ Len(t) = Len(file) + Len(Record(e))
          /\ \A i \in 1 .. Len(file) + Len(Record(e)) :
               t[i] = IF i <= Len(file) THEN file[i] ELSE Record(e)[i - Len(file)]
      BY <1>1, <1>3
    <2> HIDE DEF t, file
    <2>3. o + 1 \in 1 .. o + 2 /\ o + 2 \in 1 .. o + 2 /\ (o + 1) - o = 1 /\ (o + 2) - o = 2
          /\ ~(o + 1 <= o) /\ ~(o + 2 <= o)
      BY <1>5
    <2>4. t[o + 1] = e /\ t[o + 2] = -e
      BY <2>1, <2>2, <2>3
    <2>5. \A i \in 1 .. o : t[i] = file[i]
      BY <1>5, <2>1, <2>2
    <2>q. QED
      BY <2>1, <2>2, <2>4, <2>5
  <1>7. /\ Even(o) /\ \A p \in 0 .. o - 1 : Even(p) => Readable(file, p)
        /\ cursor.seg = WriteSeq => cursor.offset <= o
    BY Zenon DEF HeadIsSound, ParsesUpTo, Even
  <1> HIDE DEF file, o, t
  <1>8. ASSUME NEW p \in 0 .. o, Even(p) PROVE Readable(t, p)
    <2>1. CASE p = o
      BY <1>5, <1>6, <2>1 DEF Readable
    <2>2. CASE p < o
      <3>1. Readable(file, p)
        BY <1>5, <1>7, <1>8, <2>2
      <3>2. p + 2 <= o
        BY <1>5, <1>7, <1>8, <2>2, EvenFacts
      <3>3. p + 1 \in 1 .. o /\ p + 2 <= o + 2
        BY <1>5, <3>2
      <3>q. QED
        BY <1>6, <3>1, <3>3 DEF Readable
    <2>q. QED
      BY <1>5, <2>1, <2>2
  <1>9. SoundAt(t, o, e)
    BY <1>5, <1>6, <1>7, <1>8 DEF SoundAt
  <1>10. Reaches(cursor, WriteSeq, o)
    <2>1. cursor.seg <= head_seq /\ cursor.seg \in Nat /\ head_seq \in Nat
      BY InvNumbers DEF IInv, ResumesInsideLog
    <2>q. QED
      BY <1>1, <1>7, <2>1 DEF Reaches
  <1>q. QED
    BY <1>4, <1>5, <1>9, <1>10

\* append: what enforce_bound removes is counted as dropped, the rest stays.
LEMMA LocatedAppendOk ==
  ASSUME IInv, Located, AppendOk
  PROVE  Located'
  <1> DEFINE D == Written(Record(Event))
  <1>1. /\ DOMAIN D = Segments \cup {WriteSeq}
        /\ WriteSeq \in Nat /\ head_seq <= WriteSeq
    BY WrittenType, RecordType, Zenon
  <1>2. PICK m \in {-1} \cup (Segments \ {WriteSeq}) :
          /\ disk' = [s \in {t \in DOMAIN D : t > m} |-> D[s]]
          /\ cursor' = Bumped(m)
          /\ fate' = Append([e \in DOMAIN fate |->
                               IF e \in Shed(D, m) THEN "dropped" ELSE fate[e]],
                            IF HeadIsSound THEN "spooled" ELSE "exposed")
    BY Zenon DEF AppendOk
  <1>3. m \in Int /\ m < WriteSeq
    BY <1>1, InvNumbers
  <1>4. DOMAIN disk' = {t \in DOMAIN D : t > m} /\ \A s \in DOMAIN D : s > m => disk'[s] = D[s]
    BY <1>2
  <1>5. cursor.seg \in Nat /\ cursor.offset \in Nat
    BY InvNumbers
  <1>6. \A s \in Nat, o \in Nat : s > m /\ Reaches(cursor, s, o) => Reaches(cursor', s, o)
    BY <1>2, <1>3, <1>5 DEF Bumped, Reaches
  <1>7. \A s \in Segments : s \in Nat
    BY InvNumbers
  <1>8. ASSUME NEW e \in DOMAIN fate, fate[e] = "spooled", e \notin Shed(D, m)
        PROVE  Ahead(cursor', disk', e)
    <2>1. PICK s \in Segments, o \in Nat : SoundAt(disk[s], o, e) /\ Reaches(cursor, s, o)
      BY <1>8 DEF Located, Ahead, Segments
    <2>2. s \in DOMAIN D /\ SoundAt(D[s], o, e)
      BY <2>1, WrittenKeeps, RecordType
    <2>3. s > m
      <3>1. SUFFICES ASSUME s <= m PROVE FALSE
        BY <1>3, <1>7
      <3>2. D[s] \in Seq(Int)
        BY <2>2, WrittenType, RecordType
      <3>3. o + 2 <= Len(D[s]) /\ D[s][o + 1] = e
        BY <2>2 DEF SoundAt
      <3>4. DOMAIN D[s] = 1 .. Len(D[s]) /\ Len(D[s]) \in Nat
        BY <3>2, AnySeq
      <3>5. o + 1 \in DOMAIN D[s]
        BY <3>3, <3>4
      <3> HIDE DEF D
      <3>q. QED
        BY <1>8, <2>2, <3>1, <3>3, <3>5 DEF Shed, Live
    <2> HIDE DEF D
    <2>4. Reaches(cursor', s, o)
      BY <1>6, <1>7, <2>1, <2>3
    <2>q. QED
      BY <1>4, <2>2, <2>3, <2>4 DEF Ahead
  <1>9. ASSUME HeadIsSound PROVE Ahead(cursor', disk', Event)
    <2>1. PICK o \in Nat : SoundAt(D[WriteSeq], o, Event) /\ Reaches(cursor, WriteSeq, o)
      BY <1>9, RecordSound, RecordType, Zenon
    <2>2. WriteSeq \in DOMAIN D /\ WriteSeq > m
      BY <1>1, <1>3
    <2> HIDE DEF D
    <2>3. Reaches(cursor', WriteSeq, o)
      BY <1>1, <1>6, <2>1, <2>2
    <2>q. QED
      BY <1>4, <2>1, <2>2, <2>3 DEF Ahead
  <1>10. ASSUME NEW e \in DOMAIN fate', fate'[e] = "spooled"
         PROVE  \/ e \in DOMAIN fate /\ fate[e] = "spooled" /\ e \notin Shed(D, m)
                \/ e = Event /\ HeadIsSound
    <2> DEFINE f == [x \in DOMAIN fate |-> IF x \in Shed(D, m) THEN "dropped" ELSE fate[x]]
               new == IF HeadIsSound THEN "spooled" ELSE "exposed"
    <2>1. fate \in Seq(Fates) /\ f \in [DOMAIN fate -> Fates] /\ new \in Fates
      BY AnySeq DEF IInv, Typed, Fates, Live
    <2>2. f \in Seq(Fates) /\ DOMAIN f = DOMAIN fate /\ DOMAIN fate = 1 .. Len(fate)
          /\ Len(fate) \in Nat
      BY <2>1, SeqMap, AnySeq
    <2>3. Len(f) = Len(fate)
      BY <2>2, AnySeq
    <2>4. /\ Len(fate') = Len(f) + 1
          /\ \A i \in 1 .. Len(f) : fate'[i] = f[i]
          /\ fate'[Len(f) + 1] = new /\ DOMAIN fate' = 1 .. Len(f) + 1
      BY <1>2, <2>1, <2>2, AnyAppend
    <2>5. CASE e \in DOMAIN fate
      <3>1. f[e] = "spooled"
        BY <1>10, <2>2, <2>3, <2>4, <2>5
      <3>q. QED
        BY <2>5, <3>1
    <2>6. CASE e \notin DOMAIN fate
      <3>1. e = Len(fate) + 1
        BY <2>2, <2>3, <2>4, <2>6
      <3>2. new = "spooled"
        BY <1>10, <2>3, <2>4, <3>1
      <3>q. QED
        BY <3>1, <3>2 DEF Event
    <2>q. QED
      BY <2>5, <2>6
  <1> HIDE DEF D
  <1>11. \A e \in DOMAIN fate' : fate'[e] = "spooled" => Ahead(cursor', disk', e)
    BY <1>8, <1>9, <1>10
  <1>q. QED
    BY <1>11 DEF Located, Ahead

\* A failed append leaves what was there, whatever it wrote.
LEMMA LocatedAppendErr ==
  ASSUME IInv, Located, NEW cells \in Seq(Int), NEW n, NEW f, AppendErr(cells, n, f)
  PROVE  Located'
  <1>1. disk' = Written(cells) /\ cursor' = cursor /\ fate' = Append(fate, "failed")
    BY DEF AppendErr
  <1>2. ASSUME NEW e \in DOMAIN fate, fate[e] = "spooled" PROVE Ahead(cursor', disk', e)
    <2>1. PICK s \in Segments, o \in Nat : SoundAt(disk[s], o, e) /\ Reaches(cursor, s, o)
      BY <1>2 DEF Located, Ahead, Segments
    <2>2. s \in DOMAIN Written(cells) /\ SoundAt(Written(cells)[s], o, e)
      BY <2>1, WrittenKeeps
    <2>q. QED
      BY <1>1, <2>1, <2>2 DEF Ahead
  <1>3. ASSUME NEW e \in DOMAIN fate', fate'[e] = "spooled"
        PROVE  e \in DOMAIN fate /\ fate[e] = "spooled"
    <2>1. fate \in Seq(Fates) /\ "failed" \in Fates
      BY DEF IInv, Typed, Fates
    <2>2. /\ DOMAIN fate' = 1 .. Len(fate) + 1 /\ DOMAIN fate = 1 .. Len(fate) /\ Len(fate) \in Nat
          /\ \A i \in 1 .. Len(fate) : fate'[i] = fate[i]
          /\ fate'[Len(fate) + 1] = "failed"
      BY <1>1, <2>1, AnyAppend, AnySeq
    <2>q. QED
      BY <1>3, <2>2
  <1>4. \A e \in DOMAIN fate' : fate'[e] = "spooled" => Ahead(cursor', disk', e)
    BY <1>2, <1>3
  <1>q. QED
    BY <1>4 DEF Located, Ahead

\* peek passes a segment only where the reader finds no record: there is none to miss.
LEMMA PeekKeeps ==
  ASSUME IInv, NEW c \in Cursor, Even(c.offset), PeekFrom(c),
         NEW s \in Segments, NEW o \in Nat, NEW e, SoundAt(disk[s], o, e), Reaches(c, s, o)
  PROVE  Reaches(cursor', s, o)
  <1>1. PICK t \in c.seg .. head_seq : Ends(c, t) /\ cursor' = EntryOf(c, t)
    BY DEF PeekFrom
  <1>2. c.seg \in Nat /\ c.offset \in Nat /\ head_seq \in Nat /\ s \in Nat /\ t \in Nat
    BY <1>1, InvNumbers DEF Cursor
  <1>3. ~(s < t)
    <2>1. SUFFICES ASSUME s < t PROVE FALSE
      OBVIOUS
    <2>2. s \in c.seg .. t - 1
      BY <1>2, <2>1 DEF Reaches
    <2>3. ~ReadableAt(EntryOf(c, s))
      BY <1>1, <2>2 DEF Ends
    <2>4. CASE s = c.seg
      <3>1. c.offset \in 0 .. o
        BY <1>2, <2>4 DEF Reaches
      <3>2. Readable(disk[s], c.offset)
        BY <3>1 DEF SoundAt
      <3>q. QED
        BY <2>3, <2>4, <3>2 DEF EntryOf, ReadableAt
    <2>5. CASE s # c.seg
      <3>1. 0 \in 0 .. o
        OBVIOUS
      <3>2. Readable(disk[s], 0)
        BY <3>1, EvenFacts DEF SoundAt
      <3>q. QED
        BY <2>3, <2>5, <3>2 DEF EntryOf, ReadableAt
    <2>q. QED
      BY <2>4, <2>5
  <1>4. cursor'.seg = t /\ (t = c.seg => cursor'.offset = c.offset)
        /\ (t # c.seg => cursor'.offset = 0)
    BY <1>1 DEF EntryOf
  <1>q. QED
    BY <1>2, <1>3, <1>4 DEF Reaches

\* peek loses nothing; where it cannot read a segment, what is in it counts as skipped.
LEMMA LocatedPeek ==
  ASSUME IInv, EvenOffsets, Located, Peek \/ PeekReadError
  PROVE  Located'
  <1>0. /\ cursor \in Cursor /\ cursor.seg \in Nat /\ cursor.offset \in Nat /\ UNCHANGED disk
        /\ fate \in Seq(Fates)
    BY InvNumbers DEF IInv, Typed, Peek, PeekReadError, Fates
  <1>1. CASE Peek
    <2>1. PeekFrom(cursor) /\ UNCHANGED fate
      BY <1>1 DEF Peek
    <2>2. ASSUME NEW e \in DOMAIN fate', fate'[e] = "spooled" PROVE Ahead(cursor', disk', e)
      <3>1. PICK s \in Segments, o \in Nat : SoundAt(disk[s], o, e) /\ Reaches(cursor, s, o)
        BY <2>1, <2>2 DEF Located, Ahead, Segments
      <3>2. Reaches(cursor', s, o)
        BY <1>0, <2>1, <3>1, PeekKeeps DEF EvenOffsets
      <3>q. QED
        BY <1>0, <3>1, <3>2 DEF Ahead, Segments
    <2>q. QED
      BY <2>2 DEF Located, Ahead
  <1>2. CASE PeekReadError
    <2> DEFINE c == [seg |-> cursor.seg + 1, offset |-> 0]
               lost(e) == \E i \in DOMAIN disk[cursor.seg] : disk[cursor.seg][i] = e
    <2>1. /\ PeekFrom(c)
          /\ fate' = [e \in DOMAIN fate |->
                        IF fate[e] \in Live /\ lost(e) THEN "skipped" ELSE fate[e]]
      BY <1>2 DEF PeekReadError
    <2>2. c \in Cursor /\ Even(c.offset)
      <3>1. c \in Cursor /\ c.offset = 0
        BY <1>0 DEF Cursor
      <3>2. Even(0)
        BY EvenFacts
      <3>q. QED
        BY <3>1, <3>2, Zenon
    <2>3. ASSUME NEW e \in DOMAIN fate', fate'[e] = "spooled" PROVE Ahead(cursor', disk', e)
      <3>1. e \in DOMAIN fate /\ fate[e] = "spooled" /\ ~lost(e)
        BY <2>1, <2>3 DEF Live
      <3>2. PICK s \in Segments, o \in Nat : SoundAt(disk[s], o, e) /\ Reaches(cursor, s, o)
        BY <3>1 DEF Located, Ahead, Segments
      <3>3. s # cursor.seg
        <4>1. SUFFICES ASSUME s = cursor.seg PROVE FALSE
          OBVIOUS
        <4>2. disk[s] \in Seq(Int)
          BY DEF IInv, Typed
        <4>3. DOMAIN disk[s] = 1 .. Len(disk[s]) /\ Len(disk[s]) \in Nat
          BY <4>2, AnySeq
        <4>4. o + 1 \in DOMAIN disk[s] /\ disk[s][o + 1] = e
          BY <3>2, <4>3 DEF SoundAt
        <4>q. QED
          BY <3>1, <4>1, <4>4
      <3>4. Reaches(c, s, o)
        <4>1. s \in Nat
          BY InvNumbers
        <4>q. QED
          BY <1>0, <3>2, <3>3, <4>1 DEF Reaches
      <3> HIDE DEF c
      <3>5. Reaches(cursor', s, o)
        BY <2>1, <2>2, <3>2, <3>4, PeekKeeps
      <3>q. QED
        BY <1>0, <3>2, <3>5 DEF Ahead, Segments
    <2>q. QED
      BY <2>3 DEF Located, Ahead
  <1>q. QED
    BY <1>1, <1>2

\* advance passes one record, and counts it as drained.
LEMMA LocatedMove ==
  ASSUME IInv, EvenOffsets, Located, MoveCursor,
         \A s \in Segments : s >= cursor.seg => s \in Segments' /\ disk'[s] = disk[s]
  PROVE  Located'
  <1>0. /\ cursor.seg \in Nat /\ cursor.offset \in Nat /\ peeked = cursor
        /\ cursor.seg \in Segments
    <2>1. peeked # NoCursor /\ peeked.seg \in Segments
      BY DEF MoveCursor, ReadableAt
    <2>2. peeked = cursor
      BY <2>1 DEF IInv, PeekedFresh
    <2>q. QED
      BY <2>1, <2>2, InvNumbers
  <1>1. cursor' = After(cursor) /\ Confirmed
    BY <1>0 DEF MoveCursor
  <1>2. cursor'.seg = cursor.seg /\ cursor'.offset = cursor.offset + 2
    <2>1. cursor \in Cursor
      BY DEF IInv, Typed
    <2>q. QED
      BY <1>1, <2>1 DEF After, Cursor
  <1>3. ASSUME NEW e \in DOMAIN fate', fate'[e] = "spooled" PROVE Ahead(cursor', disk', e)
    <2>1. /\ e \in DOMAIN fate /\ fate[e] = "spooled"
          /\ ~(VerifiesAt(cursor) /\ IdAt(cursor) = e)
      <3> DEFINE x == IdAt(cursor)
      <3>1. fate' = IF VerifiesAt(cursor) /\ fate[x] \in Live
                    THEN [fate EXCEPT ![x] = "drained"] ELSE fate
        BY <1>0, <1>1 DEF Confirmed
      <3>2. "spooled" \in Live
        BY DEF Live
      <3> HIDE DEF x
      <3>3. e \in DOMAIN fate
        BY <1>3, <3>1
      <3>4. fate[e] = "spooled" /\ ~(VerifiesAt(cursor) /\ x = e)
        BY <1>3, <3>1, <3>2, <3>3
      <3>q. QED
        BY <3>3, <3>4 DEF x
    <2>2. PICK s \in Segments, o \in Nat : SoundAt(disk[s], o, e) /\ Reaches(cursor, s, o)
      BY <2>1 DEF Located, Ahead, Segments
    <2>3. s \in Nat
      BY InvNumbers
    <2>4. s = cursor.seg => o # cursor.offset
      BY <2>1, <2>2 DEF SoundAt, VerifiesAt, IdAt
    <2>5. s = cursor.seg => cursor.offset + 2 <= o
      <3>1. Even(o) /\ Even(cursor.offset)
        BY <2>2 DEF SoundAt, EvenOffsets
      <3>2. s = cursor.seg => cursor.offset < o
        BY <1>0, <2>2, <2>3, <2>4 DEF Reaches
      <3>q. QED
        BY <1>0, <3>1, <3>2, EvenFacts
    <2>6. Reaches(cursor', s, o) /\ s >= cursor.seg
      BY <1>0, <1>2, <2>2, <2>3, <2>5 DEF Reaches
    <2>7. s \in Segments' /\ disk'[s] = disk[s]
      BY <2>6
    <2>q. QED
      BY <2>2, <2>6, <2>7 DEF Ahead, Segments
  <1>q. QED
    BY <1>3 DEF Located, Ahead

\* open truncates no record the file parses up to, and resumes at or before the drain.
LEMMA LocatedOpen ==
  ASSUME IInv, Located, NEW last \in Segments, IsLast(last), NEW n \in 0 .. Len(disk[last]),
         Open(last, SubSeq(disk[last], 1, n)),
         DOMAIN fate' = DOMAIN fate,
         \A e \in DOMAIN fate : fate'[e] = "spooled" =>
           /\ fate[e] = "spooled"
           /\ \A i \in n + 1 .. Len(disk[last]) : disk[last][i] # -e
  PROVE  Located'
  <1> DEFINE file == disk[last]
             cells == SubSeq(file, 1, n)
  <1>1. file \in Seq(Int) /\ Len(file) \in Nat
    BY AnySeq DEF IInv, Typed
  <1>2. cells \in Seq(Int) /\ Len(cells) = n /\ \A i \in 1 .. n : cells[i] = file[i]
    BY <1>1, AnyFront
  <1>3. PICK end \in 0 .. Len(cells) :
          ParsesUpTo(cells, end) /\ disk' = [disk EXCEPT ![last] = SubSeq(cells, 1, end)]
    BY Zenon DEF Open
  <1>4. PICK c \in [seg : Segments, offset : {0}] \cup {persisted} : Resume(c) /\ cursor' = c
    BY DEF Open
  <1> DEFINE cut == SubSeq(cells, 1, end)
  <1>5. Len(cut) = end /\ \A i \in 1 .. end : cut[i] = cells[i]
    BY <1>2, <1>3, AnyFront
  <1> HIDE DEF file, cells, cut
  <1>6. ASSUME NEW e \in DOMAIN fate, fate'[e] = "spooled" PROVE Ahead(cursor', disk', e)
    <2>1. PICK s \in Segments, o \in Nat : SoundAt(disk[s], o, e) /\ Reaches(cursor, s, o)
      BY <1>6 DEF Located, Ahead, Segments
    <2>2. Reaches(cursor', s, o)
      <3>1. /\ cursor.seg \in Int /\ persisted.seg \in Int /\ cursor.offset \in Nat
            /\ persisted.offset \in Nat /\ AtOrBefore(persisted, cursor) /\ s \in Nat
        BY InvNumbers DEF IInv, ResumesInsideLog
      <3>2. CASE persisted = NoCursor
        <4>1. IsFirst(c.seg) /\ c.offset = 0
          BY <1>4, <3>2 DEF Resume
        <4>2. c.seg <= s /\ c.seg \in Nat
          BY <4>1, InvNumbers DEF IsFirst
        <4>q. QED
          BY <1>4, <3>1, <4>1, <4>2 DEF Reaches
      <3>3. CASE persisted # NoCursor
        <4>1. cursor' = persisted
          BY <1>4, <3>3 DEF Resume
        <4>2. Reaches(persisted, s, o)
          BY <2>1, <3>1, ReachesBack
        <4>q. QED
          BY <4>1, <4>2
      <3>q. QED
        BY <3>2, <3>3
    <2>3. s \in DOMAIN disk'
      BY <1>3 DEF Segments
    <2>4. SoundAt(disk'[s], o, e)
      <3>1. CASE s # last
        <4>1. disk'[s] = disk[s]
          BY <1>3, <3>1 DEF Segments
        <4>q. QED
          BY <2>1, <4>1
      <3>2. CASE s = last
        <4>1. disk'[s] = cut
          BY <1>3, <3>2 DEF Segments, cut
        <4>2. SoundAt(file, o, e)
          BY <2>1, <3>2 DEF file
        <4>3. o + 2 <= n
          <5>1. o + 2 <= Len(file) /\ file[o + 2] = -e
            BY <4>2 DEF SoundAt
          <5>2. o + 2 \notin n + 1 .. Len(file)
            BY <1>6, <5>1 DEF file
          <5>q. QED
            BY <1>1, <5>1, <5>2
        <4>4. SoundAt(cells, o, e)
          <5>1. Len(cells) \in Nat /\ o + 2 <= Len(cells) /\ \A i \in 1 .. o + 2 : cells[i] = file[i]
            BY <1>2, <4>3
          <5>q. QED
            BY <4>2, <5>1, SoundKept
        <4>5. o + 2 <= end
          <5>1. Even(end) /\ ~Readable(cells, end) /\ end \in Nat
            BY <1>2, <1>3 DEF ParsesUpTo, Even
          <5>2. Even(o) /\ \A p \in 0 .. o : Even(p) => Readable(cells, p)
            BY <4>4 DEF SoundAt
          <5>3. ~(end <= o)
            BY <5>1, <5>2
          <5>q. QED
            BY <5>1, <5>2, <5>3, EvenFacts
        <4>6. SoundAt(cut, o, e)
          <5>1. Len(cut) \in Nat /\ o + 2 <= Len(cut) /\ \A i \in 1 .. o + 2 : cut[i] = cells[i]
            BY <1>2, <1>3, <1>5, <4>5
          <5>q. QED
            BY <4>4, <5>1, SoundKept
        <4>q. QED
          BY <4>1, <4>6
      <3>q. QED
        BY <3>1, <3>2
    <2>q. QED
      BY <2>2, <2>3, <2>4 DEF Ahead
  <1>7. \A e \in DOMAIN fate' : fate'[e] = "spooled" => Ahead(cursor', disk', e)
    BY <1>6
  <1>q. QED
    BY <1>7 DEF Located, Ahead

\* A restart loses nothing; what a loss of power cuts off counts as unsynced.
LEMMA LocatedRestart ==
  ASSUME IInv, Located, Restart \/ PowerLoss
  PROVE  Located'
  <1>1. CASE Restart
    <2>1. PICK last \in Segments : IsLast(last) /\ Open(last, disk[last])
      BY <1>1 DEF Restart
    <2> DEFINE n == Len(disk[last])
    <2>2. disk[last] \in Seq(Int)
      BY DEF IInv, Typed
    <2>3. n \in Nat /\ SubSeq(disk[last], 1, n) = disk[last]
      BY <2>2, AnySeq, AnyWhole
    <2>4. Open(last, SubSeq(disk[last], 1, n)) /\ n \in 0 .. Len(disk[last])
      <3>1. n \in 0 .. n
        BY <2>3
      <3> DEFINE cells == SubSeq(disk[last], 1, n)
      <3>2. cells = disk[last]
        BY <2>3
      <3> HIDE DEF cells
      <3>3. Open(last, cells)
        BY <2>1, <3>2, Zenon
      <3>q. QED
        BY <3>1, <3>3 DEF cells
    <2>5. UNCHANGED fate
      BY <1>1 DEF Restart
    <2>6. n + 1 .. n = {}
      BY <2>3
    <2>q. QED
      BY <2>1, <2>4, <2>5, <2>6, LocatedOpen
  <1>2. CASE PowerLoss
    <2>0. synced \in Nat /\ \A s \in Segments : Len(disk[s]) \in Nat
      BY AnySeq DEF IInv, Typed
    <2>1. PICK last \in Segments : \E n \in synced .. Len(disk[last]) :
            /\ IsLast(last) /\ Open(last, SubSeq(disk[last], 1, n))
            /\ fate' = [e \in DOMAIN fate |->
                          IF fate[e] \in Live
                             /\ \E i \in n + 1 .. Len(disk[last]) : disk[last][i] = -e
                          THEN "unsynced" ELSE fate[e]]
      BY <1>2 DEF PowerLoss
    <2>2. PICK n \in synced .. Len(disk[last]) :
            /\ IsLast(last) /\ Open(last, SubSeq(disk[last], 1, n))
            /\ fate' = [e \in DOMAIN fate |->
                          IF fate[e] \in Live
                             /\ \E i \in n + 1 .. Len(disk[last]) : disk[last][i] = -e
                          THEN "unsynced" ELSE fate[e]]
      BY <2>1
    <2>3. n \in 0 .. Len(disk[last])
      BY <2>0
    <2>4. DOMAIN fate' = DOMAIN fate
      BY <2>2
    <2>5. ASSUME NEW e \in DOMAIN fate, fate'[e] = "spooled"
          PROVE  /\ fate[e] = "spooled"
                 /\ \A i \in n + 1 .. Len(disk[last]) : disk[last][i] # -e
      <3> DEFINE gone == \E i \in n + 1 .. Len(disk[last]) : disk[last][i] = -e
      <3>1. fate'[e] = IF fate[e] \in Live /\ gone THEN "unsynced" ELSE fate[e]
        BY <2>2
      <3>2. "spooled" \in Live
        BY DEF Live
      <3> HIDE DEF gone
      <3>3. fate[e] = "spooled" /\ ~gone
        BY <2>5, <3>1, <3>2
      <3>q. QED
        BY <3>3 DEF gone
    <2>q. QED
      BY <2>2, <2>3, <2>4, <2>5, LocatedOpen
  <1>q. QED
    BY <1>1, <1>2

\* Readers move by whole records or to the start of a file.
LEMMA EvenStep ==
  ASSUME IInv, EvenOffsets, [Next]_vars
  PROVE  EvenOffsets'
  <1>0. /\ cursor.offset \in Nat /\ cursor \in Cursor
        /\ peeked \in Cursor \cup {NoCursor} /\ Even(0) /\ Even(NoCursor.offset)
    BY InvNumbers, EvenFacts, Zenon DEF IInv, Typed, NoCursor
  <1>1. CASE UNCHANGED <<cursor, persisted, peeked>>
    BY <1>1 DEF EvenOffsets
  <1>2. CASE AppendOk
    <2>1. PICK m : cursor' = Bumped(m)
      BY <1>2 DEF AppendOk
    <2>2. cursor'.offset = 0 \/ cursor' = cursor
      BY <2>1 DEF Bumped
    <2>3. UNCHANGED <<persisted, peeked>>
      BY <1>2 DEF AppendOk
    <2>q. QED
      BY <1>0, <2>2, <2>3 DEF EvenOffsets
  <1>3. ASSUME NEW c, Even(c.offset), PeekFrom(c), UNCHANGED persisted PROVE EvenOffsets'
    <2>1. PICK s \in c.seg .. head_seq :
            /\ cursor' = EntryOf(c, s)
            /\ peeked' = IF ReadableAt(EntryOf(c, s)) THEN EntryOf(c, s) ELSE NoCursor
      BY <1>3 DEF PeekFrom
    <2>2. Even(EntryOf(c, s).offset)
      BY <1>0, <1>3 DEF EntryOf
    <2>q. QED
      BY <1>0, <1>3, <2>1, <2>2 DEF EvenOffsets
  <1>4. CASE Peek
    BY <1>3, <1>4 DEF Peek, EvenOffsets
  <1>5. CASE PeekReadError
    <2>1. PeekFrom([seg |-> cursor.seg + 1, offset |-> 0]) /\ UNCHANGED persisted
      BY <1>5 DEF PeekReadError
    <2>q. QED
      BY <1>0, <1>3, <2>1
  <1>6. CASE MoveCursor /\ persisted' \in {persisted, cursor'}
    <2>1. cursor' = After(peeked) /\ peeked' = NoCursor /\ peeked # NoCursor
      BY <1>6 DEF MoveCursor
    <2>2. peeked \in Cursor
      BY <1>0, <2>1
    <2>3. cursor'.offset = peeked.offset + 2 /\ peeked.offset \in Nat
      BY <2>1, <2>2 DEF After, Cursor
    <2>4. Even(cursor'.offset)
      BY <2>3, EvenFacts DEF EvenOffsets
    <2>q. QED
      BY <1>0, <1>6, <2>1, <2>4 DEF EvenOffsets
  <1>7. CASE AdvanceOk \/ AdvanceUnpersisted \/ AdvanceUnlisted
    BY <1>6, <1>7 DEF AdvanceOk, AdvanceUnpersisted, AdvanceUnlisted
  <1>8. CASE AdvanceGone
    BY <1>0, <1>8 DEF AdvanceGone, EvenOffsets
  <1>9. ASSUME NEW last, NEW cells, Open(last, cells) PROVE EvenOffsets'
    <2>1. PICK c \in [seg : Segments, offset : {0}] \cup {persisted} : cursor' = c
      BY <1>9 DEF Open
    <2>2. c.offset = 0 \/ c = persisted
      OBVIOUS
    <2>3. peeked' = NoCursor /\ UNCHANGED persisted
      BY <1>9 DEF Open
    <2>q. QED
      BY <1>0, <2>1, <2>2, <2>3 DEF EvenOffsets
  <1>10. CASE Restart \/ PowerLoss
    BY <1>9, <1>10 DEF Restart, PowerLoss
  <1>11. CASE UNCHANGED vars \/ AppendRefused \/ AppendTorn \/ AppendUnlisted \/ RotateFails \/ Sync
    BY <1>1, <1>11 DEF vars, AppendRefused, AppendTorn, AppendUnlisted, AppendErr, RotateFails, Sync
  <1>q. QED
    BY <1>2, <1>4, <1>5, <1>7, <1>8, <1>10, <1>11 DEF Next

\* Every step keeps what append accepted ahead of the drain.
LEMMA LocatedStep ==
  ASSUME IInv, EvenOffsets, Located, [Next]_vars
  PROVE  Located'
  <1>1. CASE UNCHANGED <<cursor, disk, fate>>
    BY <1>1 DEF Located, Ahead
  <1>2. CASE AppendRefused \/ AppendTorn \/ AppendUnlisted
    <2>1. <<>> \in Seq(Int) /\ <<Event>> \in Seq(Int) /\ Record(Event) \in Seq(Int)
      BY RecordType, AnyEmpty
    <2>q. QED
      BY <1>2, <2>1, LocatedAppendErr, Zenon DEF AppendRefused, AppendTorn, AppendUnlisted
  <1>3. CASE RotateFails
    <2>1. UNCHANGED <<cursor, disk>> /\ fate' = Append(fate, "failed")
      BY <1>3 DEF RotateFails
    <2>2. fate \in Seq(Fates) /\ "failed" \in Fates
      BY DEF IInv, Typed, Fates
    <2>3. /\ DOMAIN fate' = 1 .. Len(fate) + 1 /\ DOMAIN fate = 1 .. Len(fate) /\ Len(fate) \in Nat
          /\ \A i \in 1 .. Len(fate) : fate'[i] = fate[i]
          /\ fate'[Len(fate) + 1] = "failed"
      BY <2>1, <2>2, AnyAppend, AnySeq
    <2>4. \A e \in DOMAIN fate' : fate'[e] = "spooled" => e \in DOMAIN fate /\ fate[e] = "spooled"
      BY <2>3
    <2>q. QED
      BY <2>1, <2>4 DEF Located, Ahead
  <1>4. CASE AdvanceOk \/ AdvanceUnpersisted \/ AdvanceUnlisted
    <2>1. MoveCursor
      BY <1>4 DEF AdvanceOk, AdvanceUnpersisted, AdvanceUnlisted
    <2>2. cursor'.seg = cursor.seg
      BY <2>1, MoveCursorMoves
    <2>3. disk' = disk \/ disk' = Kept(cursor')
      BY <1>4 DEF AdvanceOk, AdvanceUnpersisted, AdvanceUnlisted
    <2>4. \A s \in Segments : s >= cursor.seg => s \in Segments' /\ disk'[s] = disk[s]
      BY <2>2, <2>3 DEF Kept, Segments
    <2>q. QED
      BY <2>1, <2>4, LocatedMove
  <1>5. CASE UNCHANGED vars \/ AdvanceGone \/ Sync
    BY <1>1, <1>5 DEF vars, AdvanceGone, Sync
  <1>q. QED
    BY <1>2, <1>3, <1>4, <1>5, LocatedAppendOk, LocatedPeek, LocatedRestart DEF Next

\* Where the reader stands between records, what is sound ahead of it is pending.
LEMMA LocatedIsPending ==
  ASSUME IInv, EvenOffsets, NEW e \in DOMAIN fate, Ahead(cursor, disk, e)
  PROVE  e \in Pending
  <1>1. PICK s \in Segments, o \in Nat : SoundAt(disk[s], o, e) /\ Reaches(cursor, s, o)
    BY DEF Ahead, Segments
  <1> DEFINE from == EntryOf(cursor, s).offset
             at == [seg |-> s, offset |-> o]
  <1>2. cursor.seg \in Nat /\ cursor.offset \in Nat /\ s \in Nat
    BY InvNumbers
  <1>3. from = (IF s = cursor.seg THEN cursor.offset ELSE 0)
    BY DEF EntryOf
  <1>4. from \in Nat /\ Even(from) /\ from <= o /\ s >= cursor.seg
    BY <1>1, <1>2, <1>3, EvenFacts DEF EvenOffsets, Reaches
  <1> HIDE DEF from
  <1>5. Even(o) /\ o + 2 <= Len(disk[s]) /\ disk[s][o + 1] = e /\ disk[s][o + 2] = -e
        /\ \A p \in 0 .. o : Even(p) => Readable(disk[s], p)
    BY <1>1 DEF SoundAt
  <1>6. Len(disk[s]) \in Nat
    BY AnySeq DEF IInv, Typed
  <1>7. o \in 0 .. Len(disk[s]) /\ o >= from
    BY <1>4, <1>5, <1>6
  <1>8. (o - from) % 2 = 0
    BY <1>4, <1>5, EvenFacts DEF Even
  <1>9. ASSUME NEW p \in from .. o, (p - from) % 2 = 0 PROVE Readable(disk[s], p)
    <2>1. p \in 0 .. o /\ p \in Nat
      BY <1>4
    <2>2. Even(p)
      BY <1>4, <1>9, <2>1 DEF Even
    <2>q. QED
      BY <1>5, <2>1, <2>2
  <1>10. IdAt(at) = e /\ VerifiesAt(at)
    BY <1>5 DEF IdAt, VerifiesAt
  <1>q. QED
    BY <1>4, <1>7, <1>8, <1>9, <1>10 DEF Pending, from

\* "Minutes of outage become replication lag, not loss": through every order of append,
\* rotate, enforce_bound, peek, advance, failed calls, restarts and power losses, and for
\* every segment size, bound and number of events, what append accepted is ahead of the
\* drain until it is confirmed or dropped at the bound.
THEOREM SpoolNothingLost == Spec => []NothingLost
  <1> DEFINE Inv == IInv /\ EvenOffsets /\ Located
  <1>1. Init => Inv
    <2>1. ASSUME Init PROVE EvenOffsets /\ Located
      <3>1. DOMAIN fate = {} /\ cursor.offset = 0 /\ persisted.offset = 0 /\ peeked.offset = 0
        BY <2>1 DEF Init, NoCursor
      <3>q. QED
        BY <3>1, EvenFacts DEF EvenOffsets, Located
    <2>q. QED
      BY <2>1, InitIInv
  <1>2. Inv /\ [Next]_vars => Inv'
    BY NextIInv, EvenStep, LocatedStep
  <1>3. Inv => NothingLost
    BY LocatedIsPending DEF Located, NothingLost
  <1>q. QED
    BY <1>1, <1>2, <1>3, PTL DEF Spec

----------------------------------------------------------------------------
(* What is counted, and the log fits its bound.  The total of a set of files  *)
(* is a fold over a finite set; what it computes is shown by a least          *)
(* counterexample.                                                            *)

INSTANCE FiniteSetTheorems

\* The number of segments removed at the bound is a natural number.
LEMMA RemovedCount ==
  ASSUME NEW T \in SUBSET Nat, NEW m \in Int
  PROVE  Cardinality({s \in T : s <= m}) \in Nat
<1>1. \A s \in T : s <= m => s \in 0 .. m
  OBVIOUS
<1>2. IsFiniteSet(0 .. m)
  BY FS_Interval
<1> QED
  BY <1>1, <1>2, FS_Subset, FS_CardinalityType, Zenon

\* The count of the segments given up stays a number: enforce_bound adds what it
\* removed, open starts again at zero.
LEMMA CountStep ==
  ASSUME IInv, [Next]_vars, dropped_segments \in Nat
  PROVE  dropped_segments' \in Nat
  <1>1. CASE AppendOk
    <2> DEFINE D == Written(Record(Event))
    <2>1. DOMAIN D = Segments \cup {WriteSeq} /\ WriteSeq \in Nat
      BY WrittenType, RecordType
    <2>2. DOMAIN D \in SUBSET Nat
      BY <2>1, InvNumbers
    <2>3. PICK m \in {-1} \cup (Segments \ {WriteSeq}) :
            dropped_segments' = dropped_segments + Cardinality({s \in DOMAIN D : s <= m})
      BY <1>1 DEF AppendOk
    <2>4. m \in Int
      BY InvNumbers
    <2> HIDE DEF D
    <2>5. Cardinality({s \in DOMAIN D : s <= m}) \in Nat
      BY <2>2, <2>4, RemovedCount
    <2>q. QED
      BY <2>3, <2>5
  <1>2. CASE Restart \/ PowerLoss
    BY <1>2 DEF Restart, PowerLoss, Open
  <1>3. CASE AppendRefused \/ AppendTorn \/ AppendUnlisted \/ RotateFails \/ Sync
    BY <1>3 DEF AppendRefused, AppendTorn, AppendUnlisted, AppendErr, RotateFails, Sync
  <1>4. CASE Peek \/ PeekReadError
    BY <1>4 DEF Peek, PeekReadError
  <1>5. CASE AdvanceOk \/ AdvanceUnpersisted \/ AdvanceUnlisted \/ AdvanceGone
    BY <1>5 DEF AdvanceOk, AdvanceUnpersisted, AdvanceUnlisted, AdvanceGone, MoveCursor
  <1>6. CASE UNCHANGED vars
    BY <1>6 DEF vars
  <1>q. QED
    BY <1>1, <1>2, <1>3, <1>4, <1>5, <1>6 DEF Next

\* Every variable of the spool keeps its shape through append, rotate,
\* enforce_bound, peek, advance and open; a segment file always exists.
THEOREM SpoolTypeOK == Spec => []TypeOK
<1>1. Init => dropped_segments \in Nat
  BY DEF Init
<1>2. IInv /\ dropped_segments \in Nat => TypeOK
  BY DEF IInv, Typed, TypeOK, Fates, FaultKinds
<1>3. IInv /\ [Next]_vars /\ dropped_segments \in Nat => (dropped_segments \in Nat)'
  BY CountStep
<1> QED
  BY <1>1, <1>2, <1>3, SpoolInvariant, PTL DEF Spec

\* A nonempty set of numbers has a least member.
LEMMA LeastNumber ==
  ASSUME NEW T \in SUBSET Nat, T # {}
  PROVE  \E n \in T : \A m \in T : n <= m
  <1> DEFINE R == {ss \in Nat \X Nat : ss[1] < ss[2]}
  <1>1. IsWellFoundedOn(R, Nat)
    BY NatLessThanWellFounded DEF OpToRel
  <1>2. \A m, n \in Nat : m < n => <<m, n>> \in R
    OBVIOUS
  <1> HIDE DEF R
  <1>3. PICK n \in T : \A m \in T : ~(<<m, n>> \in R)
    BY <1>1, WFMin, Zenon
  <1>4. ASSUME NEW m \in T PROVE n <= m
    <2>1. m \in Nat /\ n \in Nat
      OBVIOUS
    <2>2. ~(m < n)
      BY <1>2, <1>3, <2>1, Zenon
    <2>q. QED
      BY <2>1, <2>2
  <1>q. QED
    BY <1>4

\* The fold behind TotalCells: an element it takes first, and its recursion.
Pick(s) == CHOOSE x \in s : TRUE

SumOf(D, S, it) ==
  it = [s \in SUBSET S |-> IF s = {} THEN 0 ELSE Len(D[Pick(s)]) + it[s \ {Pick(s)}]]

\* TotalCells is that fold.
LEMMA TotalIs ==
  ASSUME NEW D, NEW S
  PROVE  TotalCells(D, S) = (CHOOSE it : SumOf(D, S, it))[S]
  BY DEF TotalCells, MapThenSumSet, MapThenFoldSet, SumOf, Pick

\* One of its elements taken out of a finite set.
LEMMA PickFacts ==
  ASSUME NEW s, IsFiniteSet(s), s # {}, NEW x \in s
  PROVE  /\ IsFiniteSet(s \ {x}) /\ Cardinality(s) \in Nat /\ Cardinality(s \ {x}) \in Nat
         /\ Cardinality(s) = Cardinality(s \ {x}) + 1
  <1>1. IsFiniteSet(s \ {x}) /\ Cardinality(s \ {x}) = Cardinality(s) - 1
    BY FS_RemoveElement
  <1>2. Cardinality(s) \in Nat /\ Cardinality(s \ {x}) \in Nat
    BY <1>1, FS_CardinalityType
  <1>q. QED
    BY <1>1, <1>2

\* The element the fold takes is one of the set's.
LEMMA PickIn ==
  ASSUME NEW s, s # {}
  PROVE  Pick(s) \in s
  BY DEF Pick

\* The recursion behind the sum of a finite set has a solution.
LEMMA SumExists ==
  ASSUME NEW D, NEW S, IsFiniteSet(S), \A x \in S : Len(D[x]) \in Nat
  PROVE  \E it \in [SUBSET S -> Nat] : SumOf(D, S, it)
  <1> DEFINE Level(n) == {s \in SUBSET S : Cardinality(s) <= n}
             Solves(n, it) ==
               \A s \in Level(n) :
                 it[s] = IF s = {} THEN 0 ELSE Len(D[Pick(s)]) + it[s \ {Pick(s)}]
             Bad == {n \in Nat : ~ \E it \in [Level(n) -> Nat] : Solves(n, it)}
  <1>0. \A s \in SUBSET S : IsFiniteSet(s) /\ Cardinality(s) \in Nat
    BY FS_Subset, FS_CardinalityType
  <1>1. Bad = {}
    <2>1. SUFFICES ASSUME Bad # {} PROVE FALSE
      BY Zenon
    <2>2. PICK n \in Bad : \A m \in Bad : n <= m
      BY <2>1, LeastNumber, Zenon
    <2>3. n \in Nat /\ ~ \E it \in [Level(n) -> Nat] : Solves(n, it)
      BY Zenon
    <2>4. CASE n = 0
      <3> DEFINE it == [s \in Level(n) |-> 0]
      <3>1. \A s \in Level(n) : s = {}
        BY <1>0, <2>4, FS_EmptySet
      <3>2. it \in [Level(n) -> Nat] /\ Solves(n, it)
        BY <3>1
      <3>q. QED
        BY <2>3, <3>2, Zenon
    <2>5. CASE n # 0
      <3>1. n - 1 \in Nat /\ ~(n <= n - 1)
        BY <2>3, <2>5
      <3>2. PICK g \in [Level(n - 1) -> Nat] : Solves(n - 1, g)
        BY <2>2, <3>1, Zenon
      <3>3. ASSUME NEW s \in Level(n), s # {}
            PROVE  /\ s \ {Pick(s)} \in Level(n - 1) /\ Len(D[Pick(s)]) \in Nat
        <4>1. Pick(s) \in s /\ IsFiniteSet(s)
          BY <1>0, <3>3, PickIn
        <4>2. /\ Cardinality(s) \in Nat /\ Cardinality(s \ {Pick(s)}) \in Nat
              /\ Cardinality(s) = Cardinality(s \ {Pick(s)}) + 1
          BY <3>3, <4>1, PickFacts
        <4>3. Cardinality(s \ {Pick(s)}) <= n - 1
          BY <2>3, <4>2
        <4>q. QED
          BY <4>1, <4>3
      <3> DEFINE it == [s \in Level(n) |-> IF s = {} THEN 0
                                           ELSE Len(D[Pick(s)]) + g[s \ {Pick(s)}]]
      <3>4. it \in [Level(n) -> Nat]
        <4>1. ASSUME NEW s \in Level(n), s # {} PROVE Len(D[Pick(s)]) + g[s \ {Pick(s)}] \in Nat
          <5>1. g[s \ {Pick(s)}] \in Nat /\ Len(D[Pick(s)]) \in Nat
            BY <3>2, <3>3, <4>1
          <5>q. QED
            BY <5>1
        <4>q. QED
          BY <4>1
      <3>5. \A s \in Level(n - 1) : s \in Level(n) /\ it[s] = g[s]
        <4>1. \A s \in Level(n - 1) : s \in Level(n)
          BY <1>0, <2>3
        <4>q. QED
          BY <3>2, <4>1
      <3> HIDE DEF Level
      <3>6. Solves(n, it)
        BY <3>3, <3>5, Zenon
      <3>q. QED
        BY <2>3, <3>4, <3>6, Zenon
    <2>q. QED
      BY <2>4, <2>5
  <1>2. PICK it \in [Level(Cardinality(S)) -> Nat] : Solves(Cardinality(S), it)
    <2>1. Cardinality(S) \in Nat
      BY FS_CardinalityType
    <2>q. QED
      BY <1>1, <2>1, Zenon
  <1>3. Level(Cardinality(S)) = SUBSET S
    BY FS_Subset
  <1> HIDE DEF Level
  <1>q. QED
    BY <1>2, <1>3, Zenon DEF SumOf

\* Two such solutions agree where both are defined.
LEMMA SumAgree ==
  ASSUME NEW D, NEW S, IsFiniteSet(S), NEW it, SumOf(D, S, it),
         NEW E, NEW T, NEW jt, SumOf(E, T, jt), \A x \in S \cap T : Len(D[x]) = Len(E[x])
  PROVE  \A s \in SUBSET (S \cap T) : it[s] = jt[s]
  <1> DEFINE U == SUBSET (S \cap T)
             Bad == {n \in Nat : \E s \in U : Cardinality(s) = n /\ it[s] # jt[s]}
  <1>0. \A s \in U : IsFiniteSet(s) /\ Cardinality(s) \in Nat
    BY FS_Subset, FS_CardinalityType
  <1>1. \A s \in U :
          /\ it[s] = IF s = {} THEN 0 ELSE Len(D[Pick(s)]) + it[s \ {Pick(s)}]
          /\ jt[s] = IF s = {} THEN 0 ELSE Len(E[Pick(s)]) + jt[s \ {Pick(s)}]
    <2>1. ASSUME NEW s \in U PROVE s \in SUBSET S /\ s \in SUBSET T
      OBVIOUS
    <2>2. \A s \in SUBSET S : it[s] = IF s = {} THEN 0 ELSE Len(D[Pick(s)]) + it[s \ {Pick(s)}]
      BY Zenon DEF SumOf
    <2>3. \A s \in SUBSET T : jt[s] = IF s = {} THEN 0 ELSE Len(E[Pick(s)]) + jt[s \ {Pick(s)}]
      BY Zenon DEF SumOf
    <2>q. QED
      BY <2>1, <2>2, <2>3, Zenon
  <1>2. SUFFICES ASSUME Bad # {} PROVE FALSE
    BY <1>0
  <1>3. PICK n \in Bad : \A m \in Bad : n <= m
    BY <1>2, LeastNumber, Zenon
  <1>4. PICK s \in U : Cardinality(s) = n /\ it[s] # jt[s]
    OBVIOUS
  <1>5. s # {}
    BY <1>1, <1>4, Zenon
  <1>6. Pick(s) \in s
    BY <1>5, PickIn
  <1> DEFINE r == s \ {Pick(s)}
  <1>7. r \in U /\ Cardinality(r) \in Nat /\ Cardinality(s) = Cardinality(r) + 1
    BY <1>0, <1>5, <1>6, PickFacts
  <1>8. it[r] = jt[r]
    <2>1. ~(n <= Cardinality(r))
      BY <1>4, <1>7
    <2>q. QED
      BY <1>3, <1>7, <2>1
  <1>9. Len(D[Pick(s)]) = Len(E[Pick(s)])
    BY <1>6
  <1>q. QED
    BY <1>1, <1>4, <1>5, <1>8, <1>9

\* Files of equal lengths have equal totals.
LEMMA TotalSame ==
  ASSUME NEW D, NEW E, NEW S, IsFiniteSet(S),
         \A x \in S : Len(D[x]) \in Nat, \A x \in S : Len(D[x]) = Len(E[x])
  PROVE  TotalCells(D, S) = TotalCells(E, S)
  <1>1. \A x \in S : Len(E[x]) \in Nat
    OBVIOUS
  <1>2. SumOf(D, S, CHOOSE it : SumOf(D, S, it)) /\ SumOf(E, S, CHOOSE it : SumOf(E, S, it))
    BY <1>1, SumExists, Zenon
  <1> DEFINE a == CHOOSE it : SumOf(D, S, it)
             b == CHOOSE it : SumOf(E, S, it)
  <1>3. SumOf(D, S, a) /\ SumOf(E, S, b)
    BY <1>2
  <1>4. TotalCells(D, S) = a[S] /\ TotalCells(E, S) = b[S]
    BY TotalIs
  <1> HIDE DEF a, b
  <1>5. \A s \in SUBSET (S \cap S) : a[s] = b[s]
    BY <1>3, SumAgree
  <1>q. QED
    BY <1>4, <1>5

\* The total of a finite set of files: a number, 0 of none, and otherwise the length of
\* one of them more than the total of the others.
LEMMA TotalUnfolds ==
  ASSUME NEW D, NEW S, IsFiniteSet(S), \A x \in S : Len(D[x]) \in Nat
  PROVE  /\ TotalCells(D, S) \in Nat
         /\ S = {} => TotalCells(D, S) = 0
         /\ S # {} => /\ Pick(S) \in S
                      /\ TotalCells(D, S) = Len(D[Pick(S)]) + TotalCells(D, S \ {Pick(S)})
  <1> DEFINE a == CHOOSE it : SumOf(D, S, it)
             R == S \ {Pick(S)}
             b == CHOOSE it : SumOf(D, R, it)
  <1>1. PICK g \in [SUBSET S -> Nat] : SumOf(D, S, g)
    BY SumExists, Zenon
  <1>2. SumOf(D, S, a)
    BY <1>1
  <1>3. IsFiniteSet(R)
    BY FS_Subset
  <1>4. SumOf(D, R, b)
    BY <1>3, SumExists, Zenon
  <1>5. TotalCells(D, S) = a[S] /\ TotalCells(D, R) = b[R]
    BY TotalIs, Zenon
  <1> HIDE DEF a, b
  <1>6. a[S] = g[S]
    <2>1. \A s \in SUBSET (S \cap S) : a[s] = g[s]
      BY <1>1, <1>2, SumAgree
    <2>q. QED
      BY <2>1
  <1>7. a[R] = b[R]
    <2>1. \A s \in SUBSET (S \cap R) : a[s] = b[s]
      BY <1>2, <1>4, SumAgree
    <2>q. QED
      BY <2>1
  <1>8. a[S] = IF S = {} THEN 0 ELSE Len(D[Pick(S)]) + a[R]
    BY <1>2, Zenon DEF SumOf
  <1>9. g[S] \in Nat
    BY <1>1
  <1>q. QED
    BY <1>5, <1>6, <1>7, <1>8, <1>9, PickIn

\* It does not matter which file is taken out.
LEMMA TotalWithout ==
  ASSUME NEW D, NEW S, IsFiniteSet(S), \A x \in S : Len(D[x]) \in Nat, NEW y \in S
  PROVE  TotalCells(D, S) = Len(D[y]) + TotalCells(D, S \ {y})
  <1> DEFINE Holds(s) == \A x \in s : TotalCells(D, s) = Len(D[x]) + TotalCells(D, s \ {x})
             Bad == {n \in Nat : \E s \in SUBSET S : Cardinality(s) = n /\ ~Holds(s)}
  <1>0. \A s \in SUBSET S : IsFiniteSet(s) /\ Cardinality(s) \in Nat
    BY FS_Subset, FS_CardinalityType
  <1>1. \A s \in SUBSET S :
          /\ TotalCells(D, s) \in Nat
          /\ s # {} => /\ Pick(s) \in s
                       /\ TotalCells(D, s) = Len(D[Pick(s)]) + TotalCells(D, s \ {Pick(s)})
    <2>1. ASSUME NEW s \in SUBSET S PROVE \A x \in s : Len(D[x]) \in Nat
      OBVIOUS
    <2>q. QED
      BY <1>0, <2>1, TotalUnfolds, Zenon
  <1>2. Bad = {}
    <2>1. SUFFICES ASSUME Bad # {} PROVE FALSE
      OBVIOUS
    <2>2. PICK n \in Bad : \A m \in Bad : n <= m
      BY <2>1, LeastNumber, Zenon
    <2>3. PICK s \in SUBSET S : Cardinality(s) = n /\ ~Holds(s)
      OBVIOUS
    <2>4. PICK x \in s : TotalCells(D, s) # Len(D[x]) + TotalCells(D, s \ {x})
      BY <2>3, Zenon
    <2> DEFINE p == Pick(s)
    <2>5. /\ p \in s
          /\ TotalCells(D, s) = Len(D[p]) + TotalCells(D, s \ {p})
      BY <1>1
    <2> HIDE DEF p
    <2>6. x # p
      BY <2>4, <2>5, Zenon
    <2>7. \A z \in s : /\ s \ {z} \in SUBSET S
                       /\ Cardinality(s \ {z}) \in Nat /\ ~(n <= Cardinality(s \ {z}))
      <3>1. ASSUME NEW z \in s
            PROVE  /\ s \ {z} \in SUBSET S
                   /\ Cardinality(s \ {z}) \in Nat /\ ~(n <= Cardinality(s \ {z}))
        <4>1. /\ Cardinality(s) \in Nat /\ Cardinality(s \ {z}) \in Nat
              /\ Cardinality(s) = Cardinality(s \ {z}) + 1
          BY <1>0, PickFacts
        <4>q. QED
          BY <2>3, <4>1
      <3>q. QED
        BY <3>1
    <2>8. \A z \in s : Holds(s \ {z})
      <3> HIDE DEF Holds
      <3>q. QED
        BY <2>2, <2>7
    <2>9. TotalCells(D, s \ {p}) = Len(D[x]) + TotalCells(D, (s \ {p}) \ {x})
      BY <2>5, <2>6, <2>8, Zenon
    <2>10. TotalCells(D, s \ {x}) = Len(D[p]) + TotalCells(D, (s \ {x}) \ {p})
      BY <2>5, <2>6, <2>8
    <2>11. (s \ {p}) \ {x} = (s \ {x}) \ {p}
      OBVIOUS
    <2>12. /\ Len(D[x]) \in Nat /\ Len(D[p]) \in Nat
           /\ TotalCells(D, (s \ {x}) \ {p}) \in Nat
      <3>1. (s \ {x}) \ {p} \in SUBSET S /\ x \in S /\ p \in S
        BY <2>5
      <3>q. QED
        BY <1>1, <3>1, Zenon
    <2> HIDE DEF Holds
    <2> DEFINE u == TotalCells(D, (s \ {x}) \ {p})
               lx == Len(D[x])
               lp == Len(D[p])
    <2>13. /\ TotalCells(D, s) = lp + (lx + u) /\ TotalCells(D, s \ {x}) = lp + u
           /\ lx \in Nat /\ lp \in Nat /\ u \in Nat
           /\ TotalCells(D, s) # lx + TotalCells(D, s \ {x})
      BY <2>4, <2>5, <2>9, <2>10, <2>11, <2>12, Zenon
    <2> HIDE DEF u, lx, lp
    <2>q. QED
      BY <2>13
  <1>3. Holds(S)
    <2> HIDE DEF Holds
    <2>q. QED
      BY <1>0, <1>2
  <1>q. QED
    BY <1>3

\* Fewer files, none of them longer, hold no more.
LEMMA TotalNoMore ==
  ASSUME NEW D, NEW E, NEW S, NEW T \in SUBSET S, IsFiniteSet(S),
         \A x \in S : Len(D[x]) \in Nat, \A x \in T : Len(E[x]) \in Nat /\ Len(E[x]) <= Len(D[x])
  PROVE  TotalCells(E, T) <= TotalCells(D, S)
  <1> DEFINE Good(s) == TotalCells(E, s \cap T) <= TotalCells(D, s)
             Bad == {n \in Nat : \E s \in SUBSET S : Cardinality(s) = n /\ ~Good(s)}
  <1>0. \A s \in SUBSET S : IsFiniteSet(s) /\ IsFiniteSet(s \cap T) /\ Cardinality(s) \in Nat
    BY FS_Subset, FS_CardinalityType
  <1>a. \A s \in SUBSET S : \A x \in s : Len(D[x]) \in Nat
    OBVIOUS
  <1>b. \A s \in SUBSET S : \A x \in s \cap T : Len(E[x]) \in Nat
    OBVIOUS
  <1>1. \A s \in SUBSET S :
          /\ TotalCells(D, s) \in Nat /\ (s = {} => TotalCells(D, s) = 0)
          /\ \A y \in s : TotalCells(D, s) = Len(D[y]) + TotalCells(D, s \ {y})
    <2>1. ASSUME NEW s \in SUBSET S
          PROVE  TotalCells(D, s) \in Nat /\ (s = {} => TotalCells(D, s) = 0)
      BY <1>0, <1>a, TotalUnfolds, Zenon
    <2>2. ASSUME NEW s \in SUBSET S, NEW y \in s
          PROVE  TotalCells(D, s) = Len(D[y]) + TotalCells(D, s \ {y})
      <3>1. IsFiniteSet(s) /\ \A x \in s : Len(D[x]) \in Nat
        BY <1>0, <1>a, Zenon
      <3>q. QED
        BY <3>1, TotalWithout
    <2>q. QED
      BY <2>1, <2>2
  <1>2. \A s \in SUBSET S :
          /\ TotalCells(E, s \cap T) \in Nat /\ (s \cap T = {} => TotalCells(E, s \cap T) = 0)
          /\ \A y \in s \cap T :
               TotalCells(E, s \cap T) = Len(E[y]) + TotalCells(E, (s \cap T) \ {y})
    <2>1. ASSUME NEW s \in SUBSET S
          PROVE  /\ TotalCells(E, s \cap T) \in Nat
                 /\ s \cap T = {} => TotalCells(E, s \cap T) = 0
      <3> DEFINE q == s \cap T
      <3>1. IsFiniteSet(q) /\ \A x \in q : Len(E[x]) \in Nat
        BY <1>0, <1>b
      <3> HIDE DEF q
      <3>2. TotalCells(E, q) \in Nat /\ (q = {} => TotalCells(E, q) = 0)
        BY <3>1, TotalUnfolds, Zenon
      <3>q. QED
        BY <3>2 DEF q
    <2>2. ASSUME NEW s \in SUBSET S, NEW y \in s \cap T
          PROVE  TotalCells(E, s \cap T) = Len(E[y]) + TotalCells(E, (s \cap T) \ {y})
      <3> DEFINE q == s \cap T
      <3>1. IsFiniteSet(q) /\ (\A x \in q : Len(E[x]) \in Nat) /\ y \in q
        BY <1>0, <1>b
      <3> HIDE DEF q
      <3>2. TotalCells(E, q) = Len(E[y]) + TotalCells(E, q \ {y})
        BY <3>1, TotalWithout
      <3>q. QED
        BY <3>2 DEF q
    <2>q. QED
      BY <2>1, <2>2, Zenon
  <1>3. Bad = {}
    <2>1. SUFFICES ASSUME Bad # {} PROVE FALSE
      BY Zenon
    <2>2. PICK n \in Bad : \A m \in Bad : n <= m
      BY <2>1, LeastNumber, Zenon
    <2>3. PICK s \in SUBSET S : Cardinality(s) = n /\ ~Good(s)
      BY Zenon
    <2>4. PICK y \in s : TRUE
      BY <1>1, <1>2, <2>3
    <2>5. /\ s \ {y} \in SUBSET S
          /\ Cardinality(s \ {y}) \in Nat /\ ~(n <= Cardinality(s \ {y}))
      <3>1. /\ Cardinality(s) \in Nat /\ Cardinality(s \ {y}) \in Nat
            /\ Cardinality(s) = Cardinality(s \ {y}) + 1
        BY <1>0, PickFacts, Zenon
      <3>q. QED
        BY <2>3, <3>1
    <2>6. Good(s \ {y})
      <3> HIDE DEF Good
      <3>q. QED
        BY <2>2, <2>5
    <2>7. TotalCells(D, s) = Len(D[y]) + TotalCells(D, s \ {y}) /\ Len(D[y]) \in Nat
          /\ TotalCells(D, s \ {y}) \in Nat /\ TotalCells(E, (s \ {y}) \cap T) \in Nat
      BY <1>1, <1>2, <2>5, Zenon
    <2>8. CASE y \in T
      <3>1. (s \cap T) \ {y} = (s \ {y}) \cap T
        OBVIOUS
      <3>2. TotalCells(E, s \cap T) = Len(E[y]) + TotalCells(E, (s \ {y}) \cap T)
        BY <1>2, <2>8, <3>1, Zenon
      <3>3. Len(E[y]) \in Nat /\ Len(E[y]) <= Len(D[y])
        BY <2>8
      <3>4. TotalCells(E, (s \ {y}) \cap T) <= TotalCells(D, s \ {y})
        BY <2>6
      <3>5. ~(TotalCells(E, s \cap T) <= TotalCells(D, s))
        BY <2>3
      <3> DEFINE u == TotalCells(E, (s \ {y}) \cap T)
                 v == TotalCells(D, s \ {y})
                 le == Len(E[y])
                 ld == Len(D[y])
      <3>6. u \in Nat /\ v \in Nat /\ le \in Nat /\ ld \in Nat /\ u <= v /\ le <= ld
            /\ ~(le + u <= ld + v)
        BY <2>7, <3>2, <3>3, <3>4, <3>5
      <3> HIDE DEF u, v, le, ld
      <3>q. QED
        BY <3>6
    <2>9. CASE y \notin T
      <3>1. s \cap T = (s \ {y}) \cap T
        BY <2>9
      <3>2. TotalCells(E, (s \ {y}) \cap T) <= TotalCells(D, s \ {y})
            /\ ~(TotalCells(E, (s \ {y}) \cap T) <= TotalCells(D, s))
        BY <2>3, <2>6, <3>1, Zenon
      <3>q. QED
        BY <2>7, <3>2
    <2>q. QED
      BY <2>8, <2>9
  <1>4. Good(S)
    <2> HIDE DEF Good
    <2>q. QED
      BY <1>0, <1>3, Zenon
  <1>5. S \cap T = T
    OBVIOUS
  <1>q. QED
    BY <1>4, <1>5, Zenon

\* The log fits its bound or is one file.
Fits(D) == TotalCells(D, DOMAIN D) <= MaxCells \/ Cardinality(DOMAIN D) = 1

\* The directory holds finitely many files, each of some length.
LEMMA FilesFinite ==
  ASSUME IInv
  PROVE  IsFiniteSet(Segments) /\ \A s \in Segments : Len(disk[s]) \in Nat
  <1>1. \A s \in Segments : s \in 0 .. head_seq
    BY InvNumbers
  <1>2. IsFiniteSet(0 .. head_seq)
    BY FS_Interval, InvNumbers
  <1>3. IsFiniteSet(Segments)
    <2>1. Segments \in SUBSET (0 .. head_seq)
      BY <1>1
    <2>q. QED
      BY <1>2, <2>1, FS_Subset, Zenon
  <1>4. \A s \in Segments : Len(disk[s]) \in Nat
    BY AnySeq DEF IInv, Typed
  <1>q. QED
    BY <1>3, <1>4

\* Deleting files, or cutting one short, leaves a log that fits.
LEMMA FitsKept ==
  ASSUME NEW D, NEW E, IsFiniteSet(DOMAIN D), DOMAIN E \in SUBSET DOMAIN D, DOMAIN E # {},
         \A x \in DOMAIN D : Len(D[x]) \in Nat,
         \A x \in DOMAIN E : Len(E[x]) \in Nat /\ Len(E[x]) <= Len(D[x]),
         Fits(D)
  PROVE  Fits(E)
  <1>1. CASE TotalCells(D, DOMAIN D) <= MaxCells
    <2>1. TotalCells(E, DOMAIN E) <= TotalCells(D, DOMAIN D)
      BY TotalNoMore
    <2>2. TotalCells(D, DOMAIN D) \in Nat
      BY TotalUnfolds, Zenon
    <2>3. IsFiniteSet(DOMAIN E) /\ \A x \in DOMAIN E : Len(E[x]) \in Nat
      BY FS_Subset
    <2>4. TotalCells(E, DOMAIN E) \in Nat
      BY <2>3, TotalUnfolds, Zenon
    <2>q. QED
      BY <1>1, <2>1, <2>2, <2>4, SpoolAssumption DEF Fits
  <1>2. CASE Cardinality(DOMAIN D) = 1
    <2>1. PICK d : DOMAIN D = {d}
      BY <1>2, FS_Singleton, Zenon
    <2>2. DOMAIN E = {d}
      BY <2>1
    <2>q. QED
      BY <2>2, FS_Singleton, Zenon DEF Fits
  <1>q. QED
    BY <1>1, <1>2 DEF Fits

\* enforce_bound stops when the log fits.
LEMMA FitsAppendOk ==
  ASSUME IInv, AppendOk
  PROVE  Fits(disk')
  <1> DEFINE D == Written(Record(Event))
  <1>1. PICK m \in {-1} \cup (Segments \ {WriteSeq}) :
          /\ RemovesUpTo(D, m)
          /\ disk' = [s \in {t \in DOMAIN D : t > m} |-> D[s]]
    BY DEF AppendOk
  <1> DEFINE L == {s \in DOMAIN D : s > m}
  <1>2. TotalCells(D, L) <= MaxCells \/ Cardinality(L) <= 1
    BY <1>1 DEF RemovesUpTo
  <1>3. DOMAIN disk' = L /\ \A s \in L : disk'[s] = D[s]
    BY <1>1
  <1>4. IInv'
    BY AppendOkIInv
  <1>5. IsFiniteSet(DOMAIN disk') /\ DOMAIN disk' # {} /\ \A s \in DOMAIN disk' : Len(disk'[s]) \in Nat
    <2>1. /\ \A s \in DOMAIN disk' : s \in 0 .. head_seq'
          /\ head_seq' \in Nat /\ DOMAIN disk' # {}
          /\ disk' \in [DOMAIN disk' -> Seq(Int)]
      <3>1. /\ head_seq' \in Nat /\ DOMAIN disk' # {} /\ DOMAIN disk' \in SUBSET Nat
            /\ disk' \in [DOMAIN disk' -> Seq(Int)]
        BY <1>4, Zenon DEF IInv, Typed, Segments
      <3>2. \A s \in DOMAIN disk' : s <= head_seq'
        BY <1>4 DEF IInv, ResumesInsideLog, Segments
      <3>3. ASSUME NEW s \in DOMAIN disk' PROVE s \in 0 .. head_seq'
        <4>1. s \in Nat /\ s <= head_seq'
          BY <3>1, <3>2
        <4>q. QED
          BY <3>1, <4>1
      <3>q. QED
        BY <3>1, <3>3
    <2> DEFINE h == head_seq'
               S == DOMAIN disk'
    <2>2. h \in Nat /\ \A s \in S : s \in 0 .. h
      BY <2>1
    <2> HIDE DEF h, S
    <2>3. IsFiniteSet(0 .. h)
      BY <2>2, FS_Interval
    <2>4. IsFiniteSet(S)
      BY <2>2, <2>3, FS_Subset
    <2>5. \A s \in DOMAIN disk' : Len(disk'[s]) \in Nat
      BY <2>1, AnySeq
    <2>q. QED
      BY <2>1, <2>4, <2>5 DEF S
  <1> HIDE DEF L, D
  <1>6. CASE TotalCells(D, L) <= MaxCells
    <2>1. /\ IsFiniteSet(L) /\ \A s \in L : Len(disk'[s]) \in Nat
          /\ \A s \in L : Len(disk'[s]) = Len(D[s])
      BY <1>3, <1>5
    <2>2. TotalCells(disk', L) = TotalCells(D, L)
      BY <2>1, TotalSame
    <2>q. QED
      BY <1>3, <1>6, <2>2 DEF Fits
  <1>7. CASE Cardinality(L) <= 1
    <2>1. Cardinality(L) \in Nat /\ Cardinality(L) # 0
      BY <1>3, <1>5, FS_CardinalityType, FS_EmptySet
    <2>2. Cardinality(L) = 1
      BY <1>7, <2>1
    <2>q. QED
      BY <1>3, <2>2 DEF Fits
  <1>q. QED
    BY <1>2, <1>6, <1>7

\* open leaves the files there are, the last of them cut short at most.
LEMMA FitsOpen ==
  ASSUME IInv, Fits(disk), NEW last \in Segments, NEW cells \in Seq(Int),
         Len(cells) <= Len(disk[last]), Open(last, cells)
  PROVE  Fits(disk')
  <1>1. PICK end \in 0 .. Len(cells) : disk' = [disk EXCEPT ![last] = SubSeq(cells, 1, end)]
    BY Zenon DEF Open
  <1> DEFINE cut == SubSeq(cells, 1, end)
  <1>2. Len(cut) = end /\ Len(cells) \in Nat
    BY <1>1, AnyFront, AnySeq
  <1>3. IsFiniteSet(Segments) /\ \A s \in Segments : Len(disk[s]) \in Nat
    BY FilesFinite
  <1>4. end \in Nat /\ end <= Len(disk[last])
    BY <1>1, <1>2, <1>3
  <1>5. DOMAIN disk' = DOMAIN disk /\ disk'[last] = cut
        /\ \A s \in DOMAIN disk : s # last => disk'[s] = disk[s]
    BY <1>1 DEF Segments
  <1> HIDE DEF cut
  <1>6. \A s \in DOMAIN disk : Len(disk'[s]) \in Nat /\ Len(disk'[s]) <= Len(disk[s])
    <2>1. ASSUME NEW s \in DOMAIN disk
          PROVE  Len(disk'[s]) \in Nat /\ Len(disk'[s]) <= Len(disk[s])
      <3>1. CASE s = last
        BY <1>2, <1>4, <1>5, <3>1
      <3>2. CASE s # last
        <4>1. disk'[s] = disk[s] /\ Len(disk[s]) \in Nat
          BY <1>3, <1>5, <3>2 DEF Segments
        <4>q. QED
          BY <4>1
      <3>q. QED
        BY <3>1, <3>2
    <2>q. QED
      BY <2>1
  <1>7. /\ IsFiniteSet(DOMAIN disk) /\ DOMAIN disk' \in SUBSET DOMAIN disk /\ DOMAIN disk' # {}
        /\ \A s \in DOMAIN disk : Len(disk[s]) \in Nat
        /\ \A s \in DOMAIN disk' : Len(disk'[s]) \in Nat /\ Len(disk'[s]) <= Len(disk[s])
    BY <1>3, <1>5, <1>6 DEF Segments
  <1>q. QED
    BY <1>7, FitsKept

\* A restart, after a stop or a loss of power, lengthens no file.
LEMMA FitsRestart ==
  ASSUME IInv, Fits(disk), Restart \/ PowerLoss
  PROVE  Fits(disk')
  <1>1. CASE Restart
    <2>1. PICK last \in Segments : Open(last, disk[last])
      BY <1>1 DEF Restart
    <2>2. disk[last] \in Seq(Int) /\ Len(disk[last]) <= Len(disk[last])
      BY AnySeq DEF IInv, Typed
    <2>q. QED
      BY <2>1, <2>2, FitsOpen
  <1>2. CASE PowerLoss
    <2>1. PICK last \in Segments : \E n \in synced .. Len(disk[last]) :
            Open(last, SubSeq(disk[last], 1, n))
      BY <1>2 DEF PowerLoss
    <2>2. PICK n \in synced .. Len(disk[last]) : Open(last, SubSeq(disk[last], 1, n))
      BY <2>1
    <2>3. disk[last] \in Seq(Int) /\ Len(disk[last]) \in Nat /\ synced \in Nat
      BY AnySeq DEF IInv, Typed
    <2>4. n \in 0 .. Len(disk[last])
      BY <2>3
    <2>5. SubSeq(disk[last], 1, n) \in Seq(Int) /\ Len(SubSeq(disk[last], 1, n)) = n
      BY <2>3, <2>4, AnyFront
    <2>6. Len(SubSeq(disk[last], 1, n)) <= Len(disk[last])
      BY <2>3, <2>4, <2>5
    <2>q. QED
      BY <2>2, <2>5, <2>6, FitsOpen, Zenon
  <1>q. QED
    BY <1>1, <1>2

\* advance deletes segments and changes none.
LEMMA FitsAdvance ==
  ASSUME IInv, Fits(disk), AdvanceOk
  PROVE  Fits(disk')
  <1>1. DOMAIN disk' \in SUBSET DOMAIN disk /\ \A s \in DOMAIN disk' : disk'[s] = disk[s]
    BY DEF AdvanceOk, Kept, Segments
  <1>2. DOMAIN disk' # {}
    <2>1. IInv'
      BY AdvanceIInv
    <2>q. QED
      BY <2>1 DEF IInv, Typed, Segments
  <1>3. IsFiniteSet(DOMAIN disk) /\ \A s \in DOMAIN disk : Len(disk[s]) \in Nat
    BY FilesFinite DEF Segments
  <1>4. \A s \in DOMAIN disk' : Len(disk'[s]) \in Nat /\ Len(disk'[s]) <= Len(disk[s])
    <2>1. ASSUME NEW s \in DOMAIN disk'
          PROVE  Len(disk'[s]) \in Nat /\ Len(disk'[s]) <= Len(disk[s])
      <3>1. disk'[s] = disk[s] /\ Len(disk[s]) \in Nat
        BY <1>1, <1>3
      <3>q. QED
        BY <3>1
    <2>q. QED
      BY <2>1
  <1>q. QED
    BY <1>1, <1>2, <1>3, <1>4, FitsKept

\* Every step keeps the log within its bound, as long as no listing failed and no write
\* was torn.
LEMMA FitsStep ==
  ASSUME IInv, FitsTheBound, [Next]_vars
  PROVE  FitsTheBound'
  <1>1. SUFFICES ASSUME faults'.io = 0, faults'.torn = 0 PROVE Fits(disk')
    BY DEF FitsTheBound, Fits, Segments
  <1>2. faults \in [{"io", "read", "torn", "restart", "power"} -> Nat]
    BY DEF IInv, Typed, FaultKinds
  <1>3. ~Fault("io") /\ ~Fault("torn")
    BY <1>1, <1>2 DEF Fault
  <1>4. CASE AppendOk
    BY <1>4, FitsAppendOk
  <1>5. ASSUME faults' = faults \/ Fault("read") \/ Fault("restart") \/ Fault("power")
        PROVE  Fits(disk)
    <2>1. faults.io = 0 /\ faults.torn = 0
      BY <1>1, <1>2, <1>5 DEF Fault
    <2>q. QED
      BY <2>1 DEF FitsTheBound, Fits, Segments
  <1>6. CASE AppendRefused \/ AppendTorn \/ AppendUnlisted \/ RotateFails
             \/ AdvanceUnpersisted \/ AdvanceUnlisted
    BY <1>3, <1>6
    DEF AppendRefused, AppendTorn, AppendUnlisted, AppendErr, RotateFails, AdvanceUnpersisted,
        AdvanceUnlisted
  <1>7. CASE Peek \/ PeekReadError \/ AdvanceGone \/ Sync \/ UNCHANGED vars
    <2>1. disk' = disk /\ (faults' = faults \/ Fault("read"))
      BY <1>7 DEF Peek, PeekReadError, AdvanceGone, Sync, vars
    <2>q. QED
      BY <1>5, <2>1
  <1>8. CASE AdvanceOk
    <2>1. faults' = faults
      BY <1>8 DEF AdvanceOk
    <2>q. QED
      BY <1>5, <1>8, <2>1, FitsAdvance
  <1>9. CASE Restart \/ PowerLoss
    <2>1. Fault("restart") \/ Fault("power")
      BY <1>9 DEF Restart, PowerLoss
    <2>q. QED
      BY <1>5, <1>9, <2>1, FitsRestart
  <1>q. QED
    BY <1>4, <1>6, <1>7, <1>8, <1>9 DEF Next

\* Unless a listing failed or a write was torn, the log on disk fits max_bytes or is the
\* head alone: whatever order append, peek, advance, sync, restarts and power losses come
\* in, enforce_bound has left nothing more to remove.
THEOREM SpoolFitsTheBound == Spec => []FitsTheBound
  <1> DEFINE Inv == IInv /\ FitsTheBound
  <1>1. Init => Inv
    <2>1. ASSUME Init PROVE FitsTheBound
      <3>1. Segments = {0}
        BY <2>1 DEF Init, Segments
      <3>q. QED
        BY <3>1, FS_Singleton, Zenon DEF FitsTheBound
    <2>q. QED
      BY <2>1, InitIInv
  <1>2. Inv /\ [Next]_vars => Inv'
    BY NextIInv, FitsStep
  <1>q. QED
    BY <1>1, <1>2, PTL DEF Spec
=============================================================================
