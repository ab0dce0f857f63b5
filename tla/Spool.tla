------------------------------- MODULE Spool -------------------------------
(***************************************************************************)
(* The store-and-forward disk spool of a connector                         *)
(* (rust/connectors/common/src/spool.rs): a bounded log cut into numbered  *)
(* segment files, appended to by the publish path, read and confirmed by   *)
(* the drain task, reopened after a crash.                                 *)
(*                                                                         *)
(* Bytes are abstracted to cells.  The record of event e is two cells: e   *)
(* for the length prefix and the id, -e for the sealed envelope.  A write  *)
(* cut short leaves the first cell alone.  An offset counts cells, so a    *)
(* reader that starts on a second cell reads lengths out of payload bytes; *)
(* those exceed what is left of the file, and the read answers "no record".*)
(*                                                                         *)
(* Events are numbered in the order append is called with them.            *)
(***************************************************************************)
EXTENDS Integers, Sequences, FiniteSetsExt

CONSTANTS
  MaxEvents,    \* bound: calls of append
  SegmentCells, \* SEGMENT_BYTES: a head this long is rotated before a write
  MaxCells,     \* max_bytes: the bound on the whole log
  MaxIoErrors,  \* bound: failed writes and listings that tear no record
  MaxReadErrors,\* bound: failed reads of a segment that exists
  MaxTorn,      \* bound: appends that fail half way through the write
  MaxRestarts,  \* bound: process deaths
  MaxPowerLoss  \* bound: losses of power

ASSUME SpoolAssumption ==
  /\ MaxEvents \in Nat
  /\ SegmentCells \in Nat \ {0}
  /\ MaxCells \in Nat
  /\ MaxIoErrors \in Nat
  /\ MaxReadErrors \in Nat
  /\ MaxTorn \in Nat
  /\ MaxRestarts \in Nat
  /\ MaxPowerLoss \in Nat

VARIABLES
  disk,       \* the segment files: sequence number -> cells
  synced,     \* cells of the last segment file known to be on the platter
  persisted,  \* the cursor file
  head_seq,   \* the number of the segment being appended to
  head_len,   \* its length, as append counts it
  cursor,     \* where the next drain read happens
  peeked,     \* the cursor the drain holds between peek and advance
  dropped_segments,
  fate,       \* history: what became of each event handed to append
  faults      \* how many faults of each kind have happened

vars == <<disk, synced, persisted, head_seq, head_len, cursor, peeked,
          dropped_segments, fate, faults>>

\* What a read or a file operation answers with when there is nothing.
NoCursor == [seg |-> -1, offset |-> 0]

Segments == DOMAIN disk
IsFirst(s) == s \in Segments /\ \A t \in Segments : s <= t
IsLast(s) == s \in Segments /\ \A t \in Segments : t <= s
TotalCells(D, segs) == MapThenSumSet(LAMBDA s : Len(D[s]), segs)

Record(e) == <<e, -e>>
\* The environment's faults, each within its bound.
FaultBound == [io |-> MaxIoErrors, read |-> MaxReadErrors, torn |-> MaxTorn,
               restart |-> MaxRestarts, power |-> MaxPowerLoss]
Fault(f) ==
  /\ faults[f] < FaultBound[f]
  /\ faults' = [faults EXCEPT ![f] = @ + 1]

----------------------------------------------------------------------------
(* Reading a record: read_record and read_record_at. *)

\* A whole length-prefixed record starts at `offset` of this file.
Readable(cells, offset) ==
  offset + 2 <= Len(cells) /\ cells[offset + 1] > 0

ReadableAt(c) == c.seg \in Segments /\ Readable(disk[c.seg], c.offset)
IdAt(c) == disk[c.seg][c.offset + 1]
\* The seal of the record read at c verifies (the drain's check).
VerifiesAt(c) == disk[c.seg][c.offset + 2] = -IdAt(c)
After(c) == [c EXCEPT !.offset = @ + 2]

\* Where a walk that starts at cursor c enters segment s.
EntryOf(c, s) == IF s = c.seg THEN c ELSE [seg |-> s, offset |-> 0]

\* truncate_torn_tail: records parse one after the other up to `end`.
ParsesUpTo(cells, end) ==
  /\ end % 2 = 0
  /\ \A o \in 0 .. end - 1 : o % 2 = 0 => Readable(cells, o)
  /\ ~Readable(cells, end)

----------------------------------------------------------------------------
(* append, with rotate and enforce_bound. *)

Event == Len(fate) + 1
\* History: append took the event and it is neither delivered nor dropped.
Live == {"spooled", "exposed", "skipped"}
Rotates == head_len >= SegmentCells
WriteSeq == IF Rotates THEN head_seq + 1 ELSE head_seq
LenBefore == IF Rotates THEN 0 ELSE head_len

\* The segment files after `cells` are written at the end of the head.
Written(cells) ==
  [s \in Segments \cup {WriteSeq} |->
     IF s # WriteSeq THEN disk[s]
     ELSE IF Rotates THEN cells ELSE disk[s] \o cells]

\* What every append that got past rotate does.  rotate fsyncs the old head
\* before it leaves it, so only the last file ever has unsynced cells.
WriteHeadSameNumber ==
  /\ head_seq' = head_seq
  /\ synced' = IF Rotates THEN 0 ELSE synced
WriteHead ==
  /\ head_seq' = WriteSeq
  /\ synced' = IF Rotates THEN 0 ELSE synced

RemovesUpToOneSpare(D, m) ==
  LET Left(k) == {s \in DOMAIN D : s > k}
      Stops(k) == \/ TotalCells(D, Left(k)) <= MaxCells
                  \/ Cardinality(Left(k)) <= 2
  IN  Stops(m) /\ \A k \in DOMAIN D \cup {-1} : k < m => ~Stops(k)
\* enforce_bound, on files D, removes oldest first and stops once it has
\* removed up to segment m: what is left fits the bound or is one segment.
RemovesUpTo(D, m) ==
  LET Left(k) == {s \in DOMAIN D : s > k}
      Stops(k) == \/ TotalCells(D, Left(k)) <= MaxCells
                  \/ Cardinality(Left(k)) <= 1
  IN  Stops(m) /\ \A k \in DOMAIN D \cup {-1} : k < m => ~Stops(k)

\* enforce_bound takes the cursor out of the segments it removed.
BumpedNever(m) == cursor
Bumped(m) ==
  IF cursor.seg <= m THEN [seg |-> m + 1, offset |-> 0] ELSE cursor

\* Events whose record leaves the log D, undelivered, with segments up to m.
Shed(D, m) ==
  {e \in DOMAIN fate :
     /\ fate[e] \in Live
     /\ \E s \in DOMAIN D : s <= m /\ \E i \in DOMAIN D[s] : D[s][i] = e}

\* History: an event appended behind the bytes of a torn write, or behind a
\* cursor that a loss of power left past the end of the file, is exposed.
HeadIsSound ==
  LET file == IF Rotates THEN <<>> ELSE disk[head_seq]
  IN  /\ ParsesUpTo(file, Len(file))
      /\ cursor.seg = WriteSeq => cursor.offset <= Len(file)

\* append returns Ok: the record is written and the bound enforced.
AppendOk ==
  /\ Event <= MaxEvents
  /\ WriteHead
  /\ head_len' = LenBefore + 2
  /\ LET D == Written(Record(Event))
     IN  \E m \in {-1} \cup (Segments \ {WriteSeq}) :
           /\ RemovesUpTo(D, m)
           /\ disk' = [s \in {t \in DOMAIN D : t > m} |-> D[s]]
           /\ dropped_segments' =
                dropped_segments + Cardinality({s \in DOMAIN D : s <= m})
           /\ cursor' = Bumped(m)
           /\ fate' = Append([e \in DOMAIN fate |->
                                IF e \in Shed(D, m) THEN "dropped" ELSE fate[e]],
                             IF HeadIsSound THEN "spooled" ELSE "exposed")
  /\ UNCHANGED <<persisted, peeked, faults>>

\* append returns Err after `cells` of the record reached the file.
AppendErr(cells, counted, fault) ==
  /\ Event <= MaxEvents
  /\ Fault(fault)
  /\ WriteHead
  /\ head_len' = LenBefore + counted
  /\ disk' = Written(cells)
  /\ fate' = Append(fate, "failed")
  /\ UNCHANGED <<persisted, cursor, peeked, dropped_segments>>

\* write_all fails before the first byte (permissions, a full disk).
AppendRefused == AppendErr(<<>>, 0, "io")
\* write_all fails half way through: the disk fills up under it.
AppendTorn == AppendErr(<<Event>>, 0, "torn")
\* The record is written; enforce_bound cannot list the directory.
AppendUnlisted == AppendErr(Record(Event), 2, "io")

\* rotate cannot create the next file: head_seq has moved, the head has not.
RotateFails ==
  /\ Event <= MaxEvents
  /\ Rotates
  /\ Fault("io")
  /\ head_seq' = head_seq + 1
  /\ \E last \in Segments : IsLast(last) /\ synced' = Len(disk[last])
  /\ fate' = Append(fate, "failed")
  /\ UNCHANGED <<disk, persisted, head_len, cursor, peeked, dropped_segments>>

----------------------------------------------------------------------------
(* peek and advance, the drain's two calls. *)

\* The walk of peek from c ends in segment s: every earlier one is missing or
\* has no record left, and s has one or is the head.
Ends(c, s) ==
  /\ s \in c.seg .. head_seq
  /\ ReadableAt(EntryOf(c, s)) \/ s = head_seq
  /\ \A t \in c.seg .. s - 1 : ~ReadableAt(EntryOf(c, t))

PeekFrom(c) ==
  \E s \in c.seg .. head_seq :
    /\ Ends(c, s)
    /\ cursor' = EntryOf(c, s)
    /\ peeked' = IF ReadableAt(EntryOf(c, s)) THEN EntryOf(c, s) ELSE NoCursor

Peek ==
  /\ PeekFrom(cursor)
  /\ UNCHANGED <<disk, synced, persisted, head_seq, head_len,
                 dropped_segments, fate, faults>>

\* Opening the cursor's segment fails although it exists.
PeekReadError ==
  /\ cursor.seg \in Segments
  /\ cursor.seg < head_seq
  /\ Fault("read")
  /\ PeekFrom([seg |-> cursor.seg + 1, offset |-> 0])
  /\ fate' = [e \in DOMAIN fate |->
                IF fate[e] \in Live
                   /\ \E i \in DOMAIN disk[cursor.seg] : disk[cursor.seg][i] = e
                THEN "skipped" ELSE fate[e]]
  /\ UNCHANGED <<disk, synced, persisted, head_seq, head_len, dropped_segments>>

\* The drain has passed the record it holds: past this point a record whose
\* seal verifies was delivered, and one whose seal does not was skipped.
Confirmed ==
  LET e == IdAt(peeked)
  IN  fate' = IF VerifiesAt(peeked) /\ fate[e] \in Live
              THEN [fate EXCEPT ![e] = "drained"] ELSE fate

\* The in-memory half of advance.
MoveCursor ==
  /\ peeked # NoCursor
  /\ ReadableAt(peeked)
  /\ cursor' = After(peeked)
  /\ Confirmed
  /\ peeked' = NoCursor
  /\ UNCHANGED <<synced, head_seq, head_len, dropped_segments>>

\* The files advance leaves: it deletes the segments behind the new cursor.
Kept(c) == [s \in {t \in Segments : t >= c.seg} |-> disk[s]]

\* advance returns Ok: the cursor is persisted, segments behind it deleted.
AdvanceOk ==
  /\ MoveCursor
  /\ persisted' = cursor'
  /\ disk' = Kept(cursor')
  /\ UNCHANGED faults

\* The cursor file cannot be written: advance returns before the deletions.
AdvanceUnpersisted ==
  /\ MoveCursor
  /\ Fault("io")
  /\ UNCHANGED <<disk, persisted>>

\* The directory cannot be listed, so nothing is deleted.
AdvanceUnlisted ==
  /\ MoveCursor
  /\ Fault("io")
  /\ persisted' = cursor'
  /\ UNCHANGED disk

\* The segment was dropped at the bound after peek: advance changes nothing.
AdvanceGone ==
  /\ peeked # NoCursor
  /\ ~ReadableAt(peeked)
  /\ peeked' = NoCursor
  /\ UNCHANGED <<disk, synced, persisted, head_seq, head_len, cursor,
                 dropped_segments, fate, faults>>

----------------------------------------------------------------------------
(* sync at shutdown, and open after the process died. *)

Sync ==
  /\ \E last \in Segments : IsLast(last) /\ synced' = Len(disk[last])
  /\ UNCHANGED <<disk, persisted, head_seq, head_len, cursor, peeked,
                 dropped_segments, fate, faults>>

\* open resumes where the cursor file says; without one, at the oldest byte.
ResumeAtHead(c) ==
  IF persisted = NoCursor THEN IsLast(c.seg) /\ c.offset = 0 ELSE c = persisted
Resume(c) ==
  IF persisted = NoCursor THEN IsFirst(c.seg) /\ c.offset = 0 ELSE c = persisted

\* open, on a directory whose last file now holds `cells`.
Open(last, cells) ==
  /\ \E end \in 0 .. Len(cells) :
       /\ ParsesUpTo(cells, end)
       /\ disk' = [disk EXCEPT ![last] = SubSeq(cells, 1, end)]
       /\ head_len' = end
  /\ head_seq' = last
  /\ \E c \in [seg : Segments, offset : {0}] \cup {persisted} :
       Resume(c) /\ cursor' = c
  /\ peeked' = NoCursor
  /\ dropped_segments' = 0
  /\ UNCHANGED persisted

\* The process dies and starts again; the page cache survives it.
Restart ==
  /\ Fault("restart")
  /\ \E last \in Segments : IsLast(last) /\ Open(last, disk[last])
  /\ synced' = IF synced <= head_len' THEN synced ELSE head_len'
  /\ UNCHANGED fate

\* Power is lost: of the last file, only a prefix that covers what was synced
\* is left.  An event cut off with the rest is lost as the README says.
PowerLoss ==
  /\ Fault("power")
  /\ \E last \in Segments : \E n \in synced .. Len(disk[last]) :
       /\ IsLast(last)
       /\ Open(last, SubSeq(disk[last], 1, n))
       /\ fate' = [e \in DOMAIN fate |->
                     IF fate[e] \in Live
                        /\ \E i \in n + 1 .. Len(disk[last]) : disk[last][i] = -e
                     THEN "unsynced" ELSE fate[e]]
  /\ synced' = head_len'

----------------------------------------------------------------------------
Init ==
  /\ disk = [s \in {0} |-> <<>>]
  /\ synced = 0
  /\ persisted = NoCursor
  /\ head_seq = 0
  /\ head_len = 0
  /\ cursor = [seg |-> 0, offset |-> 0]
  /\ peeked = NoCursor
  /\ dropped_segments = 0
  /\ fate = <<>>
  /\ faults = [io |-> 0, read |-> 0, torn |-> 0, restart |-> 0, power |-> 0]

Next ==
  \/ AppendOk \/ AppendRefused \/ AppendTorn \/ AppendUnlisted \/ RotateFails
  \/ Peek \/ PeekReadError
  \/ AdvanceOk \/ AdvanceUnpersisted \/ AdvanceUnlisted \/ AdvanceGone
  \/ Sync \/ Restart \/ PowerLoss

Spec == Init /\ [][Next]_vars

----------------------------------------------------------------------------
(* Properties. *)

Cursor == [seg : Nat, offset : Nat]

\* Every variable has the shape the code gives it (struct Spool and its
\* directory): at least one segment file, Nat cursors, a fate per event.
TypeOK ==
  /\ disk \in [Segments -> Seq(Int)]
  /\ Segments \in SUBSET Nat
  /\ Segments # {}
  /\ synced \in Nat
  /\ persisted \in Cursor \cup {NoCursor}
  /\ head_seq \in Nat
  /\ head_len \in Nat
  /\ cursor \in Cursor
  /\ peeked \in Cursor \cup {NoCursor}
  /\ dropped_segments \in Nat
  /\ fate \in Seq(Live \cup {"failed", "dropped", "drained", "unsynced"})
  /\ faults \in [{"io", "read", "torn", "restart", "power"} -> Nat]

\* The events a drain that starts at the cursor will still read and verify.
Pending ==
  {e \in DOMAIN fate :
     \E s \in Segments : \E o \in 0 .. Len(disk[s]) :
       LET from == EntryOf(cursor, s).offset
           at == [seg |-> s, offset |-> o]
       IN  /\ s >= cursor.seg
           /\ o >= from
           /\ (o - from) % 2 = 0
           /\ \A p \in from .. o : (p - from) % 2 = 0 => Readable(disk[s], p)
           /\ IdAt(at) = e
           /\ VerifiesAt(at)}

\* "Minutes of outage become replication lag, not loss": an event append
\* accepted is still ahead of the drain until it is confirmed or its segment
\* is dropped at the bound, through every order of append, rotate,
\* enforce_bound, peek, advance, failed calls, restarts and power losses.  A
\* torn write or a lost tail takes no event but those appended behind it to
\* the same file, a failed read none outside the segment it failed on.
NothingLost == \A e \in DOMAIN fate : fate[e] = "spooled" => e \in Pending

\* c is at or before d in the log.
AtOrBefore(c, d) == c.seg < d.seg \/ (c.seg = d.seg /\ c.offset <= d.offset)

\* The drain's position never moves backwards while the process lives, though an
\* advance may come with a cursor peeked before enforce_bound moved it; and a
\* segment file is deleted, by the bound or by advance, only behind it.
DrainOnlyForward ==
  [][/\ faults'.restart = faults.restart /\ faults'.power = faults.power
          => AtOrBefore(cursor, cursor')
     /\ \A s \in Segments \ Segments' : s < cursor'.seg]_vars

\* The cursor file never runs ahead of the drain, nor past the last segment
\* file: a restart resumes at or before the drain, inside the log.
ResumesInsideLog ==
  /\ AtOrBefore(persisted, cursor)
  /\ \E s \in Segments : persisted.seg <= s
  /\ cursor.seg <= head_seq
  /\ \A s \in Segments : s <= head_seq

\* Unless a listing failed or a write was torn, the log on disk fits the
\* bound or is the head alone: enforce_bound leaves nothing more to remove.
FitsTheBound ==
  faults.io = 0 /\ faults.torn = 0
    => TotalCells(disk, Segments) <= MaxCells \/ Cardinality(Segments) = 1
=============================================================================
