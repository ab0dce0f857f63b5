-------------------------- MODULE SpoolRefinement --------------------------
(* The segment files, cursors and deletions of Spool implement SpoolQueue. *)
EXTENDS Spool

\* The records of a segment from `offset` on.
RecordsIn(cells, offset) ==
  [i \in 1 .. (Len(cells) - offset) \div 2 |-> cells[offset + 2 * i - 1]]

\* Those of segment s that a reader at c has before it, in the files D.
Share(D, c, s) ==
  IF s \in DOMAIN D /\ s >= c.seg THEN RecordsIn(D[s], EntryOf(c, s).offset) ELSE <<>>

\* The shares of the segments numbered below N, oldest first.
Joined(D, c, N) ==
  LET below[n \in 0 .. N] == IF n = 0 THEN <<>> ELSE below[n - 1] \o Share(D, c, n - 1)
  IN  below[N]

\* The records from position c to the head.
RecordsFrom(c) == Joined(disk, c, head_seq + 1)

Queue == INSTANCE SpoolQueue WITH
  Events <- 1 .. MaxEvents,
  log  <- RecordsFrom(persisted),
  pos  <- Len(RecordsFrom(persisted)) - Len(RecordsFrom(cursor)),
  held <- IF peeked = NoCursor THEN 0
          ELSE IF ReadableAt(peeked) THEN IdAt(peeked) ELSE -1

Undamaged == faults.torn = 0 /\ faults.read = 0 /\ faults.power = 0

\* Appends, rotations, drops at the bound, reads, confirmations, their failures
\* and restarts are, seen from outside, steps of one first-in first-out log, until
\* a write is torn, a segment cannot be read or power is lost.
ImplementsQueue ==
  Queue!QueueInit /\ [][Undamaged' => Queue!QueueNext]_(Queue!queueVars)
=============================================================================
