----------------------------- MODULE SpoolQueue -----------------------------
(***************************************************************************)
(* What the disk spool promises its two callers, the publish path and the  *)
(* drain task (rust/connectors/common/src/spool.rs): a first-in first-out  *)
(* log that loses records only at its oldest end, and a reader that may    *)
(* have to repeat what it read after the last persisted position.          *)
(***************************************************************************)
EXTENDS Integers, Sequences

CONSTANT Events   \* what append is called with

ASSUME SpoolQueueAssumption == Events \subseteq Nat \ {0}

VARIABLES
  log,   \* the records from the persisted cursor on, oldest first
  pos,   \* how many of them the drain has passed since
  held   \* the record the drain peeked and has not settled

\* held, when the drain holds nothing, and when what it holds is gone.
None == 0
Dropped == -1

queueVars == <<log, pos, held>>

\* The records the drain has still to read.
Backlog == SubSeq(log, pos + 1, Len(log))

QueueInit ==
  /\ log = <<>>
  /\ pos = 0
  /\ held = None

\* append, a stack by mistake.
PutFirst(e, k) ==
  /\ log' = <<e>> \o SubSeq(log, 1, Len(log) - k)
  /\ pos' = IF pos > k THEN pos - k ELSE 0
  /\ held' = IF held # None THEN Dropped ELSE held
\* append: the record is put last, and at the bound the k oldest go, with
\* them perhaps the one the drain holds.
Put(e, k) ==
  /\ log' = SubSeq(log, k + 1, Len(log)) \o <<e>>
  /\ pos' = IF pos > k THEN pos - k ELSE 0
  /\ held' = IF held # None /\ k > pos THEN Dropped ELSE held

\* peek: the oldest record not passed, if there is one.
Take ==
  /\ held' = IF pos < Len(log) THEN log[pos + 1] ELSE None
  /\ UNCHANGED <<log, pos>>

HoldsOldest == pos < Len(log) /\ held = log[pos + 1]

\* advance, for the record held.
Settle ==
  /\ HoldsOldest
  /\ held' = None
  /\ log' = SubSeq(log, pos + 2, Len(log))
  /\ pos' = 0

\* advance, when the cursor file cannot be written.
SettleInMemory ==
  /\ HoldsOldest
  /\ held' = None
  /\ pos' = pos + 1
  /\ UNCHANGED log

\* advance, for a record dropped at the bound since peek: refused.
SettleDropped ==
  /\ held = Dropped
  /\ held' = None
  /\ UNCHANGED <<log, pos>>

\* open: the reader is back at the persisted position.
Reopen ==
  /\ pos' = 0
  /\ held' = None
  /\ UNCHANGED log

QueueNext ==
  \/ \E e \in Events : \E k \in 0 .. Len(log) : Put(e, k)
  \/ Take \/ Settle \/ SettleInMemory \/ SettleDropped
  \/ Reopen

=============================================================================
