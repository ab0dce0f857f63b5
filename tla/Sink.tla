-------------------------------- MODULE Sink --------------------------------
(***************************************************************************)
(* ajar-sink: the development sink.  It verifies every event received from *)
(* the bus under its publisher's registered key, appends it to a           *)
(* hash-chained SQLite table, and re-verifies the whole table on demand.   *)
(*                                                                         *)
(* A hash is the sequence of the sealed payloads it covers: SHA-256 is     *)
(* taken to be collision free, so link(prev, sealed) is Append.  A sealed  *)
(* payload is what decides its fate: the source it names inside its signed *)
(* bytes, a serial number, and the key it was signed with.                 *)
(*                                                                         *)
(* `recorded` is history: every payload ever committed, in commit order.   *)
(* So are `overlapped`, two sinks have been appending at once, and         *)
(* `exchanged`, rows have been exchanged, and a sink has since built on    *)
(* what it found at the end of the table.                                  *)
(***************************************************************************)
EXTENDS Integers, Sequences

CONSTANTS Sources,       \* the source_ids connectors sign as
          Sinks,         \* the `ajar-sink run` processes on the database
          MaxKeys,       \* bound: keypairs ever generated
          MaxSerial,     \* bound: payloads per source and key
          MaxRecords,    \* bound: rows ever inserted
          MaxTampers,    \* bound: changes to the table behind the sink's back
          MaxFailures    \* bound: crashes and failed appends

ASSUME SinkAssumption ==
  /\ MaxKeys \in Nat /\ MaxSerial \in Nat /\ MaxRecords \in Nat
  /\ MaxTampers \in Nat /\ MaxFailures \in Nat

VARIABLES
  seeds,     \* <dir>/<source_id>.seed, by source
  pubs,      \* <dir>/<source_id>.pub, by source: what a sink registers
  minter,    \* the running `mint` command
  sink,      \* each sink process
  table,     \* the rows of `record`, by seq
  rowid,     \* SQLite's AUTOINCREMENT counter
  recorded,  \* history
  overlapped,
  exchanged,
  tampers, failures

fileVars == <<seeds, pubs, minter>>
dbVars == <<table, rowid, recorded, overlapped, exchanged>>
sinkVars == <<fileVars, sink, dbVars, tampers, failures>>

None == 0
Keys == 1 .. MaxKeys
Sealed == [source : Sources, serial : 1 .. MaxSerial, key : Keys]
GENESIS == <<>>

Link(prev, sealed) == Append(prev, sealed)

NotMinting == [pc |-> "idle", source |-> None, key |-> None]
NoSealed == [source |-> None, serial |-> 0, key |-> None]
SinkDown == [pc |-> "down", keys |-> <<>>,
             sealed |-> NoSealed, prev |-> GENESIS]

Failure == failures < MaxFailures /\ failures' = failures + 1
Tamper == tampers < MaxTampers /\ tampers' = tampers + 1
-----------------------------------------------------------------------------
(* mint *)

FreshKeys == {k \in Keys : \A s \in Sources : seeds[s] < k}

\* mint with no seed on disk: the seed is written first.
MintSeedOverwrites(s, k) ==
  /\ minter.pc = "idle"
  /\ seeds' = [seeds EXCEPT ![s] = k]
  /\ minter' = [pc |-> "pub", source |-> s, key |-> k]
  /\ UNCHANGED <<pubs, sink, dbVars, tampers, failures>>
MintSeed(s, k) ==
  /\ minter.pc = "idle"
  /\ seeds[s] = None
  /\ seeds' = [seeds EXCEPT ![s] = k]
  /\ minter' = [pc |-> "pub", source |-> s, key |-> k]
  /\ UNCHANGED <<pubs, sink, dbVars, tampers, failures>>

\* ... and then the public key.
MintPub ==
  /\ minter.pc = "pub"
  /\ pubs' = [pubs EXCEPT ![minter.source] = minter.key]
  /\ minter' = NotMinting
  /\ UNCHANGED <<seeds, sink, dbVars, tampers, failures>>

\* mint with a seed on disk, "already exists, keeping it", changes nothing; and
\* it may die between the two files.
MintDies ==
  /\ minter.pc = "pub"
  /\ Failure
  /\ minter' = NotMinting
  /\ UNCHANGED <<seeds, pubs, sink, dbVars, tampers>>
-----------------------------------------------------------------------------
(* run *)

\* Config::keys: the sources that have a public key on disk.
RegisteredKeys == [s \in {t \in Sources : pubs[t] # None} |-> pubs[s]]

\* The keys are read once, at startup; with none, run refuses to start.
Start(p) ==
  /\ sink[p].pc = "down"
  /\ DOMAIN RegisteredKeys # {}
  /\ sink' = [sink EXCEPT ![p].pc = "ready", ![p].keys = RegisteredKeys]
  /\ UNCHANGED <<fileVars, dbVars, tampers, failures>>

Verifies(sealed, key) == sealed.key = key

\* accept: the key is looked up by the source inside the signed bytes.
AcceptUnverified(sealed, keys) == sealed.source \in DOMAIN keys
Accept(sealed, keys) ==
  /\ sealed.source \in DOMAIN keys
  /\ Verifies(sealed, keys[sealed.source])

ChainHead == IF table = <<>> THEN GENESIS ELSE table[Len(table)].hash

\* A message arrives and is accepted; append reads the head of the chain, in
\* no transaction.  What is refused changes nothing.
Receive(p, sealed) ==
  /\ sink[p].pc = "ready"
  /\ rowid < MaxRecords
  /\ Accept(sealed, sink[p].keys)
  /\ sink' = [sink EXCEPT ![p].pc = "append", ![p].sealed = sealed,
                          ![p].prev = ChainHead]
  /\ overlapped' = (overlapped \/ \E q \in Sinks : sink[q].pc = "append")
  /\ exchanged' = IF exchanged = "no" THEN "no" ELSE "built on"
  /\ UNCHANGED <<fileVars, table, rowid, recorded, tampers, failures>>

Row(seq, sealed, prev) ==
  [seq |-> seq, source |-> sealed.source, sealed |-> sealed, prev |-> prev,
   hash |-> Link(prev, sealed)]

\* The INSERT commits: the index on record_hash finds no equal row.
Commit(p) ==
  LET row == Row(rowid + 1, sink[p].sealed, sink[p].prev)
  IN  /\ sink[p].pc = "append"
      /\ \A i \in DOMAIN table : table[i].hash # row.hash
      /\ table' = Append(table, row)
      /\ rowid' = rowid + 1
      /\ recorded' = Append(recorded, row.sealed)
      /\ sink' = [sink EXCEPT ![p].pc = "ready", ![p].sealed = NoSealed,
                              ![p].prev = GENESIS]
      /\ UNCHANGED <<fileVars, overlapped, exchanged, tampers, failures>>

\* Two sinks linked the same payload to the same head: the second INSERT
\* violates the unique index, and the error ends `run`.
CommitConflicts(p) ==
  /\ sink[p].pc = "append"
  /\ \E i \in DOMAIN table :
       table[i].hash = Link(sink[p].prev, sink[p].sealed)
  /\ sink' = [sink EXCEPT ![p] = SinkDown]
  /\ UNCHANGED <<fileVars, dbVars, tampers, failures>>

\* A failed append ends `run` as well; so does a crash or an interrupt.
Stop(p) ==
  /\ sink[p].pc # "down"
  /\ Failure
  /\ sink' = [sink EXCEPT ![p] = SinkDown]
  /\ UNCHANGED <<fileVars, dbVars, tampers>>
-----------------------------------------------------------------------------
(* The table changed by something other than the sink. *)

Without(s, i) == SubSeq(s, 1, i - 1) \o SubSeq(s, i + 1, Len(s))

DeleteRow(i) ==
  /\ Tamper
  /\ table' = Without(table, i)
  /\ UNCHANGED <<fileVars, sink, rowid, recorded, overlapped, exchanged, failures>>

EditRow(i, sealed) ==
  /\ table[i].sealed # sealed
  /\ Tamper
  /\ table' = [table EXCEPT ![i].sealed = sealed, ![i].source = sealed.source]
  /\ UNCHANGED <<fileVars, sink, rowid, recorded, overlapped, exchanged, failures>>

\* Two rows exchange everything but their position.
SwapRows(i, j) ==
  /\ i < j
  /\ Tamper
  /\ table' = [table EXCEPT ![i] = [table[j] EXCEPT !.seq = table[i].seq],
                            ![j] = [table[i] EXCEPT !.seq = table[j].seq]]
  /\ exchanged' = IF exchanged = "no" THEN "yes" ELSE exchanged
  /\ UNCHANGED <<fileVars, sink, rowid, recorded, overlapped, failures>>
-----------------------------------------------------------------------------
(* audit *)

SealedOf(rows) == [i \in DOMAIN rows |-> rows[i].sealed]
Recomputed(rows, i) == SubSeq(SealedOf(rows), 1, i)

\* The checks made on row i, in the order the audit makes them.  The previous
\* rows having passed, expected_seq is i and expected_prev is recomputed.
RowPassesGaps(rows, i, keys) ==
  /\ rows[i].prev = Recomputed(rows, i - 1)
  /\ rows[i].hash = Recomputed(rows, i)
  /\ rows[i].source \in DOMAIN keys
  /\ Verifies(rows[i].sealed, keys[rows[i].source])
RowPasses(rows, i, keys) ==
  /\ rows[i].seq = i
  /\ rows[i].prev = Recomputed(rows, i - 1)
  /\ rows[i].hash = Recomputed(rows, i)
  /\ rows[i].source \in DOMAIN keys
  /\ Verifies(rows[i].sealed, keys[rows[i].source])

Intact(rows, keys) == \A i \in DOMAIN rows : RowPasses(rows, i, keys)
-----------------------------------------------------------------------------
Init ==
  /\ seeds = [s \in Sources |-> None]
  /\ pubs = [s \in Sources |-> None]
  /\ minter = NotMinting
  /\ sink = [p \in Sinks |-> SinkDown]
  /\ table = <<>>
  /\ rowid = 0
  /\ recorded = <<>>
  /\ overlapped = FALSE
  /\ exchanged = "no"
  /\ tampers = 0
  /\ failures = 0

Minting ==
  \/ \E s \in Sources : \E k \in FreshKeys : MintSeed(s, k)
  \/ MintPub
  \/ MintDies

Sinking ==
  \E p \in Sinks :
    \/ Start(p)
    \/ \E sealed \in Sealed : Receive(p, sealed)
    \/ Commit(p)
    \/ CommitConflicts(p)
    \/ Stop(p)

Tampering ==
  \E i \in DOMAIN table :
    \/ DeleteRow(i)
    \/ \E sealed \in Sealed : EditRow(i, sealed)
    \/ \E j \in DOMAIN table : SwapRows(i, j)

Next == Minting \/ Sinking \/ Tampering
Spec == Init /\ [][Next]_sinkVars
-----------------------------------------------------------------------------
\* What the sink itself records always audits clean under the keys on disk, at
\* every moment: between head() and the INSERT, after a crash in an append,
\* after a restart with more sources registered, after another sink took over
\* the database.  The one thing that spoils it is two sinks appending at once.
\* (Store::append and accept against Store::audit.)
RecordsAuditClean ==
  tampers = 0 /\ ~overlapped => Intact(table, RegisteredKeys)

\* s is found in t, in the order of t.
InOrder(s, t) ==
  \E at \in [DOMAIN s -> DOMAIN t] :
    /\ \A i \in DOMAIN s : s[i] = t[at[i]]
    /\ \A i, j \in DOMAIN s : i < j => at[i] < at[j]

\* h begins t.
Begins(h, t) == Len(h) <= Len(t) /\ \A i \in 1 .. Len(h) : h[i] = t[i]

\* When the audit says INTACT, every row is a payload that was recorded, and the
\* rows stand in the order they were recorded in, whatever was done to the
\* table.  Moreover they are all of what was recorded up to some point: no
\* deletion inside, edit or exchange goes unnoticed, not even when the sink
\* kept appending to what was left.  The exceptions are two sinks appending
\* at once, and a sink appending to exchanged rows: it links to whichever hash
\* then is the last.  (Store::audit)
IntactIsPrefix ==
  Intact(table, RegisteredKeys) =>
    /\ InOrder(SealedOf(table), recorded)
    /\ ~overlapped /\ exchanged # "built on" =>
         Begins(SealedOf(table), recorded)

\* A registered public key is that of the seed on disk, whatever mint was
\* interrupted at: a repeated mint "does not rotate identity under a running
\* stack" (main.rs, mint).
KeyPairMatches ==
  \A s \in Sources : pubs[s] # None => pubs[s] = seeds[s]
=============================================================================
