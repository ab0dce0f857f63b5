----------------------------- MODULE SinkProofs -----------------------------
(***************************************************************************)
(* The development sink, for any number of sources, sinks, records, crashes *)
(* and changes made to the table behind its back: keys that never rotate,  *)
(* a record that audits clean, and what an audit that says INTACT means.   *)
(***************************************************************************)
EXTENDS Sink, TLAPS

(* Sequences: their entries, and what the operators do to them. *)

\* A sequence, its indices and its entries.
LEMMA AnySeq ==
  ASSUME NEW S, NEW s \in Seq(S)
  PROVE  Len(s) \in Nat /\ DOMAIN s = 1 .. Len(s) /\ \A i \in 1 .. Len(s) : s[i] \in S
  OBVIOUS

\* The empty sequence, and no other, has no entry.
LEMMA AnyEmpty ==
  ASSUME NEW S
  PROVE  /\ <<>> \in Seq(S) /\ Len(<<>>) = 0
         /\ \A s \in Seq(S) : s # <<>> => Len(s) \in Nat \ {0}
  OBVIOUS

\* A sequence is a function on the numbers up to its length.
LEMMA AnyFunction ==
  ASSUME NEW S, NEW n \in Nat, NEW f \in [1 .. n -> S]
  PROVE  f \in Seq(S) /\ Len(f) = n
  OBVIOUS

\* Sequences with the same entries are the same.
LEMMA AnyEqual ==
  ASSUME NEW S, NEW s \in Seq(S), NEW t \in Seq(S), Len(s) = Len(t),
         \A i \in 1 .. Len(s) : s[i] = t[i]
  PROVE  s = t
  OBVIOUS

\* One entry replaced.
LEMMA AnyExcept ==
  ASSUME NEW S, NEW s \in Seq(S), NEW i \in 1 .. Len(s), NEW x \in S
  PROVE  /\ [s EXCEPT ![i] = x] \in Seq(S) /\ Len([s EXCEPT ![i] = x]) = Len(s)
         /\ \A j \in 1 .. Len(s) : [s EXCEPT ![i] = x][j] = IF j = i THEN x ELSE s[j]
  OBVIOUS

\* The slice that is everything.
LEMMA AnyWhole ==
  ASSUME NEW S, NEW s \in Seq(S)
  PROVE  SubSeq(s, 1, Len(s)) = s
  <1>1. Len(s) \in Nat /\ s = [i \in 1 .. Len(s) |-> s[i]]
    OBVIOUS
  <1>q. QED
    BY <1>1

\* The entries of a sequence with one more at the back.
LEMMA AnyAppend ==
  ASSUME NEW S, NEW s \in Seq(S), NEW x \in S
  PROVE  /\ Append(s, x) \in Seq(S) /\ Len(Append(s, x)) = Len(s) + 1 /\ Len(s) \in Nat
         /\ Append(s, x) # <<>>
         /\ \A i \in DOMAIN s : Append(s, x)[i] = s[i]
         /\ Append(s, x)[Len(s) + 1] = x
         /\ \A i \in DOMAIN Append(s, x) : i \in DOMAIN s \/ i = Len(s) + 1
  <1>1. Len(s) \in Nat /\ DOMAIN s = 1 .. Len(s)
    BY AnySeq
  <1>2. Append(s, x) \in Seq(S) /\ Len(Append(s, x)) = Len(s) + 1
    OBVIOUS
  <1>3. DOMAIN Append(s, x) = 1 .. Len(s) + 1
    BY <1>2, AnySeq
  <1>4. (\A i \in DOMAIN s : Append(s, x)[i] = s[i]) /\ Append(s, x)[Len(s) + 1] = x
    BY <1>1
  <1>5. \A i \in 1 .. Len(s) + 1 : i \in 1 .. Len(s) \/ i = Len(s) + 1
    BY <1>1
  <1>6. Append(s, x) # <<>>
    BY <1>1, <1>2
  <1>q. QED
    BY <1>1, <1>2, <1>3, <1>4, <1>5, <1>6

\* The same, entry by entry.
LEMMA EachAppended ==
  ASSUME NEW S, NEW s \in Seq(S), NEW x \in S, NEW t, t = Append(s, x)
  PROVE  \A i \in DOMAIN t : \/ i \in DOMAIN s /\ t[i] = s[i]
                             \/ i = Len(s) + 1 /\ t[i] = x
  BY AnyAppend

\* A slice of a sequence, perhaps an empty one.
LEMMA AnySlice ==
  ASSUME NEW S, NEW s \in Seq(S), NEW m \in Nat \ {0}, NEW n \in Nat, m <= n + 1, n <= Len(s)
  PROVE  /\ SubSeq(s, m, n) \in Seq(S) /\ Len(SubSeq(s, m, n)) = n - m + 1
         /\ n - m + 1 \in Nat /\ DOMAIN SubSeq(s, m, n) = 1 .. n - m + 1
         /\ \A i \in 1 .. n - m + 1 : m + i - 1 \in DOMAIN s /\ SubSeq(s, m, n)[i] = s[m + i - 1]
  <1>1. Len(s) \in Nat /\ DOMAIN s = 1 .. Len(s) /\ \A i \in 1 .. Len(s) : s[i] \in S
    BY AnySeq
  <1>2. m \in Int /\ n \in Int /\ \A i \in m .. n : s[i] \in S
    BY <1>1
  <1>3. /\ SubSeq(s, m, n) \in Seq(S)
        /\ Len(SubSeq(s, m, n)) = IF m <= n THEN n - m + 1 ELSE 0
        /\ \A i \in 1 .. n - m + 1 : SubSeq(s, m, n)[i] = s[m + i - 1]
    BY ONLY <1>2
  <1>4. Len(SubSeq(s, m, n)) = n - m + 1 /\ n - m + 1 \in Nat
    BY <1>3
  <1>5. \A i \in 1 .. n - m + 1 : m + i - 1 \in DOMAIN s
    BY <1>1
  <1>6. DOMAIN SubSeq(s, m, n) = 1 .. Len(SubSeq(s, m, n))
    BY <1>3
  <1>q. QED
    BY <1>3, <1>4, <1>5, <1>6

\* Two sequences, one behind the other.
LEMMA AnyConcat ==
  ASSUME NEW S, NEW s \in Seq(S), NEW t \in Seq(S)
  PROVE  /\ s \o t \in Seq(S) /\ Len(s \o t) = Len(s) + Len(t)
         /\ DOMAIN (s \o t) = 1 .. Len(s) + Len(t)
         /\ Len(s) \in Nat /\ Len(t) \in Nat
         /\ \A i \in 1 .. Len(s) : (s \o t)[i] = s[i]
         /\ \A i \in 1 .. Len(t) : (s \o t)[Len(s) + i] = t[i]
         /\ \A i \in 1 .. Len(s) + Len(t) : i \in 1 .. Len(s) \/ i - Len(s) \in 1 .. Len(t)
  <1>1. Len(s) \in Nat /\ Len(t) \in Nat
    OBVIOUS
  <1>2. /\ s \o t \in Seq(S) /\ Len(s \o t) = Len(s) + Len(t)
        /\ \A i \in 1 .. Len(s) + Len(t) :
             (s \o t)[i] = IF i <= Len(s) THEN s[i] ELSE t[i - Len(s)]
    OBVIOUS
  <1>3. DOMAIN (s \o t) = 1 .. Len(s \o t)
    BY <1>2
  <1> DEFINE c == s \o t
             m == Len(s)
             n == Len(t)
  <1>4. \A i \in 1 .. m + n : c[i] = IF i <= m THEN s[i] ELSE t[i - m]
    BY <1>2
  <1>5. m \in Nat /\ n \in Nat
    BY <1>1
  <1> HIDE DEF c, m, n
  <1>6. \A i \in 1 .. m : c[i] = s[i]
    BY <1>4, <1>5
  <1>7. ASSUME NEW i \in 1 .. n PROVE c[m + i] = t[i]
    <2>1. m + i \in 1 .. m + n /\ ~(m + i <= m) /\ m + i - m = i
      BY <1>5
    <2>2. c[m + i] = IF m + i <= m THEN s[m + i] ELSE t[(m + i) - m]
      BY <1>4, <2>1
    <2>3. t[(m + i) - m] = t[i]
      BY <1>5, <2>1
    <2>q. QED
      BY <2>1, <2>2, <2>3
  <1>8. \A i \in 1 .. m + n : i \in 1 .. m \/ i - m \in 1 .. n
    BY <1>5
  <1>q. QED
    BY <1>1, <1>2, <1>3, <1>6, <1>7, <1>8 DEF c, m, n

----------------------------------------------------------------------------

----------------------------------------------------------------------------
(* Hashes: sequences of payloads.                                          *)

\* What begins a record goes on beginning it.
LEMMA BeginsGrows ==
  ASSUME NEW S, NEW h \in Seq(S), NEW t \in Seq(S), NEW x \in S
  PROVE  /\ Begins(h, t) => Begins(h, Append(t, x))
         /\ Begins(Append(t, x), Append(t, x))
  <1>1. /\ Len(h) \in Nat /\ Len(t) \in Nat /\ Len(Append(t, x)) = Len(t) + 1
        /\ \A i \in 1 .. Len(t) : Append(t, x)[i] = t[i]
    BY AnySeq, AnyAppend
  <1>q. QED
    BY <1>1 DEF Begins

\* Nothing is in order in anything.
LEMMA EmptyInOrder ==
  ASSUME NEW S, NEW t \in Seq(S)
  PROVE  InOrder(<<>>, t)
  <1>1. DOMAIN <<>> = {}
    OBVIOUS
  <1>2. <<>> \in [{} -> DOMAIN t]
    OBVIOUS
  <1>q. QED
    BY <1>1, <1>2, Zenon DEF InOrder

\* What stands in the order of a record goes on doing so when a payload is
\* recorded, and so does what is linked to that payload.
LEMMA InOrderGrows ==
  ASSUME NEW S, NEW s \in Seq(S), NEW t \in Seq(S), NEW x \in S, InOrder(s, t)
  PROVE  InOrder(s, Append(t, x)) /\ InOrder(Append(s, x), Append(t, x))
  <1>1. PICK at \in [DOMAIN s -> DOMAIN t] :
          /\ \A i \in DOMAIN s : s[i] = t[at[i]]
          /\ \A i, j \in DOMAIN s : i < j => at[i] < at[j]
    BY DEF InOrder
  <1>2. /\ Len(s) \in Nat /\ DOMAIN s = 1 .. Len(s)
        /\ Len(t) \in Nat /\ DOMAIN t = 1 .. Len(t)
    BY AnySeq
  <1>3. /\ DOMAIN Append(s, x) = 1 .. Len(s) + 1
        /\ DOMAIN Append(t, x) = 1 .. Len(t) + 1
    BY AnyAppend, AnySeq
  <1>4. /\ \A i \in 1 .. Len(s) : Append(s, x)[i] = s[i]
        /\ \A i \in 1 .. Len(t) : Append(t, x)[i] = t[i]
        /\ Append(s, x)[Len(s) + 1] = x /\ Append(t, x)[Len(t) + 1] = x
    BY <1>2, AnyAppend
  <1>5. InOrder(s, Append(t, x))
    <2>1. at \in [DOMAIN s -> DOMAIN Append(t, x)]
      BY <1>2, <1>3
    <2>2. \A i \in DOMAIN s : s[i] = Append(t, x)[at[i]]
      BY <1>1, <1>2, <1>4
    <2>q. QED
      BY <1>1, <2>1, <2>2 DEF InOrder
  <1>6. InOrder(Append(s, x), Append(t, x))
    <2> DEFINE to == [i \in 1 .. Len(s) + 1 |-> IF i = Len(s) + 1 THEN Len(t) + 1 ELSE at[i]]
    <2>1. to \in [DOMAIN Append(s, x) -> DOMAIN Append(t, x)]
      BY <1>1, <1>2, <1>3
    <2>2. /\ \A i \in 1 .. Len(s) : to[i] = at[i] /\ at[i] \in 1 .. Len(t)
          /\ to[Len(s) + 1] = Len(t) + 1
          /\ \A i \in 1 .. Len(s) + 1 : i = Len(s) + 1 \/ i \in 1 .. Len(s)
      BY <1>1, <1>2
    <2> HIDE DEF to
    <2>3. \A i \in DOMAIN Append(s, x) : Append(s, x)[i] = Append(t, x)[to[i]]
      BY <1>1, <1>2, <1>3, <1>4, <2>2
    <2>4. \A i, j \in DOMAIN Append(s, x) : i < j => to[i] < to[j]
      BY <1>1, <1>2, <1>3, <2>2
    <2>q. QED
      BY <2>1, <2>3, <2>4, Zenon DEF InOrder
  <1>q. QED
    BY <1>5, <1>6
----------------------------------------------------------------------------
(* Types, and what the sinks know of the keys.                             *)

Rows == [seq : Nat, source : Sources, sealed : Sealed,
         prev : Seq(Sealed), hash : Seq(Sealed)]
KeyRings == UNION {[D -> Keys] : D \in SUBSET Sources}
Process == [pc : {"down", "ready", "append"}, keys : KeyRings,
            sealed : Sealed \cup {NoSealed}, prev : Seq(Sealed)]

SinkTyped ==
  /\ seeds \in [Sources -> Keys \cup {None}] /\ pubs \in [Sources -> Keys \cup {None}]
  /\ sink \in [Sinks -> Process]
  /\ table \in Seq(Rows) /\ recorded \in Seq(Sealed) /\ rowid = Len(recorded)
  /\ overlapped \in BOOLEAN /\ exchanged \in {"no", "yes", "built on"} /\ tampers \in Nat

\* The key a mint is about to publish is that of the seed it wrote.
Minted ==
  minter.pc = "pub" =>
    minter.source \in Sources /\ minter.key \in Keys /\ seeds[minter.source] = minter.key

\* A running sink's keys are those on disk, and what it is about to append
\* verifies under them.
KeysKnown ==
  \A p \in Sinks :
    /\ \A s \in DOMAIN sink[p].keys : pubs[s] = sink[p].keys[s]
    /\ sink[p].pc = "append" =>
         /\ sink[p].sealed \in Sealed
         /\ pubs[sink[p].sealed.source] = sink[p].sealed.key

KeyInv == SinkTyped /\ Minted /\ KeyPairMatches /\ KeysKnown

\* Every field of a row.
LEMMA RowShape ==
  ASSUME NEW row \in Rows
  PROVE  /\ row.seq \in Nat /\ row.source \in Sources /\ row.sealed \in Sealed
         /\ row.prev \in Seq(Sealed) /\ row.hash \in Seq(Sealed)
  BY DEF Rows

\* Every field of a process.
LEMMA ProcessShape ==
  ASSUME NEW x \in Process
  PROVE  /\ x.pc \in {"down", "ready", "append"} /\ x.keys \in KeyRings
         /\ x.sealed \in Sealed \cup {NoSealed} /\ x.prev \in Seq(Sealed)
  BY DEF Process

\* A ring of keys.
LEMMA RingShape ==
  ASSUME NEW ring \in KeyRings
  PROVE  DOMAIN ring \subseteq Sources /\ \A s \in DOMAIN ring : ring[s] \in Keys
  BY DEF KeyRings

\* A sink that is not running.
LEMMA DownShape == SinkDown \in Process
  <1>1. SinkDown.keys \in KeyRings
    <2>1. <<>> \in [{} -> Keys]
      OBVIOUS
    <2>q. QED
      BY <2>1, Zenon DEF KeyRings, SinkDown
  <1>2. SinkDown.prev \in Seq(Sealed)
    BY AnyEmpty DEF SinkDown, GENESIS
  <1>q. QED
    BY <1>1, <1>2 DEF SinkDown, Process

\* The keys on disk form a ring.
LEMMA RegisteredRing ==
  ASSUME KeyInv
  PROVE  /\ RegisteredKeys \in KeyRings
         /\ DOMAIN RegisteredKeys = {t \in Sources : pubs[t] # None}
         /\ \A s \in DOMAIN RegisteredKeys : RegisteredKeys[s] = pubs[s]
  <1> DEFINE D == {t \in Sources : pubs[t] # None}
  <1>1. RegisteredKeys = [s \in D |-> pubs[s]]
    BY DEF RegisteredKeys
  <1>2. \A s \in D : pubs[s] \in Keys
    BY Zenon DEF KeyInv, SinkTyped
  <1>3. D \in SUBSET Sources
    OBVIOUS
  <1> HIDE DEF D
  <1>4. RegisteredKeys \in [D -> Keys]
    BY <1>1, <1>2
  <1>q. QED
    BY <1>1, <1>3, <1>4, Zenon DEF KeyRings, D

\* The head of the chain is a hash.
LEMMA HeadTyped ==
  ASSUME SinkTyped
  PROVE  ChainHead \in Seq(Sealed)
  <1>1. CASE table = <<>>
    BY <1>1, AnyEmpty DEF ChainHead, GENESIS
  <1>2. CASE table # <<>>
    <2>0. table \in Seq(Rows)
      BY Zenon DEF SinkTyped
    <2>1. Len(table) \in Nat /\ Len(table) # 0
      BY <1>2, <2>0, AnySeq, AnyEmpty
    <2>2. table[Len(table)] \in Rows
      BY <2>0, <2>1, AnySeq
    <2>q. QED
      BY <1>2, <2>2, RowShape DEF ChainHead
  <1>q. QED
    BY <1>1, <1>2
----------------------------------------------------------------------------
(* The keys.                                                               *)

\* Whatever a mint does, a key that is on disk stays.
LEMMA PubsStay ==
  ASSUME KeyInv, MintPub
  PROVE  \A s \in Sources : pubs[s] # None => pubs'[s] = pubs[s]
  BY Zenon DEF MintPub, KeyInv, SinkTyped, Minted, KeyPairMatches

\* A mint keeps the invariant.
LEMMA MintKeeps ==
  ASSUME KeyInv, Minting
  PROVE  KeyInv'
  <1>1. ASSUME NEW s \in Sources, NEW k \in FreshKeys, MintSeed(s, k) PROVE KeyInv'
    <2>1. k \in Keys /\ UNCHANGED <<pubs, sink, dbVars, tampers>> /\ seeds[s] = None
      BY <1>1 DEF FreshKeys, MintSeed
    <2>2. SinkTyped' /\ Minted' /\ KeyPairMatches'
      BY <1>1, <2>1, Zenon DEF MintSeed, KeyInv, SinkTyped, Minted, KeyPairMatches, dbVars
    <2>3. KeysKnown'
      BY <2>1 DEF KeyInv, KeysKnown
    <2>q. QED
      BY <2>2, <2>3 DEF KeyInv
  <1>2. CASE MintPub
    <2>1. UNCHANGED <<seeds, sink, dbVars, tampers>>
      BY <1>2 DEF MintPub
    <2>2. SinkTyped' /\ Minted' /\ KeyPairMatches'
      BY <1>2, <2>1, Zenon DEF MintPub, NotMinting, KeyInv, SinkTyped, Minted, KeyPairMatches, dbVars
    <2>3. KeysKnown'
      <3>1. \A s \in Sources : pubs[s] # None => pubs'[s] = pubs[s]
        BY <1>2, PubsStay
      <3>2. ASSUME NEW p \in Sinks, NEW s \in DOMAIN sink[p].keys PROVE pubs'[s] = sink[p].keys[s]
        <4>1. sink[p].keys \in KeyRings
          BY ProcessShape, Zenon DEF KeyInv, SinkTyped
        <4>2. s \in Sources /\ sink[p].keys[s] \in Keys
          BY <3>2, <4>1, RingShape
        <4>3. pubs[s] = sink[p].keys[s]
          BY <3>2 DEF KeyInv, KeysKnown
        <4>q. QED
          BY <3>1, <4>2, <4>3 DEF Keys, None
      <3>3. ASSUME NEW p \in Sinks, sink[p].pc = "append"
            PROVE  /\ sink[p].sealed \in Sealed
                   /\ pubs'[sink[p].sealed.source] = sink[p].sealed.key
        <4>1. sink[p].sealed \in Sealed /\ pubs[sink[p].sealed.source] = sink[p].sealed.key
          BY <3>3 DEF KeyInv, KeysKnown
        <4>2. sink[p].sealed.source \in Sources /\ sink[p].sealed.key \in Keys
          BY <4>1 DEF Sealed
        <4>q. QED
          BY <3>1, <4>1, <4>2 DEF Keys, None
      <3>q. QED
        BY <2>1, <3>2, <3>3 DEF KeysKnown
    <2>q. QED
      BY <2>2, <2>3 DEF KeyInv
  <1>3. CASE MintDies
    BY <1>3, Zenon DEF MintDies, Failure, NotMinting, KeyInv, SinkTyped, Minted, KeyPairMatches, KeysKnown, dbVars
  <1>q. QED
    BY <1>1, <1>2, <1>3 DEF Minting
\* One sink becomes x, whose keys are those on disk; the others stay as they are.
Moves(p, x) ==
  /\ sink' = [sink EXCEPT ![p] = x]
  /\ x \in Process
  /\ \A s \in DOMAIN x.keys : pubs[s] = x.keys[s]
  /\ x.pc = "append" => x.sealed \in Sealed /\ pubs[x.sealed.source] = x.sealed.key

\* Then every sink still knows the keys.
LEMMA MoveKeeps ==
  ASSUME KeyInv, UNCHANGED fileVars, NEW p \in Sinks, NEW x, Moves(p, x)
  PROVE  /\ sink' \in [Sinks -> Process] /\ Minted' /\ KeyPairMatches' /\ KeysKnown'
         /\ sink'[p] = x /\ \A q \in Sinks \ {p} : sink'[q] = sink[q]
  <1>1. /\ sink' \in [Sinks -> Process]
        /\ sink'[p] = x /\ \A q \in Sinks \ {p} : sink'[q] = sink[q]
    BY Zenon DEF KeyInv, SinkTyped, Moves
  <1>2. pubs' = pubs /\ seeds' = seeds /\ minter' = minter
    BY DEF fileVars
  <1>3. Minted' /\ KeyPairMatches'
    BY <1>2 DEF KeyInv, Minted, KeyPairMatches
  <1>4. ASSUME NEW q \in Sinks
        PROVE  /\ \A s \in DOMAIN sink'[q].keys : pubs[s] = sink'[q].keys[s]
               /\ sink'[q].pc = "append" =>
                    sink'[q].sealed \in Sealed /\ pubs[sink'[q].sealed.source] = sink'[q].sealed.key
    <2>1. CASE q = p
      BY <1>1, <2>1 DEF Moves
    <2>2. CASE q # p
      BY <1>1, <2>2 DEF KeyInv, KeysKnown
    <2>q. QED
      BY <2>1, <2>2
  <1>5. KeysKnown'
    BY <1>2, <1>4 DEF KeysKnown
  <1>q. QED
    BY <1>1, <1>3, <1>5

\* What each step makes of its sink.
LEMMA StartMoves ==
  ASSUME KeyInv, NEW p \in Sinks, Start(p)
  PROVE  Moves(p, sink'[p]) /\ sink'[p].pc = "ready"
  <1>1. sink[p] \in Process /\ sink \in [Sinks -> Process]
    BY Zenon DEF KeyInv, SinkTyped
  <1> DEFINE x == [sink[p] EXCEPT !.pc = "ready", !.keys = RegisteredKeys]
  <1>2. sink' = [sink EXCEPT ![p] = x]
    BY <1>1, Zenon DEF Start, Process
  <1>3. x \in Process /\ x.keys = RegisteredKeys /\ x.pc = "ready"
    BY <1>1, RegisteredRing, Zenon DEF Process
  <1>4. \A s \in DOMAIN RegisteredKeys : pubs[s] = RegisteredKeys[s]
    BY RegisteredRing, Zenon
  <1> HIDE DEF x
  <1>5. sink'[p] = x
    BY <1>1, <1>2
  <1>q. QED
    BY <1>2, <1>3, <1>4, <1>5, Zenon DEF Moves

LEMMA ReceiveMoves ==
  ASSUME KeyInv, NEW p \in Sinks, NEW sealed \in Sealed, Receive(p, sealed)
  PROVE  /\ Moves(p, sink'[p]) /\ sink'[p].pc = "append"
         /\ sink'[p].sealed = sealed /\ sink'[p].prev = ChainHead
  <1>1. sink[p] \in Process /\ sink \in [Sinks -> Process]
    BY Zenon DEF KeyInv, SinkTyped
  <1>2. ChainHead \in Seq(Sealed)
    BY HeadTyped DEF KeyInv
  <1> DEFINE head == ChainHead
  <1> HIDE DEF head
  <1> DEFINE x == [sink[p] EXCEPT !.pc = "append", !.sealed = sealed, !.prev = head]
  <1>3. sink' = [sink EXCEPT ![p] = x]
    BY <1>1, Zenon DEF Receive, Process, head
  <1>4. /\ x \in Process /\ x.keys = sink[p].keys /\ x.pc = "append"
        /\ x.sealed = sealed /\ x.prev = head
    BY <1>1, <1>2, Zenon DEF Process, head
  <1>5. \A s \in DOMAIN sink[p].keys : pubs[s] = sink[p].keys[s]
    BY DEF KeyInv, KeysKnown
  <1>6. pubs[sealed.source] = sealed.key
    BY <1>5, Zenon DEF Receive, Accept, Verifies
  <1> HIDE DEF x
  <1>7. sink'[p] = x
    BY <1>1, <1>3
  <1>q. QED
    BY <1>3, <1>4, <1>5, <1>6, <1>7, Zenon DEF Moves, head

LEMMA CommitMoves ==
  ASSUME KeyInv, NEW p \in Sinks, Commit(p)
  PROVE  Moves(p, sink'[p]) /\ sink'[p].pc = "ready" /\ sink'[p].prev = GENESIS
  <1>1. sink[p] \in Process /\ sink \in [Sinks -> Process]
    BY Zenon DEF KeyInv, SinkTyped
  <1> DEFINE x == [sink[p] EXCEPT !.pc = "ready", !.sealed = NoSealed, !.prev = GENESIS]
  <1>2. sink' = [sink EXCEPT ![p] = x]
    BY <1>1, Zenon DEF Commit, Process
  <1>3. GENESIS \in Seq(Sealed)
    BY AnyEmpty DEF GENESIS
  <1>4. x \in Process /\ x.keys = sink[p].keys /\ x.pc = "ready" /\ x.prev = GENESIS
    BY <1>1, <1>3, Zenon DEF Process
  <1>5. \A s \in DOMAIN sink[p].keys : pubs[s] = sink[p].keys[s]
    BY DEF KeyInv, KeysKnown
  <1> HIDE DEF x
  <1>6. sink'[p] = x
    BY <1>1, <1>2
  <1>q. QED
    BY <1>2, <1>4, <1>5, <1>6, Zenon DEF Moves

LEMMA StopMoves ==
  ASSUME KeyInv, NEW p \in Sinks, Stop(p) \/ CommitConflicts(p)
  PROVE  Moves(p, sink'[p]) /\ sink'[p] = SinkDown
  <1>1. sink' = [sink EXCEPT ![p] = SinkDown] /\ sink \in [Sinks -> Process]
    BY Zenon DEF Stop, CommitConflicts, KeyInv, SinkTyped
  <1>2. DOMAIN SinkDown.keys = {} /\ SinkDown.pc = "down"
    BY DEF SinkDown
  <1>3. sink'[p] = SinkDown
    BY <1>1
  <1>q. QED
    BY <1>1, <1>2, <1>3, DownShape DEF Moves
----------------------------------------------------------------------------
(* The table.                                                              *)

\* The INSERT adds one row behind the others, linked to what append had read.
LEMMA CommitAppends ==
  ASSUME KeyInv, NEW p \in Sinks, Commit(p)
  PROVE  \E row \in Rows :
           /\ row.seq = rowid + 1 /\ row.sealed = sink[p].sealed /\ row.prev = sink[p].prev
           /\ row.source = sink[p].sealed.source
           /\ row.hash = Append(sink[p].prev, sink[p].sealed)
           /\ table' = Append(table, row) /\ recorded' = Append(recorded, sink[p].sealed)
           /\ rowid' = rowid + 1 /\ UNCHANGED <<fileVars, overlapped, exchanged, tampers>>
           /\ sink[p].pc = "append" /\ sink[p].sealed \in Sealed /\ sink[p].prev \in Seq(Sealed)
  <1>1. sink[p].pc = "append" /\ sink[p].prev \in Seq(Sealed)
    BY ProcessShape, Zenon DEF KeyInv, SinkTyped, Commit
  <1>2. sink[p].sealed \in Sealed
    BY <1>1 DEF KeyInv, KeysKnown
  <1>3. sink[p].sealed.source \in Sources
    BY <1>2 DEF Sealed
  <1>4. Append(sink[p].prev, sink[p].sealed) \in Seq(Sealed)
    BY <1>1, <1>2, AnyAppend
  <1>5. rowid + 1 \in Nat
    <2>1. recorded \in Seq(Sealed) /\ rowid = Len(recorded)
      BY Zenon DEF KeyInv, SinkTyped
    <2>q. QED
      BY <2>1, AnySeq
  <1> DEFINE row == Row(rowid + 1, sink[p].sealed, sink[p].prev)
  <1>6. /\ row.seq = rowid + 1 /\ row.sealed = sink[p].sealed /\ row.prev = sink[p].prev
        /\ row.source = sink[p].sealed.source
        /\ row.hash = Append(sink[p].prev, sink[p].sealed)
    BY DEF Row, Link
  <1>7. row \in Rows
    BY <1>1, <1>2, <1>3, <1>4, <1>5 DEF Row, Link, Rows
  <1>8. /\ table' = Append(table, row) /\ recorded' = Append(recorded, row.sealed)
        /\ rowid' = rowid + 1 /\ UNCHANGED <<fileVars, overlapped, exchanged, tampers>>
    BY DEF Commit
  <1> HIDE DEF row
  <1>q. QED
    BY <1>1, <1>2, <1>6, <1>7, <1>8

\* What a change behind the sink's back leaves: rows that keep their order and the
\* numbers they had, and hashes that were there.
Rearranged ==
  \E at \in [DOMAIN table' -> DOMAIN table] :
    /\ \A k \in DOMAIN table' :
         /\ table'[k].seq = table[at[k]].seq
         /\ \E m \in DOMAIN table : table'[k].hash = table[m].hash
         /\ exchanged' = "no" => table'[k].hash = table[at[k]].hash
    /\ \A k, l \in DOMAIN table' : k < l => at[k] < at[l]

\* The entries left when one is removed.
LEMMA RemoveEntries ==
  ASSUME NEW S, NEW s \in Seq(S), NEW i \in DOMAIN s
  PROVE  /\ Without(s, i) \in Seq(S) /\ DOMAIN Without(s, i) = 1 .. Len(s) - 1
         /\ \A k \in 1 .. Len(s) - 1 : Without(s, i)[k] = s[IF k < i THEN k ELSE k + 1]
  <1> DEFINE n == Len(s)
             g == i - 1
             j == i + 1
             before == SubSeq(s, 1, g)
             after == SubSeq(s, j, n)
             t == before \o after
  <1>1. n \in Nat /\ DOMAIN s = 1 .. n /\ i \in 1 .. n /\ n = Len(s)
    BY AnySeq
  <1>2. Without(s, i) = t
    BY DEF Without
  <1>3. g \in Nat /\ g = i - 1 /\ j \in Nat \ {0} /\ j = i + 1
    BY <1>1
  <1> HIDE DEF n, g, j
  <1>4. 1 <= g + 1 /\ g <= Len(s) /\ 1 \in Nat \ {0} /\ j <= n + 1 /\ n <= Len(s)
    BY <1>1, <1>3
  <1>5. /\ before \in Seq(S) /\ Len(before) = g - 1 + 1
        /\ \A k \in 1 .. g - 1 + 1 : before[k] = s[1 + k - 1]
    BY ONLY s \in Seq(S), <1>3, <1>4, AnySlice
  <1>6. /\ after \in Seq(S) /\ Len(after) = n - j + 1
        /\ \A k \in 1 .. n - j + 1 : after[k] = s[j + k - 1]
    BY ONLY s \in Seq(S), <1>1, <1>3, <1>4, AnySlice
  <1> HIDE DEF before, after
  <1>7. /\ t \in Seq(S) /\ DOMAIN t = 1 .. Len(before) + Len(after)
        /\ \A k \in 1 .. Len(before) : t[k] = before[k]
        /\ \A k \in 1 .. Len(after) : t[Len(before) + k] = after[k]
    <2>1. before \in Seq(S) /\ after \in Seq(S)
      BY <1>5, <1>6
    <2>2. /\ before \o after \in Seq(S)
          /\ DOMAIN (before \o after) = 1 .. Len(before) + Len(after)
          /\ Len(before) \in Nat
          /\ \A k \in 1 .. Len(before) : (before \o after)[k] = before[k]
          /\ \A k \in 1 .. Len(after) : (before \o after)[Len(before) + k] = after[k]
      BY ONLY <2>1, AnyConcat
    <2>q. QED
      BY <2>2
  <1> HIDE DEF t
  <1>8. Len(before) = g /\ Len(after) = n - i
    <2>1. Len(before) = g - 1 + 1
      BY <1>5, Zenon
    <2>2. Len(after) = n - j + 1
      BY <1>6, Zenon
    <2>q. QED
      BY ONLY <1>1, <1>3, <2>1, <2>2
  <1>9. DOMAIN t = 1 .. n - 1
    <2>1. g + (n - i) = n - 1
      BY ONLY <1>1, <1>3
    <2>q. QED
      BY ONLY <1>7, <1>8, <2>1
  <1>10. ASSUME NEW k \in 1 .. n - 1, k < i PROVE t[k] = s[k]
    <2>1. k \in 1 .. g /\ k \in 1 .. g - 1 + 1 /\ 1 + k - 1 = k
      BY ONLY <1>1, <1>3, <1>10, k \in 1 .. n - 1
    <2>2. t[k] = before[k]
      BY ONLY <1>7, <1>8, <2>1
    <2>3. before[k] = s[1 + k - 1]
      BY ONLY <1>5, <2>1
    <2>q. QED
      BY ONLY <2>1, <2>2, <2>3
  <1>11. ASSUME NEW k \in 1 .. n - 1, ~(k < i) PROVE t[k] = s[k + 1]
    <2> DEFINE l == k - g
    <2>1. /\ l \in 1 .. n - i /\ l \in 1 .. n - j + 1 /\ g + l = k /\ j + l - 1 = k + 1
          /\ l \in Int /\ k \in Int
      BY ONLY <1>1, <1>3, <1>11, k \in 1 .. n - 1
    <2> HIDE DEF l
    <2>2. t[g + l] = after[l]
      BY ONLY <1>1, <1>3, <1>7, <1>8, <2>1, Zenon
    <2>3. after[l] = s[j + l - 1]
      BY ONLY <1>1, <1>3, <1>6, <2>1, Zenon
    <2>4. t[g + l] = t[k] /\ s[j + l - 1] = s[k + 1]
      BY ONLY <1>3, <2>1
    <2>q. QED
      BY ONLY <2>2, <2>3, <2>4
  <1>q. QED
    BY <1>2, <1>7, <1>9, <1>10, <1>11, Zenon DEF n

\* A row is deleted.
LEMMA DeleteRearranges ==
  ASSUME SinkTyped, NEW i \in DOMAIN table, DeleteRow(i)
  PROVE  table' \in Seq(Rows) /\ Rearranged
  <1> DEFINE n == Len(table)
  <1>0. table \in Seq(Rows)
    BY Zenon DEF SinkTyped
  <1>1. n \in Nat /\ DOMAIN table = 1 .. n /\ i \in 1 .. n
    BY <1>0, AnySeq
  <1>2. /\ table' \in Seq(Rows) /\ DOMAIN table' = 1 .. n - 1
        /\ \A k \in 1 .. n - 1 : table'[k] = table[IF k < i THEN k ELSE k + 1]
    BY <1>0, RemoveEntries DEF DeleteRow
  <1> HIDE DEF n
  <1> DEFINE at == [k \in 1 .. n - 1 |-> IF k < i THEN k ELSE k + 1]
  <1>3. /\ \A k \in 1 .. n - 1 : table'[k] = table[at[k]] /\ at[k] \in 1 .. n
        /\ at \in [1 .. n - 1 -> 1 .. n]
        /\ \A k, l \in 1 .. n - 1 : k < l => at[k] < at[l]
    BY <1>1, <1>2
  <1> HIDE DEF at
  <1>q. QED
    BY <1>1, <1>2, <1>3, Zenon DEF Rearranged
\* One entry replaced.
LEMMA ReplaceEntries ==
  ASSUME NEW S, NEW s \in Seq(S), NEW i \in DOMAIN s, NEW x \in S
  PROVE  /\ [s EXCEPT ![i] = x] \in Seq(S) /\ DOMAIN [s EXCEPT ![i] = x] = DOMAIN s
         /\ Len([s EXCEPT ![i] = x]) = Len(s)
         /\ [s EXCEPT ![i] = x][i] = x
         /\ \A k \in DOMAIN s \ {i} : [s EXCEPT ![i] = x][k] = s[k]
  <1>1. i \in 1 .. Len(s) /\ DOMAIN s = 1 .. Len(s)
    BY AnySeq
  <1>2. [s EXCEPT ![i] = x] \in Seq(S) /\ Len([s EXCEPT ![i] = x]) = Len(s)
    BY <1>1, AnyExcept
  <1>q. QED
    BY <1>1, <1>2

\* Rows that stay where they are.
LEMMA StayRearranges ==
  ASSUME DOMAIN table' = DOMAIN table, DOMAIN table \subseteq Int,
         \A k \in DOMAIN table :
           /\ table'[k].seq = table[k].seq
           /\ \E m \in DOMAIN table : table'[k].hash = table[m].hash
           /\ exchanged' = "no" => table'[k].hash = table[k].hash
  PROVE  Rearranged
  <1> DEFINE at == [k \in DOMAIN table |-> k]
  <1>1. /\ at \in [DOMAIN table' -> DOMAIN table]
        /\ \A k \in DOMAIN table : at[k] = k
    OBVIOUS
  <1> HIDE DEF at
  <1>2. \A k, l \in DOMAIN table' : k < l => at[k] < at[l]
    BY <1>1
  <1>3. \A k \in DOMAIN table' :
          /\ table'[k].seq = table[at[k]].seq
          /\ \E m \in DOMAIN table : table'[k].hash = table[m].hash
          /\ exchanged' = "no" => table'[k].hash = table[at[k]].hash
    BY <1>1
  <1>q. QED
    BY <1>1, <1>2, <1>3 DEF Rearranged

\* A row is edited.
LEMMA EditRearranges ==
  ASSUME SinkTyped, NEW i \in DOMAIN table, NEW sealed \in Sealed, EditRow(i, sealed)
  PROVE  table' \in Seq(Rows) /\ Rearranged
  <1>0. table \in Seq(Rows) /\ DOMAIN table = 1 .. Len(table) /\ table[i] \in Rows
    BY AnySeq, Zenon DEF SinkTyped
  <1>1. sealed.source \in Sources
    BY DEF Sealed
  <1> DEFINE src == sealed.source
  <1> HIDE DEF src
  <1> DEFINE x == [table[i] EXCEPT !.sealed = sealed, !.source = src]
  <1>2. table' = [table EXCEPT ![i] = x]
    BY Zenon DEF EditRow, src
  <1>3. x \in Rows /\ x.seq = table[i].seq /\ x.hash = table[i].hash
    BY <1>0, <1>1, Zenon DEF Rows, src
  <1> HIDE DEF x
  <1>4. /\ table' \in Seq(Rows) /\ DOMAIN table' = DOMAIN table /\ table'[i] = x
        /\ \A k \in DOMAIN table \ {i} : table'[k] = table[k]
    BY <1>0, <1>2, <1>3, ReplaceEntries
  <1>5. \A k \in DOMAIN table : table'[k].seq = table[k].seq /\ table'[k].hash = table[k].hash
    BY <1>3, <1>4
  <1>q. QED
    BY <1>0, <1>4, <1>5, StayRearranges

\* Two rows are exchanged.
LEMMA SwapRearranges ==
  ASSUME SinkTyped, NEW i \in DOMAIN table, NEW j \in DOMAIN table, SwapRows(i, j)
  PROVE  table' \in Seq(Rows) /\ Rearranged
  <1>0. table \in Seq(Rows) /\ DOMAIN table = 1 .. Len(table) /\ table[i] \in Rows /\ table[j] \in Rows
    BY AnySeq, Zenon DEF SinkTyped
  <1>1. i # j
    BY <1>0 DEF SwapRows
  <1> DEFINE x == [table[j] EXCEPT !.seq = table[i].seq]
             y == [table[i] EXCEPT !.seq = table[j].seq]
  <1>2. table' = [[table EXCEPT ![i] = x] EXCEPT ![j] = y]
    BY DEF SwapRows
  <1>3. /\ x \in Rows /\ x.seq = table[i].seq /\ x.hash = table[j].hash
        /\ y \in Rows /\ y.seq = table[j].seq /\ y.hash = table[i].hash
    BY <1>0, Zenon DEF Rows
  <1> HIDE DEF x, y
  <1> DEFINE t == [table EXCEPT ![i] = x]
  <1>4. /\ t \in Seq(Rows) /\ DOMAIN t = DOMAIN table /\ t[i] = x
        /\ \A k \in DOMAIN table \ {i} : t[k] = table[k]
    BY <1>0, <1>3, ReplaceEntries
  <1>5. table' = [t EXCEPT ![j] = y]
    BY <1>2
  <1> HIDE DEF t
  <1>6. /\ table' \in Seq(Rows) /\ DOMAIN table' = DOMAIN table /\ table'[j] = y
        /\ \A k \in DOMAIN table \ {j} : table'[k] = t[k]
    BY <1>3, <1>4, <1>5, ReplaceEntries
  <1>7. exchanged' # "no"
    BY DEF SwapRows
  <1>8. \A k \in DOMAIN table :
          /\ table'[k].seq = table[k].seq
          /\ \E m \in DOMAIN table : table'[k].hash = table[m].hash
    BY <1>1, <1>3, <1>4, <1>6
  <1>q. QED
    BY <1>0, <1>6, <1>7, <1>8, StayRearranges
\* Tampering leaves the sinks, the keys and the history alone.
LEMMA TamperShape ==
  ASSUME SinkTyped, Tampering
  PROVE  /\ table' \in Seq(Rows) /\ Rearranged
         /\ UNCHANGED <<fileVars, sink, rowid, recorded, overlapped>>
         /\ tampers' = tampers + 1 /\ exchanged' \in {"no", "yes", "built on"}
         /\ exchanged' = "no" => exchanged = "no"
         /\ exchanged' # "built on" => exchanged # "built on"
  <1>1. ASSUME NEW i \in DOMAIN table, DeleteRow(i)
        PROVE  /\ table' \in Seq(Rows) /\ Rearranged /\ tampers' = tampers + 1
               /\ UNCHANGED <<fileVars, sink, rowid, recorded, overlapped, exchanged>>
    BY <1>1, DeleteRearranges DEF DeleteRow, Tamper
  <1>2. ASSUME NEW i \in DOMAIN table, NEW sealed \in Sealed, EditRow(i, sealed)
        PROVE  /\ table' \in Seq(Rows) /\ Rearranged /\ tampers' = tampers + 1
               /\ UNCHANGED <<fileVars, sink, rowid, recorded, overlapped, exchanged>>
    BY <1>2, EditRearranges, Zenon DEF EditRow, Tamper
  <1>3. ASSUME NEW i \in DOMAIN table, NEW j \in DOMAIN table, SwapRows(i, j)
        PROVE  /\ table' \in Seq(Rows) /\ Rearranged /\ tampers' = tampers + 1
               /\ UNCHANGED <<fileVars, sink, rowid, recorded, overlapped>>
               /\ exchanged' = IF exchanged = "no" THEN "yes" ELSE exchanged
    BY <1>3, SwapRearranges, Zenon DEF SwapRows, Tamper
  <1>4. exchanged \in {"no", "yes", "built on"}
    BY Zenon DEF SinkTyped
  <1>q. QED
    BY <1>1, <1>2, <1>3, <1>4, Zenon DEF Tampering

\* Every step keeps the types, and what the sinks know of the keys.
LEMMA KeyStep ==
  ASSUME KeyInv, [Next]_sinkVars
  PROVE  KeyInv'
  <1>1. CASE Minting
    BY <1>1, MintKeeps
  <1>2. ASSUME NEW p \in Sinks, Start(p) PROVE KeyInv'
    <2>1. UNCHANGED <<fileVars, dbVars, tampers>>
      BY <1>2 DEF Start
    <2>2. sink' \in [Sinks -> Process] /\ Minted' /\ KeyPairMatches' /\ KeysKnown'
      BY <1>2, <2>1, StartMoves, MoveKeeps
    <2>q. QED
      BY <2>1, <2>2, Zenon DEF KeyInv, SinkTyped, fileVars, dbVars
  <1>3. ASSUME NEW p \in Sinks, NEW sealed \in Sealed, Receive(p, sealed) PROVE KeyInv'
    <2>1. UNCHANGED <<fileVars, table, rowid, recorded, tampers>>
      BY <1>3, Zenon DEF Receive
    <2>2. sink' \in [Sinks -> Process] /\ Minted' /\ KeyPairMatches' /\ KeysKnown'
      BY <1>3, <2>1, ReceiveMoves, MoveKeeps
    <2>3. overlapped' \in BOOLEAN
      BY <1>3, Zenon DEF Receive, KeyInv, SinkTyped
    <2>4. exchanged' \in {"no", "yes", "built on"}
      BY <1>3, Zenon DEF Receive
    <2>q. QED
      BY <2>1, <2>2, <2>3, <2>4, Zenon DEF KeyInv, SinkTyped, fileVars
  <1>4. ASSUME NEW p \in Sinks, Commit(p) PROVE KeyInv'
    <2>1. PICK row \in Rows :
            /\ table' = Append(table, row) /\ recorded' = Append(recorded, sink[p].sealed)
            /\ rowid' = rowid + 1 /\ UNCHANGED <<fileVars, overlapped, exchanged, tampers>>
            /\ sink[p].sealed \in Sealed
      BY <1>4, CommitAppends
    <2>2. sink' \in [Sinks -> Process] /\ Minted' /\ KeyPairMatches' /\ KeysKnown'
      BY <1>4, <2>1, CommitMoves, MoveKeeps
    <2>3. table \in Seq(Rows) /\ recorded \in Seq(Sealed) /\ rowid = Len(recorded)
      BY Zenon DEF KeyInv, SinkTyped
    <2>4. table' \in Seq(Rows)
      BY <2>1, <2>3, AnyAppend
    <2>5. recorded' \in Seq(Sealed) /\ rowid' = Len(recorded')
      BY <2>1, <2>3, AnyAppend
    <2>q. QED
      BY <2>1, <2>2, <2>4, <2>5, Zenon DEF KeyInv, SinkTyped, fileVars
  <1>5. ASSUME NEW p \in Sinks, Stop(p) \/ CommitConflicts(p) PROVE KeyInv'
    <2>1. UNCHANGED <<fileVars, dbVars, tampers>>
      BY <1>5 DEF Stop, CommitConflicts
    <2>2. sink' \in [Sinks -> Process] /\ Minted' /\ KeyPairMatches' /\ KeysKnown'
      BY <1>5, <2>1, StopMoves, MoveKeeps
    <2>q. QED
      BY <2>1, <2>2, Zenon DEF KeyInv, SinkTyped, fileVars, dbVars
  <1>6. CASE Tampering
    <2>1. /\ table' \in Seq(Rows) /\ UNCHANGED <<fileVars, sink, rowid, recorded, overlapped>>
          /\ tampers' = tampers + 1 /\ exchanged' \in {"no", "yes", "built on"}
      BY <1>6, TamperShape, Zenon DEF KeyInv
    <2>2. SinkTyped'
      <3>0. tampers \in Nat /\ tampers' = tampers + 1
        BY <2>1, Zenon DEF KeyInv, SinkTyped
      <3>1. tampers' \in Nat
        BY ONLY <3>0
      <3>2. /\ seeds' = seeds /\ pubs' = pubs /\ sink' = sink
            /\ rowid' = rowid /\ recorded' = recorded /\ overlapped' = overlapped
        BY <2>1, Zenon DEF fileVars
      <3>q. QED
        BY <2>1, <3>1, <3>2, Zenon DEF KeyInv, SinkTyped
    <2>3. Minted' /\ KeyPairMatches'
      BY <2>1, Zenon DEF KeyInv, Minted, KeyPairMatches, fileVars
    <2>4. KeysKnown'
      BY <2>1, Zenon DEF KeyInv, KeysKnown, fileVars
    <2>q. QED
      BY <2>2, <2>3, <2>4 DEF KeyInv
  <1>7. CASE UNCHANGED sinkVars
    BY <1>7, Zenon DEF sinkVars, fileVars, dbVars, KeyInv, SinkTyped, Minted, KeyPairMatches, KeysKnown
  <1>q. QED
    BY <1>1, <1>2, <1>3, <1>4, <1>5, <1>6, <1>7 DEF Next, Sinking

\* A sink with nothing recorded and no key minted.
LEMMA KeyInit == Init => KeyInv
  <1> SUFFICES ASSUME Init PROVE KeyInv
    OBVIOUS
  <1>1. sink \in [Sinks -> Process]
    BY DownShape DEF Init
  <1>2. \A p \in Sinks : DOMAIN sink[p].keys = {} /\ sink[p].pc = "down"
    BY DEF Init, SinkDown
  <1>3. table \in Seq(Rows) /\ recorded \in Seq(Sealed) /\ rowid = Len(recorded)
    BY AnyEmpty DEF Init
  <1>q. QED
    BY <1>1, <1>2, <1>3, Zenon DEF Init, KeyInv, SinkTyped, Minted, KeyPairMatches, KeysKnown, NotMinting, None

\* A registered public key is that of the seed on disk, for any number of sources and
\* mints, whichever file a mint dies at.  (mint)
THEOREM KeyPairMatchesHolds == Spec => []KeyPairMatches
  <1>1. KeyInv /\ [Next]_sinkVars => KeyInv'
    BY KeyStep
  <1>2. KeyInv => KeyPairMatches
    BY DEF KeyInv
  <1>q. QED
    BY <1>1, <1>2, KeyInit, PTL DEF Spec
----------------------------------------------------------------------------
(* The chain.  A number up to rowid that no row has was lost, and AUTOINCREMENT *)
(* never gives it out again; an audit stops at the first that is missing.  So *)
(* only a hash that covers as many payloads as the first lost number can have *)
(* gone another way than the record.                                       *)

\* A number up to n has been lost.
LostBy(n, rows, top) == \E g \in 1 .. top : g <= n /\ \A i \in DOMAIN rows : rows[i].seq # g

Numbered ==
  /\ \A i \in DOMAIN table : table[i].seq \in 1 .. rowid
  /\ \A i, j \in DOMAIN table : i < j => table[i].seq < table[j].seq

Appending(p) == sink[p].pc = "append"
Alone == ~overlapped => \A p, q \in Sinks : Appending(p) /\ Appending(q) => p = q

\* Every hash covers payloads that were recorded, in their order.
Genuine ==
  /\ \A i \in DOMAIN table : InOrder(table[i].hash, recorded)
  /\ \A p \in Sinks : Appending(p) => InOrder(sink[p].prev, recorded)

\* It covers all of them up to some point, unless a number was lost before that.
Chained ==
  ~overlapped /\ exchanged # "built on" =>
    /\ \A i \in DOMAIN table :
         \/ Begins(table[i].hash, recorded) /\ (exchanged = "no" => Len(table[i].hash) = table[i].seq)
         \/ LostBy(Len(table[i].hash), table, rowid)
    /\ \A p \in Sinks : Appending(p) =>
         sink[p].prev = recorded \/ LostBy(Len(sink[p].prev) + 1, table, rowid)

ChainInv == KeyInv /\ Numbered /\ Alone /\ Genuine /\ Chained

\* A step that changes neither the table nor the history, and starts no append.
Quiet ==
  /\ UNCHANGED dbVars
  /\ \A p \in Sinks : sink'[p].pc = "append" => sink'[p] = sink[p]

LEMMA QuietChain ==
  ASSUME ChainInv, Quiet
  PROVE  Numbered' /\ Alone' /\ Genuine' /\ Chained'
  <1>1. /\ table' = table /\ rowid' = rowid /\ recorded' = recorded
        /\ overlapped' = overlapped /\ exchanged' = exchanged
    BY DEF Quiet, dbVars
  <1>2. \A p \in Sinks : Appending(p)' => sink'[p] = sink[p] /\ Appending(p)
    BY DEF Quiet, Appending
  <1>4. Numbered'
    BY <1>1 DEF ChainInv, Numbered
  <1>5. Alone'
    BY <1>1, <1>2 DEF ChainInv, Alone
  <1>6. Genuine'
    BY <1>1, <1>2 DEF ChainInv, Genuine
  <1>7. Chained'
    BY <1>1, <1>2, Zenon DEF ChainInv, Chained
  <1>q. QED
    BY <1>4, <1>5, <1>6, <1>7
\* What append reads as the head: all that was recorded, or the end of a table that
\* has lost a number.
LEMMA HeadLinks ==
  ASSUME ChainInv, ~overlapped, exchanged = "no"
  PROVE  ChainHead = recorded \/ LostBy(Len(ChainHead) + 1, table, rowid)
  <1>0. table \in Seq(Rows) /\ recorded \in Seq(Sealed) /\ rowid = Len(recorded) /\ rowid \in Nat
    BY AnySeq DEF ChainInv, KeyInv, SinkTyped
  <1>1. CASE table = <<>>
    <2>1. ChainHead = <<>> /\ Len(ChainHead) = 0 /\ DOMAIN table = {}
      BY <1>1 DEF ChainHead, GENESIS
    <2>2. CASE rowid = 0
      BY <1>0, <2>1, <2>2, AnyEmpty, Zenon
    <2>3. CASE rowid # 0
      <3>1. 1 \in 1 .. rowid /\ 1 <= Len(ChainHead) + 1
        BY <1>0, <2>1, <2>3
      <3>q. QED
        BY <2>1, <3>1 DEF LostBy
    <2>q. QED
      BY <2>2, <2>3
  <1>2. CASE table # <<>>
    <2> DEFINE n == Len(table)
               h == table[n].hash
               seq == table[n].seq
    <2>1. n \in Nat \ {0} /\ DOMAIN table = 1 .. n /\ n \in DOMAIN table
      <3>1. n \in Nat /\ DOMAIN table = 1 .. n /\ n # 0
        BY <1>0, <1>2, AnySeq, AnyEmpty
      <3>q. QED
        BY <3>1
    <2>2. ChainHead = h
      BY <1>2 DEF ChainHead
    <2>3. table[n] \in Rows
      BY <1>0, <2>1, AnySeq
    <2>4. h \in Seq(Sealed) /\ Len(h) \in Nat /\ seq \in 1 .. rowid
      BY <2>1, <2>3, RowShape, AnySeq DEF ChainInv, Numbered
    <2>5. \/ Begins(h, recorded) /\ Len(h) = seq
          \/ LostBy(Len(h), table, rowid)
      BY <2>1 DEF ChainInv, Chained
    <2>6. \A i \in DOMAIN table : table[i].seq <= seq /\ table[i].seq \in 1 .. rowid
      BY <1>0, <2>1 DEF ChainInv, Numbered
    <2> HIDE DEF h, seq, n
    <2>7. CASE LostBy(Len(h), table, rowid)
      BY <2>2, <2>4, <2>7 DEF LostBy
    <2>8. CASE Begins(h, recorded) /\ Len(h) = seq /\ seq = rowid
      <3>1. Len(h) = Len(recorded) /\ \A i \in 1 .. Len(h) : h[i] = recorded[i]
        BY <1>0, <2>8 DEF Begins
      <3>2. h = recorded
        BY <1>0, <2>4, <3>1, AnyEqual
      <3>q. QED
        BY <2>2, <3>2
    <2>9. CASE Begins(h, recorded) /\ Len(h) = seq /\ seq # rowid
      <3> DEFINE g == seq + 1
      <3>1. g \in 1 .. rowid /\ g <= Len(h) + 1
        BY <1>0, <2>4, <2>9
      <3>2. \A i \in DOMAIN table : table[i].seq # g
        BY <1>0, <2>4, <2>6
      <3> HIDE DEF g
      <3>q. QED
        BY <2>2, <3>1, <3>2 DEF LostBy
    <2>q. QED
      BY <2>5, <2>7, <2>8, <2>9
  <1>q. QED
    BY <1>1, <1>2

\* The head is in the order of the record.
LEMMA HeadGenuine ==
  ASSUME ChainInv
  PROVE  InOrder(ChainHead, recorded)
  <1>0. table \in Seq(Rows) /\ recorded \in Seq(Sealed)
    BY Zenon DEF ChainInv, KeyInv, SinkTyped
  <1>1. CASE table = <<>>
    BY <1>0, <1>1, EmptyInOrder DEF ChainHead, GENESIS
  <1>2. CASE table # <<>>
    <2>1. Len(table) \in DOMAIN table
      BY <1>0, <1>2, AnySeq, AnyEmpty
    <2>q. QED
      BY <1>2, <2>1 DEF ChainHead, ChainInv, Genuine
  <1>q. QED
    BY <1>1, <1>2

\* append reads the head.
LEMMA ReceiveChain ==
  ASSUME ChainInv, NEW p \in Sinks, NEW sealed \in Sealed, Receive(p, sealed)
  PROVE  Numbered' /\ Alone' /\ Genuine' /\ Chained'
  <1>1. table' = table /\ rowid' = rowid /\ recorded' = recorded /\ UNCHANGED fileVars
    BY Zenon DEF Receive
  <1>2. /\ sink'[p].pc = "append" /\ sink'[p].prev = ChainHead
        /\ \A q \in Sinks \ {p} : sink'[q] = sink[q]
    BY <1>1, ReceiveMoves, MoveKeeps DEF ChainInv
  <1>3. /\ overlapped' = (overlapped \/ \E q \in Sinks : Appending(q))
        /\ exchanged' = IF exchanged = "no" THEN "no" ELSE "built on"
    BY Zenon DEF Receive, Appending
  <1>4. Numbered'
    BY <1>1 DEF ChainInv, Numbered
  <1>5. Alone'
    BY <1>2, <1>3, Zenon DEF Alone, Appending
  <1>6. Genuine'
    BY <1>1, <1>2, HeadGenuine DEF ChainInv, Genuine, Appending
  <1>7. Chained'
    <2> SUFFICES ASSUME ~overlapped', exchanged' # "built on" PROVE Chained'
      BY Zenon DEF Chained
    <2>1. ~overlapped /\ exchanged = "no" /\ exchanged' = "no" /\ \A q \in Sinks : ~Appending(q)
      BY <1>3, Zenon
    <2>2. ChainHead = recorded \/ LostBy(Len(ChainHead) + 1, table, rowid)
      BY <2>1, HeadLinks
    <2>3. \A q \in Sinks : Appending(q)' => q = p
      BY <1>2, <2>1 DEF Appending
    <2>4. \A i \in DOMAIN table :
            \/ Begins(table[i].hash, recorded) /\ (exchanged = "no" => Len(table[i].hash) = table[i].seq)
            \/ LostBy(Len(table[i].hash), table, rowid)
      BY <2>1 DEF ChainInv, Chained
    <2>q. QED
      BY <1>1, <1>2, <2>1, <2>2, <2>3, <2>4 DEF Chained
  <1>q. QED
    BY <1>4, <1>5, <1>6, <1>7
\* A number that was lost stays lost when a row is added.
LEMMA LostStaysLost ==
  ASSUME NEW rows \in Seq(Rows), NEW row \in Rows, NEW top \in Nat, row.seq = top + 1, NEW n,
         LostBy(n, rows, top)
  PROVE  LostBy(n, Append(rows, row), top + 1)
  <1>1. PICK g \in 1 .. top : g <= n /\ \A i \in DOMAIN rows : rows[i].seq # g
    BY DEF LostBy
  <1> DEFINE t == Append(rows, row)
  <1>2. \A i \in DOMAIN t : \/ i \in DOMAIN rows /\ t[i] = rows[i]
                            \/ i = Len(rows) + 1 /\ t[i] = row
    BY EachAppended
  <1> HIDE DEF t
  <1>3. g \in 1 .. top + 1 /\ row.seq # g
    BY <1>1
  <1>4. \A i \in DOMAIN t : t[i].seq # g
    BY <1>1, <1>2, <1>3
  <1>5. LostBy(n, t, top + 1)
    BY <1>1, <1>3, <1>4 DEF LostBy
  <1>q. QED
    BY <1>5 DEF t

\* The INSERT commits.
LEMMA CommitChain ==
  ASSUME ChainInv, NEW p \in Sinks, Commit(p)
  PROVE  Numbered' /\ Alone' /\ Genuine' /\ Chained'
  <1>1. PICK row \in Rows :
          /\ row.seq = rowid + 1 /\ row.hash = Append(sink[p].prev, sink[p].sealed)
          /\ table' = Append(table, row) /\ recorded' = Append(recorded, sink[p].sealed)
          /\ rowid' = rowid + 1 /\ UNCHANGED <<fileVars, overlapped, exchanged, tampers>>
          /\ Appending(p) /\ sink[p].sealed \in Sealed /\ sink[p].prev \in Seq(Sealed)
    BY CommitAppends DEF ChainInv, Appending
  <1>2. sink'[p].pc = "ready" /\ \A q \in Sinks \ {p} : sink'[q] = sink[q]
    BY <1>1, CommitMoves, MoveKeeps DEF ChainInv
  <1>3. /\ table \in Seq(Rows) /\ recorded \in Seq(Sealed) /\ rowid = Len(recorded) /\ rowid \in Nat
        /\ sink \in [Sinks -> Process]
    BY AnySeq, Zenon DEF ChainInv, KeyInv, SinkTyped
  <1>4. Len(table) \in Nat /\ DOMAIN table = 1 .. Len(table) /\ \A i \in DOMAIN table : table[i] \in Rows
    BY <1>3, AnySeq
  <1>5. \A i \in DOMAIN table' : \/ i \in DOMAIN table /\ table'[i] = table[i]
                                 \/ i = Len(table) + 1 /\ table'[i] = row
    BY <1>1, <1>3, EachAppended
  <1>6. \A q \in Sinks : Appending(q)' => q # p /\ sink'[q] = sink[q] /\ Appending(q)
    BY <1>2 DEF Appending
  <1>7. Numbered'
    <2>1. \A i \in DOMAIN table : table[i].seq \in 1 .. rowid
      BY DEF ChainInv, Numbered
    <2>2. \A i, j \in DOMAIN table : i < j => table[i].seq < table[j].seq
      BY DEF ChainInv, Numbered
    <2>3. \A i \in DOMAIN table' : table'[i].seq \in 1 .. rowid'
      BY <1>1, <1>3, <1>5, <2>1
    <2>4. ASSUME NEW i \in DOMAIN table', NEW j \in DOMAIN table', i < j
          PROVE  table'[i].seq < table'[j].seq
      <3>1. CASE j \in DOMAIN table
        BY <1>4, <1>5, <2>2, <2>4, <3>1
      <3>2. CASE j \notin DOMAIN table
        <4>1. i \in DOMAIN table /\ table'[i] = table[i] /\ table'[j] = row
          BY <1>4, <1>5, <2>4, <3>2
        <4>q. QED
          BY <1>1, <1>3, <2>1, <4>1
      <3>q. QED
        BY <3>1, <3>2
    <2>q. QED
      BY <2>3, <2>4 DEF Numbered
  <1>8. Alone'
    BY <1>1, <1>6 DEF ChainInv, Alone
  <1>9. Genuine'
    <2>1. InOrder(row.hash, recorded')
      <3>1. InOrder(sink[p].prev, recorded)
        BY <1>1 DEF ChainInv, Genuine
      <3>q. QED
        BY <1>1, <1>3, <3>1, InOrderGrows
    <2>2. ASSUME NEW i \in DOMAIN table PROVE InOrder(table[i].hash, recorded')
      <3>1. InOrder(table[i].hash, recorded) /\ table[i].hash \in Seq(Sealed)
        BY <1>4, RowShape DEF ChainInv, Genuine
      <3>q. QED
        BY <1>1, <1>3, <3>1, InOrderGrows
    <2>3. ASSUME NEW q \in Sinks, Appending(q) PROVE InOrder(sink[q].prev, recorded')
      <3>1. InOrder(sink[q].prev, recorded)
        BY <2>3 DEF ChainInv, Genuine
      <3>2. sink[q].prev \in Seq(Sealed)
        BY <1>3, ProcessShape
      <3>q. QED
        BY <1>1, <1>3, <3>1, <3>2, InOrderGrows
    <2>q. QED
      BY <1>5, <1>6, <2>1, <2>2, <2>3 DEF Genuine
  <1>10. Chained'
    <2> SUFFICES ASSUME ~overlapped', exchanged' # "built on" PROVE Chained'
      BY Zenon DEF Chained
    <2>1. ~overlapped /\ exchanged # "built on" /\ exchanged' = exchanged
      BY <1>1, Zenon
    <2>2. \A q \in Sinks : ~Appending(q)'
      BY <1>1, <1>6, <2>1, Zenon DEF ChainInv, Alone
    <2>3. \A n : LostBy(n, table, rowid) => LostBy(n, table', rowid')
      BY <1>1, <1>3, LostStaysLost, Zenon
    <2>4. ASSUME NEW i \in DOMAIN table
          PROVE  \/ Begins(table[i].hash, recorded') /\ (exchanged = "no" => Len(table[i].hash) = table[i].seq)
                 \/ LostBy(Len(table[i].hash), table', rowid')
      <3>1. \/ Begins(table[i].hash, recorded) /\ (exchanged = "no" => Len(table[i].hash) = table[i].seq)
            \/ LostBy(Len(table[i].hash), table, rowid)
        BY <2>1, Zenon DEF ChainInv, Chained
      <3>2. table[i].hash \in Seq(Sealed)
        BY <1>4, RowShape, Zenon
      <3>3. Begins(table[i].hash, recorded) => Begins(table[i].hash, recorded')
        BY <1>1, <1>3, <3>2, BeginsGrows, Zenon
      <3>q. QED
        BY <2>3, <3>1, <3>3, Zenon
    <2>5. \/ Begins(row.hash, recorded') /\ Len(row.hash) = row.seq
          \/ LostBy(Len(row.hash), table', rowid')
      <3>1. sink[p].prev = recorded \/ LostBy(Len(sink[p].prev) + 1, table, rowid)
        BY <1>1, <2>1, Zenon DEF ChainInv, Chained
      <3>2. Len(row.hash) = Len(sink[p].prev) + 1
        <4> DEFINE h == sink[p].prev
                   x == sink[p].sealed
        <4>1. h \in Seq(Sealed) /\ x \in Sealed /\ row.hash = Append(h, x)
          BY <1>1, Zenon
        <4> HIDE DEF h, x
        <4>2. Len(Append(h, x)) = Len(h) + 1
          BY ONLY <4>1, AnyAppend
        <4>q. QED
          BY <4>1, <4>2, Zenon DEF h, x
      <3>3. CASE sink[p].prev = recorded
        BY <1>1, <1>3, <3>2, <3>3, BeginsGrows, Zenon
      <3>4. CASE LostBy(Len(sink[p].prev) + 1, table, rowid)
        BY <2>3, <3>2, <3>4, Zenon
      <3>q. QED
        BY <3>1, <3>3, <3>4, Zenon
    <2>q. QED
      BY <1>5, <2>1, <2>2, <2>4, <2>5, Zenon DEF Chained
  <1>q. QED
    BY <1>7, <1>8, <1>9, <1>10

\* The table is changed behind the sink's back.
LEMMA TamperChain ==
  ASSUME ChainInv, Tampering
  PROVE  Numbered' /\ Alone' /\ Genuine' /\ Chained'
  <1>1. /\ Rearranged /\ table' \in Seq(Rows)
        /\ sink' = sink /\ rowid' = rowid /\ recorded' = recorded /\ overlapped' = overlapped
        /\ exchanged' = "no" => exchanged = "no"
        /\ exchanged' # "built on" => exchanged # "built on"
    BY TamperShape, Zenon DEF ChainInv, KeyInv
  <1>2. PICK at \in [DOMAIN table' -> DOMAIN table] :
          /\ \A k \in DOMAIN table' :
               /\ table'[k].seq = table[at[k]].seq
               /\ \E m \in DOMAIN table : table'[k].hash = table[m].hash
               /\ exchanged' = "no" => table'[k].hash = table[at[k]].hash
          /\ \A k, l \in DOMAIN table' : k < l => at[k] < at[l]
    BY <1>1, Zenon DEF Rearranged
  <1>3. \A k \in DOMAIN table' : at[k] \in DOMAIN table
    BY <1>2
  <1>4. Numbered'
    BY <1>1, <1>2, <1>3, Zenon DEF ChainInv, Numbered
  <1>5. Alone'
    BY <1>1, Zenon DEF ChainInv, Alone, Appending
  <1>6. Genuine'
    BY <1>1, <1>2, Zenon DEF ChainInv, Genuine, Appending
  <1>7. Chained'
    <2> SUFFICES ASSUME ~overlapped', exchanged' # "built on" PROVE Chained'
      BY Zenon DEF Chained
    <2>1. ~overlapped /\ exchanged # "built on"
      BY <1>1, Zenon
    <2>2. ASSUME NEW n, LostBy(n, table, rowid) PROVE LostBy(n, table', rowid')
      <3>1. PICK g \in 1 .. rowid : g <= n /\ \A i \in DOMAIN table : table[i].seq # g
        BY <2>2, Zenon DEF LostBy
      <3>2. \A k \in DOMAIN table' : table'[k].seq # g
        BY <1>2, <1>3, <3>1, Zenon
      <3>3. rowid' = rowid
        BY <1>1, Zenon
      <3>q. QED
        BY <3>1, <3>2, <3>3, Zenon DEF LostBy
    <2>3. \A m \in DOMAIN table :
            \/ Begins(table[m].hash, recorded) /\ (exchanged = "no" => Len(table[m].hash) = table[m].seq)
            \/ LostBy(Len(table[m].hash), table, rowid)
      BY <2>1, Zenon DEF ChainInv, Chained
    <2>4. ASSUME NEW k \in DOMAIN table'
          PROVE  \/ Begins(table'[k].hash, recorded) /\ (exchanged' = "no" => Len(table'[k].hash) = table'[k].seq)
                 \/ LostBy(Len(table'[k].hash), table', rowid')
      <3>1. CASE exchanged' = "no"
        BY <1>1, <1>2, <1>3, <2>2, <2>3, <3>1
      <3>2. CASE exchanged' # "no"
        <4>1. PICK m \in DOMAIN table : table'[k].hash = table[m].hash
          BY <1>2, Zenon
        <4>q. QED
          BY <2>2, <2>3, <3>2, <4>1, Zenon
      <3>q. QED
        BY <3>1, <3>2, Zenon
    <2>5. \A p \in Sinks : Appending(p) =>
            sink[p].prev = recorded \/ LostBy(Len(sink[p].prev) + 1, table, rowid)
      BY <2>1, Zenon DEF ChainInv, Chained
    <2>q. QED
      BY <1>1, <2>2, <2>4, <2>5, Zenon DEF Chained, Appending
  <1>q. QED
    BY <1>4, <1>5, <1>6, <1>7
\* Each step that is not an append's, a commit's or a tamper's is quiet.
LEMMA QuietSteps ==
  ASSUME KeyInv,
         \/ Minting \/ UNCHANGED sinkVars
         \/ \E p \in Sinks : Start(p) \/ Stop(p) \/ CommitConflicts(p)
  PROVE  Quiet
  <1>1. CASE Minting
    BY <1>1 DEF Minting, MintSeed, MintPub, MintDies, Quiet
  <1>2. CASE UNCHANGED sinkVars
    BY <1>2 DEF sinkVars, Quiet
  <1>3. ASSUME NEW p \in Sinks, Start(p) \/ Stop(p) \/ CommitConflicts(p) PROVE Quiet
    <2>1. UNCHANGED <<fileVars, dbVars>>
      BY <1>3 DEF Start, Stop, CommitConflicts
    <2>2. Moves(p, sink'[p]) /\ sink'[p].pc # "append"
      BY <1>3, StartMoves, StopMoves DEF SinkDown
    <2>3. \A q \in Sinks \ {p} : sink'[q] = sink[q]
      BY <2>1, <2>2, MoveKeeps
    <2>q. QED
      BY <2>1, <2>2, <2>3 DEF Quiet
  <1>q. QED
    BY <1>1, <1>2, <1>3

\* Every step keeps the chain.
LEMMA ChainStep ==
  ASSUME ChainInv, [Next]_sinkVars
  PROVE  ChainInv'
  <1>1. KeyInv'
    BY KeyStep DEF ChainInv
  <1>2. CASE Quiet
    BY <1>1, <1>2, QuietChain DEF ChainInv
  <1>3. ASSUME NEW p \in Sinks, NEW sealed \in Sealed, Receive(p, sealed) PROVE ChainInv'
    BY <1>1, <1>3, ReceiveChain DEF ChainInv
  <1>4. ASSUME NEW p \in Sinks, Commit(p) PROVE ChainInv'
    BY <1>1, <1>4, CommitChain DEF ChainInv
  <1>5. CASE Tampering
    BY <1>1, <1>5, TamperChain DEF ChainInv
  <1>q. QED
    BY <1>2, <1>3, <1>4, <1>5, QuietSteps DEF Next, Sinking, ChainInv

LEMMA ChainInit == Init => ChainInv
  <1> SUFFICES ASSUME Init PROVE ChainInv
    OBVIOUS
  <1>1. DOMAIN table = {} /\ \A p \in Sinks : ~Appending(p)
    BY DEF Init, Appending, SinkDown
  <1>q. QED
    BY <1>1, KeyInit, Zenon DEF ChainInv, Numbered, Alone, Genuine, Chained

\* The payloads in the table.
LEMMA SealedEntries ==
  ASSUME NEW rows \in Seq(Rows)
  PROVE  /\ SealedOf(rows) \in Seq(Sealed) /\ Len(SealedOf(rows)) = Len(rows)
         /\ Len(rows) \in Nat /\ DOMAIN rows = 1 .. Len(rows)
         /\ \A i \in 1 .. Len(rows) : SealedOf(rows)[i] = rows[i].sealed
  <1>1. Len(rows) \in Nat /\ DOMAIN rows = 1 .. Len(rows) /\ \A i \in 1 .. Len(rows) : rows[i].sealed \in Sealed
    BY AnySeq, RowShape
  <1>2. SealedOf(rows) = [i \in 1 .. Len(rows) |-> rows[i].sealed]
    BY <1>1 DEF SealedOf
  <1>3. SealedOf(rows) \in [1 .. Len(rows) -> Sealed]
    BY <1>1, <1>2
  <1>4. SealedOf(rows) \in Seq(Sealed)
    BY <1>1, <1>3, AnyFunction
  <1>q. QED
    BY <1>1, <1>2, <1>4, AnySeq

\* The hash of the last row of a table that audits intact is all of the table.
LEMMA IntactLast ==
  ASSUME NEW rows \in Seq(Rows), NEW keys, Intact(rows, keys), rows # <<>>
  PROVE  /\ Len(rows) \in DOMAIN rows
         /\ rows[Len(rows)].hash = SealedOf(rows)
         /\ \A g \in 1 .. Len(rows) : g \in DOMAIN rows /\ rows[g].seq = g
  <1>1. /\ SealedOf(rows) \in Seq(Sealed) /\ Len(SealedOf(rows)) = Len(rows)
        /\ Len(rows) \in Nat /\ DOMAIN rows = 1 .. Len(rows)
    BY SealedEntries
  <1>2. Len(rows) # 0
    BY AnyEmpty
  <1>3. Len(rows) \in DOMAIN rows
    BY <1>1, <1>2
  <1>4. rows[Len(rows)].hash = SubSeq(SealedOf(rows), 1, Len(rows))
    BY <1>3 DEF Intact, RowPasses, Recomputed
  <1>5. SubSeq(SealedOf(rows), 1, Len(SealedOf(rows))) = SealedOf(rows)
    BY <1>1, AnyWhole
  <1>q. QED
    BY <1>1, <1>3, <1>4, <1>5 DEF Intact, RowPasses

\* When the audit says INTACT the rows are payloads that were recorded, in their order,
\* and all of those up to some point, for any number of records and of changes behind
\* the sink's back: unless two sinks appended at once, or one to exchanged rows.
\* (Store::audit)
THEOREM IntactIsPrefixHolds == Spec => []IntactIsPrefix
  <1>1. ChainInv /\ [Next]_sinkVars => ChainInv'
    BY ChainStep
  <1>2. ASSUME ChainInv, Intact(table, RegisteredKeys)
        PROVE  /\ InOrder(SealedOf(table), recorded)
               /\ ~overlapped /\ exchanged # "built on" => Begins(SealedOf(table), recorded)
    <2>0. /\ table \in Seq(Rows) /\ recorded \in Seq(Sealed)
          /\ rowid = Len(recorded) /\ SealedOf(table) \in Seq(Sealed)
      BY <1>2, SealedEntries, Zenon DEF ChainInv, KeyInv, SinkTyped
    <2>1. CASE table = <<>>
      <3>1. SealedOf(table) = <<>>
        <4>1. Len(SealedOf(table)) = 0
          BY <2>0, <2>1, SealedEntries, AnyEmpty, Zenon
        <4>q. QED
          BY <2>0, <4>1, AnyEmpty
      <3>2. Begins(<<>>, recorded)
        BY <2>0, AnySeq DEF Begins
      <3>q. QED
        BY <2>0, <3>1, <3>2, EmptyInOrder, Zenon
    <2>2. CASE table # <<>>
      <3> DEFINE n == Len(table)
      <3>1. /\ n \in DOMAIN table /\ table[n].hash = SealedOf(table)
            /\ \A g \in 1 .. n : g \in DOMAIN table /\ table[g].seq = g
        BY <1>2, <2>0, <2>2, IntactLast
      <3>2. Len(SealedOf(table)) = n /\ n \in Nat
        BY <2>0, SealedEntries
      <3> HIDE DEF n
      <3>3. InOrder(SealedOf(table), recorded)
        BY <1>2, <3>1 DEF ChainInv, Genuine
      <3>4. ASSUME ~overlapped, exchanged # "built on" PROVE Begins(SealedOf(table), recorded)
        <4>1. Begins(SealedOf(table), recorded) \/ LostBy(n, table, rowid)
          BY <1>2, <3>1, <3>2, <3>4, Zenon DEF ChainInv, Chained
        <4>2. ~LostBy(n, table, rowid)
          <5>1. SUFFICES ASSUME NEW g \in 1 .. rowid, g <= n, \A i \in DOMAIN table : table[i].seq # g PROVE FALSE
            BY DEF LostBy
          <5>2. g \in 1 .. n
            BY <3>2, <5>1
          <5>q. QED
            BY <3>1, <5>1, <5>2
        <4>q. QED
          BY <4>1, <4>2
      <3>q. QED
        BY <3>3, <3>4, Zenon
    <2>q. QED
      BY <2>1, <2>2, Zenon
  <1>3. ChainInv => IntactIsPrefix
    BY <1>2, Zenon DEF IntactIsPrefix
  <1>q. QED
    BY <1>1, <1>3, ChainInit, PTL DEF Spec
----------------------------------------------------------------------------
(* A record nobody tampered with.                                          *)

\* Row i is the i-th, is linked to the payloads before it, and verifies.
Sound(rows, i, files) ==
  /\ rows[i].seq = i
  /\ rows[i].prev = Recomputed(rows, i - 1) /\ rows[i].hash = Recomputed(rows, i)
  /\ rows[i].source = rows[i].sealed.source
  /\ files[rows[i].source] = rows[i].sealed.key

Clean ==
  tampers = 0 /\ ~overlapped =>
    /\ Len(table) = rowid
    /\ \A i \in DOMAIN table : Sound(table, i, pubs)
    /\ \A p \in Sinks : Appending(p) => sink[p].prev = SealedOf(table)

CleanInv == ChainInv /\ Clean

\* The payloads of a table with one more row, and of its beginnings.
LEMMA SealedAppend ==
  ASSUME NEW rows \in Seq(Rows), NEW row \in Rows
  PROVE  /\ SealedOf(Append(rows, row)) = Append(SealedOf(rows), row.sealed)
         /\ \A i \in 0 .. Len(rows) : Recomputed(Append(rows, row), i) = Recomputed(rows, i)
         /\ Recomputed(Append(rows, row), Len(rows)) = SealedOf(rows)
         /\ Recomputed(Append(rows, row), Len(rows) + 1) = Append(SealedOf(rows), row.sealed)
  <1> DEFINE n == Len(rows)
             s == SealedOf(rows)
             x == row.sealed
             t == Append(rows, row)
             u == SealedOf(t)
  <1>1. /\ s \in Seq(Sealed) /\ Len(s) = n /\ n \in Nat /\ DOMAIN rows = 1 .. n
        /\ \A i \in 1 .. n : s[i] = rows[i].sealed
    BY SealedEntries
  <1>2. /\ t \in Seq(Rows) /\ Len(t) = n + 1
        /\ \A i \in 1 .. n : t[i] = rows[i]
        /\ t[n + 1] = row
    BY <1>1, AnyAppend
  <1>3. /\ u \in Seq(Sealed) /\ Len(u) = n + 1 /\ \A i \in 1 .. n + 1 : u[i] = t[i].sealed
    BY <1>2, SealedEntries, Zenon
  <1>4. x \in Sealed
    BY RowShape
  <1>5. /\ Append(s, x) \in Seq(Sealed) /\ Len(Append(s, x)) = n + 1
        /\ \A i \in 1 .. n : Append(s, x)[i] = s[i]
        /\ Append(s, x)[n + 1] = x
    BY <1>1, <1>4, AnyAppend
  <1>6. u = Append(s, x)
    <2>1. \A i \in 1 .. n : u[i] = Append(s, x)[i]
      BY <1>1, <1>2, <1>3, <1>5
    <2>2. u[n + 1] = Append(s, x)[n + 1]
      BY <1>1, <1>2, <1>3, <1>5
    <2> DEFINE v == Append(s, x)
    <2>3. v \in Seq(Sealed) /\ Len(v) = n + 1 /\ (\A i \in 1 .. n : u[i] = v[i]) /\ u[n + 1] = v[n + 1]
      BY <1>5, <2>1, <2>2
    <2> HIDE DEF v, u, n
    <2>4. \A i \in 1 .. n + 1 : u[i] = v[i]
      <3>1. n \in Nat
        BY <1>1
      <3>q. QED
        BY <2>3, <3>1
    <2>5. u = v
      BY <1>3, <2>3, <2>4, AnyEqual
    <2>q. QED
      BY <2>5 DEF v
  <1>7. ASSUME NEW i \in 0 .. n PROVE SubSeq(u, 1, i) = SubSeq(s, 1, i)
    <2>1. SubSeq(u, 1, i) = [k \in 1 .. i |-> u[k]] /\ SubSeq(s, 1, i) = [k \in 1 .. i |-> s[k]]
      <3>1. i \in Nat /\ (1 .. i) \subseteq 1 .. n /\ i \in Int
        BY <1>1
      <3>q. QED
        BY <3>1
    <2>2. \A k \in 1 .. i : u[k] = s[k]
      BY <1>1, <1>2, <1>3
    <2>q. QED
      BY <2>1, <2>2
  <1>8. SubSeq(s, 1, Len(s)) = s
    BY <1>1, AnyWhole
  <1>9. SubSeq(u, 1, Len(u)) = u
    BY <1>3, AnyWhole
  <1>10. n \in 0 .. n
    BY <1>1
  <1>q. QED
    BY <1>1, <1>3, <1>6, <1>7, <1>8, <1>9, <1>10 DEF Recomputed
\* The head of a clean table is the hash of all its payloads.
LEMMA CleanHead ==
  ASSUME KeyInv, \A i \in DOMAIN table : Sound(table, i, pubs)
  PROVE  ChainHead = SealedOf(table)
  <1>0. /\ table \in Seq(Rows)
        /\ SealedOf(table) \in Seq(Sealed) /\ Len(SealedOf(table)) = Len(table)
        /\ Len(table) \in Nat /\ DOMAIN table = 1 .. Len(table)
    BY SealedEntries, Zenon DEF KeyInv, SinkTyped
  <1>1. CASE table = <<>>
    BY <1>0, <1>1, AnyEmpty DEF ChainHead, GENESIS
  <1>2. CASE table # <<>>
    <2>1. Len(table) # 0
      BY <1>0, <1>2, AnyEmpty
    <2>2. Len(table) \in DOMAIN table
      BY <1>0, <2>1
    <2>3. table[Len(table)].hash = SubSeq(SealedOf(table), 1, Len(SealedOf(table)))
      BY <1>0, <2>2 DEF Sound, Recomputed
    <2>q. QED
      BY <1>0, <1>2, <2>3, AnyWhole DEF ChainHead
  <1>q. QED
    BY <1>1, <1>2

\* A row that verified under the keys on disk still does after a mint.
LEMMA SoundStays ==
  ASSUME KeyInv, Minting, NEW i \in DOMAIN table, Sound(table, i, pubs)
  PROVE  Sound(table, i, pubs')
  <1>1. \A s \in Sources : pubs[s] # None => pubs'[s] = pubs[s]
    BY PubsStay DEF Minting, MintSeed, MintDies
  <1>2. table[i] \in Rows
    <2>1. table \in Seq(Rows)
      BY Zenon DEF KeyInv, SinkTyped
    <2>q. QED
      BY <2>1, AnySeq
  <1>3. table[i].source \in Sources /\ table[i].sealed.key \in Keys
    BY <1>2, RowShape DEF Sealed
  <1>q. QED
    BY <1>1, <1>3 DEF Sound, Keys, None

\* Every step keeps the record clean until the table is tampered with or two sinks
\* append at once.
LEMMA CleanStep ==
  ASSUME CleanInv, [Next]_sinkVars
  PROVE  CleanInv'
  <1>0. ChainInv' /\ KeyInv /\ tampers \in Nat /\ table \in Seq(Rows)
    BY ChainStep, Zenon DEF CleanInv, ChainInv, KeyInv, SinkTyped
  <1> SUFFICES ASSUME tampers' = 0, ~overlapped'
               PROVE  /\ Len(table') = rowid'
                      /\ \A i \in DOMAIN table' : Sound(table', i, pubs')
                      /\ \A p \in Sinks : Appending(p)' => sink'[p].prev = SealedOf(table')
    BY <1>0 DEF CleanInv, Clean
  <1>1. CASE Tampering
    <2>1. tampers' = tampers + 1
      BY <1>0, <1>1, TamperShape, Zenon DEF KeyInv
    <2>q. QED
      BY <1>0, <2>1
  <1>2. ASSUME tampers' = tampers, overlapped' = overlapped \/ ~overlapped
        PROVE  /\ Len(table) = rowid
               /\ \A i \in DOMAIN table : Sound(table, i, pubs)
               /\ \A p \in Sinks : Appending(p) => sink[p].prev = SealedOf(table)
    BY <1>2 DEF CleanInv, Clean
  <1>3. CASE Minting
    <2>1. UNCHANGED <<table, rowid, sink, tampers, overlapped>>
      BY <1>3 DEF Minting, MintSeed, MintPub, MintDies, dbVars
    <2>q. QED
      BY <1>0, <1>2, <1>3, <2>1, SoundStays DEF Appending
  <1>4. CASE Quiet /\ UNCHANGED <<pubs, tampers>>
    <2>1. UNCHANGED <<table, rowid, overlapped>>
      BY <1>4 DEF Quiet, dbVars
    <2>2. \A p \in Sinks : Appending(p)' => sink'[p] = sink[p] /\ Appending(p)
      BY <1>4 DEF Quiet, Appending
    <2>q. QED
      BY <1>2, <1>4, <2>1, <2>2
  <1>5. ASSUME NEW p \in Sinks, NEW sealed \in Sealed, Receive(p, sealed)
        PROVE  /\ Len(table') = rowid'
               /\ \A i \in DOMAIN table' : Sound(table', i, pubs')
               /\ \A q \in Sinks : Appending(q)' => sink'[q].prev = SealedOf(table')
    <2>1. UNCHANGED <<table, rowid, pubs, tampers, fileVars>>
      BY <1>5, Zenon DEF Receive, fileVars
    <2>2. ~overlapped
      BY <1>5, Zenon DEF Receive
    <2>3. /\ sink'[p].prev = ChainHead /\ \A q \in Sinks \ {p} : sink'[q] = sink[q]
      BY <1>0, <1>5, <2>1, ReceiveMoves, MoveKeeps
    <2>4. ChainHead = SealedOf(table)
      BY <1>0, <1>2, <2>1, <2>2, CleanHead
    <2>q. QED
      BY <1>2, <2>1, <2>2, <2>3, <2>4 DEF Appending
  <1>6. ASSUME NEW p \in Sinks, Commit(p)
        PROVE  /\ Len(table') = rowid'
               /\ \A i \in DOMAIN table' : Sound(table', i, pubs')
               /\ \A q \in Sinks : Appending(q)' => sink'[q].prev = SealedOf(table')
    <2>1. PICK row \in Rows :
            /\ row.seq = rowid + 1 /\ row.sealed = sink[p].sealed /\ row.prev = sink[p].prev
            /\ row.source = sink[p].sealed.source
            /\ row.hash = Append(sink[p].prev, sink[p].sealed)
            /\ table' = Append(table, row) /\ rowid' = rowid + 1
            /\ UNCHANGED <<fileVars, overlapped, tampers>> /\ Appending(p)
      BY <1>0, <1>6, CommitAppends DEF Appending
    <2>2. /\ Len(table) = rowid
          /\ \A i \in DOMAIN table : Sound(table, i, pubs)
          /\ sink[p].prev = SealedOf(table)
      BY <1>2, <2>1
    <2>3. pubs' = pubs /\ pubs[sink[p].sealed.source] = sink[p].sealed.key
      BY <1>0, <2>1 DEF fileVars, KeyInv, KeysKnown, Appending
    <2>4. /\ Len(table) \in Nat /\ DOMAIN table = 1 .. Len(table) /\ Len(table') = Len(table) + 1
          /\ \A i \in DOMAIN table' : \/ i \in DOMAIN table /\ table'[i] = table[i]
                                      \/ i = Len(table) + 1 /\ table'[i] = row
      BY <1>0, <2>1, AnySeq, AnyAppend, EachAppended
    <2>5. /\ \A i \in 0 .. Len(table) : Recomputed(table', i) = Recomputed(table, i)
          /\ Recomputed(table', Len(table)) = SealedOf(table)
          /\ Recomputed(table', Len(table) + 1) = Append(SealedOf(table), row.sealed)
      BY <1>0, <2>1, SealedAppend
    <2>6. ASSUME NEW i \in DOMAIN table PROVE Sound(table', i, pubs')
      <3>1. Sound(table, i, pubs)
        BY <2>2
      <3>2. table'[i] = table[i]
        BY <2>4
      <3>3. i \in 0 .. Len(table) /\ i - 1 \in 0 .. Len(table)
        BY <2>4
      <3>4. Recomputed(table', i) = Recomputed(table, i) /\ Recomputed(table', i - 1) = Recomputed(table, i - 1)
        BY <2>5, <3>3
      <3>q. QED
        BY <2>3, <3>1, <3>2, <3>4 DEF Sound
    <2>7. ASSUME NEW i \in DOMAIN table', i = Len(table) + 1, table'[i] = row PROVE Sound(table', i, pubs')
      <3>1. i - 1 = Len(table) /\ i = rowid + 1
        BY <2>2, <2>4, <2>7
      <3>2. row.prev = Recomputed(table', i - 1)
        BY <2>1, <2>2, <2>5, <3>1
      <3>3. row.hash = Recomputed(table', i)
        BY <2>1, <2>2, <2>5, <2>7
      <3>4. row.seq = i /\ row.source = row.sealed.source /\ pubs'[row.source] = row.sealed.key
        BY <2>1, <2>3, <3>1
      <3>q. QED
        BY <2>7, <3>2, <3>3, <3>4 DEF Sound
    <2>8. \A q \in Sinks : ~Appending(q)'
      <3>1. sink'[p].pc = "ready" /\ \A q \in Sinks \ {p} : sink'[q] = sink[q]
        BY <1>0, <1>6, <2>1, CommitMoves, MoveKeeps
      <3>2. \A q \in Sinks : Appending(q) => q = p
        BY <2>1 DEF CleanInv, ChainInv, Alone
      <3>q. QED
        BY <3>1, <3>2 DEF Appending
    <2>q. QED
      BY <2>1, <2>2, <2>4, <2>6, <2>7, <2>8
  <1>7. ASSUME \/ UNCHANGED sinkVars \/ \E p \in Sinks : Start(p) \/ Stop(p) \/ CommitConflicts(p)
        PROVE  Quiet /\ UNCHANGED <<pubs, tampers>>
    <2>1. Quiet
      BY <1>0, <1>7, QuietSteps
    <2>2. UNCHANGED <<pubs, tampers>>
      BY <1>7, Zenon DEF sinkVars, fileVars, Start, Stop, CommitConflicts
    <2>q. QED
      BY <2>1, <2>2
  <1>q. QED
    BY <1>1, <1>3, <1>4, <1>5, <1>6, <1>7 DEF Next, Sinking

\* What the sinks record audits clean under the keys on disk, for any number of sinks,
\* sources, records, crashes and restarts, until the table is tampered with or two sinks
\* append at once.  (Store::append, accept, Store::audit)
THEOREM RecordsAuditCleanHolds == Spec => []RecordsAuditClean
  <1>1. CleanInv /\ [Next]_sinkVars => CleanInv'
    BY CleanStep
  <1>2. Init => CleanInv
    <2> SUFFICES ASSUME Init PROVE CleanInv
      OBVIOUS
    <2>1. DOMAIN table = {} /\ Len(table) = rowid /\ \A p \in Sinks : ~Appending(p)
      BY DEF Init, Appending, SinkDown
    <2>q. QED
      BY <2>1, ChainInit DEF CleanInv, Clean
  <1>3. ASSUME CleanInv, tampers = 0, ~overlapped PROVE Intact(table, RegisteredKeys)
    <2>1. KeyInv /\ table \in Seq(Rows) /\ \A i \in DOMAIN table : Sound(table, i, pubs)
      BY <1>3, Zenon DEF CleanInv, Clean, ChainInv, KeyInv, SinkTyped
    <2>2. ASSUME NEW i \in DOMAIN table PROVE RowPasses(table, i, RegisteredKeys)
      <3>1. Sound(table, i, pubs)
        BY <2>1
      <3>2. table[i] \in Rows
        BY <2>1, AnySeq
      <3>3. table[i].source \in Sources /\ table[i].sealed.key \in Keys
        BY <3>2, RowShape DEF Sealed
      <3>4. pubs[table[i].source] # None
        BY <3>1, <3>3 DEF Sound, Keys, None
      <3>5. table[i].source \in DOMAIN RegisteredKeys /\ RegisteredKeys[table[i].source] = pubs[table[i].source]
        BY <2>1, <3>3, <3>4, RegisteredRing
      <3>q. QED
        BY <3>1, <3>5 DEF Sound, RowPasses, Verifies
    <2>q. QED
      BY <2>2 DEF Intact
  <1>4. CleanInv => RecordsAuditClean
    BY <1>3 DEF RecordsAuditClean
  <1>q. QED
    BY <1>1, <1>2, <1>4, PTL DEF Spec
=============================================================================
