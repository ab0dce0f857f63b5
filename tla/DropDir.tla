------------------------------ MODULE DropDir ------------------------------
(***************************************************************************)
(* The dir transport: read each file dropped into a folder once its size   *)
(* is stable across two polls.                                             *)
(*                                                                         *)
(* A file is a name and a version, for a name may be deleted and dropped   *)
(* again; its content is a number of lines, and its size that number.      *)
(***************************************************************************)
EXTENDS Transport, SequencesExt, FiniteSetsExt

CONSTANTS Names,        \* the file names
          MaxSeen,      \* MAX_SEEN
          MaxDrops,     \* bound: times each name is dropped
          MaxLines      \* bound: lines of a file

ASSUME DirAssumption == MaxSeen \in Nat \ {0} /\ MaxDrops \in [Names -> Nat] /\ MaxLines \in Nat

IsDir == kind = "dir"
Versions == 1 .. Max(Range(MaxDrops))
Lines == Names \X Versions \X (1 .. MaxLines)

NoFile == [name |-> "", version |-> 0, at |-> 0]

\* open: without process_existing the files that are there count as seen.
DirInit ==
  /\ kind \in Kinds \cap {"dir"}
  /\ \E existing \in SUBSET Names, process \in BOOLEAN :
       /\ peer = [live |-> [n \in Names |-> IF n \in existing THEN 1 ELSE 0],
                  dropped |-> [n \in Names |-> IF n \in existing THEN 1 ELSE 0],
                  size |-> [f \in Names \X Versions |-> IF f[1] \in existing /\ f[2] = 1 THEN 1 ELSE 0],
                  stalled |-> {}]
       /\ \E baseline \in SetToSeqs(IF process THEN {} ELSE existing) :
            source = [seen |-> baseline, settling |-> [n \in Names |-> -1],
                      ready |-> <<>>, current |-> NoFile, forgot |-> {},
                      baseline |-> Range(baseline)]
  /\ delivered = [l \in Lines |-> 0]
-----------------------------------------------------------------------------
(* Whoever drops files (external) *)

DirDrop(n) ==
  /\ IsDir /\ peer.live[n] = 0 /\ peer.dropped[n] < MaxDrops[n]
  /\ LET v == peer.dropped[n] + 1 IN
       peer' = [peer EXCEPT !.live[n] = v, !.dropped[n] = v, !.size[<<n, v>>] = 1]
  /\ UNCHANGED <<kind, source, delivered>>

\* Growth after the file was taken for finished is a transfer that stalled.
DirGrow(n) ==
  /\ IsDir /\ peer.live[n] # 0 /\ peer.size[<<n, peer.live[n]>>] < MaxLines
  /\ peer' = [peer EXCEPT !.size[<<n, peer.live[n]>>] = @ + 1,
       !.stalled = IF Contains(source.seen, n) \/ n \in source.forgot THEN @ \cup {n} ELSE @]
  /\ UNCHANGED <<kind, source, delivered>>

DirDelete(n) ==
  /\ IsDir /\ peer.live[n] # 0
  /\ peer' = [peer EXCEPT !.live[n] = 0]
  /\ UNCHANGED <<kind, source, delivered>>
-----------------------------------------------------------------------------
(* recv: the current file, then the ready ones, then a poll *)

DirRecvLine ==
  LET cur == source.current
      line == <<cur.name, cur.version, cur.at + 1>>
  IN
  /\ IsDir /\ cur # NoFile /\ cur.at < peer.size[<<cur.name, cur.version>>]
  /\ delivered' = [delivered EXCEPT ![line] = IF @ < 2 THEN @ + 1 ELSE @]
  /\ source' = [source EXCEPT !.current.at = @ + 1]
  /\ UNCHANGED <<kind, peer>>

DirFileEnds ==
  LET cur == source.current IN
  /\ IsDir /\ cur # NoFile /\ cur.at = peer.size[<<cur.name, cur.version>>]
  /\ source' = [source EXCEPT !.current = NoFile]
  /\ UNCHANGED <<kind, peer, delivered>>

\* A file that is gone by now is skipped.
DirOpen ==
  /\ IsDir /\ source.current = NoFile /\ source.ready # <<>>
  /\ LET n == Head(source.ready) IN
       source' = [source EXCEPT !.ready = Tail(@),
         !.current = IF peer.live[n] = 0 THEN NoFile
                     ELSE [name |-> n, version |-> peer.live[n], at |-> 0]]
  /\ UNCHANGED <<kind, peer, delivered>>

\* remember: at capacity the oldest name is forgotten.
Remember(seen, n) ==
  LET all == Append(seen, n)
  IN  IF Len(all) > MaxSeen THEN SubSeq(all, Len(all) - MaxSeen + 1, Len(all)) ELSE all

\* scan's treatment of one entry of the directory.
ScanRemembersEarly(n, src) ==
  IF Contains(src.seen, n) THEN src
  ELSE [src EXCEPT !.settling[n] = peer.size[<<n, peer.live[n]>>], !.seen = Remember(@, n)]
Scan(n, src) ==
  LET size == peer.size[<<n, peer.live[n]>>]
      seen == Remember(src.seen, n)
  IN  IF Contains(src.seen, n) THEN src
      ELSE IF src.settling[n] = size
           THEN [src EXCEPT !.settling[n] = -1, !.ready = Append(@, n), !.seen = seen,
                            !.forgot = @ \cup (Range(src.seen) \ Range(seen))]
           ELSE [src EXCEPT !.settling[n] = size]

\* A poll, over the entries in the order the directory gives.
DirPoll ==
  /\ IsDir /\ source.current = NoFile /\ source.ready = <<>>
  /\ \E entries \in SetToSeqs({n \in Names : peer.live[n] # 0}) :
       source' = FoldSeq(Scan, source, entries)
  /\ UNCHANGED <<kind, peer, delivered>>

DirRecv == DirRecvLine \/ DirFileEnds \/ DirOpen \/ DirPoll

DirNext ==
  \/ \E n \in Names : DirDrop(n) \/ DirGrow(n) \/ DirDelete(n)
  \/ DirRecv
-----------------------------------------------------------------------------
(* What the dir transport promises *)

\* No line is delivered twice unless its file's name was forgotten in between: at
\* capacity "the oldest is forgotten, and re-read if it is still there".  A file
\* of the baseline is not read at all as long as its name is remembered.
DirReadsOnce ==
  IsDir => \A l \in Lines :
    l[1] \notin source.forgot =>
      /\ delivered[l] <= 1
      /\ l[1] \in source.baseline => delivered[l] = 0

\* Every line of a file that is dropped for the first time and stays is eventually
\* delivered, unless the transfer stalled: "what arrives later is not read".
DirDelivers ==
  \A n \in Names, i \in 1 .. MaxLines :
    LET written == IsDir /\ peer.live[n] = 1 /\ i <= peer.size[<<n, 1>>]
    IN  written ~> (IsDir => \/ delivered[<<n, 1, i>>] > 0
                             \/ peer.live[n] # 1
                             \/ n \in source.baseline \cup peer.stalled)
=============================================================================
