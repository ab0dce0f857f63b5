---------------------------- MODULE FollowedFile ----------------------------
(***************************************************************************)
(* The file transport: follow a file that an appender writes and rotates.  *)
(*                                                                         *)
(* Bytes are the cells of StreamSources, of connection 0, frames numbered  *)
(* in the order they are written.  The reader keeps the inode it opened;   *)
(* the path may name another by now.                                       *)
(***************************************************************************)
EXTENDS StreamSources

CONSTANTS FileMaxFrame,  \* MAX_FRAME_BYTES
          ReadChunk,     \* bytes of one read
          FileSizes,     \* frame sizes the appender uses
          FileFrames,    \* bound: frames appended
          MaxRotations   \* bound: rotations

ASSUME FileAssumption ==
  /\ FileMaxFrame \in Nat /\ ReadChunk \in Nat \ {0} /\ FileSizes \subseteq Nat
  /\ FileFrames \in Nat /\ MaxRotations \in Nat

IsFile == kind = "file"
MaxHeld == FileMaxFrame + 1   \* MAX_HELD: the frame buffer and a prefix

Inodes == 0 .. MaxRotations

\* The file as the source opens it: empty, or with a frame, whole or in writing.
FileInit ==
  /\ kind \in Kinds \cap {"file"}
  /\ \E framing \in {"line", "u16", "u32le"}, fromStart \in BOOLEAN,
        sent \in {<<>>, <<1>>}, m \in 0 .. 2 :
       LET first == Encoded(framing, 0, 1, 1)
           there == IF sent = <<>> THEN <<>> ELSE SubSeq(first, 1, m)
       IN
       /\ sent = <<>> => m = 0
       /\ peer = [inodes |-> [i \in Inodes |-> IF i = 0 THEN there ELSE <<>>],
                  cur |-> 0, sent |-> sent, born |-> [k \in DOMAIN sent |-> 0],
                  rest |-> IF sent = <<>> THEN <<>> ELSE SubSeq(first, m + 1, 2),
                  rotations |-> 0, truncated |-> FALSE]
       /\ source = [framing |-> framing, inode |-> 0, held |-> <<>>, phase |-> "read",
                    pos |-> IF fromStart THEN 0 ELSE Len(there), missed |-> FALSE,
                    began |-> IF fromStart THEN 0 ELSE Len(there)]
  /\ delivered = <<>>
-----------------------------------------------------------------------------
(* The appender (external) *)

\* A frame is written at once or in two parts, m cells first.
FileAppend(n, m) ==
  LET bytes == Encoded(source.framing, 0, Len(peer.sent) + 1, n) IN
  /\ IsFile /\ peer.rest = <<>> /\ Len(peer.sent) < FileFrames
  /\ source.framing = "u16" => n <= FileMaxFrame
  /\ peer' = [peer EXCEPT !.sent = Append(@, n), !.born = Append(@, peer.rotations),
                          !.inodes[peer.cur] = @ \o SubSeq(bytes, 1, m),
                          !.rest = SubSeq(bytes, m + 1, Len(bytes))]
  /\ UNCHANGED <<kind, source, delivered>>

FileFinish ==
  /\ IsFile /\ peer.rest # <<>>
  /\ peer' = [peer EXCEPT !.inodes[peer.cur] = @ \o peer.rest, !.rest = <<>>]
  /\ UNCHANGED <<kind, source, delivered>>

\* Between frames the file is renamed away and begun anew, or truncated in place.
FileRotate ==
  /\ IsFile /\ peer.rest = <<>> /\ peer.rotations < MaxRotations
  /\ \/ peer' = [peer EXCEPT !.cur = @ + 1, !.rotations = @ + 1]
     \/ peer' = [peer EXCEPT !.inodes[peer.cur] = <<>>, !.rotations = @ + 1,
                             !.truncated = source.inode = peer.cur]
  /\ UNCHANGED <<kind, source, delivered>>
-----------------------------------------------------------------------------
(* recv *)

Unread == SubSeq(peer.inodes[source.inode], source.pos + 1, Len(peer.inodes[source.inode]))

\* A read that returns bytes: of another file than before, if it was truncated and
\* has outgrown the position.
Consumed(n) == [source EXCEPT !.pos = @ + n, !.missed = @ \/ peer.truncated]

\* Line framing: what is there up to the newline, cut to the buffer; a line in
\* writing is returned as far as it got.
FileRecvLine ==
  /\ IsFile /\ source.framing = "line" /\ source.phase = "read" /\ Unread # <<>>
  /\ LET p == IF Newlines(Unread) # {} THEN FirstNewline(Unread) ELSE Len(Unread)
         line == SelectSeq(SubSeq(Unread, 1, p), LAMBDA cell : cell[3] # 0)
     IN  /\ delivered' = Append(delivered, SubSeq(line, 1, IF Len(line) > FileMaxFrame THEN FileMaxFrame ELSE Len(line)))
         /\ source' = Consumed(p)
  /\ UNCHANGED <<kind, peer>>

\* take_frame: the frame that `held` begins with is whole.  The prefix is the
\* frame's own, or payload taken for one.
Takes(n) ==
  /\ IsFile /\ source.framing # "line" /\ source.phase = "read"
  /\ source.held # <<>> /\ n \in Declared(Head(source.held), FileMaxFrame) /\ n <= FileMaxFrame
  /\ Len(source.held) >= 1 + n

FileTakeFrame(n) ==
  /\ Takes(n)
  /\ delivered' = Append(delivered, SubSeq(source.held, 2, n + 1))
  /\ source' = [source EXCEPT !.held = Past(@, n + 1)]
  /\ UNCHANGED <<kind, peer>>

\* take_frame finds no whole frame.  A declared length above the buffer is an
\* error of every later recv: nothing is read and no rotation seen.
Waits ==
  source.held # <<>> =>
    \E n \in Declared(Head(source.held), FileMaxFrame) : n <= FileMaxFrame /\ Len(source.held) < 1 + n

\* A chunk that `held` has no room for is an error, and lost.
FileRead ==
  /\ IsFile /\ source.framing # "line" /\ source.phase = "read" /\ Waits
  /\ Unread # <<>>
  /\ LET n == IF Len(Unread) < ReadChunk THEN Len(Unread) ELSE ReadChunk
         fits == Len(source.held) + n <= MaxHeld
     IN  source' = [Consumed(n) EXCEPT
           !.held = IF fits THEN @ \o SubSeq(Unread, 1, n) ELSE @,
           !.missed = @ \/ ~fits]
  /\ UNCHANGED <<kind, peer, delivered>>

\* The end of the file: sleep, then see whether the path names a shorter one.
FileAtEnd ==
  /\ IsFile /\ source.phase = "read" /\ Unread = <<>>
  /\ source.framing # "line" => Waits
  /\ source' = [source EXCEPT !.phase = "poll"]
  /\ UNCHANGED <<kind, peer, delivered>>

Reopened == [source EXCEPT !.phase = "read", !.inode = peer.cur, !.pos = 0, !.held = <<>>]

ReopenAtEqual ==
  /\ IsFile /\ source.phase = "poll"
  /\ source' = IF Len(peer.inodes[peer.cur]) <= source.pos
               THEN Reopened ELSE [source EXCEPT !.phase = "read"]
  /\ UNCHANGED <<kind, peer, delivered>>
ReopenIfRotated ==
  /\ IsFile /\ source.phase = "poll"
  /\ IF Len(peer.inodes[peer.cur]) < source.pos
     THEN /\ source' = Reopened
          /\ peer' = [peer EXCEPT !.truncated = FALSE]
     ELSE source' = [source EXCEPT !.phase = "read",
                       !.missed = @ \/ peer.truncated \/ source.inode # peer.cur]
          /\ UNCHANGED peer
  /\ UNCHANGED <<kind, delivered>>

Following ==
  \/ FileRecvLine
  \/ \E n \in 0 .. FileMaxFrame : FileTakeFrame(n)
  \/ FileRead
  \/ FileAtEnd
  \/ ReopenIfRotated

FileNext ==
  \/ \E n \in FileSizes : \E m \in {1, n + 1} : FileAppend(n, m)
  \/ FileFinish
  \/ FileRotate
  \/ Following
-----------------------------------------------------------------------------
(* What the file transport promises *)

\* Frames a chunk behind them cannot push out of `held`, nothing oversized, and a
\* position that was a frame boundary.
Followable ==
  /\ source.framing # "line" /\ ~source.missed
  /\ \A k \in DOMAIN peer.sent : peer.sent[k] + ReadChunk <= MaxHeld
  /\ peer.sent # <<>> => source.began # 1

\* "Bytes are held until a whole frame has arrived, so a frame half-written by the
\* appender is never delivered as two", nor joined to bytes of the file before a
\* rotation.  (take_frame, reopen_if_rotated)
FollowedWhole ==
  IsFile => (Followable => \A i \in DOMAIN delivered :
    \E k \in DOMAIN peer.sent : delivered[i] = Payload(0, k, peer.sent[k]))

\* Frames are delivered in the order written, none twice, and between two of the
\* same file none is left out: only a rotation may cost frames.
FollowedInOrder ==
  IsFile => (Followable => \A i \in 2 .. Len(delivered) :
    LET k == delivered[i - 1][1][2]
        l == delivered[i][1][2]
    IN  k < l /\ (peer.born[k] = peer.born[l] => l = k + 1))

\* What is written after the last rotation and not behind the starting position is
\* eventually delivered, in spite of the rotations before.
FollowedEventually ==
  \A k \in 1 .. FileFrames :
    LET begun == IsFile /\ k \in DOMAIN peer.sent
        arrived == Contains(delivered, Payload(0, k, peer.sent[k]))
    IN  begun /\ peer.rest = <<>> ~> (begun => ~Followable \/ (source.began > 0 /\ k = 1) \/ arrived
                              \/ peer.born[k] < peer.rotations)

\* "Follow a file a source appends to, across rotation": every frame written is
\* eventually delivered unless truncation destroys it, also one that is written
\* shortly before the file is renamed away.
FollowsAcrossRotation ==
  \A k \in 1 .. FileFrames :
    LET begun == IsFile /\ k \in DOMAIN peer.sent
        arrived == Contains(delivered, Payload(0, k, peer.sent[k]))
        stored == \E i \in Inodes : Contains(peer.inodes[i], <<0, k, 0, peer.sent[k]>>)
    IN  begun /\ peer.rest = <<>> ~>
          (begun => ~Followable \/ (source.began > 0 /\ k = 1) \/ arrived \/ ~stored)
=============================================================================
