------------------------------ MODULE Sources ------------------------------
(***************************************************************************)
(* open_source: the one transport the configuration names.                 *)
(***************************************************************************)
EXTENDS StreamSources, WebhookSource, FollowedFile, DropDir, FeedSources,
        DatagramSources

Init == StreamInit \/ HookInit \/ FileInit \/ DirInit \/ FeedInit \/ ReplayInit
        \/ DatagramInit
Next == StreamNext \/ HookNext \/ FileNext \/ DirNext \/ FeedNext \/ DatagramNext
Spec == Init /\ [][Next]_transportVars

\* The runtime calls recv again and again, tokio runs every task, and a webhook
\* sender that finds a connection again and again posts on it in the end.
LiveSpec ==
  /\ Spec
  /\ \A c \in Conns : WF_transportVars(Connection(c))
  /\ WF_transportVars(ServerRecv)
  /\ WF_transportVars(HookRecv)
  /\ \A c \in HookConns : /\ WF_transportVars(HookConnect(c))
                          /\ WF_transportVars(Serving(c))
  /\ \A e \in Hooks : SF_transportVars(Retrying(e))
  /\ WF_transportVars(Following)
  /\ WF_transportVars(FileFinish)
  /\ WF_transportVars(DirRecv)
  /\ WF_transportVars(FeedReads)
  /\ WF_transportVars(DatagramReads)
-----------------------------------------------------------------------------
(* What every transport promises the runtime that calls its recv *)

\* No frame is made of parts of two, nor cut short, whatever connections, writers
\* and rotations do to the bytes; the exceptions the code names are stated with
\* FramesWhole and FollowedWhole.  A dds sample is unwrapped to the bytes its publisher wrapped.
\* (read_frame, take_frame, frame_of)
DeliveredWhole == FramesWhole /\ FollowedWhole /\ DatagramsWhole

\* Frames come in the order they were sent or recorded, none twice and none left
\* out between two that arrive.  (connection_loop, file recv, dir scan, ws and mqtt
\* recv, replay recv, dds recv)
DeliveredInOrder ==
  /\ FramesInOrder /\ FollowedInOrder /\ DirReadsOnce /\ FeedInOrder /\ ReplayKeepsTime
  /\ SamplesInOrder

\* Every frame that can be delivered is: after reconnects, rejected frames, 503s,
\* rotations, polls and outages the feed goes on.  (recv of each transport)
DeliveredEventually ==
  /\ SentIsDelivered
  /\ PersistentSenderDelivers
  /\ FollowedEventually
  /\ DirDelivers
  /\ FeedRecovers
  /\ SamplesDelivered
=============================================================================
