-------------------------------- MODULE Relay --------------------------------
(***************************************************************************)
(* What the egress relays share: the bounded store-and-forward buffer that *)
(* gives up its oldest entry, and the bounded window of event ids by which *)
(* a redelivered event is recognised.                                      *)
(***************************************************************************)
EXTENDS Integers, Sequences

\* Relay::push.
Push(buffer, max, m) ==
  Append(IF Len(buffer) >= max THEN Tail(buffer) ELSE buffer, m)
PushDrops(buffer, max) == IF Len(buffer) >= max THEN 1 ELSE 0

\* Dedupe::first_time: `order` is the window, oldest first.
FirstTime(order, id) == \A i \in DOMAIN order : order[i] # id
RememberTight(order, max, id) ==
  Append(IF Len(order) + 1 >= max THEN SubSeq(order, 2, Len(order)) ELSE order, id)
Remember(order, max, id) ==
  Append(IF Len(order) >= max THEN Tail(order) ELSE order, id)
=============================================================================
