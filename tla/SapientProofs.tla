--------------------------- MODULE SapientProofs ---------------------------
(***************************************************************************)
(* The SAPIENT egress node, for every size of its buffer and any number of *)
(* events, tasks, status ticks and faults: it registers first on every     *)
(* connection; and, while its window knows every event, it accounts for    *)
(* them and the fusion node reads them in order.                           *)
(***************************************************************************)
EXTENDS SapientEgress, TLAPS

(* Sequences: their entries, and what the operators do to them. *)

\* A sequence, its indices and its entries.
LEMMA AnySeq ==
  ASSUME NEW S, NEW s \in Seq(S)
  PROVE  Len(s) \in Nat /\ DOMAIN s = 1 .. Len(s) /\ \A i \in 1 .. Len(s) : s[i] \in S
  OBVIOUS

\* The empty sequence, and no other, has no entry.
LEMMA AnyEmpty ==
  ASSUME NEW S
  PROVE  /\ <<>> \in Seq(S) /\ Len(<<>>) = 0
         /\ \A s \in Seq(S) : s # <<>> => Len(s) \in Nat \ {0}
  OBVIOUS

\* The front of a sequence, and the entries behind it.
LEMMA AnyTail ==
  ASSUME NEW S, NEW s \in Seq(S), s # <<>>
  PROVE  /\ Tail(s) \in Seq(S) /\ Len(Tail(s)) = Len(s) - 1
         /\ 1 \in DOMAIN s /\ s[1] \in S
         /\ \A i \in DOMAIN Tail(s) : i + 1 \in DOMAIN s /\ Tail(s)[i] = s[i + 1]
  <1>1. Len(s) \in Nat /\ DOMAIN s = 1 .. Len(s) /\ Len(s) # 0
    BY AnySeq
  <1>2. Tail(s) \in Seq(S) /\ Len(Tail(s)) = Len(s) - 1
    OBVIOUS
  <1>3. DOMAIN Tail(s) = 1 .. Len(s) - 1
    BY <1>2, AnySeq
  <1>4. \A i \in 1 .. Len(s) - 1 : Tail(s)[i] = s[i + 1]
    BY <1>1
  <1>5. 1 \in DOMAIN s /\ \A i \in 1 .. Len(s) - 1 : i + 1 \in DOMAIN s
    BY <1>1
  <1>q. QED
    BY <1>1, <1>2, <1>3, <1>4, <1>5, AnySeq

\* The entries of a sequence with one more at the back.
LEMMA AnyAppend ==
  ASSUME NEW S, NEW s \in Seq(S), NEW x \in S
  PROVE  /\ Append(s, x) \in Seq(S) /\ Len(Append(s, x)) = Len(s) + 1 /\ Len(s) \in Nat
         /\ Append(s, x) # <<>>
         /\ \A i \in DOMAIN s : Append(s, x)[i] = s[i]
         /\ Append(s, x)[Len(s) + 1] = x
         /\ \A i \in DOMAIN Append(s, x) : i \in DOMAIN s \/ i = Len(s) + 1
  <1>1. Len(s) \in Nat /\ DOMAIN s = 1 .. Len(s)
    BY AnySeq
  <1>2. Append(s, x) \in Seq(S) /\ Len(Append(s, x)) = Len(s) + 1
    OBVIOUS
  <1>3. DOMAIN Append(s, x) = 1 .. Len(s) + 1
    BY <1>2, AnySeq
  <1>4. (\A i \in DOMAIN s : Append(s, x)[i] = s[i]) /\ Append(s, x)[Len(s) + 1] = x
    BY <1>1
  <1>5. \A i \in 1 .. Len(s) + 1 : i \in 1 .. Len(s) \/ i = Len(s) + 1
    BY <1>1
  <1>6. Append(s, x) # <<>>
    BY <1>1, <1>2
  <1>q. QED
    BY <1>1, <1>2, <1>3, <1>4, <1>5, <1>6

\* The same, entry by entry.
LEMMA EachAppended ==
  ASSUME NEW S, NEW s \in Seq(S), NEW x \in S, NEW t, t = Append(s, x)
  PROVE  \A i \in DOMAIN t : \/ i \in DOMAIN s /\ t[i] = s[i]
                             \/ i = Len(s) + 1 /\ t[i] = x
  BY AnyAppend

\* In the order of the bus, and none twice.
Increasing(s) == \A i, j \in DOMAIN s : i < j => s[i] < s[j]
\* Everything in s came before everything in t.
Below(s, t) == \A i \in DOMAIN s, j \in DOMAIN t : s[i] < t[j]
\* Everything in s has been published.
UpTo(s, n) == \A i \in DOMAIN s : s[i] <= n

\* A sequence of numbers, its indices and its entries.
LEMMA SeqFacts ==
  ASSUME NEW s \in Seq(Nat)
  PROVE  Len(s) \in Nat /\ DOMAIN s = 1 .. Len(s) /\ \A i \in DOMAIN s : s[i] \in Nat
  OBVIOUS

\* Nothing is in the empty sequence.
LEMMA EmptyFacts ==
  /\ <<>> \in Seq(Nat) /\ Increasing(<<>>) /\ Len(<<>>) = 0
  /\ \A s : Below(<<>>, s) /\ Below(s, <<>>)
  /\ \A n : UpTo(<<>>, n)
  BY DEF Increasing, Below, UpTo

\* The entries behind the front.
LEMMA TailEntries ==
  ASSUME NEW s \in Seq(Nat), s # <<>>
  PROVE  /\ Tail(s) \in Seq(Nat) /\ Len(Tail(s)) = Len(s) - 1 /\ Len(s) >= 1
         /\ 1 \in DOMAIN s /\ s[1] \in Nat
         /\ DOMAIN Tail(s) = 1 .. Len(s) - 1
         /\ \A i \in DOMAIN Tail(s) : i + 1 \in DOMAIN s /\ Tail(s)[i] = s[i + 1]
  <1>1. Len(s) \in Nat /\ DOMAIN s = 1 .. Len(s) /\ Len(s) # 0
    BY SeqFacts
  <1>2. Tail(s) \in Seq(Nat) /\ Len(Tail(s)) = Len(s) - 1
    OBVIOUS
  <1>3. DOMAIN Tail(s) = 1 .. Len(s) - 1
    BY <1>2, SeqFacts
  <1>4. \A i \in 1 .. Len(s) - 1 : Tail(s)[i] = s[i + 1]
    BY <1>1
  <1>5. 1 \in DOMAIN s /\ \A i \in 1 .. Len(s) - 1 : i + 1 \in DOMAIN s
    BY <1>1
  <1>q. QED
    BY <1>1, <1>2, <1>3, <1>4, <1>5, SeqFacts

\* Taking the front keeps every order.
LEMMA TailOrder ==
  ASSUME NEW s \in Seq(Nat), s # <<>>
  PROVE  /\ Increasing(s) => Increasing(Tail(s))
         /\ \A n : UpTo(s, n) => UpTo(Tail(s), n)
         /\ \A t : Below(s, t) => Below(Tail(s), t)
         /\ \A t : Below(t, s) => Below(t, Tail(s))
  <1>1. Increasing(s) => Increasing(Tail(s))
    BY TailEntries, SeqFacts DEF Increasing
  <1>2. ASSUME NEW n, UpTo(s, n) PROVE UpTo(Tail(s), n)
    BY <1>2, TailEntries DEF UpTo
  <1>3. ASSUME NEW t, Below(s, t) PROVE Below(Tail(s), t)
    BY <1>3, TailEntries DEF Below
  <1>4. ASSUME NEW t, Below(t, s) PROVE Below(t, Tail(s))
    BY <1>4, TailEntries DEF Below
  <1>q. QED
    BY <1>1, <1>2, <1>3, <1>4

\* The front comes before the rest.
LEMMA FrontOrder ==
  ASSUME NEW s \in Seq(Nat), s # <<>>, Increasing(s)
  PROVE  \A j \in DOMAIN Tail(s) : s[1] < Tail(s)[j]
  BY TailEntries, SeqFacts DEF Increasing

\* The entries of a sequence with one more at the back.
LEMMA AppendEntries ==
  ASSUME NEW s \in Seq(Nat), NEW x \in Nat
  PROVE  /\ Append(s, x) \in Seq(Nat) /\ Len(Append(s, x)) = Len(s) + 1
         /\ DOMAIN Append(s, x) = 1 .. Len(s) + 1
         /\ \A i \in DOMAIN s : Append(s, x)[i] = s[i]
         /\ Append(s, x)[Len(s) + 1] = x
         /\ \A i \in DOMAIN Append(s, x) : i \in DOMAIN s \/ i = Len(s) + 1
  <1>1. Len(s) \in Nat /\ DOMAIN s = 1 .. Len(s)
    BY SeqFacts
  <1>2. Append(s, x) \in Seq(Nat) /\ Len(Append(s, x)) = Len(s) + 1
    OBVIOUS
  <1>3. DOMAIN Append(s, x) = 1 .. Len(s) + 1
    BY <1>2, SeqFacts
  <1>4. (\A i \in DOMAIN s : Append(s, x)[i] = s[i]) /\ Append(s, x)[Len(s) + 1] = x
    BY <1>1
  <1>5. \A i \in 1 .. Len(s) + 1 : i \in 1 .. Len(s) \/ i = Len(s) + 1
    BY <1>1
  <1>q. QED
    BY <1>1, <1>2, <1>3, <1>4, <1>5

\* Adding at the back what came later keeps every order.
LEMMA AppendOrder ==
  ASSUME NEW s \in Seq(Nat), NEW x \in Nat
  PROVE  /\ Increasing(s) /\ (\A i \in DOMAIN s : s[i] < x) => Increasing(Append(s, x))
         /\ \A n : UpTo(s, n) /\ x <= n => UpTo(Append(s, x), n)
         /\ \A t : Below(s, t) /\ (\A j \in DOMAIN t : x < t[j]) => Below(Append(s, x), t)
         /\ \A t : Below(t, s) /\ (\A j \in DOMAIN t : t[j] < x) => Below(t, Append(s, x))
  <1>1. ASSUME Increasing(s), \A i \in DOMAIN s : s[i] < x PROVE Increasing(Append(s, x))
    BY <1>1, AppendEntries, SeqFacts DEF Increasing
  <1>2. ASSUME NEW n, UpTo(s, n), x <= n PROVE UpTo(Append(s, x), n)
    BY <1>2, AppendEntries DEF UpTo
  <1>3. ASSUME NEW t, Below(s, t), \A j \in DOMAIN t : x < t[j] PROVE Below(Append(s, x), t)
    BY <1>3, AppendEntries DEF Below
  <1>4. ASSUME NEW t, Below(t, s), \A j \in DOMAIN t : t[j] < x PROVE Below(t, Append(s, x))
    BY <1>4, AppendEntries DEF Below
  <1>q. QED
    BY <1>1, <1>2, <1>3, <1>4

\* A bounded buffer takes one more: what is given up is the oldest entry, so what
\* stays and the new one are in order, and the count of what is given up makes up
\* for the length.
LEMMA PushOrder ==
  ASSUME NEW s \in Seq(Nat), NEW max \in Nat \ {0}, NEW x \in Nat
  PROVE  LET kept == IF Len(s) >= max THEN Tail(s) ELSE s
             drops == IF Len(s) >= max THEN 1 ELSE 0
             added == Append(kept, x)
         IN  /\ added \in Seq(Nat)
             /\ drops \in {0, 1}
             /\ Len(added) + drops = Len(s) + 1
             /\ Increasing(s) /\ (\A i \in DOMAIN s : s[i] < x) => Increasing(added)
             /\ \A n : UpTo(s, n) /\ x <= n => UpTo(added, n)
             /\ \A t : Below(s, t) /\ (\A j \in DOMAIN t : x < t[j]) => Below(added, t)
             /\ \A t : Below(t, s) /\ (\A j \in DOMAIN t : t[j] < x) => Below(t, added)
  <1>d. DEFINE kept == IF Len(s) >= max THEN Tail(s) ELSE s
               drops == IF Len(s) >= max THEN 1 ELSE 0
  <1>0. Len(s) \in Nat /\ (Len(s) >= max => s # <<>>)
    BY SeqFacts, EmptyFacts
  <1>1. kept \in Seq(Nat) /\ Len(kept) + drops = Len(s) /\ drops \in {0, 1}
    BY <1>0, TailEntries
  <1>2. /\ Increasing(s) => Increasing(kept)
        /\ \A n : UpTo(s, n) => UpTo(kept, n)
        /\ \A t : Below(s, t) => Below(kept, t)
        /\ \A t : Below(t, s) => Below(t, kept)
    BY <1>0, TailOrder
  <1>3. (\A i \in DOMAIN s : s[i] < x) => \A i \in DOMAIN kept : kept[i] < x
    BY <1>0, TailEntries
  <1> HIDE DEF kept, drops
  <1>5. Append(kept, x) \in Seq(Nat) /\ Len(Append(kept, x)) = Len(kept) + 1 /\ Len(kept) \in Nat
    BY <1>1, AppendEntries, SeqFacts
  <1>6. Len(Append(kept, x)) + drops = Len(s) + 1
    BY <1>0, <1>1, <1>5
  <1>7. /\ Increasing(s) /\ (\A i \in DOMAIN s : s[i] < x) => Increasing(Append(kept, x))
        /\ \A n : UpTo(s, n) /\ x <= n => UpTo(Append(kept, x), n)
        /\ \A t : Below(s, t) /\ (\A j \in DOMAIN t : x < t[j]) => Below(Append(kept, x), t)
        /\ \A t : Below(t, s) /\ (\A j \in DOMAIN t : t[j] < x) => Below(t, Append(kept, x))
    BY <1>1, <1>2, <1>3, AppendOrder
  <1>q. QED
    BY <1>1, <1>5, <1>6, <1>7 DEF kept, drops

----------------------------------------------------------------------------

----------------------------------------------------------------------------
(* The inductive invariant of a registration.                              *)

Kinds == {"registration", "report", "status", "task_ack"}
Message == [kind : Kinds, of : Nat \cup {"new", "unchanged", "node", "rejected"}]
Answers == {"accept", "reject", "task"}
Pcs == {"top", "connect", "register", "ack", "write", "drain", "select", "stopped"}
\* Where the loop is not inside ensure_registered.
AtRest == {"top", "drain", "select", "write"}

\* No registration is on its way.
Silent == \A i \in DOMAIN wire : wire[i].kind # "registration"

\* The three states of a connection: nothing written, the registration written, the
\* registration accepted.
Fresh == talk = <<>> /\ ~accepted /\ wire = <<>>
Asked ==
  \/ talk = <<>> /\ ~accepted /\ wire = <<Registration>>
  \/ Len(talk) = 1 /\ wire = <<>>
Open == accepted /\ talk # <<>> /\ Silent

LinkTyped ==
  /\ arrived \in Nat /\ buffer \in Seq(Nat)
  /\ talk \in Seq(Kinds) /\ wire \in Seq(Message) /\ inbound \in Seq(Answers)
  /\ accepted \in BOOLEAN /\ connected \in BOOLEAN /\ up \in {0, 1} /\ pc \in Pcs

\* What the fusion node has read on a connection.
Heard ==
  talk # <<>> =>
    /\ talk[1] = "registration"
    /\ \A i \in 2 .. Len(talk) : talk[i] # "registration"
    /\ Len(talk) > 1 => accepted

\* What is on the connection, by where the loop is.
Conversation ==
  conn = "open" =>
    /\ connected
    /\ pc = "register" => Fresh
    /\ pc = "ack" => Asked
    /\ pc = "stopped" => Fresh \/ Asked \/ Open
    /\ pc \in AtRest => Open

\* What the loop knows of it.
Known ==
  /\ \A i \in DOMAIN inbound : inbound[i] = "accept" => accepted
  /\ pc = "connect" => ~connected
  /\ pc \in {"register", "ack"} => connected /\ up = 0
  /\ pc = "write" => connected
  /\ pc \in AtRest => (connected <=> up = 1)
  /\ up = 1 => connected /\ accepted

\* A drain that calls into the link holds the front of the buffer.
Waiting ==
  pc \in {"connect", "register", "ack", "write"} /\ call \in {"drain", "final"} => buffer # <<>>

RegisterInv == LinkTyped /\ Heard /\ Conversation /\ Known /\ Waiting

\* No connection yet.
LEMMA RegisterInit == Init => RegisterInv
  <1> SUFFICES ASSUME Init PROVE RegisterInv
    OBVIOUS
  <1>1. LinkTyped
    BY AnyEmpty, Zenon DEF Init, LinkTyped, Pcs
  <1>2. Heard /\ Conversation /\ Known /\ Waiting
    BY DEF Init, Heard, Conversation, Known, Waiting, AtRest
  <1>q. QED
    BY <1>1, <1>2 DEF RegisterInv

\* A step that leaves the connection alone.
LEMMA QuietKeeps ==
  ASSUME RegisterInv, Waiting', UNCHANGED <<talk, wire, inbound, accepted, conn, connected, up>>,
         arrived' \in Nat, buffer' \in Seq(Nat),
         \/ pc' = pc
         \/ pc' = "stopped"
         \/ /\ pc \in AtRest \cup {"connect"} /\ pc' \in AtRest \cup {"connect"}
            /\ pc' = "connect" => ~connected
            /\ pc' = "write" => connected
  PROVE  RegisterInv'
  <1>1. LinkTyped' /\ Heard'
    BY DEF RegisterInv, LinkTyped, Heard, Pcs, AtRest
  <1>2. Known'
    BY DEF RegisterInv, LinkTyped, Known, AtRest
  <1>3. Conversation'
    <2>1. (Fresh' <=> Fresh) /\ (Asked' <=> Asked) /\ (Open' <=> Open)
      BY DEF Fresh, Asked, Open, Silent
    <2>2. pc = "connect" => conn # "open"
      BY DEF RegisterInv, Conversation, Known
    <2>3. conn = "open" => pc \in Pcs \ {"connect"}
      BY <2>2 DEF RegisterInv, LinkTyped
    <2>4. conn = "open" => Fresh \/ Asked \/ Open
      BY <2>3 DEF RegisterInv, Conversation, Pcs, AtRest
    <2>q. QED
      BY <2>1, <2>2, <2>4 DEF RegisterInv, Conversation, AtRest
  <1>q. QED
    BY <1>1, <1>2, <1>3 DEF RegisterInv

\* drop_connection, whoever calls it.
LEMMA DropKeeps ==
  ASSUME RegisterInv, DropConnection, conn' = "none",
         UNCHANGED <<talk, wire, inbound, accepted, arrived, buffer>>,
         pc' \in {"top", "drain", "select", "stopped"}
  PROVE  RegisterInv'
  <1>1. LinkTyped' /\ Heard'
    BY Zenon DEF DropConnection, RegisterInv, LinkTyped, Heard, Pcs
  <1>2. Known' /\ Conversation' /\ Waiting'
    BY DEF DropConnection, RegisterInv, LinkTyped, Known, Conversation, Waiting, AtRest
  <1>q. QED
    BY <1>1, <1>2 DEF RegisterInv

\* A message after the registration.
LEMMA SayKeeps ==
  ASSUME RegisterInv, NEW m \in Message, m.kind # "registration", Write(m),
         pc = "write", pc' \in {"top", "drain"}, UNCHANGED <<arrived, linkVars>>,
         buffer' \in Seq(Nat)
  PROVE  RegisterInv'
  <1>1. UNCHANGED <<talk, inbound, accepted, conn, connected, up>> /\ wire \in Seq(Message)
    BY DEF Write, linkVars, RegisterInv, LinkTyped
  <1>2. wire' \in Seq(Message)
    BY <1>1, AnyAppend DEF Write
  <1>3. LinkTyped' /\ Heard' /\ Known' /\ Waiting'
    BY <1>1, <1>2 DEF RegisterInv, LinkTyped, Heard, Known, Waiting, Pcs, AtRest
  <1>4. conn = "open" => connected /\ Open
    BY DEF RegisterInv, Conversation, AtRest
  <1>5. Silent => Silent'
    BY <1>1, AnyAppend DEF Silent, Write
  <1>6. Conversation'
    BY <1>1, <1>4, <1>5 DEF Conversation, Open, AtRest
  <1>q. QED
    BY <1>3, <1>6 DEF RegisterInv

\* A new connection has heard nothing.
LEMMA ConnectOkKeeps ==
  ASSUME RegisterInv, ConnectOk PROVE RegisterInv'
  <1>1. LinkTyped'
    BY AnyEmpty, Zenon DEF ConnectOk, RegisterInv, LinkTyped, busVars, relayVars, Pcs
  <1>2. up' = 0
    BY DEF ConnectOk, RegisterInv, LinkTyped, Known
  <1>3. Heard' /\ Known' /\ Conversation'
    BY <1>2 DEF ConnectOk, Heard, Known, Conversation, Fresh, AtRest
  <1>4. Waiting'
    BY DEF ConnectOk, RegisterInv, Waiting, relayVars
  <1>q. QED
    BY <1>1, <1>3, <1>4 DEF RegisterInv

\* The registration is the first thing written on it.
LEMMA RegisterKeeps ==
  ASSUME RegisterInv, Register PROVE RegisterInv'
  <1>1. /\ UNCHANGED <<talk, inbound, accepted, conn, connected, up, arrived, buffer, call>>
        /\ wire \in Seq(Message) /\ pc' = "ack" /\ pc = "register"
    BY DEF Register, Write, linkVars, busVars, relayVars, RegisterInv, LinkTyped
  <1>2. Registration \in Message /\ wire' = IF conn = "open" THEN Append(wire, Registration) ELSE wire
    BY DEF Registration, Message, Kinds, Register, Write
  <1>3. wire' \in Seq(Message)
    BY <1>1, <1>2, AnyAppend
  <1>4. LinkTyped' /\ Heard' /\ Known' /\ Waiting'
    BY <1>1, <1>3 DEF RegisterInv, LinkTyped, Heard, Known, Waiting, Pcs, AtRest
  <1>5. conn = "open" => Asked'
    <2> SUFFICES ASSUME conn = "open" PROVE Asked'
      OBVIOUS
    <2>1. talk = <<>> /\ ~accepted /\ wire = <<>>
      BY <1>1 DEF RegisterInv, Conversation, Fresh
    <2>2. Append(<<>>, Registration) = <<Registration>>
      BY <1>2
    <2>q. QED
      BY <1>1, <1>2, <2>1, <2>2 DEF Asked
  <1>6. Conversation'
    BY <1>1, <1>5 DEF RegisterInv, Conversation, AtRest
  <1>q. QED
    BY <1>4, <1>6 DEF RegisterInv

\* The answer that lets the loop go on was given on this connection.
LEMMA AckAcceptedKeeps ==
  ASSUME RegisterInv, AckAccepted PROVE RegisterInv'
  <1>1. /\ UNCHANGED <<talk, wire, accepted, conn, connected, arrived, buffer, call>>
        /\ inbound \in Seq(Answers) /\ inbound # <<>> /\ inbound[1] = "accept" /\ inbound' = Tail(inbound)
        /\ up' = 1 /\ pc = "ack" /\ pc' = (IF call = "top" THEN "drain" ELSE "write")
    BY DEF AckAccepted, busVars, relayVars, RegisterInv, LinkTyped
  <1>2. /\ Tail(inbound) \in Seq(Answers) /\ 1 \in DOMAIN inbound
        /\ \A i \in DOMAIN Tail(inbound) : i + 1 \in DOMAIN inbound /\ Tail(inbound)[i] = inbound[i + 1]
    BY <1>1, AnyTail
  <1>3. accepted = TRUE /\ connected = TRUE
    BY <1>1, <1>2 DEF RegisterInv, Known, LinkTyped
  <1>4. LinkTyped' /\ Heard' /\ Known' /\ Waiting'
    BY <1>1, <1>2, <1>3 DEF RegisterInv, LinkTyped, Heard, Known, Waiting, Pcs, AtRest
  <1>5. conn = "open" => Open'
    <2> SUFFICES ASSUME conn = "open" PROVE Open'
      OBVIOUS
    <2>1. Len(talk) = 1 /\ wire = <<>>
      BY <1>1, <1>3 DEF RegisterInv, Conversation, Asked
    <2>2. talk # <<>>
      BY <2>1
    <2>q. QED
      BY <1>1, <1>3, <2>1, <2>2 DEF Open, Silent
  <1>6. Conversation'
    BY <1>1, <1>3, <1>5 DEF Conversation, AtRest
  <1>q. QED
    BY <1>4, <1>6 DEF RegisterInv

\* A task is taken off the connection.
LEMMA SelectTaskKeeps ==
  ASSUME RegisterInv, SelectTask PROVE RegisterInv'
  <1>1. /\ UNCHANGED <<talk, wire, accepted, conn, connected, up, arrived, buffer>>
        /\ inbound \in Seq(Answers) /\ inbound # <<>> /\ inbound' = Tail(inbound)
        /\ pc = "select" /\ pc' = "write" /\ call' = "answer" /\ connected
    BY DEF SelectTask, busVars, relayVars, linkVars, RegisterInv, LinkTyped
  <1>2. /\ Tail(inbound) \in Seq(Answers)
        /\ \A i \in DOMAIN Tail(inbound) : i + 1 \in DOMAIN inbound /\ Tail(inbound)[i] = inbound[i + 1]
    BY <1>1, AnyTail
  <1>3. LinkTyped' /\ Heard' /\ Known' /\ Waiting'
    BY <1>1, <1>2 DEF RegisterInv, LinkTyped, Heard, Known, Waiting, Pcs, AtRest
  <1>4. Conversation'
    BY <1>1 DEF RegisterInv, Conversation, Open, Silent, AtRest
  <1>q. QED
    BY <1>3, <1>4 DEF RegisterInv

\* A task comes in on a connection that is registered.
LEMMA FusionTasksKeeps ==
  ASSUME RegisterInv, FusionTasks PROVE RegisterInv'
  <1>1. /\ UNCHANGED <<talk, wire, accepted, conn, connected, up, arrived, buffer, pc, call>>
        /\ inbound \in Seq(Answers) /\ inbound' = Append(inbound, "task")
    BY DEF FusionTasks, busVars, relayVars, linkVars, taskVars, RegisterInv, LinkTyped
  <1>2. "task" \in Answers
    BY DEF Answers
  <1>3. /\ inbound' \in Seq(Answers)
        /\ \A i \in DOMAIN inbound' : (i \in DOMAIN inbound /\ inbound'[i] = inbound[i]) \/ inbound'[i] = "task"
    BY <1>1, <1>2, AnyAppend
  <1>4. LinkTyped' /\ Heard' /\ Waiting'
    BY <1>1, <1>3 DEF RegisterInv, LinkTyped, Heard, Waiting
  <1>5. Known'
    BY <1>1, <1>3 DEF RegisterInv, Known
  <1>6. Conversation'
    BY <1>1 DEF RegisterInv, Conversation, Fresh, Asked, Open, Silent
  <1>q. QED
    BY <1>4, <1>5, <1>6 DEF RegisterInv

\* The connection dies; the loop does not know yet.
LEMMA ConnDiesKeeps ==
  ASSUME RegisterInv, ConnDies PROVE RegisterInv'
  <1>1. /\ UNCHANGED <<talk, accepted, connected, up, arrived, buffer, pc, call>>
        /\ inbound' = <<>> \/ inbound' = inbound
        /\ conn' = "dead" /\ wire' = <<>>
    BY DEF ConnDies, busVars, relayVars, linkVars, taskVars
  <1>2. LinkTyped' /\ Heard' /\ Waiting' /\ Conversation'
    BY <1>1, AnyEmpty, Zenon DEF RegisterInv, LinkTyped, Heard, Waiting, Conversation
  <1>3. Known'
    BY <1>1 DEF RegisterInv, Known
  <1>q. QED
    BY <1>2, <1>3 DEF RegisterInv

\* The fusion node reads the registration, and answers it, or something that follows it.
LEMMA FusionReadsKeeps ==
  ASSUME RegisterInv, FusionReads PROVE RegisterInv'
  <1>1. /\ UNCHANGED <<conn, connected, up, arrived, buffer, pc, call>> /\ conn = "open"
        /\ wire \in Seq(Message) /\ talk \in Seq(Kinds) /\ inbound \in Seq(Answers)
        /\ wire # <<>> /\ wire' = Tail(wire) /\ talk' = Append(talk, wire[1].kind)
    BY DEF FusionReads, busVars, relayVars, linkVars, taskVars, RegisterInv, LinkTyped
  <1>2. /\ Tail(wire) \in Seq(Message) /\ wire[1] \in Message /\ 1 \in DOMAIN wire
        /\ \A i \in DOMAIN Tail(wire) : i + 1 \in DOMAIN wire /\ Tail(wire)[i] = wire[i + 1]
    BY <1>1, AnyTail
  <1>3. wire[1].kind \in Kinds
    BY <1>2 DEF Message
  <1>4. /\ talk' \in Seq(Kinds) /\ Len(talk') = Len(talk) + 1 /\ Len(talk) \in Nat /\ talk' # <<>>
        /\ DOMAIN talk = 1 .. Len(talk)
        /\ \A i \in DOMAIN talk : talk'[i] = talk[i]
        /\ talk'[Len(talk) + 1] = wire[1].kind
    BY <1>1, <1>3, AnyAppend, AnySeq
  <1>5. pc # "register" /\ pc # "connect" /\ connected /\ (Asked \/ Open)
    BY <1>1 DEF RegisterInv, Conversation, Known, Fresh, LinkTyped, Pcs, AtRest
  <1>6. CASE wire[1].kind = "registration"
    <2>1. ~Open
      BY <1>2, <1>6 DEF Open, Silent
    <2>2. talk = <<>> /\ ~accepted /\ wire = <<Registration>>
      BY <1>1, <1>5, <2>1 DEF Asked
    <2>3. Len(talk) = 0 /\ Tail(wire) = <<>>
      BY <2>2
    <2>4. Len(talk') = 1 /\ talk'[1] = "registration" /\ wire' = <<>>
      BY <1>1, <1>4, <1>6, <2>3
    <2>5. \/ accepted' = TRUE /\ inbound' = Append(inbound, "accept")
          \/ accepted' = accepted /\ inbound' = Append(inbound, "reject")
      BY <1>6 DEF FusionReads
    <2>6. "accept" \in Answers /\ "reject" \in Answers
      BY DEF Answers
    <2>7. inbound' \in Seq(Answers)
      <3>1. Append(inbound, "accept") \in Seq(Answers)
        BY <1>1, <2>6, AnyAppend
      <3>2. Append(inbound, "reject") \in Seq(Answers)
        BY <1>1, <2>6, AnyAppend
      <3>q. QED
        BY <2>5, <3>1, <3>2
    <2>8. \A i \in DOMAIN inbound' : inbound'[i] = "accept" => accepted'
      <3>1. CASE accepted' = TRUE
        BY <3>1
      <3>2. CASE accepted' = accepted /\ inbound' = Append(inbound, "reject")
        <4>1. \A i \in DOMAIN inbound' :
                (i \in DOMAIN inbound /\ inbound'[i] = inbound[i]) \/ inbound'[i] = "reject"
          BY <1>1, <2>6, <3>2, AnyAppend
        <4>q. QED
          BY <3>2, <4>1 DEF RegisterInv, Known
      <3>q. QED
        BY <2>5, <3>1, <3>2
    <2>9. LinkTyped' /\ Waiting'
      BY <1>1, <1>2, <1>4, <2>5, <2>7, Zenon DEF RegisterInv, LinkTyped, Waiting
    <2>10. Heard'
      BY <2>4 DEF Heard
    <2>11. pc \notin AtRest
      BY <1>1, <2>1 DEF RegisterInv, Conversation
    <2>12. Conversation'
      BY <1>1, <1>5, <2>4, <2>11 DEF Conversation, Asked
    <2>13. Known'
      BY <1>1, <2>2, <2>8 DEF RegisterInv, Known
    <2>q. QED
      BY <2>9, <2>10, <2>12, <2>13 DEF RegisterInv
  <1>7. CASE wire[1].kind # "registration"
    <2>1. UNCHANGED <<accepted, inbound>>
      BY <1>7 DEF FusionReads
    <2>2. Open
      <3>1. CASE wire = <<Registration>>
        BY <1>7, <3>1 DEF Registration
      <3>q. QED
        BY <1>1, <1>5, <3>1 DEF Asked
    <2>3. LinkTyped' /\ Waiting' /\ Known'
      BY <1>1, <1>2, <1>4, <2>1 DEF RegisterInv, LinkTyped, Waiting, Known
    <2>4. Open'
      BY <1>1, <1>2, <1>4, <2>1, <2>2 DEF Open, Silent
    <2>5. Len(talk) >= 1
      BY <1>1, <1>4, <2>2, AnyEmpty DEF Open
    <2>6. Heard'
      <3>1. talk[1] = "registration" /\ \A i \in 2 .. Len(talk) : talk[i] # "registration"
        BY <2>2 DEF RegisterInv, Heard, Open
      <3>2. talk'[1] = "registration"
        BY <1>4, <2>5, <3>1
      <3>3. \A i \in 2 .. Len(talk') : talk'[i] # "registration"
        <4> TAKE i \in 2 .. Len(talk')
        <4>1. CASE i = Len(talk) + 1
          BY <1>4, <1>7, <4>1
        <4>2. CASE i # Len(talk) + 1
          BY <1>4, <3>1, <4>2
        <4>q. QED
          BY <4>1, <4>2
      <3>q. QED
        BY <2>1, <2>2, <3>2, <3>3 DEF Heard, Open
    <2>7. Conversation'
      <3>1. pc # "ack"
        <4> SUFFICES ASSUME pc = "ack" PROVE FALSE
          OBVIOUS
        <4>1. Asked
          BY <1>1 DEF RegisterInv, Conversation
        <4>q. QED
          BY <1>1, <2>2, <4>1 DEF Asked, Open
      <3>q. QED
        BY <1>1, <1>5, <2>4, <3>1 DEF Conversation
    <2>q. QED
      BY <2>3, <2>6, <2>7 DEF RegisterInv
  <1>q. QED
    BY <1>6, <1>7

\* The drain holds the front of the buffer after a step that neither enters the link nor
\* changes the buffer.
LEMMA OutsideWaits ==
  ASSUME pc' \in {"top", "drain", "select", "stopped"} PROVE Waiting'
  BY DEF Waiting

\* The steps that leave the connection alone.
LEMMA QuietSteps ==
  ASSUME RegisterInv,
         \/ ConnectFails \/ TopOfLoop \/ DrainNext \/ SelectStatusTick \/ SelectRetry
         \/ SelectShutdown \/ FinalTimeout \/ FusionReturns \/ Signal
  PROVE  RegisterInv'
  <1>1. /\ UNCHANGED <<talk, wire, inbound, accepted, conn, connected, up, arrived, buffer>>
        /\ arrived \in Nat /\ buffer \in Seq(Nat)
    BY DEF ConnectFails, TopOfLoop, DrainNext, SelectStatusTick, SelectRetry, SelectShutdown,
           FinalTimeout, FusionReturns, Signal, busVars, relayVars, linkVars, peerVars, RegisterInv, LinkTyped
  <1>2. \/ pc' = pc
        \/ pc' = "stopped"
        \/ /\ pc \in AtRest \cup {"connect"} /\ pc' \in AtRest \cup {"connect"}
           /\ pc' = "connect" => ~connected
           /\ pc' = "write" => connected
    BY DEF ConnectFails, CallFails, TopOfLoop, DrainNext, SelectStatusTick, SelectRetry, SelectShutdown,
           FinalTimeout, FusionReturns, Signal, taskVars, AtRest
  <1>3. Waiting'
    BY <1>1 DEF ConnectFails, CallFails, TopOfLoop, DrainNext, SelectStatusTick, SelectRetry, SelectShutdown,
                FinalTimeout, FusionReturns, Signal, taskVars, RegisterInv, Waiting
  <1>q. QED
    BY <1>1, <1>2, <1>3, QuietKeeps

\* What an event leaves in the buffer.
LEMMA TakeTyped ==
  ASSUME RegisterInv, NEW n \in Nat, Take(n) PROVE buffer' \in Seq(Nat)
  BY PushOrder, SapientAssumption, Zenon DEF Push, Take, RegisterInv, LinkTyped

\* An event, or the same event again.
LEMMA EventSteps ==
  ASSUME RegisterInv, SelectEvent \/ \E n \in 1 .. arrived : SelectAgain(n)
  PROVE  RegisterInv'
  <1>1. /\ UNCHANGED <<talk, wire, inbound, accepted, conn, connected, up>>
        /\ arrived' \in Nat /\ pc = "select" /\ pc' = "top"
    BY DEF SelectEvent, SelectAgain, peerVars, linkVars, RegisterInv, LinkTyped
  <1>2. buffer' \in Seq(Nat)
    <2>1. CASE SelectEvent
      <3>1. arrived + 1 \in Nat /\ Take(arrived + 1)
        BY <2>1 DEF SelectEvent, RegisterInv, LinkTyped
      <3>q. QED
        BY <3>1, TakeTyped
    <2>2. ASSUME NEW n \in 1 .. arrived, SelectAgain(n) PROVE buffer' \in Seq(Nat)
      <3>1. n \in Nat /\ (Take(n) \/ buffer' = buffer)
        BY <2>2 DEF SelectAgain, relayVars, RegisterInv, LinkTyped
      <3>q. QED
        BY <3>1, TakeTyped DEF RegisterInv, LinkTyped
    <2>q. QED
      BY <2>1, <2>2
  <1>3. Waiting'
    BY <1>1, OutsideWaits
  <1>q. QED
    BY <1>1, <1>2, <1>3, QuietKeeps DEF AtRest

\* A call fails, or the fusion node hangs up.
LEMMA DropSteps ==
  ASSUME RegisterInv, AckFails \/ WriteFails \/ SelectHungUp PROVE RegisterInv'
  <1>1. /\ DropConnection /\ conn' = "none"
        /\ UNCHANGED <<talk, wire, inbound, accepted, arrived, buffer>>
    BY DEF AckFails, WriteFails, SelectHungUp, busVars, relayVars
  <1>2. pc' \in {"top", "drain", "select", "stopped"}
    BY DEF AckFails, WriteFails, SelectHungUp, CallFails
  <1>q. QED
    BY <1>1, <1>2, DropKeeps

\* A report, a status or an answer is written.
LEMMA SaySteps ==
  ASSUME RegisterInv, WriteReport \/ WriteStatus \/ WriteAnswer PROVE RegisterInv'
  <1>1. CASE WriteReport
    <2>1. buffer # <<>> /\ buffer \in Seq(Nat)
      BY <1>1 DEF WriteReport, RegisterInv, Waiting, LinkTyped
    <2>2. buffer[1] \in Nat /\ Tail(buffer) \in Seq(Nat)
      BY <2>1, AnyTail
    <2>3. Report(buffer[1]) \in Message /\ Report(buffer[1]).kind # "registration"
      BY <2>2 DEF Report, Message, Kinds
    <2>4. /\ Write(Report(buffer[1])) /\ pc = "write" /\ pc' = "drain" /\ UNCHANGED <<arrived, linkVars>>
          /\ buffer' \in Seq(Nat)
      BY <1>1, <2>2 DEF WriteReport, busVars
    <2>q. QED
      BY <2>3, <2>4, SayKeeps
  <1>2. CASE WriteStatus
    <2>1. Status(first_status) \in Message /\ Status(first_status).kind # "registration"
      BY DEF Status, Message, Kinds
    <2>2. /\ Write(Status(first_status)) /\ pc = "write" /\ pc' = "top" /\ UNCHANGED <<arrived, linkVars>>
          /\ buffer' \in Seq(Nat)
      BY <1>2 DEF WriteStatus, busVars, relayVars, RegisterInv, LinkTyped
    <2>q. QED
      BY <2>1, <2>2, SayKeeps
  <1>3. CASE WriteAnswer
    <2>1. TaskAck \in Message /\ TaskAck.kind # "registration"
      BY DEF TaskAck, Message, Kinds
    <2>2. /\ Write(TaskAck) /\ pc = "write" /\ pc' = "top" /\ UNCHANGED <<arrived, linkVars>>
          /\ buffer' \in Seq(Nat)
      BY <1>3 DEF WriteAnswer, busVars, relayVars, RegisterInv, LinkTyped
    <2>q. QED
      BY <2>1, <2>2, SayKeeps
  <1>q. QED
    BY <1>1, <1>2, <1>3

\* Every step keeps the invariant.
LEMMA RegisterStep == RegisterInv /\ [Next]_sapientVars => RegisterInv'
  <1> SUFFICES ASSUME RegisterInv, [Next]_sapientVars PROVE RegisterInv'
    OBVIOUS
  <1>1. CASE UNCHANGED sapientVars
    <2>1. UNCHANGED <<talk, wire, inbound, accepted, conn, connected, up, arrived, buffer, pc, call>>
      BY <1>1 DEF sapientVars, busVars, relayVars, taskVars, linkVars, peerVars
    <2>2. Waiting' /\ arrived' \in Nat /\ buffer' \in Seq(Nat)
      BY <2>1 DEF RegisterInv, Waiting, LinkTyped
    <2>q. QED
      BY <2>1, <2>2, QuietKeeps
  <1>q. QED
    BY <1>1, QuietSteps, EventSteps, DropSteps, SaySteps, ConnectOkKeeps, RegisterKeeps,
       AckAcceptedKeeps, SelectTaskKeeps, FusionTasksKeeps, ConnDiesKeeps, FusionReadsKeeps
       DEF Next, Linking, Selecting, World

\* Whatever the sizes and the faults, a conversation starts with the registration and goes
\* on once it is accepted, and the gauge says so: ensure_registered does not return to any
\* of its callers before the answer that belongs to this connection.
THEOREM RegistersFirstHolds == Spec => []RegistersFirst
  <1>1. RegisterInv => RegistersFirst
    BY DEF RegisterInv, Heard, Known, AtRest, RegistersFirst
  <1>q. QED
    BY <1>1, RegisterInit, RegisterStep, PTL DEF Spec

----------------------------------------------------------------------------
(* The order and the counters, while the window knows every event.         *)

IsReport(m) == m.kind = "report"
\* The reports among the messages w: their order, and where they stand to the events in s.
ReportsUp(w, n) == \A i \in DOMAIN w : IsReport(w[i]) => w[i].of \in Nat /\ w[i].of <= n
ReportsIncrease(w) ==
  \A i, j \in DOMAIN w : IsReport(w[i]) /\ IsReport(w[j]) /\ i < j => w[i].of < w[j].of
ReportsAfter(s, w) == \A i \in DOMAIN s, j \in DOMAIN w : IsReport(w[j]) => s[i] < w[j].of
ReportsBefore(w, s) == \A i \in DOMAIN w, j \in DOMAIN s : IsReport(w[i]) => w[i].of < s[j]

OnTheWire(w, n) ==
  /\ ReportsUp(w, n) /\ ReportsIncrease(w)
  /\ ReportsAfter(fusion, w) /\ ReportsBefore(w, buffer)

\* The window holds every event, in the order of arrival.
Remembered == order \in Seq(Nat) /\ Len(order) = arrived /\ \A i \in DOMAIN order : order[i] = i

Counted ==
  /\ delivered \in Nat /\ gap_dropped \in Nat /\ unlocated \in Nat
  /\ SapientAccounted

Ordered ==
  /\ fusion \in Seq(Nat) /\ Increasing(fusion) /\ Increasing(buffer) /\ Below(fusion, buffer)
  /\ UpTo(fusion, arrived) /\ UpTo(buffer, arrived)
  /\ OnTheWire(wire, arrived)

OrderInv == RegisterInv /\ Remembered /\ Counted /\ Ordered

\* Nothing has arrived.
LEMMA OrderInit == Init => OrderInv
  <1> SUFFICES ASSUME Init PROVE OrderInv
    OBVIOUS
  <1>1. Remembered /\ Counted
    BY EmptyFacts DEF Init, Remembered, Counted, SapientAccounted
  <1>2. OnTheWire(wire, arrived)
    BY DEF Init, OnTheWire, ReportsUp, ReportsIncrease, ReportsAfter, ReportsBefore
  <1>3. Ordered
    BY <1>2, EmptyFacts DEF Init, Ordered
  <1>q. QED
    BY <1>1, <1>3, RegisterInit DEF OrderInv

\* A step that moves no event, and writes at most something that is no report.
LEMMA OrderStays ==
  ASSUME OrderInv, RegisterInv', UNCHANGED <<arrived, order, relayVars, fusion>>,
         \/ wire' = wire \/ wire' = <<>>
         \/ \E m \in Message : ~IsReport(m) /\ wire' = Append(wire, m)
  PROVE  OrderInv'
  <1>1. Remembered' /\ Counted'
    BY DEF OrderInv, Remembered, Counted, SapientAccounted, relayVars
  <1>2. OnTheWire(wire', arrived)
    <2>1. CASE wire' = wire
      BY <2>1 DEF OrderInv, Ordered
    <2>2. CASE wire' = <<>>
      BY <2>2 DEF OnTheWire, ReportsUp, ReportsIncrease, ReportsAfter, ReportsBefore
    <2>3. ASSUME NEW m \in Message, ~IsReport(m), wire' = Append(wire, m)
          PROVE  OnTheWire(wire', arrived)
      <3>1. wire \in Seq(Message)
        BY DEF OrderInv, RegisterInv, LinkTyped
      <3>2. \A i \in DOMAIN wire' : IsReport(wire'[i]) => i \in DOMAIN wire /\ wire'[i] = wire[i]
        BY <2>3, <3>1, AnyAppend
      <3>q. QED
        BY <3>2 DEF OrderInv, Ordered, OnTheWire, ReportsUp, ReportsIncrease, ReportsAfter, ReportsBefore
    <2>q. QED
      BY <2>1, <2>2, <2>3
  <1>3. Ordered'
    BY <1>2 DEF OrderInv, Ordered, relayVars, OnTheWire
  <1>q. QED
    BY <1>1, <1>3 DEF OrderInv

\* Relay::drain hands the front of the buffer to the link.
LEMMA WriteReportKeeps ==
  ASSUME OrderInv, RegisterInv', WriteReport PROVE OrderInv'
  <1>1. /\ UNCHANGED <<arrived, order, fusion, gap_dropped, unlocated>>
        /\ buffer' = Tail(buffer) /\ delivered' = delivered + 1
        /\ wire' = wire \/ wire' = Append(wire, Report(buffer[1]))
    BY DEF WriteReport, Write, busVars
  <1>2. buffer # <<>> /\ buffer \in Seq(Nat) /\ wire \in Seq(Message)
    BY DEF WriteReport, OrderInv, RegisterInv, Waiting, LinkTyped
  <1>3. /\ 1 \in DOMAIN buffer /\ buffer[1] \in Nat /\ Len(buffer) \in Nat
        /\ Len(Tail(buffer)) = Len(buffer) - 1
        /\ \A i \in DOMAIN Tail(buffer) : i + 1 \in DOMAIN buffer /\ Tail(buffer)[i] = buffer[i + 1]
    BY <1>2, TailEntries, SeqFacts
  <1>4. Remembered'
    BY <1>1 DEF OrderInv, Remembered
  <1>5. Counted'
    <2>1. /\ delivered \in Nat /\ gap_dropped \in Nat /\ unlocated \in Nat /\ arrived \in Nat
          /\ arrived = delivered + gap_dropped + unlocated + Len(buffer)
      BY DEF OrderInv, Counted, SapientAccounted, RegisterInv, LinkTyped
    <2>2. Len(buffer') = Len(buffer) - 1
      BY <1>1, <1>3
    <2>3. /\ arrived' = arrived /\ gap_dropped' = gap_dropped /\ unlocated' = unlocated
          /\ delivered' = delivered + 1
      BY <1>1
    <2>4. arrived' = delivered' + gap_dropped' + unlocated' + Len(buffer') /\ delivered' \in Nat
      BY ONLY <1>3, <2>1, <2>2, <2>3
    <2>q. QED
      BY <2>1, <2>3, <2>4 DEF Counted, SapientAccounted
  <1>6. /\ Increasing(Tail(buffer)) /\ UpTo(Tail(buffer), arrived) /\ Below(fusion, Tail(buffer))
    BY <1>2, TailOrder DEF OrderInv, Ordered
  <1>7. \A j \in DOMAIN Tail(buffer) : buffer[1] < Tail(buffer)[j]
    BY <1>2, FrontOrder DEF OrderInv, Ordered
  <1>8. OnTheWire(wire, arrived)'
    <2>1. /\ ReportsUp(wire, arrived) /\ ReportsIncrease(wire) /\ ReportsAfter(fusion, wire)
          /\ ReportsBefore(wire, Tail(buffer))
      BY <1>3 DEF OrderInv, Ordered, OnTheWire, ReportsBefore
    <2>2. CASE wire' = wire
      BY <1>1, <2>1, <2>2 DEF OnTheWire
    <2>3. CASE wire' = Append(wire, Report(buffer[1]))
      <3>1. Report(buffer[1]) \in Message
        BY <1>3 DEF Report, Message, Kinds
      <3>2. /\ Len(wire) \in Nat /\ DOMAIN wire = 1 .. Len(wire)
            /\ \A i \in DOMAIN wire' : \/ i \in DOMAIN wire /\ wire'[i] = wire[i]
                                       \/ i = Len(wire) + 1 /\ wire'[i] = Report(buffer[1])
        BY <1>2, <2>3, <3>1, EachAppended, AnySeq
      <3>3. Report(buffer[1]).of = buffer[1]
        BY DEF Report
      <3>4. /\ \A i \in DOMAIN fusion : fusion[i] < buffer[1]
            /\ \A i \in DOMAIN wire : IsReport(wire[i]) => wire[i].of < buffer[1]
            /\ buffer[1] <= arrived
        BY <1>3 DEF OrderInv, Ordered, Below, UpTo, OnTheWire, ReportsBefore
      <3>5. ReportsUp(wire', arrived)
        BY <1>3, <2>1, <3>2, <3>3, <3>4 DEF ReportsUp
      <3>6. ReportsIncrease(wire')
        BY <2>1, <3>2, <3>3, <3>4 DEF ReportsIncrease
      <3>7. ReportsAfter(fusion, wire')
        BY <2>1, <3>2, <3>3, <3>4 DEF ReportsAfter
      <3>8. ReportsBefore(wire', Tail(buffer))
        BY <1>7, <2>1, <3>2, <3>3 DEF ReportsBefore
      <3>q. QED
        BY <1>1, <3>5, <3>6, <3>7, <3>8 DEF OnTheWire
    <2>q. QED
      BY <1>1, <2>2, <2>3
  <1>9. Ordered'
    BY <1>1, <1>6, <1>8 DEF OrderInv, Ordered, OnTheWire
  <1>q. QED
    BY <1>4, <1>5, <1>9 DEF OrderInv

\* The fusion node reads the front of the wire.
LEMMA ReadKeepsOrder ==
  ASSUME OrderInv, RegisterInv', FusionReads PROVE OrderInv'
  <1>1. /\ UNCHANGED <<arrived, order, relayVars>> /\ wire # <<>> /\ wire' = Tail(wire)
        /\ fusion' = IF IsReport(wire[1]) THEN Append(fusion, wire[1].of) ELSE fusion
    BY DEF FusionReads, busVars, IsReport
  <1>2. wire \in Seq(Message) /\ fusion \in Seq(Nat)
    BY DEF OrderInv, RegisterInv, LinkTyped, Ordered
  <1>3. /\ 1 \in DOMAIN wire /\ Len(wire) \in Nat /\ DOMAIN wire = 1 .. Len(wire)
        /\ \A i \in DOMAIN Tail(wire) : i + 1 \in DOMAIN wire /\ Tail(wire)[i] = wire[i + 1]
    BY <1>1, <1>2, AnyTail, AnySeq
  <1>4. DOMAIN Tail(wire) \subseteq Nat \ {0}
    BY <1>1, <1>2, AnyTail, AnySeq
  <1>5. Remembered' /\ Counted'
    BY <1>1 DEF OrderInv, Remembered, Counted, SapientAccounted, relayVars
  <1>6. /\ ReportsUp(Tail(wire), arrived) /\ ReportsIncrease(Tail(wire))
        /\ ReportsAfter(fusion, Tail(wire)) /\ ReportsBefore(Tail(wire), buffer)
    <2>1. ReportsUp(Tail(wire), arrived) /\ ReportsAfter(fusion, Tail(wire)) /\ ReportsBefore(Tail(wire), buffer)
      BY <1>3 DEF OrderInv, Ordered, OnTheWire, ReportsUp, ReportsAfter, ReportsBefore
    <2>2. ReportsIncrease(Tail(wire))
      BY <1>3, <1>4 DEF OrderInv, Ordered, OnTheWire, ReportsIncrease
    <2>q. QED
      BY <2>1, <2>2
  <1>7. /\ fusion' \in Seq(Nat) /\ Increasing(fusion') /\ Below(fusion', buffer) /\ UpTo(fusion', arrived)
        /\ ReportsAfter(fusion', Tail(wire))
    <2>1. CASE ~IsReport(wire[1])
      BY <1>1, <1>2, <1>6, <2>1 DEF OrderInv, Ordered
    <2>2. CASE IsReport(wire[1])
      <3>1. /\ wire[1].of \in Nat /\ wire[1].of <= arrived
            /\ \A i \in DOMAIN fusion : fusion[i] < wire[1].of
            /\ \A j \in DOMAIN buffer : wire[1].of < buffer[j]
        BY <1>3, <2>2 DEF OrderInv, Ordered, OnTheWire, ReportsUp, ReportsAfter, ReportsBefore
      <3>2. \A j \in DOMAIN Tail(wire) : IsReport(Tail(wire)[j]) => wire[1].of < Tail(wire)[j].of
        <4>1. \A j \in DOMAIN Tail(wire) : 1 < j + 1
          BY <1>4
        <4>q. QED
          BY <1>3, <2>2, <4>1 DEF OrderInv, Ordered, OnTheWire, ReportsIncrease
      <3>d. DEFINE x == wire[1].of
      <3>3. /\ x \in Nat /\ x <= arrived /\ fusion' = Append(fusion, x)
            /\ \A i \in DOMAIN fusion : fusion[i] < x
            /\ \A j \in DOMAIN buffer : x < buffer[j]
            /\ \A j \in DOMAIN Tail(wire) : IsReport(Tail(wire)[j]) => x < Tail(wire)[j].of
        BY <1>1, <2>2, <3>1, <3>2
      <3> HIDE DEF x
      <3>4. fusion' \in Seq(Nat)
        BY <1>2, <3>3, AppendEntries
      <3>5. Increasing(fusion') /\ Below(fusion', buffer) /\ UpTo(fusion', arrived)
        BY <1>2, <3>3, AppendOrder DEF OrderInv, Ordered
      <3>6. \A i \in DOMAIN fusion' : (i \in DOMAIN fusion /\ fusion'[i] = fusion[i]) \/ fusion'[i] = x
        BY <1>2, <3>3, AppendEntries
      <3>7. ReportsAfter(fusion', Tail(wire))
        BY <1>6, <3>3, <3>6 DEF ReportsAfter
      <3>q. QED
        BY <3>4, <3>5, <3>7
    <2>q. QED
      BY <2>1, <2>2
  <1>8. Ordered'
    BY <1>1, <1>6, <1>7 DEF OrderInv, Ordered, OnTheWire, relayVars
  <1>q. QED
    BY <1>5, <1>8 DEF OrderInv

\* A new event: at the back of the window, and at the back of the buffer unless it has no
\* position.
LEMMA EventKeepsOrder ==
  ASSUME OrderInv, RegisterInv', SelectEvent, DedupeMax >= MaxEvents PROVE OrderInv'
  <1>d. DEFINE n == arrived + 1
  <1>1. /\ UNCHANGED <<wire, fusion, delivered>> /\ arrived < MaxEvents /\ arrived' = n
        /\ order' = Remember(order, DedupeMax, n)
        /\ \/ unlocated' = unlocated + 1 /\ UNCHANGED <<buffer, gap_dropped>>
           \/ /\ buffer' = Push(buffer, BufferMax, n) /\ UNCHANGED unlocated
              /\ gap_dropped' = gap_dropped + PushDrops(buffer, BufferMax)
    BY DEF SelectEvent, Take, peerVars
  <1>2. /\ arrived \in Nat /\ n \in Nat /\ arrived < n /\ n <= n /\ buffer \in Seq(Nat) /\ fusion \in Seq(Nat)
        /\ order \in Seq(Nat) /\ Len(order) = arrived
        /\ BufferMax \in Nat \ {0} /\ DedupeMax \in Nat /\ MaxEvents \in Nat
    BY SapientAssumption DEF OrderInv, RegisterInv, LinkTyped, Ordered, Remembered
  <1>3. Remembered'
    <2>1. ~(Len(order) >= DedupeMax)
      BY <1>1, <1>2
    <2>2. order' = Append(order, n)
      BY <1>1, <2>1 DEF Remember
    <2>3. n = Len(order) + 1
      BY <1>2
    <2> HIDE DEF n
    <2>4. /\ order' \in Seq(Nat) /\ Len(order') = n
          /\ \A i \in DOMAIN order' : (i \in DOMAIN order /\ order'[i] = order[i]) \/ (i = n /\ order'[i] = n)
      BY <1>2, <2>2, <2>3, AppendEntries
    <2>q. QED
      BY <1>1, <2>4 DEF OrderInv, Remembered
  <1>4. /\ \A i \in DOMAIN fusion : fusion[i] < n
        /\ \A i \in DOMAIN buffer : buffer[i] < n
        /\ \A i \in DOMAIN wire : IsReport(wire[i]) => wire[i].of < n
    BY <1>2, SeqFacts DEF OrderInv, Ordered, UpTo, OnTheWire, ReportsUp
  <1>5. UpTo(fusion, n) /\ UpTo(buffer, n) /\ ReportsUp(wire, n)
    BY <1>2, <1>4, SeqFacts DEF UpTo, ReportsUp, OrderInv, Ordered, OnTheWire
  <1> HIDE DEF n
  <1>6. /\ buffer' \in Seq(Nat) /\ Increasing(buffer') /\ Below(fusion, buffer') /\ UpTo(buffer', n)
        /\ ReportsBefore(wire, buffer')
    <2>1. CASE buffer' = buffer
      BY <1>2, <1>5, <2>1 DEF OrderInv, Ordered, OnTheWire
    <2>2. CASE buffer' = Push(buffer, BufferMax, n)
      <3>1. buffer' \in Seq(Nat) /\ Increasing(buffer') /\ Below(fusion, buffer') /\ UpTo(buffer', n)
        BY <1>2, <1>4, <1>5, <2>2, PushOrder DEF Push, OrderInv, Ordered
      <3>2. \A j \in DOMAIN buffer' : buffer'[j] = n \/ \E k \in DOMAIN buffer : buffer'[j] = buffer[k]
        <4>1. CASE buffer' = Append(buffer, n)
          BY <1>2, <4>1, AppendEntries
        <4>2. CASE buffer' = Append(Tail(buffer), n) /\ buffer # <<>>
          <5>1. Tail(buffer) \in Seq(Nat)
            BY <1>2, <4>2, TailEntries
          <5>2. \A j \in DOMAIN buffer' : buffer'[j] = n \/ (j \in DOMAIN Tail(buffer) /\ buffer'[j] = Tail(buffer)[j])
            BY <1>2, <4>2, <5>1, AppendEntries
          <5>q. QED
            BY <1>2, <4>2, <5>2, TailEntries
        <4>3. Len(buffer) >= BufferMax => buffer # <<>>
          BY <1>2
        <4>q. QED
          BY <2>2, <4>1, <4>2, <4>3 DEF Push
      <3>3. ReportsBefore(wire, buffer')
        BY <1>4, <3>2 DEF OrderInv, Ordered, OnTheWire, ReportsBefore
      <3>q. QED
        BY <3>1, <3>3
    <2>q. QED
      BY <1>1, <2>1, <2>2
  <1>7. Ordered'
    <2>1. ReportsIncrease(wire) /\ ReportsAfter(fusion, wire) /\ Increasing(fusion)
      BY DEF OrderInv, Ordered, OnTheWire
    <2>q. QED
      BY <1>1, <1>2, <1>5, <1>6, <2>1 DEF Ordered, OnTheWire
  <1>8. Counted'
    <2>1. /\ delivered \in Nat /\ gap_dropped \in Nat /\ unlocated \in Nat
          /\ arrived = delivered + gap_dropped + unlocated + Len(buffer)
          /\ Len(buffer) \in Nat /\ Len(buffer') \in Nat
      BY <1>2, <1>6, SeqFacts DEF OrderInv, Counted, SapientAccounted
    <2>2. n = arrived + 1
      BY DEF n
    <2>3. CASE unlocated' = unlocated + 1 /\ UNCHANGED <<buffer, gap_dropped>>
      BY <1>1, <1>2, <2>1, <2>2, <2>3 DEF Counted, SapientAccounted
    <2>4. CASE /\ buffer' = Push(buffer, BufferMax, n) /\ UNCHANGED unlocated
               /\ gap_dropped' = gap_dropped + PushDrops(buffer, BufferMax)
      <3>1. PushDrops(buffer, BufferMax) \in {0, 1} /\ Len(buffer') + PushDrops(buffer, BufferMax) = Len(buffer) + 1
        BY <1>2, <2>4, PushOrder DEF Push, PushDrops
      <3>2. arrived' = arrived + 1 /\ delivered' = delivered
        BY <1>1, <2>2
      <3>d. DEFINE drops == PushDrops(buffer, BufferMax)
      <3>3. /\ gap_dropped' = gap_dropped + drops /\ unlocated' = unlocated /\ drops \in {0, 1}
            /\ Len(buffer') + drops = Len(buffer) + 1
        BY <2>4, <3>1
      <3> HIDE DEF drops
      <3>4. arrived' = delivered' + gap_dropped' + unlocated' + Len(buffer') /\ gap_dropped' \in Nat
        BY ONLY <1>2, <2>1, <3>2, <3>3
      <3>q. QED
        BY <2>1, <3>2, <3>3, <3>4 DEF Counted, SapientAccounted
    <2>q. QED
      BY <1>1, <2>3, <2>4
  <1>q. QED
    BY <1>3, <1>7, <1>8 DEF OrderInv

\* A redelivered event is recognised, and changes nothing.
LEMMA AgainKeepsOrder ==
  ASSUME OrderInv, RegisterInv', NEW n \in 1 .. arrived, SelectAgain(n) PROVE OrderInv'
  <1>1. order \in Seq(Nat) /\ Len(order) = arrived /\ arrived \in Nat /\ \A i \in DOMAIN order : order[i] = i
    BY DEF OrderInv, Remembered, RegisterInv, LinkTyped
  <1>2. n \in DOMAIN order
    BY <1>1, SeqFacts
  <1>3. ~FirstTime(order, n)
    BY <1>1, <1>2 DEF FirstTime
  <1>4. UNCHANGED <<arrived, order, relayVars, fusion, wire>>
    BY <1>3 DEF SelectAgain, peerVars
  <1>q. QED
    BY <1>4, OrderStays

\* Every step keeps the order and the counters.
LEMMA OrderStep ==
  ASSUME DedupeMax >= MaxEvents
  PROVE  OrderInv /\ [Next]_sapientVars => OrderInv'
  <1> SUFFICES ASSUME OrderInv, [Next]_sapientVars PROVE OrderInv'
    OBVIOUS
  <1>r. RegisterInv'
    BY RegisterStep DEF OrderInv
  <1>1. CASE \/ UNCHANGED sapientVars \/ ConnectFails \/ TopOfLoop \/ DrainNext \/ SelectStatusTick
             \/ SelectRetry \/ SelectShutdown \/ FinalTimeout \/ FusionReturns \/ Signal
             \/ AckAccepted \/ AckFails \/ WriteFails \/ SelectHungUp \/ SelectTask \/ FusionTasks
    <2>1. UNCHANGED <<arrived, order, relayVars, fusion, wire>>
      BY <1>1, Zenon DEF sapientVars, busVars, peerVars, ConnectFails, TopOfLoop, DrainNext, SelectStatusTick,
                  SelectRetry, SelectShutdown, FinalTimeout, FusionReturns, Signal, AckAccepted,
                  AckFails, WriteFails, SelectHungUp, SelectTask, FusionTasks
    <2>q. QED
      BY <1>r, <2>1, OrderStays
  <1>2. CASE ConnectOk \/ ConnDies
    <2>1. UNCHANGED <<arrived, order, relayVars, fusion>> /\ wire' = <<>>
      BY <1>2 DEF ConnectOk, ConnDies, busVars
    <2>q. QED
      BY <1>r, <2>1, OrderStays
  <1>3. CASE Register \/ WriteStatus \/ WriteAnswer
    <2>1. /\ UNCHANGED <<arrived, order, relayVars, fusion>>
          /\ \/ wire' = wire \/ wire' = Append(wire, Registration)
             \/ wire' = Append(wire, Status(first_status)) \/ wire' = Append(wire, TaskAck)
      BY <1>3 DEF Register, WriteStatus, WriteAnswer, Write, busVars
    <2>2. /\ Registration \in Message /\ ~IsReport(Registration)
          /\ Status(first_status) \in Message /\ ~IsReport(Status(first_status))
          /\ TaskAck \in Message /\ ~IsReport(TaskAck)
      BY DEF Registration, Status, TaskAck, Message, Kinds, IsReport
    <2>q. QED
      BY <1>r, <2>1, <2>2, OrderStays
  <1>q. QED
    BY <1>r, <1>1, <1>2, <1>3, WriteReportKeeps, ReadKeepsOrder, EventKeepsOrder, AgainKeepsOrder
       DEF Next, Linking, Selecting, World

\* While the window of event ids is not outrun, every event is in one place: reported,
\* buffered, or in the counter that says why it is not.
THEOREM SapientAccountedHolds ==
  ASSUME DedupeMax >= MaxEvents
  PROVE  Spec => []SapientAccounted
  <1>1. OrderInv => SapientAccounted
    BY DEF OrderInv, Counted
  <1>2. OrderInv /\ [Next]_sapientVars => OrderInv'
    BY OrderStep
  <1>q. QED
    BY <1>1, <1>2, OrderInit, PTL DEF Spec

\* And the fusion node reads reports in the order of the events, none twice, over any
\* number of lost connections: a report on the wire lies between what was read and what
\* Relay::drain still holds.
THEOREM FusionSeesInOrderHolds ==
  ASSUME DedupeMax >= MaxEvents
  PROVE  Spec => []FusionSeesInOrder
  <1>1. OrderInv => FusionSeesInOrder
    BY DEF OrderInv, Ordered, Increasing, FusionSeesInOrder
  <1>2. OrderInv /\ [Next]_sapientVars => OrderInv'
    BY OrderStep
  <1>q. QED
    BY <1>1, <1>2, OrderInit, PTL DEF Spec
=============================================================================
