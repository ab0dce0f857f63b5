----------------------------- MODULE MCSources -----------------------------
\* The transports on small instances.
EXTENDS Sources

MCFramesOn == <<2, 1>>

Plain == [head |-> "ok", path |-> TRUE, method |-> TRUE, token |-> "right",
          expect |-> FALSE, framing |-> "length", sizes |-> <<2>>]
\* One event is an ordinary delivery; the other takes the ways through serve.
MCHookShapes ==
  [h1 |-> {Plain},
   h2 |-> {Plain,
           [Plain EXCEPT !.framing = "chunked", !.sizes = <<1, 1>>],
           [Plain EXCEPT !.framing = "chunked", !.sizes = <<2, 1>>],
           [Plain EXCEPT !.sizes = <<3>>], [Plain EXCEPT !.expect = TRUE],
           [Plain EXCEPT !.framing = "none"], [Plain EXCEPT !.token = "wrong"]}]
MCDrops == [n1 |-> 1, n2 |-> 1]
\* Captures of up to three packets, times in and out of order.
MCPackets == UNION {[1 .. n -> [ts : {0, 2, 5}, udp : BOOLEAN, torn : {FALSE}]] : n \in 1 .. 3}
             \cup {<<[ts |-> 0, udp |-> TRUE, torn |-> FALSE],
                    [ts |-> 2, udp |-> TRUE, torn |-> TRUE]>>}
\* Data that is empty, ends in zero, fills the frame or is longer; and bodies of
\* another type, one of them a prefix that reaches past the end.
Sample(shape, data, encodings) ==
  {[shape |-> shape, data |-> data, plain |-> e[1], little |-> e[2]] : e \in encodings}
LittlePlain == {<<TRUE, TRUE>>}
AnyEncoding == {<<TRUE, TRUE>>, <<TRUE, FALSE>>, <<FALSE, TRUE>>}
MCPublished ==
  Sample("octets", <<>>, LittlePlain) \cup Sample("octets", <<7, 0>>, AnyEncoding)
  \cup Sample("octets", <<7, 8, 7, 8, 7, 8>>, LittlePlain)
  \cup Sample("string", <<>>, LittlePlain) \cup Sample("string", <<7, 8>>, AnyEncoding)
  \cup UNION {Sample("other", b, LittlePlain)
              : b \in {<<7>>, <<9, 0, 0, 0, 7>>, <<1, 0, 0, 0, 7, 8, 7, 8, 7>>}}
=============================================================================
