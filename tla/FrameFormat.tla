---------------------------- MODULE FrameFormat ----------------------------
(***************************************************************************)
(* How a TCP port lays a message out: a header with the length of the      *)
(* body, then the body. st is a setting, as Framing describes it. A byte   *)
(* is a digit below st.base. Only header types the parser knows (U8, U16,  *)
(* U32) are modelled. Recursive functions, not operators: Framing_proofs   *)
(* is about them.                                                          *)
(***************************************************************************)
EXTENDS Integers, Sequences

Byte(st) == 0..(st.base - 1)

\* The bytes of a header, the most significant one first: from_be_bytes and
\* from_le_bytes, to_be_bytes and to_le_bytes.
InOrder(st, bytes) ==
    [i \in 1..st.headerBytes |->
        bytes[IF st.order = "big" THEN i ELSE st.headerBytes + 1 - i]]

\* Variant with a bug: the reader knows one byte order only.
HeaderValueLittle(st, bytes) ==
    LET value[i \in 0..st.headerBytes] ==
            IF i = 0 THEN 0 ELSE value[i - 1] * st.base + bytes[st.headerBytes + 1 - i]
    IN  value[st.headerBytes]

\* parse_value_from_bytes with read_value_to_usize.
HeaderValue(st, bytes) ==
    LET value[i \in 0..st.headerBytes] ==
            IF i = 0 THEN 0 ELSE value[i - 1] * st.base + InOrder(st, bytes)[i]
    IN  value[st.headerBytes]

MaxLength(st) == HeaderValue(st, [i \in 1..st.headerBytes |-> st.base - 1])

\* value_from_number: a float converted to a narrower integer saturates.
HeaderNumber(st, length) == IF length > MaxLength(st) THEN MaxLength(st) ELSE length

\* The number without its last i bytes.
Shifted(st, number) ==
    LET shifted[i \in 0..st.headerBytes] ==
            IF i = 0 THEN number ELSE shifted[i - 1] \div st.base
    IN  shifted

\* Variant with a bug: the bytes of the header are not reduced to a byte each.
HeaderUnreduced(st, length) ==
    InOrder(st, [i \in 1..st.headerBytes |->
        Shifted(st, HeaderNumber(st, length))[st.headerBytes - i]])

\* write_from_settings.
Header(st, length) ==
    InOrder(st, [i \in 1..st.headerBytes |->
        Shifted(st, HeaderNumber(st, length))[st.headerBytes - i] % st.base])

Frame(st, body) == Header(st, Len(body)) \o body

-----------------------------------------------------------------------------
BodyLength(st, bytes) == HeaderValue(st, SubSeq(bytes, 1, st.headerBytes))
FrameLength(st, bytes) == st.headerBytes + BodyLength(st, bytes)

\* Variant with a bug: the last byte is waited for in vain.
WholeStrict(st, bytes) == st.headerBytes <= Len(bytes) /\ FrameLength(st, bytes) < Len(bytes)

\* The bytes start with a whole message.
Whole(st, bytes) == st.headerBytes <= Len(bytes) /\ FrameLength(st, bytes) <= Len(bytes)

First(st, bytes) == SubSeq(bytes, st.headerBytes + 1, FrameLength(st, bytes))
Rest(st, bytes) == SubSeq(bytes, FrameLength(st, bytes) + 1, Len(bytes))

\* extract_messages_from_buffer: the whole messages at the front of the buffer
\* and the bytes that stay.
Extracting(st) ==
    LET extract[bytes \in Seq(Byte(st))] ==
            IF Whole(st, bytes)
            THEN LET later == extract[Rest(st, bytes)] IN
                 [messages |-> <<First(st, bytes)>> \o later.messages, rest |-> later.rest]
            ELSE [messages |-> <<>>, rest |-> bytes]
    IN  extract
Extract(st, bytes) == Extracting(st)[bytes]
=============================================================================
