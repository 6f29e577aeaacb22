----------------------------- MODULE MCBuffers -----------------------------
(* Instances of Buffers: one producer with two spans of one byte, or of    *)
(* none and one.                                                           *)
EXTENDS Buffers

CONSTANTS o1, t1, t2

AllHome == [t \in Token |-> o1]
(* Every transport and every serializer occurs; the other two pairs only *)
(* repeat them.                                                            *)
TwoLinks == {<<"RawSocket", "Flatbuffers">>, <<"WebSocket", "Cbor">>}
OneByte == [t \in Token |-> 1]
=============================================================================
