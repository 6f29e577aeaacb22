------------------------------ MODULE MCBroker ------------------------------
EXTENDS Broker

CONSTANTS exact, topic

Sessions == 1..2
Patterns == {exact}
Topics == {topic}
AllMatch == Patterns \X Topics
Ranks == [p \in Patterns |-> 0]
(* Session 1 publishes with the serializer that session 2 uses. *)
SameSerializer == {<<1, 2>>, <<1, 1>>, <<2, 2>>}
Mixed == BOOLEAN
=============================================================================
