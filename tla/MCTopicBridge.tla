--------------------------- MODULE MCTopicBridge ---------------------------
(* TopicBridge for TLC: PDUs and topics that make entries collide. *)
EXTENDS TopicBridge

\* a PDU that is not defined
NoPdu == <<"robot", "none">>

\* Two PDUs, one of a robot named like the reserved namespace.
TwoPdus == {<<"robot", "pos">>, <<"pdu", "pos">>}

\* The default topic of the first PDU, another topic, and a mirror topic.
ThreeTopics == {<<"robot", "pos">>, <<"cmd">>, <<"pdu", "cmd">>}

=============================================================================
