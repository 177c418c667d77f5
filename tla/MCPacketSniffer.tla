---------------------------- MODULE MCPacketSniffer ----------------------------
(* Command lines for PacketSniffer: none, one name, the same one twice, lo *)
(* among them, and more names than there are places.                       *)
EXTENDS PacketSniffer

CONSTANT e1  \* an interface besides lo

MCArgs == {<<>>, <<e1>>, <<e1, e1>>, <<Lo, e1>>, <<e1, Lo, e1>>}
=============================================================================
