--------------------------- MODULE MCPacketFilter ---------------------------
(* Small instances of PacketFilter for TLC.                                *)
EXTENDS PacketFilter, TLC

CONSTANTS a, h

FlowPacket(src, sport, dport, proto) ==
    [eth |-> "IP", whole |-> TRUE, src |-> src, dst |-> h, sport |-> sport,
     dport |-> dport, proto |-> proto, icmp |-> "none"]

Flow == FlowPacket(a, 5000, 443, TCP)
Ping == [FlowPacket(a, 0, 0, ICMP) EXCEPT !.icmp = "echo"]
Ssh == FlowPacket(a, 5001, 22, TCP)
Cut == [Flow EXCEPT !.whole = FALSE]

MCPackets == {Flow, Ping, Ssh, Cut}
MCReplies == {[src |-> h, dst |-> a, sport |-> 443, proto |-> TCP]}

Ask(proto, port, time, mode) ==
    [src |-> a, dst |-> h, proto |-> proto, port |-> port, time |-> time, mode |-> mode]

MCOperations == {Ask(0, 0, 1, "range"), Ask(0, 443, 1, "pre")}
MCNeighbours == (a :> <<>>)
=============================================================================
