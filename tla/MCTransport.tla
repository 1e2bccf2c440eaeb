------------------------------ MODULE MCTransport ------------------------------
(***************************************************************************)
(* Endpoints of every transport, and patches for them.                     *)
(***************************************************************************)
EXTENDS Integers, Sequences, TLC, MCConstraints

CONSTANTS auto, any

Rtp(type, sets, hosts, describable) ==
    [transport |-> "rtp", type |-> type, sets |-> sets, legs |-> Len(hosts), fixed |-> <<>>,
     hosts |-> hosts, describable |-> describable]

OneLeg(transport, type, sets, fixed) ==
    [transport |-> transport, type |-> type, sets |-> sets, legs |-> 1, fixed |-> fixed,
     hosts |-> <<<<"h1">>>>, describable |-> TRUE]

TwoHosts == <<<<"h1", "h2">>, <<"h2", "h3">>>>

Event == [connection_uri |-> "ws", connection_authorization |-> FALSE,
          ext_is_07_source_id |-> "source", ext_is_07_rest_api_url |-> "rest"]

MadeEndpoints ==
    {Rtp("sender", {"fec", "rtcp"}, TwoHosts, TRUE), Rtp("sender", {}, <<<<"h1">>>>, FALSE),
     Rtp("receiver", {"multicast", "fec", "rtcp"}, TwoHosts, TRUE),
     Rtp("receiver", {"fec", "rtcp"}, <<<<"h1", "h2">>>>, TRUE),
     Rtp("receiver", {"multicast"}, <<<<"h1", "h2">>>>, TRUE),
     OneLeg("websocket", "sender", {"events"}, Event),
     OneLeg("websocket", "receiver", {"events"}, [connection_authorization |-> FALSE]),
     OneLeg("mqtt", "sender", {"events"}, [broker_protocol |-> "mqtt", broker_topic |-> "topic",
                                           ext_is_07_rest_api_url |-> "rest"]),
     OneLeg("mqtt", "receiver", {"events"}, <<>>),
     OneLeg("mxl", "sender", {}, [mxl_domain_id |-> "domain", mxl_flow_id |-> "flow"]),
     OneLeg("mxl", "receiver", {}, [mxl_domain_id |-> "domain"])}

\* An SDP file with a multicast stream, and with a unicast one
Stream == [source_ip |-> "s1", multicast_ip |-> "m1", interface_ip |-> auto,
           destination_port |-> 30, rtp_enabled |-> TRUE]

Unicast == [source_ip |-> none, multicast_ip |-> none, interface_ip |-> "h1",
            destination_port |-> 40, rtp_enabled |-> TRUE]

Say(legs, sdp, enable, peer, mode) ==
    [legs |-> legs, file |-> sdp, enable |-> enable, peer |-> peer, mode |-> mode]

\* Legs, alone and with a file; most are for some of the endpoints only
LegPatches ==
    {<<[destination_port |-> 20]>>, <<[destination_port |-> 20], <<>>>>,
     <<[interface_ip |-> auto]>>, <<[interface_ip |-> "h2"]>>, <<[interface_ip |-> "h1"], [interface_ip |-> "h1"]>>,
     <<<<>>, [source_ip |-> "h3", rtp_enabled |-> TRUE]>>, <<[source_ip |-> auto]>>,
     <<[connection_authorization |-> auto]>>, <<[connection_uri |-> "other"]>>, <<[broker_protocol |-> auto]>>,
     <<[mxl_domain_id |-> none]>>, <<[mxl_flow_id |-> "other"]>>, <<[mxl_flow_id |-> none]>>}

AskedPatches ==
    {Say(legs, <<>>, any, any, "none") : legs \in LegPatches} \cup
    {Say(<<>>, <<>>, TRUE, "peer", mode) : mode \in {"immediate", "scheduled"}} \cup
    {Say(<<>>, <<>>, FALSE, any, "immediate"), Say(<<>>, <<>>, any, any, "cancel"),
     Say(<<>>, <<Stream>>, TRUE, "peer", "none"), Say(<<>>, <<Stream, Stream>>, any, any, "none"),
     Say(<<>>, <<Unicast>>, any, any, "none"),
     Say(<<[destination_port |-> 20], [rtp_enabled |-> TRUE]>>, <<Stream>>, any, any, "none"),
     Say(<<[multicast_ip |-> "m2"]>>, <<Stream, Stream>>, any, any, "none")}

\* The multicast groups of two legs
Groups == <<"g1", "g2">>

=============================================================================
