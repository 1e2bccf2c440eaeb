----------------------------- MODULE MCExampleNode -----------------------------
(***************************************************************************)
(* Settings of the example node: every port; ports named twice; no         *)
(* interface; a port shared by two WebSocket listeners; video that cannot  *)
(* be described; and more indices, of one port, for the ancestry.          *)
(***************************************************************************)
EXTENDS Integers, Sequences, TLC, MCTransport

AllPorts == {"node", "connection", "events", "events ws", "channelmapping", "manifest", "control",
             "configuration", "settings", "logging"}

Having(how_many, senders, receivers, off, video, rate, channels) ==
    [how_many |-> how_many, senders |-> senders, receivers |-> receivers, services |-> AllPorts \ off,
     interfaces |-> TRUE, clash |-> FALSE, activate |-> TRUE, simulate |-> FALSE,
     video |-> video, rate |-> rate, height |-> 1080, interlace |-> none, channels |-> channels]

NodeSettings ==
    {Having(1, <<none>>, <<none>>, {}, "video/raw", "25", 4),
     Having(2, <<"v", "t", "b">>, <<"v", "a", "t">>, {"channelmapping"}, "video/h264", "50", 16),
     Having(6, <<"d">>, <<>>, {"channelmapping", "control"}, "video/jxsv", "25", 8),
     Having(1, <<"a", "a">>, <<>>, {"events"}, "video/raw", "25", 4),
     [Having(1, <<"v", "t">>, <<"v">>, {"channelmapping", "events"}, "video/jxsv", "50", 2)
        EXCEPT !.simulate = TRUE, !.interlace = "interlaced_psf"],
     [Having(1, <<"v">>, <<>>, {"control"}, "video/raw", "25", 4) EXCEPT !.interfaces = FALSE, !.activate = FALSE],
     [Having(1, <<"v">>, <<>>, {}, "video/raw", "25", 4) EXCEPT !.clash = TRUE]}

Example == INSTANCE ExampleNode WITH Config <- NodeSettings, Second <- {0, 25}, None <- none,
              config <- v1, life <- v2, shutdown <- v3, example <- v4, todo <- v5,
              inserted <- v6, sending <- v7, monitored <- v8, task <- v9, measured <- v10,
              simulated <- v11
================================================================================
