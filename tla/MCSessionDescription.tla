------------------------- MODULE MCSessionDescription -------------------------
(***************************************************************************)
(* Streams of every format and redundancy, and receivers with one          *)
(* constraint or a few, just met or just not.                              *)
(***************************************************************************)
EXTENDS Integers, Sequences, TLC, MCExampleNode

\* Addresses: their type, whether it is multicast, and a number
Host(n) == <<"IP4", FALSE, n>>
Group(n) == <<"IP4", TRUE, n>>
Group6 == <<"IP6", TRUE, 1>>

SdpLeg(from, to, port) ==
    [multicast_ip |-> none, interface_ip |-> none, source_ip |-> Host(from), destination_ip |-> to,
     destination_port |-> port, rtcp_enabled |-> FALSE, rtcp_destination_port |-> 0, rtcp_destination_ip |-> none]

WithRtcp(leg, to) ==
    [leg EXCEPT !.rtcp_enabled = TRUE, !.rtcp_destination_port = leg.destination_port + 1,
                !.rtcp_destination_ip = to]

NoTemporal == [sources |-> <<>>, delay |-> none, mid |-> ""]

Temporal2 == [sources |-> <<[id |-> 7, cname |-> "x"], [id |-> 8, cname |-> "x"]>>, delay |-> 50, mid |-> "0"]

\* A sender of one leg with an internal clock, its stream aside
Sending ==
    [label |-> "label", clock_name |-> "clk0", clocks |-> ("clk0" :> [ref_type |-> "internal"]),
     interfaces |-> [h1 |-> [mac |-> 1, upper |-> FALSE], h2 |-> [mac |-> 2, upper |-> FALSE]],
     interface_bindings |-> <<"h1">>, ptp_domain |-> none, tp |-> none, sender_type |-> none,
     payload_type |-> none, media_stream_ids |-> <<>>, temporal |-> NoTemporal, max_packet_time |-> <<0, 1>>,
     framerate |-> <<0, 1>>, legs |-> <<SdpLeg(1, Group(1), 30)>>, source_filters |-> TRUE,
     components |-> <<>>, bit_rate |-> 0, level |-> "", source_rate |-> none, flow_rate |-> <<25, 1>>]

Video(encoding, sampling, width, height, rate) ==
    [encoding |-> encoding, sampling |-> sampling, width |-> width, height |-> height, bit_depth |-> 10,
     flow_rate |-> rate, interlace_mode |-> "progressive", transfer_characteristic |-> "SDR",
     colorspace |-> "BT709", packet_transmission_mode |-> "codestream",
     profile |-> "High444.12", sublevel |-> "Sublev3bpp"] @@ Sending

Raw == Video("raw", "YCbCr-4:2:2", 1920, 1080, <<25, 1>>)
Jxsv == Video("jxsv", "YCbCr-4:2:2", 1920, 1080, <<25, 1>>)

Audio(channels, depth) ==
    [encoding |-> "L", channels |-> channels, bit_depth |-> depth, sample_rate |-> <<48000, 1>>,
     packet_time |-> none] @@ Sending

Surround == <<"L", "R", "C", "LFE", "Ls", "Rs">>

AncData(rate) ==
    [encoding |-> "smpte291", did_sdids |-> <<1, 2>>, vpid_code |-> none, tm |-> ""]
      @@ [Sending EXCEPT !.flow_rate = rate]

Ptp2(traceable) ==
    [ref_type |-> "ptp", ptp_version |-> "IEEE1588-2008", traceable |-> traceable,
     gmid |-> [mac |-> 9, upper |-> FALSE]]

TwoLegs(s, first, second) ==
    [s EXCEPT !.legs = <<first, second>>, !.interface_bindings = <<"h1", "h2">>]

\* Every sampling; the samplings of a few pictures
Pictures ==
    {Video("raw", sampling, 1920, 1080, <<50, 1>>) :
        sampling \in {"RGBA", "RGB", "YCbCr-4:4:4", "YCbCr-4:2:2", "YCbCr-4:2:0", "YCbCr-4:1:1", "CLYCbCr-4:4:4",
                      "CLYCbCr-4:2:2", "CLYCbCr-4:2:0", "ICtCp-4:4:4", "ICtCp-4:2:2", "ICtCp-4:2:0", "XYZ",
                      "KEY", "UNSPECIFIED"}} \cup
    {Video("raw", "YCbCr-4:2:2", 1365, 1080, <<50, 1>>),
     [Raw EXCEPT !.flow_rate = none, !.source_rate = <<30000, 1001>>, !.interlace_mode = "interlaced_tff"],
     [Raw EXCEPT !.interlace_mode = "interlaced_psf", !.transfer_characteristic = "", !.colorspace = "ALPHA"],
     [Raw EXCEPT !.interlace_mode = "", !.sender_type = "2110TPW", !.transfer_characteristic = "ST2115LOGS3"],
     [Raw EXCEPT !.interlace_mode = "interlaced_bff", !.tp = "2110TPNL", !.sender_type = "2110TPW",
                 !.payload_type = 110, !.framerate = <<25, 1>>]} \cup
    {Video("jxsv", "YCbCr-4:2:2", 3840, 2160, <<60, 1>>), Video("jxsv", "RGB", 1280, 720, <<50, 1>>),
     [Jxsv EXCEPT !.packet_transmission_mode = "slice_sequential", !.profile = "", !.transfer_characteristic = "",
                  !.interlace_mode = "interlaced_tff"],
     [Jxsv EXCEPT !.packet_transmission_mode = "slice_out_of_order", !.sublevel = ""]}

OtherFormats ==
    {Audio(channels, 24) : channels \in {Surround, <<"L", "R", "M1">>, <<"M1", "M2", "Lt", "Rt">>,
                                         Surround \o <<"L", "R">>, <<"C", "L", "R", "LFE">>, <<"L", "R", "C">>}} \cup
    {[Audio(<<"L", "R">>, 16) EXCEPT !.sample_rate = <<96001, 2>>, !.packet_time = <<1, 8>>,
                                     !.max_packet_time = <<1, 4>>],
     AncData(none), [AncData(<<50, 1>>) EXCEPT !.did_sdids = <<>>, !.vpid_code = 132, !.tm = "CTM"],
     [encoding |-> "SMPTE2022-6"] @@ Sending, [encoding |-> "h264"] @@ Sending}

\* Legs: separate destinations, sources and both; unicast; IPv6; without source filters; with RTCP
Redundant ==
    {TwoLegs(Raw, SdpLeg(1, Group(1), 30), SdpLeg(2, Group(2), 40)),
     TwoLegs(Raw, SdpLeg(1, Group(1), 30), SdpLeg(2, Group(1), 30)),
     TwoLegs(Raw, SdpLeg(1, Host(8), 30), SdpLeg(2, Host(9), 30)),
     [TwoLegs(Raw, SdpLeg(1, Group(1), 30), SdpLeg(2, Group(2), 40)) EXCEPT !.source_filters = FALSE],
     [TwoLegs(Raw, SdpLeg(1, Group(1), 30), SdpLeg(2, Group(2), 40)) EXCEPT !.media_stream_ids = <<7>>],
     [TwoLegs(Raw, SdpLeg(1, Group(1), 30), SdpLeg(2, Group(2), 40)) EXCEPT !.media_stream_ids = <<7, 8, 9>>],
     TwoLegs(Raw, WithRtcp(SdpLeg(1, Group(1), 30), none), WithRtcp(SdpLeg(2, Group(2), 40), Group(3))),
     [TwoLegs(Raw, SdpLeg(1, Group(1), 30), SdpLeg(1, Group(1), 30)) EXCEPT !.temporal = Temporal2],
     [TwoLegs(Raw, SdpLeg(1, Group(1), 30), SdpLeg(1, Group(1), 30)) EXCEPT !.temporal = Temporal2, !.source_filters = FALSE],
     [TwoLegs(Raw, SdpLeg(1, Group(1), 30), SdpLeg(2, Group(1), 30)) EXCEPT !.temporal = Temporal2],
     [TwoLegs(Raw, SdpLeg(1, Group(1), 30), SdpLeg(1, Group(1), 30))
        EXCEPT !.temporal = [Temporal2 EXCEPT !.mid = ""]],
     [Raw EXCEPT !.temporal = Temporal2],
     [Raw EXCEPT !.legs = <<WithRtcp(SdpLeg(1, Host(9), 30), none)>>],
     [Raw EXCEPT !.legs = <<SdpLeg(1, Group6, 30)>>, !.source_filters = FALSE]}

\* Clocks that cannot be described, and those that can
Clocked ==
    {[Raw EXCEPT !.clock_name = none], [Raw EXCEPT !.clock_name = "clk1"],
     [Raw EXCEPT !.interface_bindings = <<>>], [Raw EXCEPT !.interface_bindings = <<"h9">>],
     [Raw EXCEPT !.clocks = ("clk0" :> Ptp2(TRUE))],
     [Raw EXCEPT !.clocks = ("clk0" :> Ptp2(FALSE)), !.ptp_domain = 127],
     [Raw EXCEPT !.clocks = ("clk0" :> Ptp2(FALSE)), !.ptp_domain = 128]}

Bounds == [enum |-> none, pattern |-> none, minimum |-> none, maximum |-> none]

OneOf(values) == [Bounds EXCEPT !.enum = values]
FromTo(least, most) == [Bounds EXCEPT !.minimum = least, !.maximum = most]

Receiving(format, types, sets) == [format |-> format, media_types |-> types, constraint_sets |-> sets]

When(enabled, constraints) == [enabled |-> enabled, constraints |-> constraints]

OfVideo(constraints) == Receiving("video", none, <<When(TRUE, constraints)>>)

SdpReceivers ==
    {Receiving(format, none, none) : format \in {"video", "audio", "data", "mux"}} \cup
    {Receiving("video", <<<<"video", "jxsv", 0>>>>, none), Receiving("video", <<<<"video", "raw", 0>>>>, none),
     Receiving("audio", <<<<"audio", "L", 16>>, <<"audio", "L", 20>>>>, none), Receiving("video", none, <<>>),
     Receiving("video", none, <<When(FALSE, <<>>), When(TRUE, [frame_width |-> OneOf({1280, 1920})])>>),
     Receiving("data", none, <<When(TRUE, [grain_rate |-> FromTo(<<60, 1>>, none)])>>),
     Receiving("audio", none, <<When(TRUE, [channel_count |-> FromTo(3, 6), sample_rate |-> OneOf({<<48000, 1>>})])>>),
     Receiving("audio", none, <<When(TRUE, [packet_time |-> FromTo(none, <<1, 8>>), frame_width |-> FromTo(1, none)]),
                                When(TRUE, [packet_time |-> FromTo(<<1, 4>>, none)])>>),
     OfVideo([grain_rate |-> OneOf({<<25, 1>>, <<30000, 1001>>}), channel_count |-> FromTo(1, none)]),
     OfVideo([grain_rate |-> FromTo(<<30000, 1001>>, <<50, 1>>)]),
     OfVideo([interlace_mode |-> OneOf({"interlaced_bff"})]), OfVideo([interlace_mode |-> OneOf({"progressive"})]),
     OfVideo([interlace_mode |-> [Bounds EXCEPT !.pattern = {"interlaced_psf", "interlaced_tff"}]]),
     OfVideo([transfer_characteristic |-> OneOf({"SDR"}), component_depth |-> FromTo(10, 10)]),
     OfVideo([color_sampling |-> OneOf({"YCbCr-4:2:2", "RGB"}), colorspace |-> OneOf({"BT709"})]),
     OfVideo([packet_transmission_mode |-> OneOf({"slice_sequential", "slice_out_of_order"})]),
     OfVideo([level |-> OneOf({"1k-1", "4k-1"})]), OfVideo([level |-> OneOf({"2k-1"})])}

Sessions == INSTANCE SessionDescription WITH
              Streams <- Pictures \cup OtherFormats \cup Redundant \cup Clocked,
              Receivers <- SdpReceivers, None <- none,
              Styles <- {"session", "last", "case", "sources", "fec", "clocks", "rtpmap", "fmtp", "version", "empty"},
              stream <- v1, described <- v2, document <- v3, parsed <- v4, verdict <- v5

===============================================================================
