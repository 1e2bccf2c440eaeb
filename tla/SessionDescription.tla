-------------------------- MODULE SessionDescription --------------------------
(***************************************************************************)
(* Session descriptions (nmos/sdp_utils.cpp, video_jxsv.cpp): a sender     *)
(* describes its stream from its resources and transport parameters;       *)
(* another node may write the same session in another way; a receiver      *)
(* parses the description into parameters and legs, and judges the         *)
(* parameters by its capabilities (nmos/capabilities.cpp).                 *)
(*                                                                         *)
(* An address is <<type, is it multicast, number>>; a rational is          *)
(* <<numerator, denominator>>, reduced.  Text is modelled where it is      *)
(* converted: letter case, optional parts and parameters left out.  SSRC   *)
(* ids and delays fit 32 bits.                                             *)
(***************************************************************************)
EXTENDS Integers, Sequences, FiniteSets, SequencesExt, TLC

CONSTANTS
    Streams,        \* senders: their resources and active transport parameters
    Receivers,      \* receivers: format and capabilities
    Styles,         \* how another node may write a session
    None            \* null

VARIABLES
    stream,         \* the sender
    described,      \* its parameters, or None
    document,       \* its session description, or None
    parsed,         \* the parameters and legs a receiver got from it, or None
    verdict         \* why the stream is refused, and by which receiver, or None

vars == <<stream, described, document, parsed, verdict>>

Zero == <<0, 1>>

-----------------------------------------------------------------------------
(* Reference clocks *)

Upper(address) == [address EXCEPT !.upper = TRUE]

\* ts_refclk_t: a server of None stands for a traceable one
Ptp(version, server) ==
    [clock_source |-> "ptp", ptp_version |-> version, ptp_server |-> server, mac_address |-> None]
Traceable      == Ptp("IEEE1588-2008", None)
LocalMac(mac)  == [clock_source |-> "localmac", ptp_version |-> "", ptp_server |-> None, mac_address |-> mac]
NoRefclk       == [clock_source |-> "", ptp_version |-> "", ptp_server |-> None, mac_address |-> None]

\* make_ts_refclk, what it throws
RefclkRefusal(s) ==
    IF s.clock_name = None THEN "no source clock"
    ELSE IF s.clock_name \notin DOMAIN s.clocks THEN "source clock not found"
    ELSE IF s.interface_bindings = <<>> THEN "no sender interface_bindings"
    ELSE LET clock == s.clocks[s.clock_name]
         IN CASE clock.ref_type = "ptp" ->
                   IF ~clock.traceable /\ s.ptp_domain # None /\ s.ptp_domain \notin 0..127
                   THEN "PTP domain out of range" ELSE ""
              [] clock.ref_type = "internal" ->
                   IF \A name \in ToSet(s.interface_bindings) : name \in DOMAIN s.interfaces
                   THEN "" ELSE "sender interface not found"
              [] OTHER -> "unexpected clock ref_type"

\* and what it returns: the reference clock of each leg
MakeRefclk(s) ==
    LET clock == s.clocks[s.clock_name]
        Of(name) == IF clock.ref_type = "internal" THEN LocalMac(Upper(s.interfaces[name]))
                    ELSE IF clock.traceable THEN Ptp(clock.ptp_version, None)
                    ELSE Ptp(clock.ptp_version, <<Upper(clock.gmid), s.ptp_domain>>)
    IN [leg \in DOMAIN s.interface_bindings |-> Of(s.interface_bindings[leg])]

-----------------------------------------------------------------------------
(* Components and sampling *)

Whole(names) == [i \in DOMAIN names |-> <<names[i], 1, 1>>]
Third(names, w, h) == <<<<names[1], 1, 1>>, <<names[2], w, h>>, <<names[3], w, h>>>>

YCbCr   == <<"Y", "Cb", "Cr">>
CLYCbCr == <<"Yc", "Cbc", "Crc">>
ICtCp   == <<"I", "Ct", "Cp">>

\* of each sampling, its components and how far apart their samples are
Samplers ==
       "RGBA" :> Whole(<<"R", "G", "B", "A">>)
    @@ "RGB" :> Whole(<<"R", "G", "B">>)
    @@ "YCbCr-4:4:4" :> Whole(YCbCr)
    @@ "YCbCr-4:2:2" :> Third(YCbCr, 2, 1)
    @@ "YCbCr-4:2:0" :> Third(YCbCr, 2, 2)
    @@ "YCbCr-4:1:1" :> Third(YCbCr, 4, 1)
    @@ "CLYCbCr-4:4:4" :> Whole(CLYCbCr)
    @@ "CLYCbCr-4:2:2" :> Third(CLYCbCr, 2, 1)
    @@ "CLYCbCr-4:2:0" :> Third(CLYCbCr, 2, 2)
    @@ "ICtCp-4:4:4" :> Whole(ICtCp)
    @@ "ICtCp-4:2:2" :> Third(ICtCp, 2, 1)
    @@ "ICtCp-4:2:0" :> Third(ICtCp, 2, 2)
    @@ "XYZ" :> Whole(<<"X", "Y", "Z">>)
    @@ "KEY" :> Whole(<<"Key">>)
    @@ "UNSPECIFIED" :> <<>>

MakeComponents(sampling, width, height, depth) ==
    [i \in DOMAIN Samplers[sampling] |->
       LET sampler == Samplers[sampling][i]
       IN [name |-> sampler[1], width |-> width \div sampler[2], height |-> height \div sampler[3],
           bit_depth |-> depth]]

\* make_sampling: the samplings that the components may be
SamplingsOf(components) ==
    LET of     == ToSet(components)
        across == Max({0} \union {c.width : c \in of})
        down   == Max({0} \union {c.height : c \in of})
    IN IF \E c \in of : across % c.width # 0 \/ down % c.height # 0 THEN {}
       ELSE {s \in DOMAIN Samplers :
               ToSet(Samplers[s]) = {<<c.name, across \div c.width, down \div c.height>> : c \in of}}

-----------------------------------------------------------------------------
(* Channels *)

\* channel_groups, from the largest to the smallest
ChannelGroups ==
    <<<<"71", <<"L", "R", "C", "LFE", "Lss", "Rss", "Lrs", "Rrs">>>>,
      <<"51", <<"L", "R", "C", "LFE", "Ls", "Rs">>>>,
      <<"LtRt", <<"Lt", "Rt">>>>, <<"ST", <<"L", "R">>>>,
      <<"DM", <<"M1", "M2">>>>, <<"M", <<"M1">>>>>>

\* Groups that the channels start with, in their order
Starting(channels) == SelectSeq(ChannelGroups, LAMBDA group : IsPrefix(group[2], channels))

Undefined(n) == IF n = 0 THEN <<>> ELSE <<<<"U", n>>>>

RECURSIVE GroupsFrom(_, _)
GroupsFrom(channels, undefined) ==
    IF channels = <<>> THEN Undefined(undefined)
    ELSE LET starting == Starting(channels)
         IN IF starting = <<>> THEN GroupsFrom(Tail(channels), undefined + 1)
            ELSE Undefined(undefined) \o <<<<"G", starting[1][1]>>>>
                   \o GroupsFrom(SubSeq(channels, Len(starting[1][2]) + 1, Len(channels)), 0)

\* make_channel_group_symbols, make_fmtp_channel_order
ChannelOrder(channels) == GroupsFrom(channels, 0)

\* parse_fmtp_channel_order: an undefined group makes all of them unknown
ChannelsOf(order) ==
    LET Of(symbol) == SelectSeq(ChannelGroups, LAMBDA group : symbol = <<"G", group[1]>>)
    IN IF \E i \in DOMAIN order : Of(order[i]) = <<>> THEN <<>>
       ELSE FlattenSeq([i \in DOMAIN order |-> Of(order[i])[1][2]])

-----------------------------------------------------------------------------
(* JPEG XS *)

\* get_level: of each level, the largest width and height, and pixels of a frame and
\* of a second, by 1024
Levels ==
    <<<<"1k-1", 1280, 5120, 2560, 81600>>,       <<"2k-1", 2048, 8192, 4096, 130560>>,
      <<"4k-1", 4096, 16384, 8704, 261120>>, <<"4k-2", 4096, 16384, 16384, 522240>>,
      <<"4k-3", 4096, 16384, 16384, 1044480>>,   <<"8k-1", 8192, 32768, 34816, 1044480>>,
      <<"8k-2", 8192, 32768, 65536, 2088960>>,   <<"8k-3", 8192, 32768, 65536, 4177920>>,
      <<"10k-1", 10240, 40960, 102400, 3264000>>>>

\* rounded
PixelRate(rate, width, height) == (2 * width * height * rate[1] + rate[2]) \div (2 * rate[2])

Within(level, rate, width, height) ==
    /\ width <= level[2] /\ height <= level[3]
    /\ width * height <= 1024 * level[4]
    /\ (PixelRate(rate, width, height) + 1023) \div 1024 <= level[5]

GetLevel(rate, width, height) ==
    LET fits == SelectSeq(Levels, LAMBDA level : Within(level, rate, width, height))
    IN IF fits = <<>> THEN "" ELSE fits[1][1]

\* get_video_jxsv_bit_rate, in kilobits per second; of a whole number of pixels
BitRate(rate, width, height, bits_per_pixel) ==
    (PixelRate(rate, width, height) * bits_per_pixel + 500) \div 1000

\* make_packet_transmission_mode and parse_packet_transmission_mode
PacketModes ==
    ("codestream" :> <<0, 1>>) @@ ("slice_sequential" :> <<1, 1>>) @@ ("slice_out_of_order" :> <<1, 0>>)

\* The example node's bit rate of a stream with two bits a pixel: more by 5 %, and in whole
\* megabits a second
TransportBitRate(rate, width, height) ==
    1000 * ((105 * BitRate(rate, width, height, 2) + 50000) \div 100000)

\* What the flow and sender of a stream have besides what they are made with
Resources(s) ==
    LET flow == [s EXCEPT !.components = IF s.encoding \in {"raw", "jxsv"}
                                         THEN MakeComponents(s.sampling, s.width, s.height, s.bit_depth)
                                         ELSE <<>>]
    IN IF s.encoding # "jxsv" THEN flow
       ELSE [flow EXCEPT !.level = GetLevel(s.flow_rate, s.width, s.height),
                         !.bit_rate = TransportBitRate(s.flow_rate, s.width, s.height),
                         !.sender_type = "2110TPN"]

-----------------------------------------------------------------------------
(* Format-specific parameters *)

\* The fmtp parameters of an encoding, in the order they are written
FieldsOf ==
       "raw" :> <<"width", "height", "exactframerate", "interlace", "segmented", "sampling", "depth",
                  "colorimetry", "TCS", "PM", "SSN", "TP", "RANGE", "PAR", "TROFF", "CMAX", "MAXUDP",
                  "TSMODE", "TSDELAY">>
    @@ "jxsv" :> <<"packetmode", "transmode", "profile", "level", "sublevel", "depth", "width", "height",
                   "exactframerate", "interlace", "segmented", "sampling", "colorimetry", "TCS", "RANGE",
                   "SSN", "TP", "TROFF", "CMAX", "MAXUDP", "TSMODE", "TSDELAY">>
    @@ "L" :> <<"channel-order", "TSMODE", "TSDELAY">>
    @@ "smpte291" :> <<"VPID_Code", "exactframerate", "TM", "SSN", "TROFF", "TSMODE", "TSDELAY">>
    @@ "SMPTE2022-6" :> <<"TP", "TROFF">>

\* What a parameter is when it is left out
Absent(field) ==
    CASE field \in {"exactframerate", "PAR"} -> Zero
      [] field \in {"interlace", "segmented"} -> FALSE
      [] field \in {"depth", "width", "height", "CMAX", "MAXUDP", "VPID_Code", "packetmode"} -> 0
      [] field \in {"TROFF", "TSDELAY"} -> None
      [] field = "transmode" -> 1
      [] field = "channel-order" -> <<>>
      [] OTHER -> ""

Always(encoding) ==
    CASE encoding = "raw"  -> {"width", "height", "exactframerate", "sampling", "depth", "colorimetry"}
      [] encoding = "jxsv" -> {"packetmode"}
      [] OTHER -> {}

\* Those whose absence is refused
Required(encoding) ==
    CASE encoding = "raw"  -> Always("raw") \union {"PM", "SSN"}
      [] encoding = "jxsv" -> {"packetmode"}
      [] OTHER -> {}

NoFields(encoding) == [field \in ToSet(FieldsOf[encoding]) |-> Absent(field)]

GrainRate(s) == IF s.flow_rate # None THEN s.flow_rate ELSE s.source_rate

\* The sender's type, unless it is overridden
TypeParameter(s, default) ==
    IF s.tp # None THEN s.tp ELSE IF s.sender_type # None THEN s.sender_type ELSE default

\* What video/raw and video/jxsv have in common
Picture(s) ==
    [sampling |-> CHOOSE sampling \in SamplingsOf(s.components) : TRUE,
     depth |-> s.components[1].bit_depth, width |-> s.width, height |-> s.height,
     exactframerate |-> GrainRate(s),
     interlace |-> s.interlace_mode \notin {"", "progressive"},
     segmented |-> s.interlace_mode = "interlaced_psf",
     TCS |-> s.transfer_characteristic, colorimetry |-> s.colorspace,
     TP |-> TypeParameter(s, "2110TPN")]

MakeRaw(s) ==
    [PM |-> "2110GPM",
     SSN |-> IF s.colorspace = "ALPHA" \/ s.transfer_characteristic = "ST2115LOGS3"
             THEN "ST2110-20:2022" ELSE "ST2110-20:2017"] @@ Picture(s) @@ NoFields("raw")

MakeJxsv(s) ==
    [packetmode |-> PacketModes[s.packet_transmission_mode][1],
     transmode |-> PacketModes[s.packet_transmission_mode][2],
     profile |-> s.profile, level |-> s.level, sublevel |-> s.sublevel,
     SSN |-> "ST2110-22:2022", bit_rate |-> s.bit_rate] @@ Picture(s) @@ NoFields("jxsv")

\* The sample rate is rounded.
MakeAudio(s) ==
    [channel_count |-> Len(s.channels), bit_depth |-> s.bit_depth,
     sample_rate |-> (2 * s.sample_rate[1] + s.sample_rate[2]) \div (2 * s.sample_rate[2]),
     packet_time |-> IF s.packet_time # None THEN s.packet_time ELSE <<1, 1>>]
      @@ ("channel-order" :> ChannelOrder(s.channels)) @@ NoFields("L")

MakeData(s) ==
    [did_sdids |-> s.did_sdids,
     VPID_Code |-> IF s.vpid_code # None THEN s.vpid_code ELSE 0,
     exactframerate |-> IF GrainRate(s) # None THEN GrainRate(s) ELSE Zero,
     TM |-> s.tm,
     SSN |-> IF s.tm = "" THEN "ST2110-40:2018" ELSE "ST2110-40:2023"] @@ NoFields("smpte291")

MakeMux(s) == [TP |-> TypeParameter(s, "2110TPNL")] @@ NoFields("SMPTE2022-6")

\* What making them throws
FormatRefusal(s) ==
    CASE s.encoding \in {"raw", "jxsv"} ->
           IF SamplingsOf(s.components) = {} THEN "unsupported components"
           ELSE IF s.components = <<>> THEN "no components" ELSE ""
      [] s.encoding \in {"L", "smpte291", "SMPTE2022-6"} -> ""
      [] OTHER -> "unsupported media format"

MakeParameters(s) ==
    CASE s.encoding = "raw" -> MakeRaw(s)
      [] s.encoding = "jxsv" -> MakeJxsv(s)
      [] s.encoding = "L" -> MakeAudio(s)
      [] s.encoding = "smpte291" -> MakeData(s)
      [] s.encoding = "SMPTE2022-6" -> MakeMux(s)

-----------------------------------------------------------------------------
(* Session description parameters *)

\* make_exactframerate and parse_exactframerate; a pixel aspect ratio is always a pair
RateText(rate) == IF rate[2] # 1 THEN rate ELSE <<rate[1]>>
ParseRate(text) == IF Len(text) = 2 THEN text ELSE <<text[1], 1>>

Entry(field, value) == [name |-> field, exact |-> TRUE, value |-> value]

FieldText(field, value) ==
    Entry(field, IF field = "exactframerate" THEN RateText(value)
                 ELSE IF field \in {"interlace", "segmented"} THEN "" ELSE value)

\* make_..._sdp_parameters: the parameters that are there
MakeFmtp(encoding, params) ==
    LET written == SelectSeq(FieldsOf[encoding],
                             LAMBDA field : field \in Always(encoding) \/ params[field] # Absent(field))
    IN (IF encoding # "smpte291" THEN <<>>
        ELSE [i \in DOMAIN params.did_sdids |-> Entry("DID_SDID", params.did_sdids[i])])
         \o [i \in DOMAIN written |-> FieldText(written[i], params[written[i]])]

PayloadType(s) ==
    IF s.payload_type # None THEN s.payload_type
    ELSE CASE s.encoding \in {"raw", "jxsv"} -> 96
           [] s.encoding = "L" -> 97
           [] s.encoding = "SMPTE2022-6" -> 98
           [] s.encoding = "smpte291" -> 100

\* The encoding is written as its name, which is that of audio with its depth.
MakeRtpmap(s, params) ==
    [payload_type |-> PayloadType(s), encoding |-> s.encoding, exact |-> TRUE,
     depth |-> IF s.encoding = "L" THEN params.bit_depth ELSE 0,
     clock_rate |-> CASE s.encoding = "L" -> params.sample_rate
                      [] s.encoding = "SMPTE2022-6" -> 27000000
                      [] OTHER -> 90000,
     parameters |-> IF s.encoding = "L" THEN params.channel_count ELSE 0]

\* make_media_stream_ids
MediaStreamIds(s) ==
    IF s.media_stream_ids # <<>> THEN s.media_stream_ids
    ELSE [leg \in DOMAIN s.interface_bindings |-> leg - 1]

\* sdp_parameters, and what an application adds to it
MakeSdpParameters(s, params) ==
    LET mids == MediaStreamIds(s)
    IN [session_name |-> s.label, ttl |-> 32, timing |-> <<0, 0>>,
        group |-> [semantics |-> IF mids # <<>> THEN "DUP" ELSE "", mids |-> mids],
        temporal |-> s.temporal,
        media_type |-> IF s.encoding = "L" THEN "audio" ELSE "video", protocol |-> "RTP/AVP",
        bandwidth |-> IF s.encoding = "jxsv" /\ s.bit_rate # 0 THEN <<"AS", s.bit_rate>> ELSE <<"", 0>>,
        packet_time |-> IF s.encoding = "L" THEN params.packet_time ELSE Zero,
        max_packet_time |-> s.max_packet_time, framerate |-> s.framerate,
        rtpmap |-> MakeRtpmap(s, params), fmtp |-> MakeFmtp(s.encoding, params),
        ts_refclk |-> MakeRefclk(s), mediaclk |-> <<"direct", "0">>]

Describe ==
    /\ described = None /\ verdict = None
    /\ LET refusal == IF FormatRefusal(stream) # "" THEN FormatRefusal(stream) ELSE RefclkRefusal(stream)
       IN IF refusal # "" THEN verdict' = [by |-> None, refusal |-> refusal] /\ UNCHANGED described
          ELSE /\ described' = LET params == MakeParameters(stream)
                               IN [params |-> params, sdp |-> MakeSdpParameters(stream, params)]
               /\ UNCHANGED verdict
    /\ UNCHANGED <<stream, document, parsed>>

-----------------------------------------------------------------------------
(* Writing *)

\* get_origin_address: a receiver's has an interface
OriginAddress(legs) == IF legs[1].interface_ip # None THEN legs[1].interface_ip ELSE legs[1].source_ip

\* get_connection_address
ConnectionAddress(leg) ==
    IF leg.multicast_ip # None THEN leg.multicast_ip
    ELSE IF leg.interface_ip # None THEN leg.interface_ip
    ELSE leg.destination_ip

\* Only an IPv4 multicast address has its time to live.
ConnectionData(sdp, leg) ==
    LET address == ConnectionAddress(leg)
    IN [type |-> address[1], base |-> address,
        rest |-> IF address[1] = "IP4" /\ address[2] THEN <<sdp.ttl>> ELSE <<>>]

\* parse_connection_address: its time to live
Ttl(connection) == IF connection.type = "IP4" /\ connection.rest # <<>> THEN connection.rest[1] ELSE 0

WriteRefusal(sdp, legs) ==
    IF sdp.temporal.sources # <<>> THEN
        IF Len(legs) # 2 \/ Len(sdp.temporal.sources) # 2 THEN "temporal redundancy requires two legs"
        ELSE IF sdp.temporal.mid = "" THEN "temporal redundancy requires a media stream id"
        ELSE IF legs[1] # legs[2] THEN "temporal redundancy requires identical legs" ELSE ""
    ELSE IF Len(legs) > 1 /\ Len(legs) > Len(sdp.group.mids) THEN "not enough media stream ids" ELSE ""

\* An attribute that is left out is None.
Unless(absent, value) == IF value = absent THEN None ELSE value

\* Where a leg is sent, and by which clock
LegAttributes(sdp, leg, refclk, source_filters) ==
    [connections |-> <<ConnectionData(sdp, leg)>>,
     ts_refclk |-> Unless(NoRefclk, refclk), mediaclk |-> Unless(<<"", "">>, sdp.mediaclk),
     source_filter |-> IF leg.source_ip = None \/ source_filters = FALSE THEN None
                       ELSE [destination |-> ConnectionAddress(leg), sources |-> <<leg.source_ip>>],
     rtcp |-> IF leg.rtcp_enabled
              THEN [port |-> leg.rtcp_destination_port, address |-> leg.rtcp_destination_ip] ELSE None]

FormatAttributes(sdp) ==
    [ptime |-> Unless(Zero, sdp.packet_time), maxptime |-> Unless(Zero, sdp.max_packet_time),
     rtpmap |-> sdp.rtpmap, framerate |-> Unless(Zero, sdp.framerate), fmtp |-> Unless(<<>>, sdp.fmtp)]

\* Both sources of temporal redundancy, or which of several legs this is
DuplicationAttributes(sdp, mid) ==
    LET sources == sdp.temporal.sources
    IN IF sources = <<>> THEN [ssrcs |-> <<>>, ssrc_group |-> None, duplication_delay |-> None, mid |-> mid]
       ELSE [ssrcs |-> sources,
             ssrc_group |-> [semantics |-> "DUP", ids |-> [i \in 1..2 |-> sources[i].id]],
             duplication_delay |-> sdp.temporal.delay, mid |-> sdp.temporal.mid]

\* The media description of a leg
MediaDescription(sdp, legs, index, source_filters) ==
    [media_type |-> sdp.media_type, port |-> legs[index].destination_port, protocol |-> sdp.protocol,
     bandwidths |-> IF sdp.bandwidth[1] # "" THEN <<sdp.bandwidth>> ELSE <<>>]
      @@ LegAttributes(sdp, legs[index],
                       IF Len(sdp.ts_refclk) >= index THEN sdp.ts_refclk[index] ELSE Traceable, source_filters)
      @@ FormatAttributes(sdp)
      @@ DuplicationAttributes(sdp, IF Len(legs) > 1 /\ sdp.temporal.sources = <<>>
                                    THEN sdp.group.mids[index] ELSE None)

\* make_session_description: temporal redundancy is one media description.
MakeDocument(sdp, legs, source_filters) ==
    LET count == IF sdp.temporal.sources # <<>> THEN 1 ELSE Len(legs)
    IN [style |-> "written", version |-> 0, origin |-> OriginAddress(legs),
        session_name |-> sdp.session_name, timings |-> <<sdp.timing>>,
        connection |-> None, ts_refclk |-> None, mediaclk |-> None,
        group |-> IF count > 1 THEN [semantics |-> sdp.group.semantics, mids |-> SubSeq(sdp.group.mids, 1, count)]
                  ELSE None,
        media |-> [index \in 1..count |-> MediaDescription(sdp, legs, index, source_filters)]]

Write ==
    /\ described # None /\ document = None /\ verdict = None
    /\ LET refusal == WriteRefusal(described.sdp, stream.legs)
       IN IF refusal # "" THEN verdict' = [by |-> None, refusal |-> refusal] /\ UNCHANGED document
          ELSE /\ document' = MakeDocument(described.sdp, stream.legs, stream.source_filters)
               /\ UNCHANGED verdict
    /\ UNCHANGED <<stream, described, parsed>>

-----------------------------------------------------------------------------
(* Another node writes the same session in another way: all that its media *)
(* have in common at the session level, or the connection of the last; in  *)
(* lower case; two legs that only differ in their source as one media with *)
(* two sources (RFC 7104); with media that is not RTP; without the clocks; *)
(* of another version.                                                     *)

Common(media, Field(_)) == \A i, j \in DOMAIN media : Field(media[i]) = Field(media[j])

AtSession(doc) ==
    LET media == doc.media
        c == Common(media, LAMBDA md : md.connections)
        t == Common(media, LAMBDA md : md.ts_refclk)
        m == Common(media, LAMBDA md : md.mediaclk)
    IN [doc EXCEPT !.connection = IF c THEN media[1].connections[1] ELSE None,
                   !.ts_refclk = IF t THEN media[1].ts_refclk ELSE None,
                   !.mediaclk = IF m THEN media[1].mediaclk ELSE None,
                   !.media = [i \in DOMAIN media |->
                                [media[i] EXCEPT !.connections = IF c THEN <<>> ELSE @,
                                                 !.ts_refclk = IF t THEN None ELSE @,
                                                 !.mediaclk = IF m THEN None ELSE @]]]

\* The connection of the last media at the session level only
LastAtSession(doc) ==
    LET last == Len(doc.media)
    IN [doc EXCEPT !.connection = doc.media[last].connections[1], !.media[last].connections = <<>>]

LowerCase(doc) ==
    [doc EXCEPT !.media =
       [i \in DOMAIN doc.media |->
          [doc.media[i] EXCEPT !.rtpmap.exact = FALSE,
             !.fmtp = IF @ = None THEN None ELSE [j \in DOMAIN @ |-> [@[j] EXCEPT !.exact = FALSE]]]]]

\* How a description may be written again
Rewritings(doc, style) ==
    LET media == doc.media
        same  == [md \in ToSet(media) |-> [md EXCEPT !.source_filter = None, !.mid = None]]
    IN CASE style = "session" -> {AtSession(doc)}
         [] style = "last"    -> {LastAtSession(doc)}
         [] style = "case"    -> {LowerCase(doc)}
         [] style = "sources" ->
              IF Len(media) = 2 /\ same[media[1]] = same[media[2]]
                 /\ \A md \in ToSet(media) : md.source_filter # None
              THEN {[doc EXCEPT !.group = None,
                       !.media = <<[media[1] EXCEPT !.mid = None,
                                      !.ssrc_group = [semantics |-> "DUP", ids |-> <<1, 2>>],
                                      !.source_filter.sources = @ \o media[2].source_filter.sources]>>]}
              ELSE {}
         [] style = "fec" ->
              {[doc EXCEPT !.media = Append(@, [media[1] EXCEPT !.protocol = "UDP/FEC", !.mid = None])]}
         [] style = "clocks" ->
              {[doc EXCEPT !.media = [i \in DOMAIN @ |-> [@[i] EXCEPT !.ts_refclk = None, !.mediaclk = None]]]}
         [] style = "rtpmap"  -> {[doc EXCEPT !.media[1].rtpmap = None]}
         [] style = "fmtp"    -> {[doc EXCEPT !.media[1].fmtp = None]}
         [] style = "version" -> {[doc EXCEPT !.version = 1]}
         [] style = "empty"   -> {[doc EXCEPT !.media = <<>>]}

Rewrite(style) ==
    /\ document # None /\ parsed = None /\ verdict = None
    /\ document.style = "written"
    /\ \E doc \in Rewritings(document, style) : document' = [doc EXCEPT !.style = style]
    /\ UNCHANGED <<stream, described, parsed, verdict>>

-----------------------------------------------------------------------------
(* Parsing: the legs *)

\* set_multicast_ip_interface_ip
Addressed(params, address) ==
    [params EXCEPT !.multicast_ip = IF address[2] THEN address ELSE None,
                   !.interface_ip = IF address[2] THEN "auto" ELSE address]

\* The leg that a media description describes
LegFrom(md, params) ==
    [destination_port |-> md.port, rtp_enabled |-> TRUE]
      @@ (IF md.rtcp = None THEN params
          ELSE [rtcp_enabled |-> TRUE, rtcp_destination_port |-> md.rtcp.port,
                rtcp_destination_ip |-> IF md.rtcp.address # None THEN md.rtcp.address
                                        ELSE IF params.multicast_ip # None THEN params.multicast_ip
                                        ELSE params.interface_ip] @@ params)

\* Look for the media description of a leg: so many source addresses on
RECURSIVE Seek(_, _, _)
Seek(media, source_address, params) ==
    IF media = <<>> THEN <<>>
    ELSE IF Head(media).protocol # "RTP/AVP" \/ Head(media).media_type \notin {"video", "audio"}
    THEN Seek(Tail(media), source_address, params)
    ELSE LET md      == Head(media)
             here    == IF md.connections = <<>> THEN params ELSE Addressed(params, md.connections[1].base)
             copies  == IF md.ssrc_group = None THEN 0 ELSE Len(md.ssrc_group.ids)
             sources == IF md.source_filter = None THEN <<>> ELSE md.source_filter.sources
             single  == Len(sources) = 1
         IN IF sources = <<>> THEN
                IF source_address = 0 \/ source_address < copies THEN <<LegFrom(md, here)>>
                ELSE Seek(Tail(media), source_address - 1, here)
            ELSE IF Len(sources) <= source_address /\ ~(single /\ source_address < copies)
            THEN Seek(Tail(media), source_address - Len(sources), here)
            ELSE <<LegFrom(md, [Addressed(here, md.source_filter.destination)
                                  EXCEPT !.source_ip = sources[IF single THEN 1 ELSE source_address + 1]])>>

\* get_session_description_transport_params
TransportParams(doc) ==
    LET unknown == [source_ip |-> None, multicast_ip |-> None, interface_ip |-> None]
        start   == IF doc.connection = None THEN unknown ELSE Addressed(unknown, doc.connection.base)
    IN Seek(doc.media, 0, start) \o Seek(doc.media, 1, start)

-----------------------------------------------------------------------------
(* Parsing: the parameters *)

ParseRefusal(doc) ==
    IF doc.version # 0 THEN "unsupported protocol version"
    ELSE IF doc.media = <<>> THEN "missing media descriptions"
    ELSE IF doc.media[1].rtpmap = None THEN "missing attribute: rtpmap"
    ELSE ""

\* Temporal redundancy: media of a single source with two synchronization sources
Temporal(doc) ==
    LET twice == SelectSeq(doc.media, LAMBDA md :
                   /\ md.ssrc_group # None /\ md.ssrc_group.semantics = "DUP" /\ Len(md.ssrc_group.ids) = 2
                   /\ md.source_filter = None \/ Len(md.source_filter.sources) = 1)
        Cname(md, id) == LET of == SelectSeq(md.ssrcs, LAMBDA s : s.id = id)
                         IN IF of = <<>> THEN "" ELSE of[1].cname
    IN IF twice = <<>> THEN [sources |-> <<>>, delay |-> None, mid |-> ""]
       ELSE LET md == twice[1]
            IN [sources |-> [i \in 1..2 |-> [id |-> md.ssrc_group.ids[i],
                                             cname |-> Cname(md, md.ssrc_group.ids[i])]],
                delay |-> md.duplication_delay, mid |-> IF md.mid = None THEN "" ELSE md.mid]

Default(absent, value) == IF value = None THEN absent ELSE value

\* get_session_description_sdp_parameters: of the session
SessionParameters(doc, connections) ==
    [session_name |-> doc.session_name,
     ttl |-> IF connections = <<>> THEN 0 ELSE Ttl(connections[1]),
     timing |-> IF doc.timings = <<>> THEN <<0, 0>> ELSE doc.timings[1],
     group |-> Default([semantics |-> "", mids |-> <<>>], doc.group),
     temporal |-> Temporal(doc),
     ts_refclk |-> [i \in DOMAIN doc.media |->
                      Default(Default(NoRefclk, doc.ts_refclk), doc.media[i].ts_refclk)]]

\* of the format, those of the first media
MediaParameters(doc, md) ==
    [media_type |-> md.media_type, protocol |-> md.protocol,
     bandwidth |-> IF md.bandwidths = <<>> THEN <<"", 0>> ELSE md.bandwidths[1],
     packet_time |-> Default(Zero, md.ptime), max_packet_time |-> Default(Zero, md.maxptime),
     framerate |-> Default(Zero, md.framerate), rtpmap |-> md.rtpmap, fmtp |-> Default(<<>>, md.fmtp),
     mediaclk |-> Default(Default(<<"", "">>, doc.mediaclk), md.mediaclk)]

SdpParameters(doc) ==
    LET md == doc.media[1]
    IN SessionParameters(doc, md.connections \o (IF doc.connection = None THEN <<>> ELSE <<doc.connection>>))
         @@ MediaParameters(doc, md)

Parse ==
    /\ document # None /\ parsed = None /\ verdict = None
    /\ LET refusal == ParseRefusal(document)
       IN IF refusal # "" THEN verdict' = [by |-> None, refusal |-> refusal] /\ UNCHANGED parsed
          ELSE /\ parsed' = [sdp |-> SdpParameters(document), legs |-> TransportParams(document)]
               /\ UNCHANGED verdict
    /\ UNCHANGED <<stream, described, document>>

\* find_fmtp: whatever the case of the name
Found(sdp, field) == SelectSeq(sdp.fmtp, LAMBDA entry : entry.name = field)

Missing(sdp) == {field \in Required(sdp.rtpmap.encoding) : Found(sdp, field) = <<>>}

FieldValue(field, text) ==
    CASE field = "exactframerate" -> ParseRate(text)
      [] field \in {"interlace", "segmented"} -> TRUE
      [] OTHER -> text

\* get_..._parameters; the DID and SDIDs are found by their name as it is registered
GetParameters(sdp) ==
    LET encoding == sdp.rtpmap.encoding
        dids == SelectSeq(sdp.fmtp, LAMBDA entry : entry.name = "DID_SDID" /\ entry.exact)
    IN [field \in ToSet(FieldsOf[encoding]) |->
          IF Found(sdp, field) = <<>> THEN Absent(field) ELSE FieldValue(field, Found(sdp, field)[1].value)]
       @@ CASE encoding = "L" ->
                 [channel_count |-> IF sdp.rtpmap.parameters = 0 THEN 1 ELSE sdp.rtpmap.parameters,
                  bit_depth |-> sdp.rtpmap.depth, sample_rate |-> sdp.rtpmap.clock_rate,
                  packet_time |-> sdp.packet_time]
            [] encoding = "smpte291" -> [did_sdids |-> [i \in DOMAIN dids |-> dids[i].value]]
            [] encoding = "jxsv" -> [bit_rate |-> IF sdp.bandwidth[1] = "AS" THEN sdp.bandwidth[2] ELSE 0]
            [] OTHER -> <<>>

-----------------------------------------------------------------------------
(* Capabilities *)

AtMost(x, y, rational) == IF rational THEN x[1] * y[2] <= y[1] * x[2] ELSE x <= y

Rational(name) == name \in {"grain_rate", "sample_rate", "packet_time", "max_packet_time"}

\* match_string_constraint, match_integer_constraint, match_number_constraint and
\* match_rational_constraint; a pattern is the set of what it matches
Matches(name, value, constraint) ==
    /\ constraint.enum # None => value \in constraint.enum
    /\ constraint.pattern # None => value \in constraint.pattern
    /\ constraint.minimum # None => AtMost(constraint.minimum, value, Rational(name))
    /\ constraint.maximum # None => AtMost(value, constraint.maximum, Rational(name))

\* get_media_type
MediaType(sdp) == <<sdp.media_type, sdp.rtpmap.encoding, sdp.rtpmap.depth>>

ParameterOf ==
       "frame_height" :> "height" @@ "frame_width" :> "width" @@ "color_sampling" :> "sampling"
    @@ "colorspace" :> "colorimetry" @@ "transfer_characteristic" :> "TCS" @@ "component_depth" :> "depth"
    @@ "st2110_21_sender_type" :> "TP" @@ "channel_count" :> "channel_count" @@ "sample_depth" :> "bit_depth"
    @@ "profile" :> "profile" @@ "level" :> "level" @@ "sublevel" :> "sublevel" @@ "bit_rate" :> "bit_rate"

General == {"media_type", "grain_rate", "frame_height", "frame_width", "color_sampling", "interlace_mode",
            "colorspace", "transfer_characteristic", "component_depth", "st2110_21_sender_type"}

\* format_constraints and jxsv_constraints: those that are known; others are ignored
Known(encoding) ==
    IF encoding = "jxsv"
    THEN General \union {"profile", "level", "sublevel", "packet_transmission_mode", "bit_rate"}
    ELSE General \union {"channel_count", "sample_rate", "sample_depth", "packet_time", "max_packet_time"}

\* What a constraint is matched against: any of these, and None is within any
\* constraint.  A parameter of another format is within none.
Tested(sdp, params, name) ==
    LET encoding == sdp.rtpmap.encoding
        Stated(value, absent) == IF value = absent THEN {None} ELSE {value}
    IN CASE name = "media_type" -> {MediaType(sdp)}
         [] name = "grain_rate" ->
              IF "exactframerate" \in DOMAIN params THEN Stated(params.exactframerate, Zero) ELSE {None}
         [] name = "interlace_mode" ->
              IF "interlace" \notin DOMAIN params THEN {}
              ELSE IF ~params.interlace THEN {"progressive"}
              ELSE IF params.segmented THEN {"interlaced_psf"} ELSE {"interlaced_tff", "interlaced_bff"}
         [] name = "sample_rate" -> IF encoding = "L" THEN {<<params.sample_rate, 1>>} ELSE {}
         [] name = "packet_time" -> Stated(sdp.packet_time, Zero)
         [] name = "max_packet_time" -> Stated(sdp.max_packet_time, Zero)
         [] name = "packet_transmission_mode" ->
              {mode \in DOMAIN PacketModes : PacketModes[mode] = <<params.packetmode, params.transmode>>}
         [] OTHER ->
              LET parameter == ParameterOf[name]
              IN IF parameter \notin DOMAIN params THEN {}
                 ELSE IF encoding = "raw" /\ parameter = "TCS" /\ params.TCS = "" THEN {"SDR"}
                 ELSE IF encoding = "jxsv" /\ parameter # "TP" THEN Stated(params[parameter], Absent(parameter))
                 ELSE {params[parameter]}

\* match_sdp_parameters_constraint_set
MatchesSet(sdp, params, set) ==
    /\ set.enabled
    /\ \A name \in DOMAIN set.constraints \intersect Known(sdp.rtpmap.encoding) :
         \E value \in Tested(sdp, params, name) :
           value = None \/ Matches(name, value, set.constraints[name])

FormatOf(encoding) ==
    CASE encoding \in {"raw", "jxsv"} -> "video" [] encoding = "L" -> "audio"
      [] encoding = "smpte291" -> "data" [] encoding = "SMPTE2022-6" -> "mux"

\* validate_sdp_parameters
JudgeRefusal(sdp, receiver) ==
    IF Missing(sdp) # {} THEN "missing format parameter"
    ELSE IF receiver.format # FormatOf(sdp.rtpmap.encoding) THEN "unexpected media type/encoding name"
    ELSE IF receiver.media_types # None /\ MediaType(sdp) \notin ToSet(receiver.media_types)
    THEN "unsupported encoding name"
    ELSE IF receiver.constraint_sets # None
            /\ ~\E set \in ToSet(receiver.constraint_sets) : MatchesSet(sdp, GetParameters(sdp), set)
    THEN "unsupported transport or format-specific parameters"
    ELSE ""

Judge(receiver) ==
    /\ parsed # None
    /\ verdict' = [by |-> receiver, refusal |-> JudgeRefusal(parsed.sdp, receiver)]
    /\ UNCHANGED <<stream, described, document, parsed>>

-----------------------------------------------------------------------------

Init ==
    /\ \E s \in Streams : stream = Resources(s)
    /\ described = None /\ document = None /\ parsed = None /\ verdict = None

Next ==
    \/ Describe
    \/ Write
    \/ \E style \in Styles : Rewrite(style)
    \/ Parse
    \/ \E receiver \in Receivers : Judge(receiver)

Spec == Init /\ [][Next]_vars

-----------------------------------------------------------------------------

\* The types of the variables.
TypeOK ==
    /\ \E s \in Streams : stream = Resources(s)
    /\ described = None \/ DOMAIN described = {"params", "sdp"}
    /\ document = None \/ document.style \in Styles \union {"written"}
    /\ parsed = None \/ Len(parsed.legs) \in 0..2
    /\ verdict = None \/ verdict.by \in Receivers \union {None}

\* Whatever way a session is written, the parameters of its format are those of the
\* stream: the sampling that was inferred from components, and every parameter that was
\* left out for its default.  In another case, the DID and SDIDs are not found.
FormatKept ==
    parsed # None /\ document.style # "fmtp" =>
      LET heard == GetParameters(parsed.sdp)
      IN /\ Missing(parsed.sdp) = {}
         /\ \A field \in DOMAIN described.params :
              \/ heard[field] = described.params[field]
              \/ field = "did_sdids" /\ document.style = "case"
         /\ stream.encoding \in {"raw", "jxsv"} => heard.sampling = stream.sampling

\* The channels of audio are those of the stream, unless some are in no group.
ChannelsKept ==
    parsed # None /\ stream.encoding = "L" /\ document.style # "fmtp" =>
      LET order == GetParameters(parsed.sdp)["channel-order"]
      IN ChannelsOf(order) = IF \E i \in DOMAIN order : order[i][1] = "U" THEN <<>> ELSE stream.channels

\* What a sender transmits is what a receiver is to listen to, leg by leg: with separate
\* sources, with separate destinations, and with both in one media description.  The
\* address of the session is no default for a leg after one with its own.
LegsHeard ==
    parsed # None =>
      /\ Len(parsed.legs) = Len(stream.legs)
      /\ \A i \in DOMAIN parsed.legs :
           LET sent  == [stream.legs[i] EXCEPT !.destination_ip =
                           IF document.style = "last" /\ ~stream.source_filters
                           THEN stream.legs[1].destination_ip ELSE @]
               heard == parsed.legs[i]
               group == IF sent.destination_ip[2] THEN sent.destination_ip ELSE None
           IN /\ heard.destination_port = sent.destination_port
              /\ heard.multicast_ip = group
              /\ group = None => heard.interface_ip = sent.destination_ip
              /\ heard.source_ip = IF stream.source_filters = FALSE THEN None ELSE sent.source_ip
              /\ ("rtcp_enabled" \in DOMAIN heard) = sent.rtcp_enabled
              /\ sent.rtcp_enabled =>
                   /\ heard.rtcp_destination_port = sent.rtcp_destination_port
                   /\ heard.rtcp_destination_ip = IF sent.rtcp_destination_ip # None THEN sent.rtcp_destination_ip
                                                  ELSE sent.destination_ip

ClocksKept ==
    LET clock  == stream.clocks[stream.clock_name]
        refclk == parsed.sdp.ts_refclk
    IN \A i \in DOMAIN refclk \intersect DOMAIN stream.interface_bindings :
         document.media[i].protocol = "RTP/AVP" =>
           IF clock.ref_type = "internal"
           THEN refclk[i] = LocalMac(Upper(stream.interfaces[stream.interface_bindings[i]]))
           ELSE /\ refclk[i].ptp_version = clock.ptp_version
                /\ refclk[i].ptp_server = IF clock.traceable THEN None
                                          ELSE <<Upper(clock.gmid), stream.ptp_domain>>

\* The rest of the session is the sender's, and each leg has the clock of its own interface.
SessionKept ==
    parsed # None =>
      LET sdp    == parsed.sdp
          legs   == Len(stream.legs)
          origin == described.sdp
      IN /\ \A field \in {"session_name", "timing", "media_type", "protocol", "bandwidth", "packet_time",
                          "max_packet_time", "framerate"} : sdp[field] = origin[field]
         /\ sdp.rtpmap.payload_type = origin.rtpmap.payload_type
         /\ document.style # "clocks" => sdp.mediaclk = origin.mediaclk /\ ClocksKept
         /\ sdp.ttl = IF stream.legs[1].destination_ip[2] /\ stream.legs[1].destination_ip[1] = "IP4"
                      THEN origin.ttl ELSE 0
         /\ document.style # "sources" =>
              /\ sdp.temporal = origin.temporal
              /\ sdp.group = IF legs = 2 /\ stream.temporal.sources = <<>>
                             THEN [semantics |-> "DUP", mids |-> SubSeq(origin.group.mids, 1, legs)]
                             ELSE [semantics |-> "", mids |-> <<>>]

\* What the resources of the sender say about a constraint: nothing of another format,
\* and None of what they leave open
Offer(name) ==
    LET encoding == stream.encoding
        video == encoding \in {"raw", "jxsv"}
        Only(when, value) == IF when THEN {value} ELSE {}
    IN CASE name = "media_type" -> {<<IF encoding = "L" THEN "audio" ELSE "video", encoding,
                                      IF encoding = "L" THEN stream.bit_depth ELSE 0>>}
         [] name = "grain_rate" -> {IF video \/ encoding = "smpte291" THEN GrainRate(stream) ELSE None}
         [] name = "frame_height" -> Only(video, stream.height)
         [] name = "frame_width" -> Only(video, stream.width)
         [] name = "color_sampling" -> Only(video, stream.sampling)
         [] name = "component_depth" -> IF video THEN {c.bit_depth : c \in ToSet(stream.components)} ELSE {}
         [] name = "colorspace" -> Only(video, stream.colorspace)
         [] name = "transfer_characteristic" ->
              Only(video, IF stream.transfer_characteristic # "" THEN stream.transfer_characteristic
                          ELSE IF encoding = "raw" THEN "SDR" ELSE None)
         [] name = "interlace_mode" -> Only(video, stream.interlace_mode)
         [] name = "channel_count" -> Only(encoding = "L", Len(stream.channels))
         [] name = "sample_rate" -> Only(encoding = "L", stream.sample_rate)
         [] name = "sample_depth" -> Only(encoding = "L", stream.bit_depth)
         [] name = "packet_time" -> {IF encoding # "L" THEN None
                                     ELSE IF stream.packet_time # None THEN stream.packet_time ELSE <<1, 1>>}
         [] name = "packet_transmission_mode" -> {stream.packet_transmission_mode}
         [] name = "level" -> {IF stream.level # "" THEN stream.level ELSE None}

\* The order of fields is not described: either will do.
Alike(name, value) ==
    IF name # "interlace_mode" THEN {value}
    ELSE IF value \in {"interlaced_tff", "interlaced_bff"} THEN {"interlaced_tff", "interlaced_bff"}
    ELSE IF value = "" THEN {"progressive"} ELSE {value}

Thousandths(name, n) == IF Rational(name) THEN (1000 * n[1]) \div n[2] ELSE n

Meets(name, value, constraint) ==
    /\ constraint.enum # None => value \in constraint.enum
    /\ constraint.pattern # None => value \in constraint.pattern
    /\ constraint.minimum # None => Thousandths(name, value) >= Thousandths(name, constraint.minimum)
    /\ constraint.maximum # None => Thousandths(name, value) <= Thousandths(name, constraint.maximum)

Suits(set) ==
    set.enabled /\ \A name \in DOMAIN set.constraints \intersect Known(stream.encoding) :
        \E offered \in Offer(name) : \E value \in Alike(name, offered) :
            value = None \/ Meets(name, value, set.constraints[name])

\* A receiver accepts the streams that the sender's own resources show to be within its
\* capabilities, and no other, whatever way they were described.
AcceptedIfSuited ==
    parsed # None /\ verdict # None /\ document.style # "fmtp" =>
      LET receiver == verdict.by
      IN (verdict.refusal = "") =
           (/\ receiver.format = FormatOf(stream.encoding)
            /\ receiver.media_types # None => \E type \in Offer("media_type") : type \in ToSet(receiver.media_types)
            /\ receiver.constraint_sets # None => \E set \in ToSet(receiver.constraint_sets) : Suits(set))
=============================================================================
