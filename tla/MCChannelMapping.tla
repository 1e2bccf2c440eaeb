-------------------------- MODULE MCChannelMapping --------------------------
(***************************************************************************)
(* Two outputs of two channels.  The channels of input in1 come in blocks  *)
(* of two that can be reordered, those of in2 one by one and in order.     *)
(***************************************************************************)
EXTENDS ChannelMapping

CONSTANTS o1, o2, in1, in2, unrouted

MCOutput == {o1, o2}

MCInput == {in1, in2}

MCChannels == [io \in MCOutput \cup MCInput |-> 2]

MCRoutable == [o \in MCOutput |-> MCInput \cup {unrouted}]

MCBlockSize == [x \in MCInput |-> IF x = in1 THEN 2 ELSE 1]

MCReordering == [x \in MCInput |-> x = in1]

\* The first output is not routed, the second one to a block of in1.
MCInitialMap == [o \in MCOutput |-> [c \in 0..1 |-> IF o = o1 THEN unrouted ELSE <<in1, c>>]]

Both(a, b) == 0 :> a @@ 1 :> b

One(o, patch) == <<[output |-> o, patch |-> patch]>>

\* a block, its removal, channels of in2 that break a block unless the outputs
\* are changed first, and changes of both outputs
Actions ==
    {One(o1, Both(<<in1, 1>>, <<in1, 0>>)),
     One(o1, 0 :> <<in2, 0>>),
     One(o1, 1 :> <<in2, 0>>),
     One(o1, Both(unrouted, unrouted)) \o One(o2, Both(unrouted, unrouted)),
     One(o2, Both(<<in2, 0>>, <<in2, 1>>)) \o One(o1, Both(<<in1, 0>>, <<in1, 1>>))}

MCBodies == [mode : Modes, action : Actions]

\* The same with four channels each: blocks of two of in1 that can be reordered
\* and of in2 that cannot
WideChannels == [io \in MCOutput \cup MCInput |-> 4]

Wide == INSTANCE ChannelMapping WITH
            Channels  <- WideChannels,
            BlockSize <- [x \in MCInput |-> 2]

\* validate_input_caps accepts no map that violates the constraints.
ASSUME InputCapsSound ==
    /\ \A o \in MCOutput : \A map \in [0..1 -> (MCInput \X (0..1)) \cup {unrouted}] :
        InputCaps(o, map) => MeetsConstraints(o, map)
    /\ \A map \in [0..3 -> (MCInput \X (0..3)) \cup {unrouted}] :
        Wide!InputCaps(o1, map) => Wide!MeetsConstraints(o1, map)

=============================================================================
