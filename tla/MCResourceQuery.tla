--------------------------- MODULE MCResourceQuery ---------------------------
(***************************************************************************)
(* A flow, its sender and a receiver of it, of three versions of the API;  *)
(* clients of every version; RQL queries with every operator, each also    *)
(* with one token missing, and everything of a few tokens.                 *)
(***************************************************************************)
EXTENDS Integers, Sequences, SequencesExt, TLC, MCSessionDescription

Null == <<"null">>
Bool(b) == <<"boolean", b>>
Num(n) == <<"number", n>>
Str(s) == <<"string", s>>
Arr(s) == <<"array", s>>
Obj(f) == <<"object", f>>

Component(name, depth) == Obj([name |-> Str(name), bit_depth |-> depth])

YCbCr == Arr(<<Component("Y", Num(10)), Component("Cb", Num(8))>>)

FlowData(label, components) ==
    Obj([id |-> Str("f"), version |-> Str("v2"), label |-> Str(label), parents |-> Arr(<<>>),
         components |-> components, grain_rate |-> Obj([numerator |-> Num(25)]), media_type |-> Str("raw")])

SenderData(flow, tagged) ==
    Obj([id |-> Str("s"), version |-> Str("v1"), label |-> Str("bar"), flow_id |-> flow, manifest_href |-> Null,
         tags |-> Obj([grp |-> Arr([n \in DOMAIN tagged |-> Str(tagged[n])])]),
         interface_bindings |-> Arr(<<Str("Y"), Null>>),
         subscription |-> Obj([active |-> Bool(TRUE), receiver_id |-> Null])])

\* Of two widths, or another one
Width(values) == Obj([frame_width |-> Obj([enum |-> Arr(values)])])

ReceiverData(from, active) ==
    Obj([id |-> Str("r"), version |-> Str("v1"), label |-> Str("foo"),
         caps |-> Obj([constraint_sets |-> Arr(<<Width(<<Num(8), Num(10)>>), Width(<<Num(25)>>)>>)]),
         subscription |-> Obj([active |-> Bool(active), sender_id |-> from])])

Registered(resource_type, minor, least, data) ==
    [type |-> resource_type, version |-> <<1, minor>>, downgrade |-> <<1, least>>, data |-> data]

World == [f |-> Registered("flow", 1, 0, FlowData("Foo", YCbCr)),
          s |-> Registered("sender", 2, 0, SenderData(Str("f"), <<"a", "b">>)),
          r |-> Registered("receiver", 3, 1, ReceiverData(Str("s"), TRUE))]

Becomes == [f |-> {FlowData("bar", YCbCr), FlowData("Foo", Arr(<<Component("Y", Null), Str("Y")>>))},
            s |-> {SenderData(Null, <<"b">>), SenderData(Str("q"), <<>>)},
            r |-> {ReceiverData(Null, FALSE)}]

-----------------------------------------------------------------------------
(* Texts *)

\* A call
C(name, args) ==
    LET preceded == [n \in DOMAIN args |-> IF n = 1 THEN args[n] ELSE <<",">> \o args[n]]
    IN  <<name, "(">> \o FlattenSeq(preceded) \o <<")">>

A(items) == Tail(C("", items))

\* A call with a property and a word
On(name, property, word) == C(name, <<<<property>>, <<word>>>>)

Of(name, property) == C(name, <<<<property>>>>)

\* A value of a type
As(named, value) == <<named, ":", value>>

Asked == {<<"label", <<"Foo">>>>, <<"label", <<"10">>>>, <<"missing", <<"Foo">>>>, <<"label.version", <<"v1">>>>,
          <<"components.bit_depth", <<"10">>>>, <<"components.name", <<"Y">>>>, <<"parents", <<"f">>>>,
          <<"caps.constraint_sets.frame_width.enum", <<"10">>>>, <<"subscription.active", <<"true">>>>,
          <<"interface_bindings", <<"Y">>>>, <<"manifest_href", <<"null">>>>, <<"version", As("version", "v1")>>,
          <<"grain_rate", As("rational", "25")>>, <<"label", As("sampling", "Foo")>>}

Truths == {On("eq", "label", "Foo"), On("eq", "missing", "Foo"), Of("null", "manifest_href"),
           C("not", <<On("matches", "label", "o")>>)}

Related == {C(name, <<<<asked[1]>>, asked[2]>>) :
              name \in {"eq", "ne", "gt", "ge", "lt", "le", "contains", "excludes"}, asked \in Asked}

Combined == {C(name, <<p, q>>) : name \in {"and", "or"}, p \in Truths, q \in Truths}
              \cup {C("not", <<p>>) : p \in Truths}

Members == {C(name, <<<<property>>, A(<<<<"Foo">>, <<"Y">>>>)>>) :
              name \in {"in", "out"}, property \in {"label", "components.name", "missing", "tags.grp"}}

Nulls == {Of("null", property) : property \in {"missing", "components.bit_depth", "interface_bindings", "label"}}

Patterns == {On("matches", "label", word) : word \in {"foo", "*", "10"}}
              \cup {On("matches", "components.name", "b"), On("matches", "missing", "o"),
                    C("matches", <<<<"label">>, <<"foo">>, <<"i">>>>)}

\* Of one component, or of what is linked
Nested == {C("sub", <<<<property>>, C("and", <<On("eq", "name", "Y"), On("eq", "bit_depth", depth)>>)>>) :
             property \in {"components", "missing", "grain_rate"}, depth \in {"10", "8"}} \cup
          {C("rel", <<<<"flow_id">>, On("eq", "label", "Foo")>>),
           C("rel", <<<<"subscription.sender_id">>, On("contains", "tags.grp", "b")>>), On("rel", "id", "true")}

Typed == {C("eq", <<<<"label">>, As(named, value)>>) :
            named \in {"string", "number", "boolean", "json", "unheard"}, value \in {"10", "true", "Foo"}}

Others == {C("eq", <<A(<<<<"components">>, <<"name">>>>), <<"Y">>>>), C("eq", <<Of("count", "tags.grp"), <<"2">>>>),
           C("eq", <<C("get", <<Of("value", "label")>>), <<"bar">>>>),
           C("null", <<C("get", <<Of("value", "missing")>>)>>),
           C("in", <<<<"components">>, A(<<As("sampling", "YCbCr")>>)>>), Of("eq", "label"), Of("unheard", "label"),
           C("or", <<C("eq", <<<<"version">>, As("version", "v1")>>), C("lt", <<<<"version">>, As("version", "v2")>>)>>),
           <<"true">>, <<"Foo">>, <<"version", ":">>, <<>>}

Good == Related \cup Combined \cup Members \cup Nulls \cup Patterns \cup Nested \cup Typed \cup Others

Short == UNION {[1..n -> {"eq", "(", ")", ",", ":", "="}] : n \in 0..4}

\* Two names in a row are one.
Readable(text) == \A n \in 1..(Len(text) - 1) : {text[n], text[n + 1]} \cap {"(", ")", ",", ":", "="} # {}

Broken == UNION {{RemoveAt(text, n) : n \in DOMAIN text} : text \in Good}

Texts == {text \in Good \cup Broken \cup Short : Readable(text)}

-----------------------------------------------------------------------------

Client(path, minor, least, strip, basic, flags, rql) ==
    [path |-> path, version |-> <<1, minor>>, downgrade |-> <<1, least>>, strip |-> strip, basic |-> basic,
     flags |-> flags, rql |-> rql]

Any13(rql) == Client("", 3, 0, TRUE, Obj(<<>>), {}, rql)

Basics == {Obj([label |-> Str("foo")]), Obj([media_type |-> Str("raw")]),
           Obj([components |-> Obj([bit_depth |-> Str("10")])]),
           Obj([subscription |-> Obj([active |-> Str("true")]), label |-> Str("o")])}

BasicClients ==
    {Client(path, 3, 0, TRUE, basic, flags, none) :
        path \in {"", "flow"}, basic \in Basics, flags \in SUBSET {"substr", "icase"}} \cup
    {Client("", minor, 0, strip, basic, {}, none) : minor \in 0..3, strip \in BOOLEAN, basic \in Basics} \cup
    {Client("", minor, least, TRUE, Obj(<<>>), {}, none) : minor \in 0..3, least \in 0..3}

AllClients == {Any13(text) : text \in Texts} \cup BasicClients

Lowercase == ("Foo" :> "foo" @@ "Cb" :> "cb" @@ "Y" :> "y")

Words == <<{"10"}, {"25"}, {"8"}, {"Cb"}, {"Foo", "v1"}, {"Y", "v2"}, {"bar"}, {"f"}, {"foo"}, {"true"}>>

JsonWords == ("10" :> Num(10) @@ "8" :> Num(8) @@ "2" :> Num(2) @@ "25" :> Num(25)
              @@ "true" :> Bool(TRUE) @@ "null" :> Null)

Paths == ("caps.constraint_sets.frame_width.enum" :> <<"caps", "constraint_sets", "frame_width", "enum">>
          @@ "components.bit_depth" :> <<"components", "bit_depth">> @@ "components.name" :> <<"components", "name">>
          @@ "subscription.active" :> <<"subscription", "active">> @@ "tags.grp" :> <<"tags", "grp">>
          @@ "subscription.sender_id" :> <<"subscription", "sender_id">> @@ "label.version" :> <<"label", "version">>
          @@ "label" :> <<"label">> @@ "parents" :> <<"parents">> @@ "interface_bindings" :> <<"interface_bindings">>)

Queries == INSTANCE ResourceQuery WITH
              Clients <- AllClients, Initial <- World, Bodies <- Becomes, MaxChanges <- 2,
              Json <- JsonWords, KeysOf <- Paths,
              Order <- Words,
              Parts <- {<<"o", "Foo">>, <<"o", "foo">>, <<"b", "Cb">>, <<"b", "cb">>, <<"b", "bar">>, <<"10", "10">>}
                         \cup {<<word, word>> : word \in {"Foo", "foo", "bar", "raw"}},
              Lower <- Lowercase, Invalid <- {"*"},
              RelatedType <- ("flow_id" :> "flow" @@ "subscription.sender_id" :> "sender" @@ "id" :> "id"),
              Sampling <- (YCbCr :> "YCbCr" @@ Arr(<<Component("Y", Null), Str("Y")>>) :> "other"),
              Schema <- [flow |-> [minor \in 0..3 |->
                            {"id", "version", "label", "parents"} \cup
                            IF minor >= 1 THEN {"components", "grain_rate", "media_type"} ELSE {}],
                         sender |-> [minor \in 0..3 |->
                            {"id", "version", "label", "flow_id", "manifest_href", "tags"} \cup
                            IF minor >= 2 THEN {"interface_bindings", "subscription"} ELSE {}],
                         receiver |-> [minor \in 0..3 |-> {"id", "version", "label", "caps", "subscription"}]],
              None <- none,
              client <- v1, rest <- v2, nest <- v3, state <- v4, type <- v5, query <- v6, phase <- v7,
              registry <- v8, view <- v9, changes <- v10

===============================================================================
