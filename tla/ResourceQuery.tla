---------------------------- MODULE ResourceQuery ----------------------------
(***************************************************************************)
(* Which resources a client of the Query API is told of: the parsing and   *)
(* evaluation of RQL queries (rql/rql.cpp, nmos/query_utils.cpp), basic    *)
(* queries (cpprest/json_utils.cpp), and what a client of another version  *)
(* of the API is shown of a resource (nmos/api_downgrade.cpp).  A client   *)
(* subscribes with a query, and then resources change.                     *)
(*                                                                         *)
(* A JSON value is <<its type>> or <<its type, its value>>; an object is a *)
(* function from keys, an array a sequence.  A text is a sequence of names *)
(* and punctuation.  What the text of a JSON value is, which order texts   *)
(* have, which text is part of which, and the keys of a path with dots are *)
(* parameters.                                                             *)
(***************************************************************************)
EXTENDS Integers, Sequences, FiniteSets, SequencesExt, TLC

CONSTANTS
    Clients,        \* [path, version, downgrade, strip, basic, flags, rql]
    Initial,        \* what is registered at first: a function from ids
    Bodies,         \* for each id, what it may be changed to
    MaxChanges,     \* bound: changes
    Json,           \* the JSON value of each text that is one
    KeysOf,         \* the keys of each path with dots
    Order,          \* texts of order 0, 1, 2...: a sequence of sets
    Parts,          \* <<part, text>>: the text has the part
    Lower,          \* the lower case of each text that is not
    Invalid,        \* texts that are no regular expressions
    RelatedType,    \* the type of each relation's name
    Sampling,       \* the sampling of each array of components
    Schema,         \* the properties that the schemas of each type have, by minor version
    None

VARIABLES
    client,         \* the client
    rest,           \* the text that has not been read yet
    nest,           \* calls and arrays that are open, with their arguments
    state,          \* "before_arg" or "after_arg"
    type,           \* the type before a colon
    query,          \* the RQL query, or None
    phase,          \* "parsing", "parsed", "watching"; "refused", "failed" or "threw"
    registry,       \* what is registered
    view,           \* what the client has been told: a function from ids
    changes

vars == <<client, rest, nest, state, type, query, phase, registry, view, changes>>

Null == <<"null">>
Bool(b) == <<"boolean", b>>
Str(s) == <<"string", s>>
Arr(s) == <<"array", s>>
Obj(f) == <<"object", f>>
Call(name, args) == <<"call", name, args>>
Typed(t, v) == <<"typed", t, v>>

True == Bool(TRUE)
False == Bool(FALSE)
Unknown == Null         \* value_indeterminate

\* Exceptions: those for JSON are no runtime errors
JsonError == <<"throws", "json">>
RuntimeError == <<"throws", "runtime">>
Thrown(v) == v[1] = "throws"

Is(kind, v) == v[1] = kind

-----------------------------------------------------------------------------
(* Parsing *)

Punctuation == {"(", ")", ",", ":", "="}

Bad == <<"bad">>

MakeValue(t, token) ==
    LET parsed == IF token \in DOMAIN Json THEN Json[token] ELSE Bad
        OfType(kind) == IF Is(kind, parsed) THEN parsed ELSE Bad
    IN  CASE t = ""        -> IF parsed = Bad THEN Str(token) ELSE parsed
          [] t = "string"  -> Str(token)
          [] t = "number"  -> OfType("number")
          [] t = "boolean" -> OfType("boolean")
          [] t = "json"    -> parsed
          [] OTHER         -> Typed(t, token)

Named == rest # <<>> /\ Head(rest) \notin Punctuation
Token == IF Named THEN Head(rest) ELSE ""
After == IF Named THEN Tail(rest) ELSE rest

Frame(name) == [name |-> name, args |-> <<>>]

Push(frames, value) == [frames EXCEPT ![Len(frames)].args = Append(@, value)]

\* "array" and "call" are of the names of frames; a call has a name.
Pop(frames) ==
    LET inner == Last(frames)
    IN  Push(Front(frames), IF inner.name = "" THEN Arr(inner.args) ELSE Call(inner.name, inner.args))

Reads(then) == phase = "parsing" /\ rest # <<>> /\ state = then

Refuse == phase' = "refused" /\ UNCHANGED <<client, rest, nest, state, type, query, registry, view, changes>>

Advance(to) == rest' = to /\ UNCHANGED <<client, query, phase, registry, view, changes>>

\* A value ends at the end of the text, at a comma, or at a closing parenthesis.
Value ==
    LET value == MakeValue(type, Token)
    IN  /\ Reads("before_arg")
        /\ \/ After = <<>>
           \/ After # <<>> /\ Head(After) \in {",", ")"} /\ Len(nest) > 1
        /\ IF value = Bad THEN Refuse
           ELSE /\ type' = ""
                /\ IF After # <<>> /\ Head(After) = ")"
                   THEN nest' = Pop(Push(nest, value)) /\ state' = "after_arg"
                   ELSE nest' = Push(nest, value) /\ UNCHANGED state
                /\ Advance(IF After = <<>> THEN <<>> ELSE Tail(After))

\* An array, or the arguments of a call
Open ==
    /\ Reads("before_arg") /\ After # <<>> /\ Head(After) = "(" /\ type = ""
    /\ nest' = Append(nest, Frame(Token))
    /\ Advance(Tail(After)) /\ UNCHANGED <<state, type>>

TypeName ==
    /\ Reads("before_arg") /\ After # <<>> /\ Head(After) = ":" /\ Token # "" /\ type = ""
    /\ type' = Token
    /\ Advance(Tail(After)) /\ UNCHANGED <<state, nest>>

NextArgument ==
    /\ Reads("after_arg") /\ Head(rest) = "," /\ Len(nest) > 1
    /\ state' = "before_arg"
    /\ Advance(Tail(rest)) /\ UNCHANGED <<nest, type>>

Close ==
    /\ Reads("after_arg") /\ Head(rest) = ")" /\ Len(nest) > 1
    /\ nest' = Pop(nest)
    /\ Advance(Tail(rest)) /\ UNCHANGED <<state, type>>

Unexpected ==
    /\ \/ /\ Reads("before_arg") /\ After # <<>>
          /\ CASE Head(After) = "("        -> type # ""
               [] Head(After) \in {",", ")"} -> Len(nest) = 1
               [] Head(After) = ":"        -> Token = "" \/ type # ""
               [] OTHER                    -> TRUE
       \/ Reads("after_arg") /\ (Head(rest) \notin {",", ")"} \/ Len(nest) = 1)
    /\ Refuse

Relations == {"eq", "ne", "gt", "ge", "lt", "le"}

Operators == Relations \cup {"and", "or", "not", "in", "out", "contains", "excludes", "null",
                             "matches", "count", "get", "value", "rel", "sub"}

RECURSIVE Validate(_)
Validate(arg) ==
    CASE Is("call", arg)  -> arg[2] \in Operators /\ \A i \in DOMAIN arg[3] : Validate(arg[3][i])
      [] Is("array", arg) -> \A i \in DOMAIN arg[2] : Validate(arg[2][i])
      [] OTHER            -> TRUE

Parsed ==
    /\ phase = "parsing" /\ rest = <<>>
    /\ IF Len(nest) = 1 /\ nest[1].args # <<>> /\ Validate(Head(nest[1].args))
       THEN /\ query' = Head(nest[1].args) /\ phase' = "parsed"
            /\ nest' = <<Frame("")>> /\ state' = "before_arg" /\ type' = ""
            /\ UNCHANGED <<client, rest, registry, view, changes>>
       ELSE Refuse

-----------------------------------------------------------------------------
(* Evaluation *)

Not(v) == IF Thrown(v) THEN v ELSE IF Is("boolean", v) THEN Bool(~v[2]) ELSE Unknown

\* Of results in their order
OrOf(results) ==
    LET ends == {i \in DOMAIN results : Thrown(results[i]) \/ results[i] = True}
    IN  IF ends # {} THEN results[CHOOSE i \in ends : \A j \in ends : i <= j]
        ELSE IF \E i \in DOMAIN results : ~Is("boolean", results[i]) THEN Unknown ELSE False

AnyOf(v, Test(_)) ==
    CASE Thrown(v)      -> v
      [] Is("array", v) -> OrOf([i \in DOMAIN v[2] |-> Test(v[2][i])])
      [] OTHER          -> Test(v)

AndOf(results) == Not(OrOf([i \in DOMAIN results |-> Not(results[i])]))

Rank(text) == IF \E n \in DOMAIN Order : text \in Order[n]
              THEN CHOOSE n \in DOMAIN Order : text \in Order[n] ELSE 0

DefaultEqualTo(l, r) == IF l[1] # r[1] THEN Unknown ELSE Bool(l = r)

DefaultLess(l, r) ==
    IF l[1] # r[1] THEN Unknown
    ELSE CASE Is("string", l) -> Bool(Rank(l[2]) < Rank(r[2]))
           [] Is("number", l) -> Bool(l[2] < r[2])
           [] OTHER           -> Unknown

\* A typed value makes the other one be of its type.
Untyped(l, r) == ~Is("typed", l) /\ ~Is("typed", r)

TypesOf(l, r) == <<IF Is("typed", l) THEN l[2] ELSE r[2], IF Is("typed", r) THEN r[2] ELSE l[2]>>

TextOf(v) == IF Is("typed", v) THEN Str(v[3]) ELSE v

\* A version, or a rational that may be an object (of denominator 1), as a number
Number(t, v) ==
    CASE Is("string", v) -> <<"number", Rank(v[2])>>
      [] t = "rational" /\ Is("object", v) -> IF "numerator" \in DOMAIN v[2] THEN v[2].numerator ELSE JsonError
      [] OTHER -> JsonError

Comparable(l, r) == TypesOf(l, r)[1] = TypesOf(l, r)[2]

Compare(l, r) ==
    LET t == TypesOf(l, r)[1]
    IN  <<Number(t, TextOf(l)), Number(t, TextOf(r))>>

NumberTypes == {"api_version", "version", "rational"}

SamplingName(v) ==
    CASE Is("string", v) -> v
      [] Is("array", v)  -> Str(Sampling[v])
      [] OTHER           -> JsonError

EqualTo(l, r) ==
    IF Untyped(l, r) THEN DefaultEqualTo(l, r)
    ELSE IF Null \in {l, r} \/ ~Comparable(l, r) THEN Unknown
    ELSE IF TypesOf(l, r)[1] = "sampling"
    THEN LET names == {SamplingName(TextOf(l)), SamplingName(TextOf(r))}
         IN  IF JsonError \in names THEN JsonError ELSE Bool(Cardinality(names) = 1)
    ELSE IF TypesOf(l, r)[1] \notin NumberTypes THEN Unknown
    ELSE LET n == Compare(l, r)
         IN  IF JsonError \in {n[1], n[2]} THEN JsonError ELSE Bool(n[1] = n[2])

Less(l, r) ==
    IF Untyped(l, r) THEN DefaultLess(l, r)
    ELSE IF Null \in {l, r} \/ ~Comparable(l, r) THEN Unknown
    ELSE IF TypesOf(l, r)[1] \notin NumberTypes THEN Unknown
    ELSE LET n == Compare(l, r)
         IN  IF JsonError \in {n[1], n[2]} THEN JsonError ELSE Bool(n[1][2] < n[2][2])

Relation(name, l, r) ==
    CASE name = "eq" -> EqualTo(l, r)
      [] name = "ne" -> Not(EqualTo(l, r))
      [] name = "gt" -> Less(r, l)
      [] name = "ge" -> Not(Less(l, r))
      [] name = "lt" -> Less(l, r)
      [] name = "le" -> Not(Less(r, l))

Includes(l, r) ==
    LET found == AnyOf(l, LAMBDA x : EqualTo(x, r))
    IN  IF Thrown(r) THEN r ELSE IF Thrown(found) THEN found ELSE Bool(found = True)

LowerOf(text) == IF text \in DOMAIN Lower THEN Lower[text] ELSE text

Has(text, part, icase) ==
    IF icase THEN <<LowerOf(part), LowerOf(text)>> \in Parts ELSE <<part, text>> \in Parts

Matches(target, pattern, icase) ==
    IF ~Is("string", target) THEN Unknown
    ELSE IF pattern \in Invalid THEN RuntimeError
    ELSE Bool(Has(target[2], pattern, icase))

\* The objects below objects, with those in arrays
Descend(objects, key) ==
    FlattenSeq([i \in DOMAIN objects |->
        LET fields == objects[i][2]
        IN  IF key \notin DOMAIN fields THEN <<>>
            ELSE CASE Is("array", fields[key])  -> SelectSeq(fields[key][2], LAMBDA v : Is("object", v))
                   [] Is("object", fields[key]) -> <<fields[key]>>
                   [] OTHER                     -> <<>>])

\* The value at the last key of a path: of one object, or gathered from those in arrays
AtLeaf(objects, key, gathers) ==
    LET having == SelectSeq(objects, LAMBDA o : key \in DOMAIN o[2])
        values == [i \in DOMAIN having |-> having[i][2][key]]
        Elements(v) == IF Is("array", v) THEN v[2] ELSE <<v>>
    IN  [found |-> values # <<>>,
         value |-> IF gathers THEN Arr(FlattenSeq([i \in DOMAIN values |-> Elements(values[i])]))
                   ELSE IF values = <<>> THEN Null ELSE Head(values)]

RECURSIVE ExtractAt(_, _, _)
ExtractAt(objects, keys, gathers) ==
    IF Len(keys) = 1 THEN AtLeaf(objects, Head(keys), gathers)
    ELSE ExtractAt(Descend(objects, Head(keys)), Tail(keys),
                   gathers \/ \E i \in DOMAIN objects :
                                 /\ Head(keys) \in DOMAIN objects[i][2]
                                 /\ Is("array", objects[i][2][Head(keys)]))

IsKey(key) == \/ Is("string", key)
              \/ Is("array", key) /\ \A i \in DOMAIN key[2] : Is("string", key[2][i])

Keys(key) == IF Is("array", key) THEN [i \in DOMAIN key[2] |-> key[2][i][2]]
             ELSE IF key[2] \in DOMAIN KeysOf THEN KeysOf[key[2]] ELSE <<key[2]>>

\* A key that is no text, and data that is no object, throw.
Extract(data, key) ==
    IF ~IsKey(key) \/ ~Is("object", data) THEN [found |-> FALSE, value |-> JsonError]
    ELSE IF Keys(key) = <<>> THEN [found |-> FALSE, value |-> Null]
    ELSE ExtractAt(<<data>>, Keys(key), FALSE)

\* The data that a relation of rel or sub refers to
Resolve(name, relation, value, resources) ==
    IF name = "sub" THEN IF Is("object", value) THEN value ELSE Obj(<<>>)
    ELSE IF ~Is("string", value) THEN Obj(<<>>)
    ELSE IF /\ value[2] \in DOMAIN resources /\ relation \in DOMAIN RelatedType
            /\ resources[value[2]].type = RelatedType[relation]
         THEN resources[value[2]].data ELSE Null

Argument(args, i) == IF i \in DOMAIN args THEN args[i] ELSE JsonError

\* Of a property only, absence is told from null.
IsNull(arg, value, data) ==
    LET target == Extract(data, arg)
    IN  IF Thrown(value) THEN value
        ELSE IF Is("call", arg) THEN Bool(value = Null)
        ELSE IF Thrown(target.value) THEN target.value
        ELSE IF target.found THEN Bool(target.value = Null) ELSE Unknown

Count(v) ==
    CASE Is("array", v)  -> <<"number", Len(v[2])>>
      [] Is("object", v) -> <<"number", Cardinality(DOMAIN v[2])>>
      [] Thrown(v)       -> v
      [] OTHER           -> Unknown

RECURSIVE Eval(_, _, _, _)
Eval(arg, extracts, data, resources) ==
    LET args == arg[3]
        At(i) == Eval(Argument(args, i), FALSE, data, resources)
        Property == Eval(Argument(args, 1), TRUE, data, resources)
    IN  IF Thrown(arg) THEN arg
        ELSE IF ~Is("call", arg) THEN IF extracts THEN Extract(data, arg).value ELSE arg
        ELSE CASE arg[2] = "and" -> AndOf([i \in DOMAIN args |-> At(i)])
               [] arg[2] = "or" -> OrOf([i \in DOMAIN args |-> At(i)])
               [] arg[2] = "not" -> Not(At(1))
               [] arg[2] \in Relations ->
                    IF Thrown(At(2)) THEN At(2) ELSE AnyOf(Property, LAMBDA v : Relation(arg[2], v, At(2)))
               [] arg[2] = "in" -> Includes(At(2), Property)
               [] arg[2] = "out" -> Not(Includes(At(2), Property))
               [] arg[2] = "contains" -> Includes(Property, At(2))
               [] arg[2] = "excludes" -> Not(Includes(Property, At(2)))
               [] arg[2] = "null" -> IsNull(Argument(args, 1), At(1), data)
               [] arg[2] = "matches" ->
                    IF Thrown(Property) THEN Property
                    ELSE IF Thrown(At(2)) THEN At(2)
                    ELSE IF ~Is("string", At(2)) \/ (Len(args) > 2 /\ ~Is("string", args[3])) THEN JsonError
                    ELSE AnyOf(Property, LAMBDA v : Matches(v, At(2)[2], Len(args) > 2 /\ args[3] = Str("i")))
               [] arg[2] = "count" -> Count(Property)
               [] arg[2] = "get" -> Eval(At(1), TRUE, data, resources)
               [] arg[2] = "value" -> At(1)
               [] arg[2] \in {"rel", "sub"} ->
                    IF ~Is("string", At(1)) \/ Len(args) < 2 THEN JsonError
                    ELSE AnyOf(Property, LAMBDA v :
                                Eval(args[2], FALSE, Resolve(arg[2], At(1)[2], v, resources), resources))

\* A runtime error is no match; other exceptions go on.
MatchRql(data, resources) ==
    LET result == IF query = None THEN True ELSE Eval(query, FALSE, data, resources)
    IN  IF result = JsonError THEN JsonError ELSE Bool(result = True)

RECURSIVE MatchBasic(_, _, _)
MatchBasic(value, basic, flags) ==
    IF Is("array", value) THEN \E i \in DOMAIN value[2] : MatchBasic(value[2][i], basic, flags)
    ELSE IF Is("object", value) /\ Is("object", basic)
    THEN \A key \in DOMAIN basic[2] : /\ key \in DOMAIN value[2]
                                      /\ MatchBasic(value[2][key], basic[2][key], flags)
    ELSE IF value[1] # basic[1]
    THEN /\ Is("string", basic) /\ basic[2] \in DOMAIN Json
         /\ MatchBasic(value, Json[basic[2]], flags)
    ELSE IF ~Is("string", value) THEN value = basic
    ELSE IF "substr" \in flags THEN Has(value[2], basic[2], "icase" \in flags)
    ELSE IF "icase" \in flags THEN LowerOf(value[2]) = LowerOf(basic[2])
    ELSE value = basic

-----------------------------------------------------------------------------
(* Versions *)

NotBefore(v, w) == v[1] > w[1] \/ (v[1] = w[1] /\ v[2] >= w[2])

IsPermittedDowngrade(resource) ==
    /\ NotBefore(client.downgrade, resource.downgrade)
    /\ client.version[1] = client.downgrade[1]
    /\ resource.version[1] = client.version[1]
    /\ resource.version[2] >= client.downgrade[2]

\* The fields added in each minor version, from 0
Added(resource_type) ==
    CASE resource_type = "node" ->
            <<{"id", "version", "label", "href", "hostname", "caps", "services"},
              {"description", "tags", "api", "clocks"}, {"interfaces"}, {}>>
      [] resource_type = "device" ->
            <<{"id", "version", "label", "type", "node_id", "senders", "receivers"},
              {"description", "tags", "controls"}, {}, {}>>
      [] resource_type = "source" ->
            <<{"id", "version", "label", "description", "format", "caps", "tags", "device_id", "parents"},
              {"grain_rate", "clock_name", "channels"}, {}, {"event_type"}>>
      [] resource_type = "flow" ->
            <<{"id", "version", "label", "description", "format", "tags", "source_id", "parents"},
              {"grain_rate", "device_id", "media_type", "sample_rate", "bit_depth", "DID_SDID",
               "frame_width", "frame_height", "interlace_mode", "colorspace",
               "transfer_characteristic", "components"}, {}, {"event_type"}>>
      [] resource_type = "sender" ->
            <<{"id", "version", "label", "description", "flow_id", "transport", "tags", "device_id",
               "manifest_href"}, {}, {"caps", "interface_bindings", "subscription"}, {}>>
      [] resource_type = "receiver" ->
            <<{"id", "version", "label", "description", "format", "caps", "tags", "device_id",
               "transport", "subscription"}, {}, {"interface_bindings"}, {}>>

FieldsAt(resource_type, minor) == UNION {Added(resource_type)[n] : n \in 1..(minor + 1)}

Restricted(data, fields) == Obj([key \in DOMAIN data[2] \cap fields |-> data[2][key]])

\* What is shown of a resource, if it is permitted
Downgrade(resource) ==
    IF \/ ~client.strip /\ resource.version[1] = client.version[1] /\ resource.version[2] > client.version[2]
       \/ NotBefore(client.version, resource.version)
    THEN resource.data
    ELSE Restricted(resource.data, FieldsAt(resource.type, client.version[2]))

-----------------------------------------------------------------------------
(* The subscription *)

Match(resource, resources) ==
    IF /\ resource.data # Null
       /\ client.path \in {"", resource.type}
       /\ IsPermittedDowngrade(resource)
       /\ MatchBasic(resource.data, client.basic, client.flags)
    THEN MatchRql(resource.data, resources) ELSE False

Init ==
    /\ client \in Clients
    /\ rest = IF client.rql = None THEN <<>> ELSE client.rql
    /\ nest = <<Frame("")>> /\ state = "before_arg" /\ type = ""
    /\ query = None
    /\ phase = IF client.rql = None THEN "parsed" ELSE "parsing"
    /\ registry = Initial
    /\ view = <<>>
    /\ changes = 0

\* The messages that a connection begins with
Sync ==
    LET matches == [id \in DOMAIN registry |-> Match(registry[id], registry)]
        wanted == {id \in DOMAIN registry : matches[id] = True}
    IN  /\ phase = "parsed"
        /\ IF \E id \in DOMAIN registry : Thrown(matches[id])
           THEN phase' = "failed" /\ UNCHANGED view
           ELSE phase' = "watching" /\ view' = [id \in wanted |-> Downgrade(registry[id])]
        /\ UNCHANGED <<client, rest, nest, state, type, query, registry, changes>>

\* The queries are evaluated when the change has been made.  An exception ends the request
\* that has changed the resource.
Change(id, data) ==
    LET before  == registry[id]
        after   == [before EXCEPT !.data = data]
        matched == Match(before, registry')
        matches == Match(after, registry')
    IN  /\ phase = "watching" /\ changes < MaxChanges /\ data # before.data
        /\ changes' = changes + 1
        /\ registry' = [registry EXCEPT ![id] = after]
        /\ IF Thrown(matched) \/ Thrown(matches) THEN phase' = "threw" /\ UNCHANGED view
           ELSE /\ UNCHANGED phase
                /\ view' = CASE matches = True -> (id :> Downgrade(after)) @@ view
                            [] matches # True /\ matched = True ->
                                  [other \in DOMAIN view \ {id} |-> view[other]]
                            [] OTHER -> view
        /\ UNCHANGED <<client, rest, nest, state, type, query>>

Next ==
    \/ Value \/ Open \/ TypeName \/ NextArgument \/ Close \/ Unexpected \/ Parsed
    \/ Sync
    \/ \E id \in DOMAIN registry : \E data \in Bodies[id] : Change(id, data)

Spec == Init /\ [][Next]_vars

-----------------------------------------------------------------------------
(* Properties *)

Phases == {"parsing", "parsed", "watching", "refused", "failed", "threw"}

\* The types of the variables.
TypeOK ==
    /\ client \in Clients
    /\ phase \in Phases /\ state \in {"before_arg", "after_arg"}
    /\ nest # <<>> /\ \A i \in DOMAIN nest : DOMAIN nest[i] = {"name", "args"}
    /\ query = None \/ query \notin {Bad, JsonError}
    /\ DOMAIN registry = DOMAIN Initial /\ DOMAIN view \subseteq DOMAIN registry
    /\ changes \in 0..MaxChanges

(* The grammar of a query, read as a whole *)

Depth(text, i) == Cardinality({j \in 1..i : text[j] = "("}) - Cardinality({j \in 1..i : text[j] = ")"})

\* The text is in parentheses that belong together.
Enclosed(text) ==
    /\ Len(text) >= 2 /\ Head(text) = "("
    /\ {i \in DOMAIN text : Depth(text, i) <= 0} = {Len(text)}
    /\ Last(text) = ")"

Inside(text) == SubSeq(text, 2, Len(text) - 1)

\* The texts between the commas that are in no parentheses
Separated(text) ==
    LET commas == SetToSortSeq({i \in DOMAIN text : text[i] = "," /\ Depth(text, i) = 0}, <)
        ends   == <<0>> \o commas \o <<Len(text) + 1>>
    IN  [n \in 1..(Len(ends) - 1) |-> SubSeq(text, ends[n] + 1, ends[n + 1] - 1)]

IsName(text) == Len(text) = 1 /\ Head(text) \notin Punctuation

RECURSIVE Argued(_)
Argued(text) ==
    LET of(inside) == [n \in DOMAIN Separated(inside) |-> Argued(Separated(inside)[n])]
        Whole(args, tree) == IF \E n \in DOMAIN args : args[n] = Bad THEN Bad ELSE tree
    IN  CASE text = <<>>      -> MakeValue("", "")
          [] IsName(text)     -> MakeValue("", Head(text))
          [] Enclosed(text)   -> Whole(of(Inside(text)), Arr(of(Inside(text))))
          [] IsName(SubSeq(text, 1, 1)) /\ Enclosed(Tail(text)) ->
                Whole(of(Inside(Tail(text))), Call(Head(text), of(Inside(Tail(text)))))
          [] /\ IsName(SubSeq(text, 1, 1)) /\ SubSeq(text, 2, 2) = <<":">>
             /\ \/ Len(text) = 2
                \/ IsName(SubSeq(text, 3, Len(text))) ->
                MakeValue(Head(text), IF Len(text) = 2 THEN "" ELSE text[3])
          [] OTHER -> Bad

\* A query is read as the grammar says, whatever is nested in it, and refused exactly if the
\* grammar does not have it (parse_query, a state machine with a stack).  A text that
\* is empty, or ends with the colon of a type, is refused.
ParsedAsWritten ==
    LET written == IF client.rql = <<>> \/ Last(client.rql) = ":" THEN Bad ELSE Argued(client.rql)
    IN  phase # "parsing" /\ client.rql # None =>
          IF phase = "refused" THEN written = Bad \/ ~Validate(written)
          ELSE query = written /\ Validate(written)

(* What the comments of the operators say they mean, for queries without types and links *)

Elements(v) == IF Is("array", v) THEN Range(v[2]) ELSE {v}

\* The values at a path, of which there may be many below arrays
RECURSIVE At(_, _)
At(v, keys) ==
    IF keys = <<>> THEN {v}
    ELSE LET objects == {e \in Elements(v) : Is("object", e) /\ Head(keys) \in DOMAIN e[2]}
         IN  UNION {At(o[2][Head(keys)], Tail(keys)) : o \in objects}

BelowArray(v, keys) == \E n \in 1..(Len(keys) - 1) : \E w \in At(v, SubSeq(keys, 1, n)) : Is("array", w)

AllAt(data, keys) ==
    IF At(data, keys) = {} /\ ~BelowArray(data, keys) THEN {Null} ELSE UNION {Elements(v) : v \in At(data, keys)}

Kleene(truths) == IF True \in truths THEN True ELSE IF truths \subseteq {False} THEN False ELSE Unknown

Negated(truth) == IF truth = True THEN False ELSE IF truth = False THEN True ELSE Unknown

Truth(name, l, r) ==
    LET ordered == l[1] = r[1] /\ l[1] \in {"string", "number"}
        amount(v) == IF Is("string", v) THEN Rank(v[2]) ELSE v[2]
    IN  CASE name = "eq" /\ l[1] = r[1] -> Bool(l = r)
          [] name = "ne" /\ l[1] = r[1] -> Bool(l # r)
          [] name = "gt" /\ ordered -> Bool(amount(l) > amount(r))
          [] name = "ge" /\ ordered -> Bool(amount(l) >= amount(r))
          [] name = "lt" /\ ordered -> Bool(amount(l) < amount(r))
          [] name = "le" /\ ordered -> Bool(amount(l) <= amount(r))
          [] OTHER -> Unknown

Simple(arg) == arg[1] \in {"string", "number", "boolean", "null"}

\* A call with the arguments its comment gives it, of a property that is named
RECURSIVE Understood(_)
Understood(q) ==
    /\ Is("call", q)
    /\ LET args == q[3]
           named == args # <<>> /\ Is("string", Head(args))
       IN  CASE q[2] \in {"and", "or"} -> \A n \in DOMAIN args : Understood(args[n])
             [] q[2] = "not" -> Len(args) = 1 /\ Understood(args[1])
             [] q[2] \in Relations \cup {"contains", "excludes"} -> Len(args) = 2 /\ named /\ Simple(args[2])
             [] q[2] \in {"in", "out"} ->
                  Len(args) = 2 /\ named /\ Is("array", args[2]) /\ \A v \in Range(args[2][2]) : Simple(v)
             [] q[2] = "null" -> Len(args) = 1 /\ named
             [] q[2] = "matches" -> Len(args) \in {2, 3} /\ named /\ \A n \in DOMAIN args : Is("string", args[n])
             [] q[2] = "sub" -> Len(args) = 2 /\ named /\ Understood(args[2])
             [] OTHER -> FALSE

RECURSIVE Meaning(_, _)
Meaning(q, data) ==
    LET args   == q[3]
        truths == {Meaning(args[n], data) : n \in DOMAIN args}
        keys   == Keys(args[1])
        values == AllAt(data, keys)
        lists  == BelowArray(data, keys) \/ \E v \in At(data, keys) : Is("array", v)
        insensitive == Len(args) = 3 /\ args[3] = Str("i")
    IN  CASE q[2] = "or"  -> Kleene(truths)
          [] q[2] = "and" -> Negated(Kleene({Negated(t) : t \in truths}))
          [] q[2] = "not" -> Negated(Meaning(args[1], data))
          [] q[2] \in Relations -> Kleene({Truth(q[2], v, args[2]) : v \in values})
          [] q[2] = "in"  -> Bool(~lists /\ values \subseteq Range(args[2][2]))
          [] q[2] = "out" -> Bool(lists \/ ~(values \subseteq Range(args[2][2])))
          [] q[2] = "contains" -> Bool(args[2] \in values)
          [] q[2] = "excludes" -> Bool(args[2] \notin values)
          [] q[2] = "null" -> IF At(data, keys) = {} THEN Unknown ELSE Bool(~lists /\ values = {Null})
          [] q[2] = "matches" ->
                Kleene({IF Is("string", v) THEN Bool(Has(v[2], args[2][2], insensitive)) ELSE Unknown :
                           v \in values})
          [] q[2] = "sub" ->
                Kleene({Meaning(args[2], IF Is("object", v) THEN v ELSE Obj(<<>>)) : v \in values})

\* A resource matches a query exactly if the comments of its operators say so: of a property
\* below arrays one value suffices, and what is not known is not so.  The evaluation of
\* such a query throws nothing, unless a pattern is no regular expression.
EvaluatesAsMeant ==
    query # None => \A id \in DOMAIN registry :
        LET data == registry[id].data
        IN  Understood(query) =>
              \/ Eval(query, FALSE, data, registry) = Meaning(query, data)
              \/ Eval(query, FALSE, data, registry) = RuntimeError

\* A basic query for a text, and the RQL query for the property of that text or what it is
\* as JSON, match the same resources (match_query and match_rql).
BasicIsRql ==
    phase = "watching" /\ query = None =>
      \A id \in DOMAIN registry, path \in DOMAIN KeysOf, text \in UNION Range(Order) :
        LET data  == registry[id].data
            keys  == KeysOf[path]
            basic == FoldRight(LAMBDA key, below : Obj(key :> below), keys, Str(text))
            Asks(v) == Eval(Call("eq", <<Str(path), v>>), FALSE, data, registry) = True
        IN  MatchBasic(data, basic, {}) <=> Asks(Str(text)) \/ (text \in DOMAIN Json /\ Asks(Json[text]))

RECURSIVE Links(_)
Links(arg) ==
    CASE Is("call", arg)  -> arg[2] = "rel" \/ \E n \in DOMAIN arg[3] : Links(arg[3][n])
      [] Is("array", arg) -> \E n \in DOMAIN arg[2] : Links(arg[2][n])
      [] OTHER            -> FALSE

\* The messages of a subscription tell of exactly the resources that match now, as they are
\* now, unless the query follows links.
FeedAgrees ==
    phase = "watching" /\ (query = None \/ ~Links(query)) =>
        view = [id \in {i \in DOMAIN registry : Match(registry[i], registry) = True} |-> Downgrade(registry[id])]

\* A client is shown the properties that the schema of its version has, or everything if it
\* has asked not to strip what is of a later version (resource_query::downgrade,
\* nmos::downgrade).
ShownByVersion ==
    \A id \in DOMAIN view :
        LET resource == registry[id]
            properties == DOMAIN resource.data[2]
        IN  DOMAIN view[id][2] = IF client.strip
                                 THEN properties \cap Schema[resource.type][client.version[2]] ELSE properties

(* Statements that do not hold *)

\* No query that was accepted throws anything but a runtime error.
NothingThrows == phase \notin {"failed", "threw"}

\* A resource matches as it is shown ("in practice, I don't think that can make a difference",
\* resource_query::operator()).
MatchesAsShown ==
    phase = "watching" =>
        \A id \in DOMAIN view : Match([registry[id] EXCEPT !.data = view[id]], registry) = True

=============================================================================
