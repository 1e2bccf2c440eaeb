----------------------------- MODULE MCConstraints -----------------------------
(***************************************************************************)
(* Properties of every type, with and without constraints, and values for  *)
(* them.                                                                   *)
(***************************************************************************)
EXTENDS Integers, Sequences, Parts

CONSTANT none

\* Types, with and without constraints; a struct that has others as fields
Limits == [minimum |-> none, maximum |-> none, step |-> none, characters |-> none, pattern |-> none]

AtLeast(n) == [Limits EXCEPT !.minimum = n]
Between(m, n, step) == [AtLeast(m) EXCEPT !.maximum = n, !.step = step]

Primitive(name) == [kind |-> "primitive", name |-> name]
Typedef(parent, limits) == [kind |-> "typedef", parent |-> Primitive(parent), limits |-> limits]

Field(name, type, nullable, sequence, limits) ==
    [name |-> name, type |-> type, nullable |-> nullable, sequence |-> sequence, limits |-> limits]

Struct(fields) == [kind |-> "struct", fields |-> fields]

Inner == Struct({Field("n", Primitive("NcUint16"), FALSE, FALSE, AtLeast(1)),
                 Field("s", Primitive("NcString"), TRUE, TRUE, none)})

Types == {Primitive(name) : name \in {"NcBoolean", "NcString", "NcInt16", "NcUint16", "NcInt32", "NcUint32",
                                      "NcInt64", "NcUint64", "NcFloat32", "NcFloat64"}} \cup
         {Typedef("NcString", none), Typedef("NcInt64", Between(-2, 4, 3)),
          [kind |-> "enum", values |-> 0..2], Inner,
          Struct({Field("inner", Inner, FALSE, FALSE, none), Field("any", none, TRUE, FALSE, none)})}

Settable(type, nullable, sequence, limits) ==
    [type |-> type, nullable |-> nullable, sequence |-> sequence, limits |-> limits,
     readOnly |-> FALSE, enabled |-> FALSE]

Properties ==
    {Settable(type, nullable, sequence, none) : type \in Types, nullable \in {TRUE}, sequence \in BOOLEAN} \cup
    {Settable(type, FALSE, FALSE, limits) :
        type   \in {Primitive("NcUint64"), Primitive("NcString")},
        limits \in {Between(-1, 5, 2), [Limits EXCEPT !.maximum = 3, !.step = 2],
                    [Limits EXCEPT !.step = 3], [Limits EXCEPT !.characters = 1]}} \cup
    {[Settable(Primitive("NcBoolean"), FALSE, FALSE, none) EXCEPT !.enabled = TRUE],
     [Settable(Primitive("NcString"), TRUE, FALSE, none) EXCEPT !.readOnly = TRUE],
     [Settable(Primitive("NcString"), TRUE, TRUE, none) EXCEPT !.readOnly = TRUE]}

Number(n, integral) == [is |-> "number", integral |-> integral, n |-> n]
Text(length, matches) == [is |-> "string", length |-> length, matches |-> matches]
List(values) == [is |-> "array", items |-> values]

Nothing == [is |-> "null"]

Record(n, s) == [is |-> "object", fields |-> [n |-> n, s |-> s]]

Simple == {Number(n, TRUE) : n \in -8..15} \cup {Number(n, FALSE) : n \in {-3, 1, 3}} \cup
          {Text(0, FALSE), Text(2, TRUE), Nothing} \cup {[is |-> "boolean", value |-> v] : v \in BOOLEAN}

Records == {Record(n, s) : n \in {Number(0, TRUE), Number(1, TRUE), Number(9, TRUE), Nothing},
                           s \in {Nothing, List(<<>>), List(<<Text(0, FALSE)>>), Text(2, TRUE)}}

Values ==
    Simple \cup Records \cup {List(<<>>)} \cup {List(<<v, Number(1, TRUE)>>) : v \in Simple} \cup
    {[is |-> "object", fields |-> [inner |-> r, any |-> Number(1, TRUE)]] : r \in Records} \cup
    {[is |-> "object", fields |-> [n |-> Number(1, TRUE)]]}

Parameters == {[name |-> "n", type |-> Primitive("NcInt32"), limits |-> AtLeast(0)],
               [name |-> "s", type |-> Primitive("NcString"), limits |-> none]}

Settings == INSTANCE Constraints WITH
              Property <- Properties, Runtime <- {AtLeast(2), [Limits EXCEPT !.pattern = "p"]},
              Value <- Values, Methods <- {Parameters},
              Arguments <- {[n |-> Number(1, TRUE)], [n |-> Number(1, TRUE), s |-> Text(0, FALSE)],
                            [n |-> Number(-1, TRUE), s |-> Text(0, FALSE)]},
              MaxItems <- 1, None <- none,
              property <- v1, runtime <- v2, item <- v3, result <- v4

=============================================================================
