------------------------------ MODULE Constraints ------------------------------
(***************************************************************************)
(* What a property of the device model (IS-12, IS-14) may be set to: the   *)
(* methods that set a property, or set or add an item of a sequence        *)
(* (nmos/control_protocol_methods.cpp), and the validation of values       *)
(* against three levels of constraints (nmos/control_protocol_utils.cpp).  *)
(*                                                                         *)
(* A value is one of JSON: a number knows whether it is integral, a string *)
(* is its length and whether it matches the pattern that is in use.  The   *)
(* widths of integers are scaled down.                                     *)
(***************************************************************************)
EXTENDS Integers, Sequences

CONSTANTS
    Property,   \* descriptors of the properties, each of an object of its own
    Runtime,    \* the runtime constraints that the user's code may have set
    Value,      \* what clients send
    Methods,    \* names of methods' parameters with types and constraints
    Arguments,  \* what clients call methods with, likewise by name
    MaxItems,   \* bound: the items of a sequence
    None

\* The bits of a 16-bit, a 32-bit and a 64-bit integer, scaled down
Bits == [short |-> 2, int |-> 3, long |-> 4]

VARIABLES
    property,   \* the property that clients set
    runtime,    \* the runtime constraints of its object
    item,       \* its value
    result      \* the answer to the last request

constraintsVars == <<property, runtime, item, result>>

Num(n) == [is |-> "number", integral |-> TRUE, n |-> n]

\* n halves
Real(n) == [is |-> "number", integral |-> FALSE, n |-> n]

Null == [is |-> "null"]

Integral(v) == v.is = "number" /\ v.integral

Elements(v) == IF v.is = "array" THEN v.items ELSE <<v>>

NoLimits == [minimum |-> None, maximum |-> None, step |-> None, characters |-> None, pattern |-> None]

-----------------------------------------------------------------------------
(* Validation *)

\* Divisible by the step, from the minimum if there is one, else from the maximum
OnStep(n, limits) ==
    LET base == IF limits.minimum # None THEN limits.minimum
                ELSE IF limits.maximum # None THEN limits.maximum ELSE 0
    IN  limits.step > 0 /\ (n - base) % limits.step = 0

\* constraints_validation of one value: a number that is constrained must be integral.
Within(v, limits) ==
    /\ limits.step # None => Integral(v) /\ OnStep(v.n, limits)
    /\ limits.minimum # None => Integral(v) /\ v.n >= limits.minimum
    /\ limits.maximum # None => Integral(v) /\ v.n <= limits.maximum
    /\ limits.characters # None => v.is = "string" /\ v.length <= limits.characters
    /\ limits.pattern # None => v.is = "string" /\ v.matches

constraints_validation(v, limits) ==
    \A i \in DOMAIN Elements(v) : Within(Elements(v)[i], limits)

Signed(n, bits) == n \in -(2^(bits - 1))..(2^(bits - 1) - 1)
Unsigned(n, bits) == n \in 0..(2^bits - 1)

\* The integral part of a number
Truncated(v) ==
    IF v.integral THEN v.n ELSE IF v.n >= 0 THEN v.n \div 2 ELSE -((-v.n) \div 2)

\* to_uint32 and to_int32: what is left of a number in 32 bits
to_uint32(v) == Truncated(v) % 2^Bits.int
to_int32(v) ==
    IF to_uint32(v) < 2^(Bits.int - 1) THEN to_uint32(v) ELSE to_uint32(v) - 2^Bits.int

\* primitive_validation: the scaled-down numbers are all in the range of NcFloat32.
Primitive(name, v) ==
    CASE name = "NcBoolean" -> v.is = "boolean"
      [] name = "NcString"  -> v.is = "string"
      [] v.is # "number"    -> FALSE
      [] name = "NcInt16"   -> Signed(to_int32(v), Bits.short)
      [] name = "NcUint16"  -> Unsigned(to_uint32(v), Bits.short)
      [] name = "NcInt32"   -> v.integral /\ Signed(v.n, Bits.int)
      [] name = "NcUint32"  -> v.integral /\ Unsigned(v.n, Bits.int)
      [] name = "NcInt64"   -> v.integral /\ Signed(v.n, Bits.long)
      [] name = "NcUint64"  -> v.integral /\ Unsigned(v.n, Bits.long)
      [] name = "NcFloat32" -> TRUE
      [] name = "NcFloat64" -> ~v.integral

\* datatype_constraints_validation: level 0.  A typedef's own constraints, if it has some,
\* are all that is asked of the value; only a struct's own fields are looked at.
RECURSIVE datatype_constraints_validation(_, _)

FieldSound(field, value) ==
    IF value = Null THEN field.nullable
    ELSE /\ field.sequence <=> value.is = "array"
         /\ field.type # None => datatype_constraints_validation(value, field.type)
         /\ field.limits # None => constraints_validation(value, field.limits)

TypeSound(type, v) ==
    CASE type.kind = "primitive" -> Primitive(type.name, v)
      [] type.kind = "enum"      -> Integral(v) /\ v.n \in type.values
      [] type.kind = "typedef"   -> IF type.limits # None THEN constraints_validation(v, type.limits)
                                    ELSE datatype_constraints_validation(v, type.parent)
      [] type.kind = "struct"    -> \A field \in type.fields :
                                        /\ v.is = "object" /\ field.name \in DOMAIN v.fields
                                        /\ FieldSound(field, v.fields[field.name])

datatype_constraints_validation(v, type) ==
    \A i \in DOMAIN Elements(v) : TypeSound(type, Elements(v)[i])

\* The first level that there is replaces those below, the type included.  No type: any value
Acceptable(v, limits2, limits1, type) ==
    IF limits2 # None THEN constraints_validation(v, limits2)
    ELSE IF limits1 # None THEN constraints_validation(v, limits1)
    ELSE type # None => datatype_constraints_validation(v, type)

method_parameters_constraints_validation(arguments, parameters) ==
    \A p \in parameters :
        /\ p.name \in DOMAIN arguments
        /\ Acceptable(arguments[p.name], None, p.limits, p.type)

-----------------------------------------------------------------------------
(* Actions *)

Array(items) == [is |-> "array", items |-> items]

Init ==
    /\ property \in Property
    /\ runtime \in Runtime \cup {None}
    /\ item \in IF property.sequence THEN {Array(<<>>)} \cup (IF property.nullable THEN {Null} ELSE {})
              ELSE {Null}
    /\ result = "none"

Answer(v, accepted, changed) ==
    /\ result' = IF accepted THEN "ok" ELSE "parameter error"
    /\ item' = IF accepted THEN changed ELSE item
    /\ UNCHANGED <<property, runtime>>

Refuse(why) == result' = why /\ UNCHANGED <<property, runtime, item>>

\* set: null is an acceptable value of a property that is nullable only if the constraints
\* and the type say so too.
Set(v) ==
    IF property.readOnly THEN Refuse("read only")
    ELSE IF \/ v = Null /\ ~property.nullable
            \/ property.sequence # (v.is = "array") THEN Refuse("parameter error")
    ELSE IF property.enabled /\ v.is # "boolean" THEN Refuse("not a boolean")
    ELSE IF property.enabled /\ ~v.value THEN Refuse("invalid request")
    ELSE Answer(v, Acceptable(v, runtime, property.limits, property.type), v)

\* The methods for one item of a sequence.  An item that is an array is not refused as such.
SetSequenceItem(index, v) ==
    IF property.readOnly THEN Refuse("read only")
    ELSE IF item = Null \/ ~property.sequence THEN Refuse("invalid request")
    ELSE IF index > Len(item.items) THEN Refuse("index out of bounds")
    ELSE Answer(v, Acceptable(v, runtime, property.limits, property.type),
                [item EXCEPT !.items[index] = v])

AddSequenceItem(v) ==
    IF property.readOnly THEN Refuse("read only")
    ELSE IF ~property.sequence THEN Refuse("invalid request")
    ELSE LET items == IF item = Null THEN <<>> ELSE item.items
         IN  /\ Len(items) < MaxItems
             /\ Answer(v, Acceptable(v, runtime, property.limits, property.type), Array(Append(items, v)))

\* Any other method: its arguments are validated before it is called.
Call(parameters, arguments) ==
    /\ result' = IF method_parameters_constraints_validation(arguments, parameters)
                 THEN "ok" ELSE "parameter error"
    /\ UNCHANGED <<property, runtime, item>>

Next ==
    \/ \E v \in Value : Set(v) \/ AddSequenceItem(v)
    \/ \E v \in Value : \E index \in 1..MaxItems : SetSequenceItem(index, v)
    \/ \E parameters \in Methods : \E arguments \in Arguments : Call(parameters, arguments)

Spec == Init /\ [][Next]_constraintsVars

-----------------------------------------------------------------------------
(* Properties *)

TypeOK ==
    /\ property \in Property
    /\ runtime \in Runtime \cup {None}
    /\ item.is \in {"null", "boolean", "number", "string", "object", "array"}
    /\ item # Null => (property.sequence <=> item.is = "array")
    /\ result \in {"none", "ok", "read only", "parameter error", "invalid request",
                   "not a boolean", "index out of bounds"}

\* What the name of a primitive type says, and what the code makes of it
Numbers(name) ==
    CASE name = "NcInt16"  -> -(2^(Bits.short - 1))..(2^(Bits.short - 1) - 1)
      [] name = "NcInt32"  -> -(2^(Bits.int - 1))..(2^(Bits.int - 1) - 1)
      [] name = "NcInt64"  -> -(2^(Bits.long - 1))..(2^(Bits.long - 1) - 1)
      [] name = "NcUint16" -> 0..(2^Bits.short - 1)
      [] name = "NcUint32" -> 0..(2^Bits.int - 1)
      [] name = "NcUint64" -> 0..(2^Bits.long - 1)

Wide == {"NcInt32", "NcInt64", "NcUint32", "NcUint64"}
Short == {"NcInt16", "NcUint16"}

RECURSIVE HasType(_, _)
HasType(v, type) ==
    CASE type.kind = "primitive" ->
            /\ type.name \in Wide => Integral(v) /\ v.n \in Numbers(type.name)
            /\ type.name \in Short => v.is = "number"
                                      /\ \E n \in Numbers(type.name) : (Truncated(v) - n) % 2^Bits.int = 0
            /\ type.name \in {"NcFloat32", "NcFloat64"} => v.is = "number"
            /\ type.name = "NcBoolean" => v.is = "boolean"
            /\ type.name = "NcString" => v.is = "string"
      [] type.kind = "enum" -> \E n \in type.values : v = Num(n)
      [] type.kind = "typedef" -> type.limits = None => HasType(v, type.parent)
      [] type.kind = "struct" ->
            \A field \in type.fields :
                LET value == v.fields[field.name]
                IN  \/ value = Null /\ field.nullable
                    \/ field.type # None =>
                         \A i \in DOMAIN Elements(value) : HasType(Elements(value)[i], field.type)

\* Without constraints on a property, whatever it is set to is of its declared type, nested
\* fields included, and every item that was added or replaced in a sequence is, too.  A 16-bit
\* integer is one by its low 32 bits only (datatype_constraints_validation).
TypeKept ==
    property.limits = None /\ runtime = None /\ property.type # None =>
        \/ item = Null
        \/ \A i \in DOMAIN Elements(item) :
              \A j \in DOMAIN Elements(Elements(item)[i]) :
                  HasType(Elements(Elements(item)[i])[j], property.type)

\* A value is accepted for a primitive type just when it is of it, but for an integral number
\* for NcFloat64 (primitive_validation).
TypesAgree ==
    property.type # None /\ property.type.kind = "primitive" =>
        \A v \in {w \in Value : w.is # "array"} :
            Acceptable(v, None, None, property.type) <=>
                /\ HasType(v, property.type)
                /\ property.type.name = "NcFloat64" => ~Integral(v)

\* The numbers that limits leave
Left(limits) ==
    {n \in -(2^(Bits.long - 1))..(2^Bits.long - 1) :
        /\ limits.minimum # None => n >= limits.minimum
        /\ limits.maximum # None => n <= limits.maximum
        /\ limits.step # None =>
              \E k \in -(2^Bits.long)..(2^Bits.long) :
                  n = k * limits.step + (IF limits.minimum # None THEN limits.minimum
                                         ELSE IF limits.maximum # None THEN limits.maximum ELSE 0)}

Obeys(v, limits) ==
    IF limits.characters # None \/ limits.pattern # None
    THEN v.is = "string" /\ (limits.characters # None => v.length <= limits.characters)
                         /\ (limits.pattern # None => v.matches)
    ELSE \E n \in Left(limits) : v = Num(n)

\* The most specific constraints hold for everything the property is set to: the runtime
\* constraints, or else those of the property (constraints_validation of three levels).
LimitsKept ==
    LET limits == IF runtime # None THEN runtime ELSE property.limits
    IN  limits \notin {None, NoLimits} =>
            \/ item = Null
            \/ \A i \in DOMAIN Elements(item) :
                  \A j \in DOMAIN Elements(Elements(item)[i]) :
                      Obeys(Elements(Elements(item)[i])[j], limits)

\* A property that is read-only never changes, whatever method is called, and a status
\* monitor stays enabled (set, set_sequence_item, add_sequence_item).
Protected ==
    /\ property.readOnly => item \in {Null, [is |-> "array", items |-> <<>>]}
    /\ property.enabled => item # [is |-> "boolean", value |-> FALSE]

=============================================================================
