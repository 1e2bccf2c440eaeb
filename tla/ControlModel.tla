---------------------------- MODULE ControlModel ----------------------------
(***************************************************************************)
(* The device model of the control protocol (IS-12) while it is made and   *)
(* while it is asked about.  The example node registers its own classes    *)
(* and datatypes, makes a tree of objects, and inserts it in the model one *)
(* object at a time, the members of a block before the block               *)
(* (nmos-cpp-node/node_implementation.cpp).  The model is not locked in    *)
(* between, so clients may ask about what is there already                 *)
(* (nmos/control_protocol_methods.cpp, control_protocol_utils.cpp).  The   *)
(* user's code may erase what was registered, at any time.                 *)
(*                                                                         *)
(* The class manager answers about a class or a datatype with everything   *)
(* inherited.  It reads the registered descriptors one at a time, and they *)
(* have a lock of their own.                                               *)
(***************************************************************************)
EXTENDS ControlClasses, FiniteSets, SequencesExt

CONSTANTS
    HowMany,    \* the receivers, and the senders, of the example node
    ErasableClasses, ErasableTypes,     \* what the user may erase
    AskedClasses, AskedTypes            \* what clients ask about

VARIABLES
    classes,    \* the class ids that are registered
    types,      \* the names of the datatypes that are registered
    objects,    \* the objects in the model: a function from oids
    setup,      \* how many of the objects have been inserted; 0 before all
    manager,    \* what the class manager lists
    query,      \* the question being answered
    erased      \* whether the user has erased something

vars == <<classes, types, objects, setup, manager, query, erased>>

-----------------------------------------------------------------------------
(* Classes and datatypes of the example node *)

Flagged(level, names, type, flags) ==
    {P(level, n[1], n[2], type, flags) : n \in names}

GainControl == Class({P(3, 1, "gainValue", "NcFloat32", RW)}, {}, {})

ExampleControl ==
    Class(Flagged(3, {<<3, "numberProperty">>, <<4, "deprecatedNumberProperty">>}, "NcUint64", RW)
          \cup Flagged(3, {<<7, "methodNoArgsCount">>, <<8, "methodSimpleArgsCount">>,
                           <<9, "methodObjectArgCount">>}, "NcUint64", R)
          \cup {P(3, 1, "enumProperty", "ExampleEnum", RW),
                P(3, 2, "stringProperty", "NcString", RW),
                P(3, 5, "booleanProperty", "NcBoolean", RW),
                P(3, 6, "objectProperty", "ExampleDataType", RW),
                P(3, 10, "stringSequence", "NcString", {"sequence"}),
                P(3, 11, "booleanSequence", "NcBoolean", {"sequence"}),
                P(3, 12, "enumSequence", "ExampleEnum", {"sequence"}),
                P(3, 13, "numberSequence", "NcUint64", {"sequence"}),
                P(3, 14, "objectSequence", "ExampleDataType", {"sequence"})},
          {M(3, 1, "MethodNoArgs", "NcMethodResult", {}),
           M(3, 2, "MethodNoArgs", "NcMethodResult", {}),
           M(3, 3, "MethodSimpleArgs", "NcMethodResult",
             {F("enumArg", "ExampleEnum"), F("stringArg", "NcString"),
              F("numberArg", "NcUint64"), F("booleanArg", "NcBoolean")}),
           M(3, 4, "MethodObjectArg", "NcMethodResult", {F("objArg", "ExampleDataType")})},
          {})

TemperatureSensor ==
    Class({P(3, 1, "temperature", "NcFloat32", R), P(3, 2, "uint", "NcString", R)}, {}, {})

SenderControl ==
    Class({P(3, 1, "description", "NcString", R), P(3, 2, "resource_id", "NcUuid", R),
           P(3, 3, "label", "NcString", R), P(3, 4, "tags", "KeyValueStruct", RS),
           P(3, 5, "version", "NcVersionCode", R), P(3, 6, "caps", "KeyValueStruct", RNS),
           P(3, 7, "device_id", "NcUuid", RN), P(3, 8, "flow_id", "NcUuid", RN),
           P(3, 9, "interface_bindings", "NcString", RS),
           P(3, 10, "manifest_href", "NcUri", RN),
           P(3, 11, "subscription", "SubscriptionType", RN),
           P(3, 12, "transport", "NcString", RN)}, {}, {})

\* The vendor's classes have a 0, the authority key, after the class they derive from.
make_class_id(prefix, suffix) == prefix \o <<0>> \o suffix

Worker == <<1, 2>>
Gain == make_class_id(Worker, <<1>>)
Example == make_class_id(Worker, <<2>>)
Sensor == make_class_id(Worker, <<3>>)
OfSender == make_class_id(Worker, <<5>>)

ExampleClasses ==
    Gain     :> Registered(GainControl, NoRole, {}) @@
    Example  :> Registered(ExampleControl, NoRole, Links(3, 4)) @@
    Sensor   :> Registered(TemperatureSensor, NoRole, {}) @@
    OfSender :> Registered(SenderControl, NoRole, {})

ExampleTypes ==
    [ExampleEnum |-> Enum(0..3),
     ExampleDataType |-> Struct(NoParent, {F("enumProperty", "ExampleEnum"),
                                           F("stringProperty", "NcString"),
                                           F("numberProperty", "NcUint64"),
                                           F("booleanProperty", "NcBoolean")}),
     SubscriptionType |-> Struct(NoParent, {FN("active", "NcBoolean"), FN("receiver_id", "NcUuid")}),
     KeyValueStruct |-> Struct(NoParent, {FN("key", "NcString"),
                                          [FN("value", "NcString") EXCEPT !.flags = {"nullable", "sequence"}]})]

Classes == StandardClasses @@ ExampleClasses
Types == StandardTypes @@ ExampleTypes

\* The objects of the example's classes
MadeExamples ==
    Gain     :> With(JWorker, {"gainValue"}, {}) @@
    Example  :> With(JWorker, {"enumProperty", "stringProperty", "numberProperty",
                               "deprecatedNumberProperty", "booleanProperty", "objectProperty",
                               "methodNoArgsCount", "methodSimpleArgsCount", "methodObjectArgCount",
                               "stringSequence", "booleanSequence", "enumSequence",
                               "numberSequence", "objectSequence"}, {}) @@
    Sensor   :> With(JWorker, {"temperature", "uint"}, {}) @@
    OfSender :> With(JWorker, {"description", "resource_id", "label", "tags", "version", "caps",
                               "device_id", "flow_id", "interface_bindings", "manifest_href",
                               "subscription", "transport"},
                     {"device_id", "flow_id", "manifest_href", "subscription", "transport"})

Made == MadeObjects @@ MadeExamples

-----------------------------------------------------------------------------
(* The tree of objects *)

\* An object and the members it was given, in their order
Object(oid, owner, role, class, members) ==
    [oid |-> oid, owner |-> owner, role |-> role, class |-> class, members |-> members]

NoOwner == 0

Monitors(first, owner, prefix, class) ==
    [i \in 1..HowMany |-> Object(first + i - 1, owner, prefix \o ToString(i), class, <<>>)]

Block == <<1, 1>>

StereoGain ==
    Object(5, 1, "stereo-gain", Block,
           <<Object(6, 5, "channel-gain", Block,
                    <<Object(7, 6, "left-gain", Gain, <<>>),
                      Object(8, 6, "right-gain", Gain, <<>>)>>),
             Object(9, 5, "master-gain", Gain, <<>>)>>)

Root ==
    LET receivers == 11
        senders   == receivers + HowMany + 1
        controls  == senders + HowMany + 1
        sensor    == controls + HowMany + 1
    IN  Object(1, NoOwner, "root", Block,
           <<Object(receivers, 1, "receiver-monitors", Block,
                    Monitors(receivers + 1, receivers, "receiver-monitor", <<1, 2, 2, 1>>)),
             Object(senders, 1, "sender-monitors", Block,
                    Monitors(senders + 1, senders, "sender-monitor", <<1, 2, 2, 2>>)),
             Object(controls, 1, "sender-controls", Block,
                    Monitors(controls + 1, controls, "sender-control", OfSender)),
             Object(sensor, 1, "temperature-sensor", Sensor, <<>>),
             Object(10, 1, "ExampleControl", Example, <<>>),
             StereoGain,
             Object(3, 1, "ClassManager", <<1, 3, 2>>, <<>>),
             Object(2, 1, "DeviceManager", <<1, 3, 1>>, <<>>),
             Object(4, 1, "BulkPropertiesManager", <<1, 3, 3>>, <<>>)>>)

\* What a block keeps of a member (make_block_member_descriptor)
Descriptor(object) ==
    [oid |-> object.oid, role |-> object.role, class |-> object.class]

\* The objects below one in the order in which they are inserted: members come before blocks
RECURSIVE Below(_)
Below(object) ==
    FlattenSeq([i \in DOMAIN object.members |-> Append(Below(object.members[i]), object.members[i])])

Insertions == Append(Below(Root), Root)

-----------------------------------------------------------------------------
(* What is asked under the lock of the model, and the questions' answers *)

Ids(found) == {found[i].oid : i \in DOMAIN found}

\* Member descriptors of the blocks below an object that are in the model, if it has members
RECURSIVE get_member_descriptors(_, _)
get_member_descriptors(oid, recurse) ==
    LET members == objects[oid].members
        nested  == SelectSeq(members, LAMBDA m : recurse /\ m.class = Block /\ m.oid \in DOMAIN objects)
    IN  members \o FlattenSeq([i \in DOMAIN nested |-> get_member_descriptors(nested[i].oid, recurse)])

RECURSIVE find_members_by_role(_, _, _)
find_members_by_role(oid, role, recurse) ==
    LET members == objects[oid].members
        nested  == SelectSeq(members, LAMBDA m : recurse /\ m.class = Block /\ m.oid \in DOMAIN objects)
    IN  SelectSeq(members, LAMBDA m : m.role = role) \o
        FlattenSeq([i \in DOMAIN nested |-> find_members_by_role(nested[i].oid, role, recurse)])

RECURSIVE find_members_by_class_id(_, _, _, _)
find_members_by_class_id(oid, class, derived, recurse) ==
    LET members == objects[oid].members
        nested  == SelectSeq(members, LAMBDA m : recurse /\ m.class = Block /\ m.oid \in DOMAIN objects)
    IN  SelectSeq(members, LAMBDA m : IF derived THEN IsPrefix(class, m.class) ELSE m.class = class) \o
        FlattenSeq([i \in DOMAIN nested |->
                        find_members_by_class_id(nested[i].oid, class, derived, recurse)])

\* The member's oid, or what is no oid.  The code does not look whether the object that a
\* descriptor is of is there.
NotFound == 0
Undefined == -1

RECURSIVE find_members_by_path(_, _)
find_members_by_path(oid, path) ==
    IF path = <<>> THEN oid
    ELSE LET found == SelectSeq(objects[oid].members, LAMBDA m : m.role = Head(path))
         IN  IF found = <<>> THEN NotFound
             ELSE IF found[1].oid \notin DOMAIN objects THEN Undefined
             ELSE find_members_by_path(found[1].oid, Tail(path))

\* A role path begins with the root, and nothing is found before the root is there.  Here the
\* object is looked for.
find_resource_by_role_path(path) ==
    IF 1 \notin DOMAIN objects \/ path = <<>> THEN NotFound
    ELSE IF Head(path) # objects[1].role THEN NotFound
    ELSE LET found == find_members_by_path(1, Tail(path))
         IN  IF found = Undefined THEN NotFound ELSE found

\* A class id, its parent's and so on
Ancestry(class) == {SubSeq(class, 1, n) : n \in 1..Len(class)}

\* Is a class the other, or derived from it?
is_control_class(class, other) == class = SubSeq(other, 1, Len(class))

NoClass == <<>>

\* The nearest class that has a property, or a method, of this id and is registered
Nearest(found) ==
    IF found = {} THEN NoClass ELSE CHOOSE c \in found : \A d \in found : Len(d) <= Len(c)

find_property_descriptor(id, class) ==
    Nearest({c \in Ancestry(class) \cap classes : \E p \in Classes[c].class.properties : p.id = id})

find_method(id, class) ==
    Nearest({c \in Ancestry(class) \cap classes : \E m \in Classes[c].class.methods : m.id = id})

\* Has the object all properties of a class, and the class its methods?
validate_resource(class) ==
    /\ {p.name : p \in Classes[class].class.properties} \subseteq Made[class].fields
    /\ {m.id : m \in Classes[class].class.methods} \subseteq Classes[class].links

-----------------------------------------------------------------------------
(* Actions *)

\* What the class manager says of the classes and datatypes there are when it is made
make_class_manager(ids, names) == [classes |-> ids, types |-> names]

\* The library's constructor has registered the standard classes and datatypes.
NoQuery == [of |-> "nothing"]

Init ==
    /\ classes = DOMAIN StandardClasses
    /\ types = StandardTypeNames
    /\ objects = <<>>
    /\ setup = 0
    /\ manager = make_class_manager({}, {})
    /\ query = NoQuery
    /\ erased = FALSE

\* insert: what is there already is not replaced.
Insert(newClasses, newTypes) ==
    /\ classes' = classes \cup newClasses
    /\ types' = types \cup newTypes

\* node_implementation_init registers its own, and then makes the class manager, which lists
\* what is registered; all under the lock of the model.
RegisterExamples ==
    /\ setup = 0
    /\ setup' = 1
    /\ Insert(DOMAIN ExampleClasses, DOMAIN ExampleTypes)
    /\ manager' = make_class_manager(classes', types')
    /\ UNCHANGED <<objects, query, erased>>

\* insert_root_after: the next object is inserted, and the model unlocked.
InsertObject ==
    /\ setup \in 1..Len(Insertions)
    /\ LET object  == Insertions[setup]
           members == [i \in DOMAIN object.members |-> Descriptor(object.members[i])]
       IN  /\ object.oid \notin DOMAIN objects
           /\ objects' = objects @@ (object.oid :> [object EXCEPT !.members = members])
    /\ setup' = setup + 1
    /\ UNCHANGED <<classes, types, manager, query, erased>>

\* erase: the user's code may, once the node is set up.
Erase ==
    /\ setup > Len(Insertions)
    /\ ~erased
    /\ \/ \E id \in ErasableClasses : classes' = classes \ {id} /\ UNCHANGED types
       \/ \E name \in ErasableTypes : types' = types \ {name} /\ UNCHANGED classes
    /\ erased' = TRUE
    /\ UNCHANGED <<objects, setup, manager, query>>

\* A client's command to the class manager, GetControlClass or GetDatatype.  "at" is the
\* class or datatype to be read next; "got" are those of which the answer has the elements.
Ask ==
    /\ 3 \in DOMAIN objects
    /\ query = NoQuery
    /\ \/ \E id \in AskedClasses :
              query' = [of |-> "class", name |-> id, at |-> id, got |-> {}]
       \/ \E name \in AskedTypes :
              query' = [of |-> "datatype", name |-> name, at |-> name, got |-> {}]
    /\ UNCHANGED <<classes, types, objects, setup, manager, erased>>

\* get_control_class: a class that is not registered adds nothing.  One that was asked for is
\* found nevertheless: its descriptor, made of nothing, has a class id.
ReadClass ==
    /\ query.of = "class"
    /\ query.at # <<>>
    /\ query' = [query EXCEPT !.at = Front(@),
                              !.got = IF query.at \in classes THEN @ \cup {query.at} ELSE @]
    /\ UNCHANGED <<classes, types, objects, setup, manager, erased>>

\* get_datatype: only structs inherit.  When the parent is not registered the loop does not
\* go on to anything else: it reads the same parent again.
ReadDatatype ==
    /\ query.of = "datatype"
    /\ query.at # NoParent
    /\ \/ /\ query.at \in types
          /\ query' = [query EXCEPT !.at = IF Types[@].kind = "struct" THEN Types[@].parent ELSE NoParent,
                                    !.got = @ \cup {query.at}]
       \/ /\ query.at \notin types
          /\ query' = [query EXCEPT !.at = IF query.at = query.name THEN NoParent ELSE @]
    /\ UNCHANGED <<classes, types, objects, setup, manager, erased>>

Read == ReadClass \/ ReadDatatype

Answer ==
    /\ \/ query.of = "class" /\ query.at = <<>>
       \/ query.of = "datatype" /\ query.at = NoParent
    /\ query' = NoQuery
    /\ UNCHANGED <<classes, types, objects, setup, manager, erased>>

Next == RegisterExamples \/ InsertObject \/ Erase \/ Ask \/ Read \/ Answer

Spec == Init /\ [][Next]_vars

-----------------------------------------------------------------------------
(* Properties *)

TypeOK ==
    /\ classes \subseteq DOMAIN Classes
    /\ types \subseteq DOMAIN Types
    /\ DOMAIN objects \subseteq 1..Len(Insertions)
    /\ setup \in 0..(Len(Insertions) + 1)
    /\ manager.classes \subseteq DOMAIN Classes /\ manager.types \subseteq DOMAIN Types
    /\ query.of = "class" => query.name \in AskedClasses /\ query.got \subseteq Ancestry(query.name)
    /\ query.of = "datatype" => query.name \in AskedTypes /\ query.got \subseteq DOMAIN Types
    /\ erased \in BOOLEAN

\* The types that a class or a datatype names
ClassNames(class) ==
    {p.type : p \in class.properties} \cup {e.type : e \in class.events} \cup
    UNION {{m.result} \cup {f.type : f \in m.parameters} : m \in class.methods}

TypeNames(type) == {type.parent} \cup {f.type : f \in type.fields}

\* What the class manager lists is closed: whatever a class or datatype names is there too,
\* and the parent of every class, but for the 0 before a vendor's own number
\* (make_class_manager after the insertions of node_implementation_init).
ListClosed ==
    setup > 0 =>
        /\ \A c \in manager.classes :
              /\ ClassNames(Classes[c].class) \subseteq manager.types \cup {"any"}
              /\ Len(c) > 1 /\ c[Len(c)] # 0 /\ c[Len(c) - 1] # 0 => Front(c) \in manager.classes
        /\ \A t \in manager.types :
              TypeNames(Types[t]) \subseteq manager.types \cup {"any", NoParent}

\* Elements of different classes of one object are never confused: the level of an id is
\* that of the class it is defined by, so what is found by its id
\* (find_property_descriptor, make_get_control_protocol_method_descriptor_handler) is
\* defined once, and what is found by name is in the JSON of the object.
ElementsDistinct ==
    \A c \in classes : \A d \in Ancestry(c) \cap classes :
        /\ \A p \in Classes[d].class.properties : find_property_descriptor(p.id, c) = d
        /\ \A m \in Classes[d].class.methods : find_method(m.id, c) = d
        /\ c # d => {p.name : p \in Classes[c].class.properties} \cap
                    {p.name : p \in Classes[d].class.properties} = {}

\* An object has what its class and all classes it derives from say, its role is the fixed
\* one of its class, and it is not null where a class forbids it.
ObjectsAsDescribed ==
    \A o \in DOMAIN objects : \A c \in Ancestry(objects[o].class) \cap classes :
        LET made == Made[objects[o].class]
        IN  /\ {p.name : p \in Classes[c].class.properties} \subseteq made.fields
            /\ {m.id : m \in Classes[c].class.methods} \subseteq Classes[c].links
            /\ \A p \in Classes[c].class.properties :
                  p.name \in made.nulls => "nullable" \in p.flags
            /\ c = objects[o].class /\ Classes[c].role # NoRole => objects[o].role = Classes[c].role

\* All fields of a struct, inherited ones included
RECURSIVE AllFields(_)
AllFields(t) ==
    Types[t].fields \cup (IF Types[t].parent = NoParent THEN {} ELSE AllFields(Types[t].parent))

\* The JSON that the library makes of a datatype has the fields of its descriptor, and may be
\* null where the descriptor says so (the makers next to the make_*_datatype functions of
\* control_protocol_resource.cpp); and an enum has the values the code has for it.
JsonAsDescribed ==
    \A t \in types :
        /\ t \in DOMAIN MadeTypes =>
              /\ MadeTypes[t].fields = {f.name : f \in AllFields(t)}
              /\ MadeTypes[t].nulls \subseteq {f.name : f \in {g \in AllFields(t) : "nullable" \in g.flags}}
        /\ t \in DOMAIN CodeValues => Types[t].values = CodeValues[t]

\* The domains of the monitors (make_receiver_monitor_domains, make_sender_monitor_domains)
\* are of properties and fields that the monitors have.
DomainsExist ==
    \A c \in DOMAIN DomainProfiles : \A d \in DomainProfiles[c] :
        /\ Pending(d.prefix) \subseteq Made[c].fields
        /\ \A id \in {d.status, d.message, d.counter} : find_property_descriptor(id, c) # NoClass
        /\ \A p \in Classes[c].class.properties :
              /\ p.id = d.status => p.name = d.prefix \o "Status"
              /\ p.id = d.message => p.name = d.prefix \o "StatusMessage"
              /\ p.id = d.counter => p.name = d.prefix \o "StatusTransitionCounter"

\* Whenever the model is unlocked, the members of each block are in it, owned by the block
\* and with roles of their own, so a path never leads to an object that is not there.
TreeClosed ==
    \A o \in DOMAIN objects :
        LET members == objects[o].members
        IN  /\ \A i \in DOMAIN members :
                  /\ members[i].oid \in DOMAIN objects
                  /\ objects[members[i].oid].owner = o
                  /\ Descriptor(objects[members[i].oid]) = members[i]
                  /\ find_members_by_path(o, <<members[i].role>>) = members[i].oid
            /\ \A i, j \in DOMAIN members : members[i].role = members[j].role => i = j

\* The path from the root, by the owners
RECURSIVE RolePath(_)
RolePath(o) ==
    IF objects[o].owner = NoOwner THEN <<objects[o].role>>
    ELSE Append(RolePath(objects[o].owner), objects[o].role)

\* Once the root is there, every object is reached from it: by its path, among the members
\* of members, by its role and by its class or one that it derives from.
AllReached ==
    1 \in DOMAIN objects =>
        \A o \in DOMAIN objects \ {1} :
            LET object == objects[o]
            IN  /\ find_resource_by_role_path(RolePath(o)) = o
                /\ o \in Ids(get_member_descriptors(1, TRUE))
                /\ o \in Ids(find_members_by_role(1, object.role, TRUE))
                /\ o \in Ids(find_members_by_class_id(1, object.class, FALSE, TRUE))
                /\ \A c \in Ancestry(object.class) :
                      o \in Ids(find_members_by_class_id(1, c, TRUE, TRUE))

\* Unless the user erases something, an answer has the elements of everything that is
\* inherited, and reading them ends.
AnswersComplete ==
    ~erased =>
        /\ query.of = "datatype" => query.at \in types \cup {NoParent}
        /\ query.of = "class" /\ query.at = <<>> =>
              {c \in Ancestry(query.name) : c[Len(c)] # 0} \subseteq query.got
        /\ query.of = "datatype" /\ query.at = NoParent =>
              {f.name : f \in AllFields(query.name)} \subseteq
                  {f.name : f \in UNION {Types[t].fields : t \in query.got}}

=============================================================================
