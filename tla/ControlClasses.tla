--------------------------- MODULE ControlClasses ---------------------------
(***************************************************************************)
(* What a device says of itself in the control protocol: the descriptors   *)
(* of the standard classes and datatypes (nmos/control_protocol_resource   *)
(* .cpp), their registration (nmos/control_protocol_state.cpp), and the    *)
(* JSON that the library makes of each datatype and of the objects of      *)
(* each class, which is written by hand next to its descriptor.            *)
(*                                                                         *)
(* Abstracted: descriptions, constraints and the deprecation flag of       *)
(* descriptors; the values in the JSON, except that they may be null.      *)
(***************************************************************************)
EXTENDS Integers, Sequences, TLC

-----------------------------------------------------------------------------
(* Descriptors *)

\* What a property may be
R == {"readOnly"}
RN == {"readOnly", "nullable"}
RS == {"readOnly", "sequence"}
RNS == {"readOnly", "nullable", "sequence"}
RW == {}
N == {"nullable"}

P(level, index, name, type, flags) ==
    [id |-> <<level, index>>, name |-> name, type |-> type, flags |-> flags]

\* A field of a struct or a parameter of a method.  "any" is the type of those without one.
F(name, type) == [name |-> name, type |-> type, flags |-> {}]
FN(name, type) == [name |-> name, type |-> type, flags |-> {"nullable"}]
FS(name, type) == [name |-> name, type |-> type, flags |-> {"sequence"}]

M(level, index, name, result, parameters) ==
    [id |-> <<level, index>>, name |-> name, result |-> result, parameters |-> parameters]

E(level, index, name, type) == [id |-> <<level, index>>, name |-> name, type |-> type]

Class(properties, methods, events) ==
    [properties |-> properties, methods |-> methods, events |-> events]

NoParent == "none"

Datatype(kind, parent, fields, values) ==
    [kind |-> kind, parent |-> parent, fields |-> fields, values |-> values]

Primitive == Datatype("primitive", NoParent, {}, {})
Typedef(parent) == Datatype("typedef", parent, {}, {})
ListOf(parent) == Datatype("list", parent, {}, {})
Struct(parent, fields) == Datatype("struct", parent, fields, {})
Enum(values) == Datatype("enum", NoParent, {}, values)

-----------------------------------------------------------------------------
(* The standard classes *)

NcObject ==
    Class({P(1, 1, "classId", "NcClassId", R), P(1, 2, "oid", "NcOid", R),
           P(1, 3, "constantOid", "NcBoolean", R), P(1, 4, "owner", "NcOid", RN),
           P(1, 5, "role", "NcString", R), P(1, 6, "userLabel", "NcString", N),
           P(1, 7, "touchpoints", "NcTouchpoint", RNS),
           P(1, 8, "runtimePropertyConstraints", "NcPropertyConstraints", RNS)},
          {M(1, 1, "Get", "NcMethodResultPropertyValue", {F("id", "NcPropertyId")}),
           M(1, 2, "Set", "NcMethodResult", {F("id", "NcPropertyId"), FN("value", "any")}),
           M(1, 3, "GetSequenceItem", "NcMethodResultPropertyValue",
             {F("id", "NcPropertyId"), F("index", "NcId")}),
           M(1, 4, "SetSequenceItem", "NcMethodResult",
             {F("id", "NcPropertyId"), F("index", "NcId"), FN("value", "any")}),
           M(1, 5, "AddSequenceItem", "NcMethodResultId",
             {F("id", "NcPropertyId"), FN("value", "any")}),
           M(1, 6, "RemoveSequenceItem", "NcMethodResult",
             {F("id", "NcPropertyId"), F("index", "NcId")}),
           M(1, 7, "GetSequenceLength", "NcMethodResultLength", {F("id", "NcPropertyId")})},
          {E(1, 1, "PropertyChanged", "NcPropertyChangedEventData")})

NcBlock ==
    Class({P(2, 1, "enabled", "NcBoolean", R),
           P(2, 2, "members", "NcBlockMemberDescriptor", RS)},
          {M(2, 1, "GetMemberDescriptors", "NcMethodResultBlockMemberDescriptors",
             {F("recurse", "NcBoolean")}),
           M(2, 2, "FindMembersByPath", "NcMethodResultBlockMemberDescriptors",
             {F("path", "NcRolePath")}),
           M(2, 3, "FindMembersByRole", "NcMethodResultBlockMemberDescriptors",
             {F("role", "NcString"), F("caseSensitive", "NcBoolean"),
              F("matchWholeString", "NcBoolean"), F("recurse", "NcBoolean")}),
           M(2, 4, "FindMembersByClassId", "NcMethodResultBlockMemberDescriptors",
             {F("classId", "NcClassId"), F("includeDerived", "NcBoolean"),
              F("recurse", "NcBoolean")})}, {})

NcWorker ==
    Class({P(2, 1, "enabled", "NcBoolean", RW)}, {}, {})

NcManager ==
    Class({}, {}, {})

NcDeviceManager ==
    Class({P(3, 1, "ncVersion", "NcVersionCode", R),
           P(3, 2, "manufacturer", "NcManufacturer", R), P(3, 3, "product", "NcProduct", R),
           P(3, 4, "serialNumber", "NcString", R),
           P(3, 5, "userInventoryCode", "NcString", N),
           P(3, 6, "deviceName", "NcString", N), P(3, 7, "deviceRole", "NcString", N),
           P(3, 8, "operationalState", "NcDeviceOperationalState", R),
           P(3, 9, "resetCause", "NcResetCause", R), P(3, 10, "message", "NcString", RN)}, {}, {})

NcClassManager ==
    Class({P(3, 1, "controlClasses", "NcClassDescriptor", RS),
           P(3, 2, "datatypes", "NcDatatypeDescriptor", RS)},
          {M(3, 1, "GetControlClass", "NcMethodResultClassDescriptor",
             {F("classId", "NcClassId"), F("includeInherited", "NcBoolean")}),
           M(3, 2, "GetDatatype", "NcMethodResultDatatypeDescriptor",
             {F("name", "NcName"), F("includeInherited", "NcBoolean")})}, {})

NcStatusMonitor ==
    Class({P(3, 1, "overallStatus", "NcOverallStatus", R),
           P(3, 2, "overallStatusMessage", "NcString", RN),
           P(3, 3, "statusReportingDelay", "NcUint32", RW)}, {}, {})

NcReceiverMonitor ==
    Class({P(4, 1, "linkStatus", "NcLinkStatus", R),
           P(4, 2, "linkStatusMessage", "NcString", RN),
           P(4, 3, "linkStatusTransitionCounter", "NcUint64", R),
           P(4, 4, "connectionStatus", "NcConnectionStatus", R),
           P(4, 5, "connectionStatusMessage", "NcString", RN),
           P(4, 6, "connectionStatusTransitionCounter", "NcUint64", R),
           P(4, 7, "externalSynchronizationStatus", "NcSynchronizationStatus", R),
           P(4, 8, "externalSynchronizationStatusMessage", "NcString", RN),
           P(4, 9, "externalSynchronizationStatusTransitionCounter", "NcUint64", R),
           P(4, 10, "synchronizationSourceId", "NcString", RN),
           P(4, 11, "streamStatus", "NcStreamStatus", R),
           P(4, 12, "streamStatusMessage", "NcString", RN),
           P(4, 13, "streamStatusTransitionCounter", "NcUint64", R),
           P(4, 14, "autoResetCountersAndMessages", "NcBoolean", RW)},
          {M(4, 1, "GetLostPacketCounters", "NcMethodResultCounters", {}),
           M(4, 2, "GetLatePacketCounters", "NcMethodResultCounters", {}),
           M(4, 3, "ResetCountersAndMessages", "NcMethodResult", {})}, {})

NcSenderMonitor ==
    Class({P(4, 1, "linkStatus", "NcLinkStatus", R),
           P(4, 2, "linkStatusMessage", "NcString", RN),
           P(4, 3, "linkStatusTransitionCounter", "NcUint64", R),
           P(4, 4, "transmissionStatus", "NcTransmissionStatus", R),
           P(4, 5, "transmissionStatusMessage", "NcString", RN),
           P(4, 6, "transmissionStatusTransitionCounter", "NcUint64", R),
           P(4, 7, "externalSynchronizationStatus", "NcSynchronizationStatus", R),
           P(4, 8, "externalSynchronizationStatusMessage", "NcString", RN),
           P(4, 9, "externalSynchronizationStatusTransitionCounter", "NcUint64", R),
           P(4, 10, "synchronizationSourceId", "NcString", RN),
           P(4, 11, "essenceStatus", "NcEssenceStatus", R),
           P(4, 12, "essenceStatusMessage", "NcString", RN),
           P(4, 13, "essenceStatusTransitionCounter", "NcUint64", R),
           P(4, 14, "autoResetCountersAndMessages", "NcBoolean", RW)},
          {M(4, 1, "GetTransmissionErrorCounters", "NcMethodResultCounters", {}),
           M(4, 2, "ResetCountersAndMessages", "NcMethodResult", {})}, {})

NcIdentBeacon ==
    Class({P(3, 1, "active", "NcBoolean", RW)}, {}, {})

NcBulkPropertiesManager ==
    Class({}, {M(3, 1, "GetPropertiesByPath", "NcMethodResultBulkPropertiesHolder",
             {F("path", "NcRolePath"), F("recurse", "NcBoolean"),
              F("includeDescriptors", "NcBoolean")}),
           M(3, 2, "ValidateSetPropertiesByPath", "NcMethodResultObjectPropertiesSetValidation",
             {F("dataSet", "NcBulkPropertiesHolder"), F("path", "NcRolePath"),
              F("recurse", "NcBoolean"), F("restoreMode", "NcRestoreMode")}),
           M(3, 3, "SetPropertiesByPath", "NcMethodResultObjectPropertiesSetValidation",
             {F("dataSet", "NcBulkPropertiesHolder"), F("path", "NcRolePath"),
              F("recurse", "NcBoolean"), F("restoreMode", "NcRestoreMode")})}, {})

-----------------------------------------------------------------------------
(* The standard datatypes *)

\* The enumerations of the code, by the name of their datatypes
EnumValues ==
    [NcMethodStatus |-> {200, 298, 299, 400, 401, 404, 405, 406, 409, 413, 414, 417, 423,
                         500, 501, 502, 503, 504},
     NcDatatypeType |-> 0..3,
     NcDeviceGenericState |-> 0..5,
     NcResetCause |-> 0..5,
     NcConnectionStatus |-> 0..3,
     NcEssenceStatus |-> 0..3,
     NcLinkStatus |-> 1..3]

MoreEnumValues ==
    [NcOverallStatus |-> 0..3,
     NcSynchronizationStatus |-> 0..3,
     NcStreamStatus |-> 0..3,
     NcTransmissionStatus |-> 0..3,
     NcRestoreMode |-> 0..1,
     NcRestoreValidationStatus |-> {200, 400, 404, 500},
     NcPropertyRestoreNoticeType |-> {300, 400},
     NcPropertyChangeType |-> 0..3]

CodeValues == EnumValues @@ MoreEnumValues

Primitives ==
    [t \in {"NcBoolean", "NcInt16", "NcInt32", "NcInt64", "NcUint16", "NcUint32",
            "NcUint64", "NcFloat32", "NcFloat64", "NcString"} |-> Primitive]

DescriptorTypes ==
    [NcBlockMemberDescriptor |-> Struct("NcDescriptor",
         {F("role", "NcString"), F("oid", "NcOid"), F("constantOid", "NcBoolean"),
          F("classId", "NcClassId"), FN("userLabel", "NcString"), F("owner", "NcOid")}),
     NcClassDescriptor |-> Struct("NcDescriptor",
         {F("classId", "NcClassId"), F("name", "NcName"), FN("fixedRole", "NcString"),
          FS("properties", "NcPropertyDescriptor"), FS("methods", "NcMethodDescriptor"),
          FS("events", "NcEventDescriptor")}),
     NcClassId |-> ListOf("NcInt32"),
     NcDatatypeDescriptor |-> Struct("NcDescriptor",
         {F("name", "NcName"), F("type", "NcDatatypeType"),
          FN("constraints", "NcParameterConstraints")}),
     NcDatatypeDescriptorEnum |-> Struct("NcDatatypeDescriptor",
         {FS("items", "NcEnumItemDescriptor")}),
     NcDatatypeDescriptorPrimitive |-> Struct("NcDatatypeDescriptor", {}),
     NcDatatypeDescriptorStruct |-> Struct("NcDatatypeDescriptor",
         {FS("fields", "NcFieldDescriptor"), FN("parentType", "NcName")}),
     NcDatatypeDescriptorTypeDef |-> Struct("NcDatatypeDescriptor",
         {F("parentType", "NcName"), F("isSequence", "NcBoolean")}),
     NcDatatypeType |-> Enum(0..3),
     NcDescriptor |-> Struct(NoParent, {FN("description", "NcString")}),
     NcDeviceGenericState |-> Enum(0..5),
     NcDeviceOperationalState |-> Struct(NoParent,
         {F("generic", "NcDeviceGenericState"), FN("deviceSpecificDetails", "NcString")})]

MethodTypes ==
    [NcElementId |-> Struct(NoParent, {F("level", "NcUint16"), F("index", "NcUint16")}),
     NcEnumItemDescriptor |-> Struct("NcDescriptor",
         {F("name", "NcName"), F("value", "NcUint16")}),
     NcEventDescriptor |-> Struct("NcDescriptor",
         {F("id", "NcEventId"), F("name", "NcName"), F("eventDatatype", "NcName"),
          F("isDeprecated", "NcBoolean")}),
     NcEventId |-> Struct("NcElementId", {}),
     NcFieldDescriptor |-> Struct("NcDescriptor",
         {F("name", "NcName"), FN("typeName", "NcName"), F("isNullable", "NcBoolean"),
          F("isSequence", "NcBoolean"), FN("constraints", "NcParameterConstraints")}),
     NcId |-> Typedef("NcUint32"),
     NcManufacturer |-> Struct(NoParent,
         {F("name", "NcString"), FN("organizationId", "NcOrganizationId"),
          FN("website", "NcUri")}),
     NcMethodDescriptor |-> Struct("NcDescriptor",
         {F("id", "NcMethodId"), F("name", "NcName"), F("resultDatatype", "NcName"),
          FS("parameters", "NcParameterDescriptor"), F("isDeprecated", "NcBoolean")}),
     NcMethodId |-> Struct("NcElementId", {}),
     NcMethodResult |-> Struct(NoParent, {F("status", "NcMethodStatus")}),
     NcMethodResultBlockMemberDescriptors |-> Struct("NcMethodResult",
         {FS("value", "NcBlockMemberDescriptor")}),
     NcMethodResultClassDescriptor |-> Struct("NcMethodResult",
         {F("value", "NcClassDescriptor")})]

ResultTypes ==
    [NcMethodResultDatatypeDescriptor |-> Struct("NcMethodResult",
         {F("value", "NcDatatypeDescriptor")}),
     NcMethodResultError |-> Struct("NcMethodResult", {F("errorMessage", "NcString")}),
     NcMethodResultId |-> Struct("NcMethodResult", {F("value", "NcId")}),
     NcMethodResultLength |-> Struct("NcMethodResult", {FN("value", "NcUint32")}),
     NcMethodResultPropertyValue |-> Struct("NcMethodResult", {FN("value", "any")}),
     NcMethodStatus |-> Enum({200, 298, 299, 400, 401, 404, 405, 406, 409, 413, 414, 417,
             423, 500, 501, 502, 503, 504}),
     NcName |-> Typedef("NcString"),
     NcOid |-> Typedef("NcUint32"),
     NcOrganizationId |-> Typedef("NcInt32"),
     NcParameterConstraints |-> Struct(NoParent, {FN("defaultValue", "any")})]

ConstraintTypes ==
    [NcParameterConstraintsNumber |-> Struct("NcParameterConstraints",
         {FN("minimum", "any"), FN("maximum", "any"), FN("step", "any")}),
     NcParameterConstraintsString |-> Struct("NcParameterConstraints",
         {FN("maxCharacters", "NcUint32"), FN("pattern", "NcRegex")}),
     NcParameterDescriptor |-> Struct("NcDescriptor",
         {F("name", "NcName"), FN("typeName", "NcName"), F("isNullable", "NcBoolean"),
          F("isSequence", "NcBoolean"), FN("constraints", "NcParameterConstraints")}),
     NcProduct |-> Struct(NoParent,
         {F("name", "NcString"), F("key", "NcString"), F("revisionLevel", "NcString"),
          FN("brandName", "NcString"), FN("uuid", "NcUuid"),
          FN("description", "NcString")}),
     NcPropertyChangeType |-> Enum(0..3),
     NcPropertyChangedEventData |-> Struct(NoParent,
         {F("propertyId", "NcPropertyId"), F("changeType", "NcPropertyChangeType"),
          FN("value", "any"), FN("sequenceItemIndex", "NcId")}),
     NcPropertyConstraints |-> Struct(NoParent,
         {F("propertyId", "NcPropertyId"), FN("defaultValue", "any")}),
     NcPropertyConstraintsNumber |-> Struct("NcPropertyConstraints",
         {FN("minimum", "any"), FN("maximum", "any"), FN("step", "any")}),
     NcPropertyConstraintsString |-> Struct("NcPropertyConstraints",
         {FN("maxCharacters", "NcUint32"), FN("pattern", "NcRegex")}),
     NcPropertyDescriptor |-> Struct("NcDescriptor",
         {F("id", "NcPropertyId"), F("name", "NcName"), FN("typeName", "NcName"),
          F("isReadOnly", "NcBoolean"), F("isNullable", "NcBoolean"),
          F("isSequence", "NcBoolean"), F("isDeprecated", "NcBoolean"),
          FN("constraints", "NcParameterConstraints")})]

OtherTypes ==
    [NcPropertyId |-> Struct("NcElementId", {}),
     NcRegex |-> Typedef("NcString"),
     NcResetCause |-> Enum(0..5),
     NcRolePath |-> ListOf("NcString"),
     NcTimeInterval |-> Typedef("NcInt64"),
     NcTouchpoint |-> Struct(NoParent, {F("contextNamespace", "NcString")}),
     NcTouchpointNmos |-> Struct("NcTouchpoint", {F("resource", "NcTouchpointResourceNmos")}),
     NcTouchpointNmosChannelMapping |-> Struct("NcTouchpoint",
         {F("resource", "NcTouchpointResourceNmosChannelMapping")}),
     NcTouchpointResource |-> Struct(NoParent, {F("resourceType", "NcString")}),
     NcTouchpointResourceNmos |-> Struct("NcTouchpointResource", {F("id", "NcUuid")}),
     NcTouchpointResourceNmosChannelMapping |-> Struct("NcTouchpointResourceNmos",
         {F("ioId", "NcString")}),
     NcUri |-> Typedef("NcString"),
     NcUuid |-> Typedef("NcString"),
     NcVersionCode |-> Typedef("NcString")]

MonitorTypes ==
    [NcConnectionStatus |-> Enum(CodeValues["NcConnectionStatus"]),
     NcCounter |-> Struct(NoParent,
         {F("name", "NcString"), F("value", "NcUint64"), FN("description", "NcString")}),
     NcEssenceStatus |-> Enum(CodeValues["NcEssenceStatus"]),
     NcLinkStatus |-> Enum(CodeValues["NcLinkStatus"]),
     NcOverallStatus |-> Enum(CodeValues["NcOverallStatus"]),
     NcSynchronizationStatus |-> Enum(CodeValues["NcSynchronizationStatus"]),
     NcStreamStatus |-> Enum(CodeValues["NcStreamStatus"]),
     NcTransmissionStatus |-> Enum(CodeValues["NcTransmissionStatus"]),
     NcMethodResultCounters |-> Struct("NcMethodResult", {FS("value", "NcCounter")})]

ConfigurationTypes ==
    [NcRestoreMode |-> Enum(0..1),
     NcPropertyHolder |-> Struct(NoParent,
         {F("id", "NcPropertyId"), FN("descriptor", "NcPropertyDescriptor"),
          FN("value", "any")}),
     NcObjectPropertiesHolder |-> Struct(NoParent,
         {F("path", "NcRolePath"), FS("dependencyPaths", "NcRolePath"),
          FS("allowedMembersClasses", "NcClassId"), FS("values", "NcPropertyHolder"),
          F("isRebuildable", "NcBoolean")}),
     NcBulkPropertiesHolder |-> Struct(NoParent,
         {FN("validationFingerprint", "NcString"),
          FS("values", "NcObjectPropertiesHolder")}),
     NcRestoreValidationStatus |-> Enum({200, 400, 404, 500}),
     NcPropertyRestoreNoticeType |-> Enum(CodeValues["NcPropertyRestoreNoticeType"]),
     NcPropertyRestoreNotice |-> Struct(NoParent,
         {F("id", "NcPropertyId"), F("name", "NcName"),
          F("noticeType", "NcPropertyRestoreNoticeType"), F("noticeMessage", "NcString")}),
     NcObjectPropertiesSetValidation |-> Struct(NoParent,
         {F("path", "NcRolePath"), F("status", "NcRestoreValidationStatus"),
          FS("notices", "NcPropertyRestoreNotice"), FN("statusMessage", "NcString")}),
     NcMethodResultBulkPropertiesHolder |-> Struct("NcMethodResult",
         {F("value", "NcBulkPropertiesHolder")}),
     NcMethodResultObjectPropertiesSetValidation |-> Struct("NcMethodResult",
         {FS("value", "NcObjectPropertiesSetValidation")})]

StandardTypes ==
    Primitives @@ DescriptorTypes @@ MethodTypes @@ ResultTypes @@ ConstraintTypes @@
    OtherTypes @@ MonitorTypes @@ ConfigurationTypes

-----------------------------------------------------------------------------
(* Registration *)

Links(level, n) == {<<level, index>> : index \in 1..n}

Registered(class, role, links) == [class |-> class, role |-> role, links |-> links]

NoRole == "none"

\* The class, its fixed role and the methods that have a handler, for each class id
StandardClasses ==
    <<1>>          :> Registered(NcObject, NoRole, Links(1, 7)) @@
    <<1, 1>>       :> Registered(NcBlock, NoRole, Links(2, 4)) @@
    <<1, 2>>       :> Registered(NcWorker, NoRole, {}) @@
    <<1, 3>>       :> Registered(NcManager, NoRole, {}) @@
    <<1, 3, 1>>    :> Registered(NcDeviceManager, "DeviceManager", {}) @@
    <<1, 3, 2>>    :> Registered(NcClassManager, "ClassManager", Links(3, 2)) @@
    <<1, 2, 1>>    :> Registered(NcIdentBeacon, NoRole, {}) @@
    <<1, 2, 2>>    :> Registered(NcStatusMonitor, NoRole, {}) @@
    <<1, 2, 2, 1>> :> Registered(NcReceiverMonitor, NoRole, Links(4, 3)) @@
    <<1, 2, 2, 2>> :> Registered(NcSenderMonitor, NoRole, Links(4, 2)) @@
    <<1, 3, 3>>    :> Registered(NcBulkPropertiesManager, "BulkPropertiesManager", Links(3, 3))

StandardTypeNames ==
    {"NcBoolean", "NcInt16", "NcInt32", "NcInt64", "NcUint16", "NcUint32", "NcUint64",
     "NcFloat32", "NcFloat64", "NcString", "NcClassId", "NcOid", "NcTouchpoint",
     "NcElementId", "NcPropertyId", "NcPropertyConstraints", "NcMethodResultPropertyValue",
     "NcMethodStatus", "NcMethodResult", "NcId", "NcMethodResultId", "NcMethodResultLength",
     "NcPropertyChangeType", "NcPropertyChangedEventData", "NcDescriptor",
     "NcBlockMemberDescriptor", "NcMethodResultBlockMemberDescriptors", "NcVersionCode",
     "NcOrganizationId", "NcUri", "NcManufacturer", "NcUuid", "NcProduct",
     "NcDeviceGenericState", "NcDeviceOperationalState", "NcResetCause", "NcName",
     "NcPropertyDescriptor", "NcParameterDescriptor", "NcMethodId", "NcMethodDescriptor",
     "NcEventId", "NcEventDescriptor", "NcClassDescriptor", "NcParameterConstraints",
     "NcDatatypeType", "NcDatatypeDescriptor", "NcMethodResultClassDescriptor",
     "NcMethodResultDatatypeDescriptor", "NcMethodResultError", "NcDatatypeDescriptorEnum",
     "NcDatatypeDescriptorPrimitive", "NcDatatypeDescriptorStruct",
     "NcDatatypeDescriptorTypeDef", "NcEnumItemDescriptor", "NcFieldDescriptor",
     "NcPropertyConstraintsNumber", "NcPropertyConstraintsString", "NcRegex", "NcRolePath",
     "NcParameterConstraintsNumber", "NcParameterConstraintsString", "NcTimeInterval",
     "NcTouchpointNmos", "NcTouchpointNmosChannelMapping", "NcTouchpointResource",
     "NcTouchpointResourceNmos", "NcTouchpointResourceNmosChannelMapping",
     "NcConnectionStatus", "NcCounter", "NcEssenceStatus", "NcLinkStatus",
     "NcMethodResultCounters", "NcOverallStatus", "NcSynchronizationStatus",
     "NcStreamStatus", "NcTransmissionStatus", "NcRestoreMode", "NcPropertyHolder",
     "NcObjectPropertiesHolder", "NcBulkPropertiesHolder", "NcRestoreValidationStatus",
     "NcPropertyRestoreNoticeType", "NcPropertyRestoreNotice",
     "NcObjectPropertiesSetValidation", "NcMethodResultBulkPropertiesHolder",
     "NcMethodResultObjectPropertiesSetValidation"}

\* The status domains of the monitors: the ids of the properties, and the prefix of the
\* fields that are not properties
Profile(prefix, first) ==
    [prefix |-> prefix, status |-> <<4, first>>, message |-> <<4, first + 1>>,
     counter |-> <<4, first + 2>>]

DomainProfiles ==
    <<1, 2, 2, 1>> :> {Profile("externalSynchronization", 7), Profile("stream", 11),
                       Profile("connection", 4), Profile("link", 1)} @@
    <<1, 2, 2, 2>> :> {Profile("externalSynchronization", 7), Profile("essence", 11),
                       Profile("transmission", 4), Profile("link", 1)}

-----------------------------------------------------------------------------
(* The JSON that is made of each: its fields, and those that may be null *)

J(fields, nulls) == [fields |-> fields, nulls |-> nulls]

With(json, fields, nulls) == J(json.fields \cup fields, json.nulls \cup nulls)

JResult == J({"status"}, {})
JElementId == J({"level", "index"}, {})

MadeResults ==
    [NcMethodResult |-> JResult,
     NcMethodResultError |-> With(JResult, {"errorMessage"}, {}),
     NcMethodResultPropertyValue |-> With(JResult, {"value"}, {"value"}),
     NcElementId |-> JElementId,
     NcEventId |-> JElementId,
     NcMethodId |-> JElementId,
     NcPropertyId |-> JElementId]

MadeDevice ==
    [NcManufacturer |-> J({"name", "organizationId", "website"}, {"organizationId", "website"}),
     NcProduct |-> J({"name", "key", "revisionLevel", "brandName", "uuid", "description"},
                     {"brandName", "uuid", "description"}),
     NcDeviceOperationalState |-> J({"generic", "deviceSpecificDetails"},
                                    {"deviceSpecificDetails"})]

JDescriptor == J({"description"}, {"description"})

MadeDescriptors ==
    [NcDescriptor |-> JDescriptor,
     NcBlockMemberDescriptor |->
         With(JDescriptor, {"role", "oid", "constantOid", "classId", "userLabel", "owner"},
              {"userLabel"}),
     NcClassDescriptor |->
         With(JDescriptor, {"classId", "name", "fixedRole", "properties", "methods", "events"},
              {"fixedRole"}),
     NcEnumItemDescriptor |-> With(JDescriptor, {"name", "value"}, {}),
     NcEventDescriptor |-> With(JDescriptor, {"id", "name", "eventDatatype", "isDeprecated"}, {}),
     NcFieldDescriptor |->
         With(JDescriptor, {"name", "typeName", "isNullable", "isSequence", "constraints"},
              {"typeName", "constraints"})]

JDatatype == With(JDescriptor, {"name", "type", "constraints"}, {"constraints"})

MadeMoreDescriptors ==
    [NcMethodDescriptor |->
         With(JDescriptor, {"id", "name", "resultDatatype", "parameters", "isDeprecated"}, {}),
     NcParameterDescriptor |->
         With(JDescriptor, {"name", "typeName", "isNullable", "isSequence", "constraints"},
              {"typeName", "constraints"}),
     NcPropertyDescriptor |->
         With(JDescriptor, {"id", "name", "typeName", "isReadOnly", "isNullable", "isSequence",
                            "isDeprecated", "constraints"},
              {"typeName", "constraints"}),
     NcDatatypeDescriptor |-> JDatatype,
     NcDatatypeDescriptorEnum |-> With(JDatatype, {"items"}, {}),
     NcDatatypeDescriptorPrimitive |-> JDatatype,
     NcDatatypeDescriptorStruct |-> With(JDatatype, {"fields", "parentType"}, {"parentType"}),
     NcDatatypeDescriptorTypeDef |-> With(JDatatype, {"parentType", "isSequence"}, {})]

JPropertyConstraints == J({"propertyId", "defaultValue"}, {"defaultValue"})
JParameterConstraints == J({"defaultValue"}, {"defaultValue"})

ForNumbers(json) == With(json, {"minimum", "maximum", "step"}, {"minimum", "maximum", "step"})
ForStrings(json) == With(json, {"maxCharacters", "pattern"}, {"maxCharacters", "pattern"})

MadeConstraints ==
    [NcPropertyConstraints |-> JPropertyConstraints,
     NcPropertyConstraintsNumber |-> ForNumbers(JPropertyConstraints),
     NcPropertyConstraintsString |-> ForStrings(JPropertyConstraints),
     NcParameterConstraints |-> JParameterConstraints,
     NcParameterConstraintsNumber |-> ForNumbers(JParameterConstraints),
     NcParameterConstraintsString |-> ForStrings(JParameterConstraints)]

MadeTouchpoints ==
    [NcTouchpointResource |-> J({"resourceType"}, {}),
     NcTouchpointResourceNmos |-> J({"resourceType", "id"}, {}),
     NcTouchpointResourceNmosChannelMapping |-> J({"resourceType", "id", "ioId"}, {}),
     NcTouchpoint |-> J({"contextNamespace"}, {}),
     NcTouchpointNmos |-> J({"contextNamespace", "resource"}, {}),
     NcTouchpointNmosChannelMapping |-> J({"contextNamespace", "resource"}, {})]

MadeHolders ==
    [NcPropertyChangedEventData |-> J({"propertyId", "changeType", "value", "sequenceItemIndex"},
                                      {"value", "sequenceItemIndex"}),
     NcBulkPropertiesHolder |-> J({"validationFingerprint", "values"}, {}),
     NcPropertyHolder |-> J({"id", "descriptor", "value"}, {"descriptor", "value"}),
     NcObjectPropertiesHolder |-> J({"path", "dependencyPaths", "allowedMembersClasses",
                                     "values", "isRebuildable"}, {}),
     NcPropertyRestoreNotice |-> J({"id", "name", "noticeType", "noticeMessage"}, {}),
     NcObjectPropertiesSetValidation |-> J({"path", "status", "notices", "statusMessage"},
                                           {"statusMessage"})]

\* get_packet_counters
MadeCounters == [NcCounter |-> J({"name", "value", "description"}, {})]

MadeTypes ==
    MadeResults @@ MadeDevice @@ MadeDescriptors @@ MadeMoreDescriptors @@ MadeConstraints @@
    MadeTouchpoints @@ MadeHolders @@ MadeCounters

\* make_resource_core: what every resource has
Core == {"id", "version", "label", "description", "tags"}

JObject ==
    J({"classId", "oid", "constantOid", "owner", "role", "userLabel", "touchpoints",
       "runtimePropertyConstraints",
       "isRebuildable", "allowedMembersClasses", "dependencyPaths"},
      {"owner", "userLabel", "touchpoints", "runtimePropertyConstraints"})

JWorker == With(JObject, {"enabled"}, {})

\* The pending status of each domain is kept in the object, but is not a property of it.
Pending(prefix) ==
    {prefix \o "StatusPending", prefix \o "StatusMessagePending",
     prefix \o "StatusPendingReceivedTime"}

\* A status message is null after the monitor is reset.
WithDomain(json, prefix) ==
    With(json, {prefix \o "Status", prefix \o "StatusMessage",
                prefix \o "StatusTransitionCounter"} \cup Pending(prefix),
         {prefix \o "StatusMessage"})

JStatusMonitor ==
    With(JWorker, {"overallStatus", "overallStatusMessage", "statusReportingDelay"},
         {"overallStatusMessage"})

JMonitor ==
    With(WithDomain(WithDomain(JStatusMonitor, "link"), "externalSynchronization"),
         {"synchronizationSourceId", "autoResetCountersAndMessages", "monitorActivationTime"},
         {"synchronizationSourceId"})

JReceiverMonitor == WithDomain(WithDomain(JMonitor, "connection"), "stream")

JSenderMonitor == WithDomain(WithDomain(JMonitor, "transmission"), "essence")

JDeviceManager ==
    With(JObject, {"ncVersion", "manufacturer", "product", "serialNumber", "userInventoryCode",
                   "deviceName", "deviceRole", "operationalState", "resetCause", "message"},
         {"userInventoryCode", "deviceName", "deviceRole", "message"})

MadeObjects ==
    <<1, 1>>       :> With(JObject, {"enabled", "members"}, {}) @@
    <<1, 2>>       :> JWorker @@
    <<1, 2, 1>>    :> With(JWorker, {"active"}, {}) @@
    <<1, 2, 2, 1>> :> JReceiverMonitor @@
    <<1, 2, 2, 2>> :> JSenderMonitor @@
    <<1, 3>>       :> JObject @@
    <<1, 3, 1>>    :> JDeviceManager @@
    <<1, 3, 2>>    :> With(JObject, {"controlClasses", "datatypes"}, {}) @@
    <<1, 3, 3>>    :> JObject

=============================================================================
