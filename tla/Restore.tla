------------------------------ MODULE Restore ------------------------------
(***************************************************************************)
(* Restoring a block of the device model from a backup data set (IS-14):   *)
(* apply_backup_data_set of nmos/configuration_utils.cpp, which validates  *)
(* a data set as well as restoring it.                                     *)
(*                                                                         *)
(* A device is a rebuildable block and its members: the objects, by oid,   *)
(* and the members that the block lists.  Each of the members is a worker  *)
(* with a sequence that may be set and a property that is read-only.       *)
(*                                                                         *)
(* Abstracted: labels, owners, touchpoints and the wording of notices; the *)
(* constraints of properties; duplicates of a role in one data set.  What  *)
(* the user's callbacks decide is the same for all members of one restore. *)
(***************************************************************************)
EXTENDS Integers, SequencesExt

CONSTANTS
    Role,           \* the roles of members
    Block,          \* the oid of the block
    Rebuildable,    \* roles of members that are rebuildable themselves
    None            \* no holder of properties for a role in a data set

\* A data set: its mode, the members of the block, in order, and the holder of
\* properties for each role, which may lack a class id.  It may contradict itself.
BackupRoles(data) == {m.role : m \in Range(data.members)}

Roles(members) == {m.role : m \in members}

\* nmos::nc::find_resource_by_role_path, for a member of the block
MemberAt(device, role) == CHOOSE m \in device.members : m.role = role

Reachable(device, role) ==
    role \in Roles(device.members) /\ MemberAt(device, role).oid \in DOMAIN device.objects

\* is_block_modified
Modified(device, data) == device.members # Range(data.members)

-----------------------------------------------------------------------------
(* modify_rebuildable_block *)

\* What it keeps: the objects, the oids removed and the members added, the status
\* of each role in the reply, the holders still to be used, whether there are error
\* notices for the block, and whether an exception has been thrown.
Begun(device, data) ==
    [objects  |-> device.objects,
     removed  |-> {},
     added    |-> {},
     statuses |-> [k \in Role |-> "none"],
     holders  |-> {k \in Role : data.holders[k] # None},
     errors   |-> FALSE,
     thrown   |-> FALSE]

\* A member whose role is not in the data set is removed, unless it cannot be found
\* or the user's code refuses.
Removed(member, callback, validate, made) ==
    IF member.oid \notin DOMAIN made.objects \/ ~callback.removes
    THEN [made EXCEPT !.errors = TRUE]
    ELSE IF validate THEN made
    ELSE [made EXCEPT !.objects = Restrict(@, DOMAIN @ \ {member.oid}),
                      !.removed = @ \cup {member.oid}]

\* The oid of a new member: its own or the least one above all oids.  The latter is
\* looked for among all resources, and a subscription or grain of a session, which
\* has no oid, makes that throw.
NewOid(member, made) ==
    IF member.constant THEN member.oid ELSE 1 + Max({Block} \cup DOMAIN made.objects)

InUse(member, made) == member.constant /\ member.oid \in {Block} \cup DOMAIN made.objects

\* A member whose role is not in the block is added, by the user's code, unless
\* something is wrong with it; its holder is not used again.
Added(member, holder, callback, sessions, validate, born, made) ==
    LET role == member.role
        oid  == NewOid(member, made)
        Replied(status, errors) ==
            [made EXCEPT !.statuses[role] = status, !.holders = @ \ {role}, !.errors = @ \/ errors]
    IN
    CASE made.thrown                    -> made
      [] holder = None                  -> Replied("failed", FALSE)
      [] InUse(member, made)            -> Replied("device_error", TRUE)
      [] ~member.constant /\ sessions   -> [made EXCEPT !.thrown = TRUE]
      [] ~holder.class                  -> Replied("failed", TRUE)
      [] ~callback.creates              -> Replied("device_error", FALSE)
      [] validate                       -> Replied("ok", FALSE)
      [] OTHER ->
            [Replied("ok", FALSE) EXCEPT
                !.objects = @ @@ (oid :> [role |-> role, items |-> holder.items,
                                          fixed |-> holder.fixed, born |-> born]),
                !.added = @ \cup {[member EXCEPT !.oid = oid]}]

\* Mistaken: the block is only updated when it has new members.
MembersIfAdded(device, made) ==
    IF made.added = {} THEN device.members
    ELSE {m \in device.members : m.oid \notin made.removed} \cup made.added

\* The members of the block afterwards
MembersAfter(device, made) ==
    IF made.thrown THEN device.members
    ELSE {m \in device.members : m.oid \notin made.removed} \cup made.added

Rebuilt(device, data, callback, sessions, validate, born) ==
    LET gone == {m \in device.members : m.role \notin BackupRoles(data)}
        new  == SelectSeq(data.members, LAMBDA m : m.role \notin Roles(device.members))
        left == FoldSet(LAMBDA m, made : Removed(m, callback, validate, made), Begun(device, data), gone)
    IN  FoldLeft(LAMBDA made, m : Added(m, data.holders[m.role], callback, sessions, validate, born, made),
                 left, new)

-----------------------------------------------------------------------------
(* modify_device_model_object *)

\* A read-only property is only changed in a rebuild of a rebuildable object, which
\* is an error otherwise, and when the user's code allows it.
ReadOnly(object, holder, role, mode) ==
    holder.fixed # object.fixed /\ (mode # "rebuild" \/ role \notin Rebuildable)

Changed(object, holder, role, mode, callback) ==
    [object EXCEPT
        !.items = holder.items,
        !.fixed = IF callback.allows /\ ~ReadOnly(object, holder, role, mode) THEN holder.fixed ELSE @]

\* What remains of the holders is used for the objects there are.
Applied(role, data, callback, validate, members, made) ==
    LET oid    == MemberAt([members |-> members], role).oid
        holder == data.holders[role]
        object == made.objects[oid]
    IN
    IF ~Reachable([members |-> members, objects |-> made.objects], role)
    THEN [made EXCEPT !.statuses[role] = "not_found"]
    ELSE [made EXCEPT
            !.statuses[role] = IF ReadOnly(object, holder, role, data.mode) THEN "failed" ELSE "ok",
            !.objects[oid] = IF validate THEN @ ELSE Changed(@, holder, role, data.mode, callback)]

-----------------------------------------------------------------------------
(* apply_backup_data_set: the block, and then its members *)

\* The device and the reply; "sessions" are there if somebody uses the control
\* protocol, and objects are "born" in this restore.
Restored(device, data, callback, sessions, validate, born) ==
    LET rebuilds == data.mode = "rebuild" /\ Modified(device, data)
        made     == IF rebuilds THEN Rebuilt(device, data, callback, sessions, validate, born)
                    ELSE Begun(device, data)
        members  == MembersAfter(device, made)
        done     == IF made.thrown THEN made
                    ELSE FoldSet(LAMBDA k, m : Applied(k, data, callback, validate, members, m),
                                 made, made.holders)
    IN  [device   |-> [objects |-> done.objects, members |-> members],
         \* the members of a block are a read-only property
         block    |-> IF done.errors \/ (Modified(device, data) /\ ~rebuilds) THEN "failed" ELSE "ok",
         statuses |-> done.statuses,
         thrown   |-> done.thrown]

-----------------------------------------------------------------------------
(* Properties of a restore *)

\* Each member of the block is an object of its role, and each object a member.
Intact(device) ==
    /\ {m.oid : m \in device.members} = DOMAIN device.objects
    /\ \A m \in device.members : device.objects[m.oid].role = m.role

\* The data set does not contradict itself: oids are different, a holder is for a
\* member, and no oid that is generated can be that of another new member.
Consistent(device, data) ==
    LET new == {m \in Range(data.members) : m.role \notin Roles(device.members)} IN
    /\ \A m, n \in Range(data.members) : m.oid = n.oid => m = n
    /\ {k \in Role : data.holders[k] # None} \subseteq BackupRoles(data)
    /\ \A m, n \in new : m.constant = n.constant

\* Nothing is reported to be wrong.
Faultless(result) ==
    /\ ~result.thrown
    /\ result.block = "ok"
    /\ \A k \in Role : result.statuses[k] \in {"none", "ok"}

\* A restore does what it reports, unless it ends by an exception: the block stays
\* intact, or as it was; a role is there afterwards if and only if it was or has been
\* added, and has not been removed; a member that is reported "ok" is as its holder
\* says; and members without a holder are left alone.
Honoured(device, data, result) ==
    LET after == result.device
        Was(k) == k \in Roles(device.members)
        Is(k)  == k \in Roles(after.members)
    IN
    /\ Intact(device) => Intact(after)
    /\ \A k \in Role :
        /\ Is(k) /\ ~Was(k) => result.statuses[k] = "ok"
        /\ Was(k) /\ ~Is(k) => k \notin BackupRoles(data)
        /\ result.statuses[k] = "ok" =>
            Reachable(after, k) /\ after.objects[MemberAt(after, k).oid].items = data.holders[k].items
        /\ Reachable(device, k) /\ Is(k) /\ data.holders[k] = None =>
            after.objects[MemberAt(after, k).oid] = device.objects[MemberAt(device, k).oid]
    /\ result.block = "ok" => Roles(after.members) \subseteq BackupRoles(data)

\* A data set that is validated without a fault is restored without one.
Foretold(device, data, validated, result) ==
    Consistent(device, data) /\ Faultless(validated) => Faultless(result)

=============================================================================
