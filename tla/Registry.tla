------------------------------ MODULE Registry ------------------------------
(***************************************************************************)
(* What administrators and relay nodes keep up to date: devices with their *)
(* status, relays with their status and health, user groups with their     *)
(* members, address books with their entries, control roles with their     *)
(* permissions, and the sections of the system settings.                   *)
(*                                                                         *)
(* The memory store changes a row, and copies it for the answer, under its *)
(* mutex.  MySQL changes it in one statement or transaction and reads it   *)
(* again in another, a control role in two; the audit event and the answer *)
(* are made from what was read, and any request may change the row in      *)
(* between.  A settings request is audited first and reads the settings    *)
(* for its answer afterwards; address books are not audited.  The clock is *)
(* read before the statement that stores it; its unit is the second, in    *)
(* which the TIMESTAMP columns count.                                      *)
(*                                                                         *)
(* Abstractions.  Requests about different things touch no common state,   *)
(* so all requests of a behavior are about those its deployment names.     *)
(* One label stands for the fields a request always replaces (names,       *)
(* addresses, ports, versions), a permission for its key and mode.         *)
(* Requests whose body is refused, among them a RustDesk id or a name that *)
(* MySQL's unique keys refuse, change nothing and are left out, as are the *)
(* lists.  A device's registration differs from its creation in the name   *)
(* of the audit event only.                                                *)
(*                                                                         *)
(* Updates and heartbeats are asked for a status there is; a creation is   *)
(* not, and only MySQL's ENUM refuses another.  Left out are the strings   *)
(* MySQL takes for a listed status, which differ from it in case, and the  *)
(* sessions and health that a creation may name to the memory store.       *)
(***************************************************************************)
EXTENDS Integers, Sequences

CONSTANTS
  Calls,        \* HTTP requests; each is handled once
  Devices,      \* ids of devices, relays, user groups, address books, control
  Relays,       \* roles and sections of the settings
  Groups,
  Books,
  Roles,
  Sections,
  Users,        \* ids of users
  Strangers,    \* user and device ids without a row
  Permissions,
  Keys,         \* the keys of a section
  Values,       \* their values, among them
  Preset,       \* the default
  Others,       \* strings that are no status
  None,         \* an absent row, an absent field
  Requests,     \* what a call may ask for
  Deployments,  \* the stores, and what the requests are about
  Faulty,       \* the calls whose accesses to MySQL may fail
  MaxTime       \* bound on the clock

Rows == Devices \cup Relays
Sets == Groups \cup Books
Ids == Rows \cup Sets \cup Roles \cup Sections

Statuses(id) ==
  IF id \in Devices THEN {"online", "offline", "disabled"}
  ELSE {"active", "degraded", "offline", "disabled"}

Default(id) == IF id \in Devices THEN "offline" ELSE "active"

RowOps == {"create", "update", "heartbeat", "disable"}
GroupOps == {"create_group", "add_member", "remove_member"}
BookOps == {"create_book", "add_entry", "remove_entry"}
RoleOps == {"create_role", "update_role", "delete_role"}

(* An entry is known by the request, and the place in it, that made it *)
Places == {1} \cup UNION {DOMAIN r.devices :
                           r \in {x \in Requests : x.op \in {"create_book", "add_entry"}}}
Entry == [by : Calls \cup {None}, nth : Places, device : Devices \cup Strangers]

Strings == UNION {Statuses(id) : id \in Rows} \cup Others

Row == [status : Strings, label : Nat,
        sessions : Nat, health : Nat \cup {None}, updated : Nat]

Role == [enabled : BOOLEAN, permissions : SUBSET Permissions]

(* The values come under keys that are equal once trimmed; one is written *)
ASSUME RequestAssumption ==
  \A r \in Requests :
    \/ /\ r.op \in RowOps /\ r.id \in Rows
       /\ r.status \in {None} \cup (IF r.op = "create" THEN Strings ELSE Statuses(r.id))
       /\ r.op \in {"create", "update"} => r.label \in Nat
       /\ r.op = "heartbeat" =>
            r.id \in Relays /\ r.status # "disabled" /\ r.sessions \in Nat \cup {None}
    \/ /\ r.op \in GroupOps /\ r.id \in Groups /\ r.users \subseteq Users \cup Strangers
       /\ r.op # "create_group" => \E u \in r.users : r.users = {u}
    \/ /\ r.op \in {"create_book", "add_entry"} /\ r.id \in Books
       /\ r.devices \in Seq(Devices \cup Strangers)
       /\ r.op = "add_entry" => Len(r.devices) = 1
    \/ r.op = "remove_entry" /\ r.id \in Books /\ r.entry \in Entry
    \/ r.op \in {"create_role", "update_role"} /\ r.id \in Roles
       /\ r.role \in Role
    \/ r.op = "delete_role" /\ r.id \in Roles
    \/ r.op = "put" /\ r.id \in Sections
       /\ DOMAIN r.values \in SUBSET Keys \ {{}}
       /\ \A k \in DOMAIN r.values : r.values[k] \in SUBSET Values \ {{}}

(* An id tells what it is of; nothing there is to be absent is None *)
ASSUME NameAssumption ==
  /\ Devices \cap Relays = {} /\ Groups \cap Books = {}
  /\ Rows \cap (Sets \cup Roles \cup Sections) = {}
  /\ Sets \cap (Roles \cup Sections) = {} /\ Roles \cap Sections = {}
  /\ None \notin Row \cup Role \cup Values \cup Strings
  /\ None # "not_found"
  /\ \A set \in (SUBSET Entry) \cup (SUBSET (Users \cup Strangers)) \cup (SUBSET Keys) :
       set # None

ASSUME ParameterAssumption ==
  /\ Deployments \subseteq [mysql : BOOLEAN, about : SUBSET Ids]
  /\ Faulty \subseteq Calls
  /\ Preset \in Values
  /\ MaxTime \in Nat

VARIABLES
  deployment,  \* the store, and what the requests of this behavior are about
  rows,        \* devices and relays, None before the row exists
  members,     \* members of groups, entries of books; None before they exist
  roles,       \* control roles, None where there is none
  settings,    \* the stored settings, None for a key without a row
  now,         \* time.Now()
  pc,          \* a call's next store access
  task,        \* its request
  stamp,       \* the time it stores
  copy,        \* what it has read again, or the memory store has returned
  reply,       \* its answer
  auditLog,    \* audit events
  before       \* history: the calls answered when it arrived

store == <<rows, members, roles, settings>>
vars == <<deployment, store, now, pc, task, stamp, copy, reply, auditLog, before>>

MySQL == deployment.mysql

(* What the status column holds: MySQL's is an ENUM *)
Column(id) == IF MySQL THEN Statuses(id) ELSE Strings

Fresh(id, status, label, at) ==
  [status |-> status, label |-> label, sessions |-> 0, health |-> None, updated |-> at]

Bare == [enabled |-> TRUE, permissions |-> {}]

Listed == {[by |-> None, nth |-> 1, device |-> x] : x \in Devices}

Created(id) ==
  [op |-> "create", id |-> id, told |-> IF id \in Rows THEN Default(id) ELSE Bare]

Old(id, S) == IF id \in deployment.about THEN S \cup {None} ELSE {None}

(* Some of what the requests are about was created before, and recorded *)
Init ==
  /\ deployment \in Deployments
  /\ rows \in [Rows -> {None} \cup {Fresh(id, Default(id), 0, 0) : id \in Rows}]
  /\ \A id \in Rows : rows[id] \in Old(id, {Fresh(id, Default(id), 0, 0)})
  /\ members \in [Sets -> {None, {}, Listed}]
  /\ \A id \in Groups : members[id] \in Old(id, {{}})
  /\ \A id \in Books : members[id] \in Old(id, {Listed})
  /\ roles \in [Roles -> {None, Bare}]
  /\ \A id \in Roles : roles[id] \in Old(id, {Bare})
  /\ settings = [id \in Sections |-> [k \in Keys |-> None]]
  /\ auditLog = {Created(id) : id \in {x \in Rows : rows[x] # None}
                                  \cup {x \in Roles : roles[x] # None}}
  /\ now = 1
  /\ pc = [c \in Calls |-> "idle"]
  /\ task = [c \in Calls |-> None]
  /\ stamp = [c \in Calls |-> 0]
  /\ copy = [c \in Calls |-> None]
  /\ reply = [c \in Calls |-> None]
  /\ before = [c \in Calls |-> {}]

-----------------------------------------------------------------------------
(* A request arrives *)

Absent(id) ==
  \/ id \in Rows /\ rows[id] = None
  \/ id \in Sets /\ members[id] = None
  \/ id \in Roles /\ roles[id] = None

Creates(r) == r.op \in {"create", "create_group", "create_book", "create_role"}

(* An id is given once, also when its row is gone *)
Unclaimed(id) ==
  /\ Absent(id)
  /\ \A k \in Calls :
       pc[k] # "idle" /\ task[k].op \in {"create", "create_group", "create_book",
                                       "create_role", "delete_role"} => task[k].id # id

(* The entry to remove is one that a client may have seen in an answer *)
Seen(entry) == entry.by \in Calls => pc[entry.by] = "done"

(* With MySQL, AddUserGroupMember and AddAddressBookEntry look first *)
First(r) == IF MySQL /\ r.op \in {"add_member", "add_entry"} THEN "find" ELSE "write"

Arrive(c) ==
  \E r \in Requests :
    /\ pc[c] = "idle"
    /\ r.id \in deployment.about
    /\ Creates(r) => Unclaimed(r.id)
    /\ r.op = "remove_entry" => Seen(r.entry)
    /\ task' = [task EXCEPT ![c] = r]
    /\ pc' = [pc EXCEPT ![c] = First(r)]
    /\ stamp' = [stamp EXCEPT ![c] = now]
    /\ before' = [before EXCEPT ![c] = {k \in Calls : pc[k] = "done"}]
    /\ UNCHANGED <<deployment, store, now, copy, reply, auditLog>>

Goto(c, from, to) ==
  /\ pc[c] = from
  /\ pc' = [pc EXCEPT ![c] = to]
  /\ UNCHANGED <<deployment, task, before, now>>

Answer(c, outcome) == reply' = [reply EXCEPT ![c] = outcome]

(* Address books have no audit event; the settings are read after theirs *)
Following(c) ==
  LET op == task[c].op IN
  CASE pc[c] = "find" -> "write"
    [] pc[c] = "write" /\ op \in {"delete_role", "put"} -> "audit"
    [] pc[c] = "write" /\ op \notin {"delete_role", "put"} /\ MySQL -> "reread"
    [] pc[c] = "reread" /\ op \in RoleOps -> "reread_rest"
    [] pc[c] = "audit" /\ op = "put" -> "reread"
    [] pc[c] = "audit" /\ op # "put" -> "done"
    [] OTHER -> IF op \in BookOps \cup {"put"} THEN "done" ELSE "audit"

(* One store access went well; after the last the answer is out *)
Proceed(c, step) ==
  /\ Goto(c, step, Following(c))
  /\ IF Following(c) = "done" THEN Answer(c, "ok") ELSE UNCHANGED reply

Asks(c, op, ids) == task[c].op = op /\ task[c].id \in ids

-----------------------------------------------------------------------------
(* What the statements write *)

Named(c, otherwise) == IF task[c].status = None THEN otherwise ELSE task[c].status

(* DisableRow's time is read by the handler, the others' by the store: in  *)
(* the memory store under its mutex.  A new row has the database's time.   *)
Stamp(c) ==
  IF task[c].op = "create" \/ (~MySQL /\ task[c].op # "disable") THEN now ELSE stamp[c]

Inserted(c) ==
  Fresh(task[c].id, Named(c, Default(task[c].id)), task[c].label, Stamp(c))

(* An update that names no status: MySQL writes the default, memory keeps *)
UpdatedByMySQL(c) ==
  [rows[task[c].id] EXCEPT !.status = Named(c, Default(task[c].id)),
                           !.label = task[c].label,
                           !.updated = Stamp(c)]

UpdatedInMemory(c) ==
  [rows[task[c].id] EXCEPT !.status = Named(c, @),
                           !.label = task[c].label,
                           !.updated = Stamp(c)]

Beating(c, status) ==
  [rows[task[c].id] EXCEPT
     !.status = status,
     !.sessions = IF task[c].sessions = None THEN @ ELSE task[c].sessions,
     !.health = Stamp(c),
     !.updated = Stamp(c)]

(* Variant: the status is written as it was sent *)
BeatAsSent(c) == Beating(c, task[c].status)

(* Variant: a relay that reports is taken to be active *)
BeatActive(c) == Beating(c, Named(c, "active"))

Beat(c) == Beating(c, Named(c, rows[task[c].id].status))

(* Variant: the time of the change is forgotten *)
DisabledUnstamped(c) == [rows[task[c].id] EXCEPT !.status = "disabled"]

Disabled(c) ==
  [rows[task[c].id] EXCEPT !.status = "disabled", !.updated = Stamp(c)]

Written(c) ==
  CASE task[c].op = "create" -> Inserted(c)
    [] task[c].op = "update" -> IF MySQL THEN UpdatedByMySQL(c) ELSE UpdatedInMemory(c)
    [] task[c].op = "heartbeat" -> Beat(c)
    [] OTHER -> Disabled(c)

(* INSERT IGNORE passes over a user that does not exist *)
Accepted(users) == IF MySQL THEN users \cap Users ELSE users

Entries(c) ==
  {[by |-> c, nth |-> i, device |-> task[c].devices[i]] : i \in DOMAIN task[c].devices}

Distinct(entries) == \A e, f \in entries : e.device = f.device => e = f

Listing(c) == Entries(c) \cup (IF Absent(task[c].id) THEN {} ELSE members[task[c].id])

(* The keys hold an entry to a device, and a book to one entry of a device *)
RefusedByMySQL(c) ==
  (\E e \in Listing(c) : e.device \in Strangers) \/ ~Distinct(Listing(c))

(* A new entry is compared with those of its book *)
RefusedInMemory(c) == task[c].op = "add_entry" /\ ~Distinct(Listing(c))

(* The handler has not asked whether the status is one *)
StatusRefused(c) ==
  task[c].op = "create" /\ Inserted(c).status \notin Column(task[c].id)

Refused(c) ==
  \/ StatusRefused(c)
  \/ /\ task[c].op \in {"create_book", "add_entry"}
     /\ IF MySQL THEN RefusedByMySQL(c) ELSE RefusedInMemory(c)

Put(c) ==
  /\ rows' = [rows EXCEPT ![task[c].id] = Written(c)]
  /\ UNCHANGED <<members, roles, settings>>

PutMembers(c, set) ==
  /\ members' = [members EXCEPT ![task[c].id] = set]
  /\ UNCHANGED <<rows, roles, settings>>

PutRole(c, role) ==
  /\ roles' = [roles EXCEPT ![task[c].id] = role]
  /\ UNCHANGED <<rows, members, settings>>

CreateDevice(c) == Asks(c, "create", Devices) /\ Put(c)
UpdateDevice(c) == Asks(c, "update", Devices) /\ Put(c)
DisableDevice(c) == Asks(c, "disable", Devices) /\ Put(c)
CreateRelay(c) == Asks(c, "create", Relays) /\ Put(c)
UpdateRelay(c) == Asks(c, "update", Relays) /\ Put(c)
RelayHeartbeat(c) == Asks(c, "heartbeat", Relays) /\ Put(c)
DisableRelay(c) == Asks(c, "disable", Relays) /\ Put(c)

CreateUserGroup(c) ==
  Asks(c, "create_group", Groups) /\ PutMembers(c, Accepted(task[c].users))

AddUserGroupMember(c) ==
  /\ Asks(c, "add_member", Groups)
  /\ PutMembers(c, members[task[c].id] \cup Accepted(task[c].users))

(* MySQL finds out that there is no such group when it reads it again *)
RemoveUserGroupMember(c) ==
  /\ Asks(c, "remove_member", Groups)
  /\ IF Absent(task[c].id) THEN UNCHANGED store
     ELSE PutMembers(c, members[task[c].id] \ task[c].users)

CreateAddressBook(c) == Asks(c, "create_book", Books) /\ PutMembers(c, Entries(c))

AddAddressBookEntry(c) ==
  Asks(c, "add_entry", Books) /\ PutMembers(c, members[task[c].id] \cup Entries(c))

RemoveAddressBookEntry(c) ==
  Asks(c, "remove_entry", Books) /\ PutMembers(c, members[task[c].id] \ {task[c].entry})

CreateControlRole(c) == Asks(c, "create_role", Roles) /\ PutRole(c, task[c].role)
UpdateControlRole(c) == Asks(c, "update_role", Roles) /\ PutRole(c, task[c].role)
DeleteControlRole(c) == Asks(c, "delete_role", Roles) /\ PutRole(c, None)

(* Of the values of one key, whichever the code's map yields last *)
Chosen(c) ==
  {f \in [DOMAIN task[c].values -> Values] : \A k \in DOMAIN f : f[k] \in task[c].values[k]}

(* All keys in one transaction, or under the mutex *)
UpsertSystemSettings(c) ==
  /\ Asks(c, "put", Sections)
  /\ \E f \in Chosen(c) :
       settings' = [settings EXCEPT ![task[c].id] =
                     [k \in Keys |-> IF k \in DOMAIN f THEN f[k] ELSE @[k]]]
  /\ UNCHANGED <<rows, members, roles>>

Effect(c) ==
  \/ CreateDevice(c) \/ UpdateDevice(c) \/ DisableDevice(c)
  \/ CreateRelay(c) \/ UpdateRelay(c) \/ RelayHeartbeat(c) \/ DisableRelay(c)
  \/ CreateUserGroup(c) \/ AddUserGroupMember(c) \/ RemoveUserGroupMember(c)
  \/ CreateAddressBook(c) \/ AddAddressBookEntry(c) \/ RemoveAddressBookEntry(c)
  \/ CreateControlRole(c) \/ UpdateControlRole(c) \/ DeleteControlRole(c)
  \/ UpsertSystemSettings(c)

(* mergedSettings *)
Merged(id) ==
  [k \in Keys |-> IF settings[id][k] = None THEN Preset ELSE settings[id][k]]

(* What a reader gets *)
Reading(id) ==
  CASE id \in Rows -> rows[id].status
    [] id \in Sets -> members[id]
    [] id \in Roles -> roles[id]
    [] OTHER -> Merged(id)

-----------------------------------------------------------------------------
(* The steps of a handler *)

Find(c) ==
  /\ Proceed(c, "find")
  /\ ~Absent(task[c].id)
  /\ UNCHANGED <<store, stamp, copy, auditLog>>

(* MySQL counts the rows an UPDATE changed, not the rows it matched, except *)
(* for control roles, which it looks for when none was changed              *)
Missing(c) ==
  LET id == task[c].id IN
  /\ ~Creates(task[c])
  /\ \/ Absent(id) /\ ~(MySQL /\ task[c].op = "remove_member")
     \/ MySQL /\ task[c].op \in RowOps /\ ~Absent(id) /\ Written(c) = rows[id]
     \/ task[c].op = "remove_entry" /\ ~Absent(id) /\ task[c].entry \notin members[id]

Change(c) ==
  /\ Proceed(c, "write")
  /\ ~Missing(c) /\ ~Refused(c)
  /\ Effect(c)
  /\ stamp' = [stamp EXCEPT ![c] = Stamp(c)]
  /\ IF MySQL \/ task[c].op \in {"delete_role", "put"} THEN UNCHANGED copy
     ELSE copy' = [copy EXCEPT ![c] = Reading(task[c].id)']
  /\ UNCHANGED auditLog

NotFound(c) ==
  /\ \/ Goto(c, "find", "done") /\ Absent(task[c].id)
     \/ Goto(c, "write", "done") /\ Missing(c)
  /\ Answer(c, "not_found")
  /\ UNCHANGED <<store, stamp, copy, auditLog>>

Refuse(c) ==
  /\ Goto(c, "write", "done")
  /\ Refused(c)
  /\ Answer(c, "bad_request")
  /\ UNCHANGED <<store, stamp, copy, auditLog>>

(* A control role's own row comes first *)
Reread(c) ==
  /\ Proceed(c, "reread")
  /\ ~Absent(task[c].id)
  /\ copy' = [copy EXCEPT ![c] = Reading(task[c].id)]
  /\ UNCHANGED <<store, stamp, auditLog>>

(* Variant: the row is taken for the whole role *)
RereadRowOnly(c) ==
  /\ Proceed(c, "reread_rest")
  /\ copy' = [copy EXCEPT ![c].permissions = {}]
  /\ UNCHANGED <<store, stamp, auditLog>>

(* Then its permissions, of which a deleted role has none *)
RereadPermissions(c) ==
  LET role == roles[task[c].id] IN
  /\ Proceed(c, "reread_rest")
  /\ copy' = [copy EXCEPT ![c].permissions = IF role = None THEN {} ELSE role.permissions]
  /\ UNCHANGED <<store, stamp, auditLog>>

(* The answer is the one of NotFound; a role was changed, and then deleted *)
RereadMissing(c) ==
  /\ Goto(c, "reread", "done")
  /\ Absent(task[c].id)
  /\ Answer(c, "gone")
  /\ UNCHANGED <<store, stamp, copy, auditLog>>

(* Variant: the event tells the status that the request named *)
ToldAsked(c) == IF task[c].op \in RowOps THEN task[c].status ELSE copy[c]

(* A group's creation tells the number of members only, the deletion of a  *)
(* role nothing of it, the settings their keys                             *)
Told(c) ==
  LET op == task[c].op IN
  CASE op \in RowOps \cup {"create_role", "update_role"} -> copy[c]
    [] op \in {"add_member", "remove_member"} -> task[c].users
    [] op = "put" -> DOMAIN task[c].values
    [] OTHER -> None

Event(c) == [op |-> task[c].op, id |-> task[c].id, told |-> Told(c)]

WriteAudit(c) ==
  /\ Proceed(c, "audit")
  /\ auditLog' = auditLog \cup {Event(c)}
  /\ UNCHANGED <<store, stamp, copy>>

Failure(c) ==
  IF \/ task[c].op \in {"heartbeat", "disable", "delete_role"}
     \/ task[c].op = "put" /\ pc[c] = "reread"
  THEN "internal_error" ELSE "bad_request"

Fails(c) == MySQL /\ c \in Faulty

(* A write that reports an error may still have happened *)
ChangeFails(c) ==
  /\ Fails(c)
  /\ Goto(c, "write", "done")
  /\ (~Missing(c) /\ ~Refused(c) /\ Effect(c)) \/ UNCHANGED store
  /\ stamp' = [stamp EXCEPT ![c] = Stamp(c)]
  /\ Answer(c, Failure(c))
  /\ UNCHANGED <<copy, auditLog>>

(* What was changed stays changed *)
ReadFails(c) ==
  /\ Fails(c)
  /\ \E step \in {"find", "reread", "reread_rest"} : Goto(c, step, "done")
  /\ Answer(c, Failure(c))
  /\ UNCHANGED <<store, stamp, copy, auditLog>>

AuditFails(c) ==
  /\ Fails(c)
  /\ Goto(c, "audit", "done")
  /\ Answer(c, "internal_error")
  /\ UNCHANGED <<store, stamp, copy, auditLog>>

(* Only devices and relays have a time that a statement compares *)
Tick ==
  /\ now < MaxTime
  /\ deployment.about \cap Rows # {}
  /\ now' = now + 1
  /\ UNCHANGED <<deployment, store, pc, task, stamp, copy, reply, auditLog, before>>

Handle(c) ==
  \/ Arrive(c) \/ Find(c) \/ Change(c) \/ NotFound(c) \/ Refuse(c)
  \/ Reread(c) \/ RereadPermissions(c) \/ RereadMissing(c) \/ WriteAudit(c)
  \/ ChangeFails(c) \/ ReadFails(c) \/ AuditFails(c)

Next == (\E c \in Calls : Handle(c)) \/ Tick

Spec == Init /\ [][Next]_vars

-----------------------------------------------------------------------------
(* Properties *)

(* Types of the state.  With MySQL the status columns hold one of their    *)
(* values, as they are ENUMs; in the memory store also any other string    *)
(* that a creation has named.                                              *)
TypeOK ==
  /\ deployment \in Deployments
  /\ rows \in [Rows -> Row \cup {None}]
  /\ \A id \in Rows : rows[id] # None => rows[id].status \in Column(id)
  /\ members \in [Sets -> (SUBSET (Users \cup Strangers)) \cup (SUBSET Entry) \cup {None}]
  /\ roles \in [Roles -> Role \cup {None}]
  /\ settings \in [Sections -> [Keys -> Values \cup {None}]]
  /\ now \in Nat
  /\ pc \in [Calls -> {"idle", "find", "write", "reread", "reread_rest", "audit", "done"}]
  /\ \A c \in Calls : task[c] \in Requests \cup {None}
  /\ stamp \in [Calls -> Nat]
  /\ reply \in [Calls -> {None, "ok", "not_found", "gone", "bad_request", "internal_error"}]
  /\ before \in [Calls -> SUBSET Calls]

(* The status a request writes, None if it leaves the status alone *)
Asked(c) ==
  CASE task[c].op \in {"create", "update"} ->
         Named(c, IF MySQL \/ task[c].op = "create" THEN Default(task[c].id) ELSE None)
    [] task[c].op = "disable" -> "disabled"
    [] OTHER -> task[c].status

Adds(c) == IF task[c].op \in {"create_group", "add_member"} THEN task[c].users ELSE {}
Removes(c) == IF task[c].op = "remove_member" THEN task[c].users ELSE {}
Enters(c) == IF task[c].op = "remove_entry" THEN {} ELSE Entries(c)
Strikes(c) == IF task[c].op = "remove_entry" THEN {task[c].entry} ELSE {}
RoleOf(c) == IF task[c].op = "delete_role" THEN None ELSE task[c].role

(* A reading shows what the request asked for *)
Shows(c, reading) ==
  LET id == task[c].id IN
  CASE id \in Rows -> Asked(c) \in {None, reading}
    [] id \in Groups -> Adds(c) \cap Users \subseteq reading /\ Removes(c) \cap reading = {}
    [] id \in Books -> Enters(c) \subseteq reading /\ Strikes(c) \cap reading = {}
    [] id \in Roles -> reading = RoleOf(c)
    [] OTHER -> \A k \in DOMAIN task[c].values : reading[k] \in task[c].values[k]

(* Request k asks for something else than c *)
Against(k, c) ==
  LET id == task[c].id IN
  /\ task[k].id = id
  /\ CASE id \in Rows -> Asked(k) \notin {None, Asked(c)}
       [] id \in Groups -> Adds(k) \cap Removes(c) # {} \/ Removes(k) \cap Adds(c) # {}
       [] id \in Books -> Strikes(k) \cap Enters(c) # {}
       [] id \in Roles -> RoleOf(k) # RoleOf(c)
       [] OTHER -> \E x \in DOMAIN task[k].values \cap DOMAIN task[c].values :
                     ~(task[k].values[x] \subseteq task[c].values[x])

Wrote(k) == pc[k] \in {"reread", "reread_rest", "audit", "done"} /\ reply[k] # "not_found"

Succeeded(c) == pc[c] = "done" /\ reply[c] = "ok"

(* DisableDevice, UpdateRelay, AddUserGroupMember, RemoveAddressBookEntry, *)
(* UpdateControlRole, UpsertSystemSettings, ...: a change that was         *)
(* answered stands until a request that was not answered when it arrived   *)
(* asks for something else.  In particular a heartbeat that names no       *)
(* status leaves a disabled relay disabled.                                *)
ChangeStands ==
  \A c \in Calls : Succeeded(c) /\ ~Shows(c, Reading(task[c].id)) =>
    \E k \in Calls \ (before[c] \cup {c}) : Wrote(k) /\ Against(k, c)

(* findRelayByID, findControlRoleByID, mergedSettings, ...: an answer made *)
(* of what was read after the change, in one or two statements, shows the  *)
(* change unless a request that ran at the same time asked for something   *)
(* else.                                                                   *)
AnswerTells ==
  \A c \in Calls : Succeeded(c) /\ task[c].op # "delete_role" /\ ~Shows(c, copy[c]) =>
    \E k \in Calls \ (before[c] \cup {c}) : c \notin before[k] /\ Wrote(k) /\ Against(k, c)

(* What the audit log tells of a device, a relay, a role or a section *)
Recorded(id) ==
  LET told == {e.told : e \in {x \in auditLog : x.id = id /\ x.told # None}} IN
  CASE id \in Rows -> rows[id].status \in told
    [] id \in Roles -> /\ \E role \in told : role.enabled = roles[id].enabled
                       /\ \E role \in told : role.permissions = roles[id].permissions
    [] OTHER -> \A k \in Keys : settings[id][k] # None => \E keys \in told : k \in keys

(* Handler.writeAudit: an event tells what was read again after the        *)
(* change, which may be another request's, or half of it.  Still, when all *)
(* requests about a device, a relay, a role or a section have been         *)
(* answered without a failure, each part of what it has become is told by  *)
(* some event about it.                                                    *)
StatusOnRecord ==
  \A id \in Rows \cup Roles \cup Sections :
    /\ ~Absent(id)
    /\ \A c \in Calls : pc[c] # "idle" /\ task[c].id = id => pc[c] = "done" /\ ~Fails(c)
    => Recorded(id)

(* The row, or the entry, was there when the call arrived *)
Existed(c) ==
  /\ ~Absent(task[c].id)
  /\ task[c].op = "remove_entry" => task[c].entry \in members[task[c].id]
  /\ \A k \in Calls : Wrote(k) /\ Creates(task[k]) /\ task[k].id = task[c].id => k \in before[c]

RefusedThoughThere(c) == pc[c] = "done" /\ reply[c] \in {"not_found", "gone"} /\ Existed(c)

(* UpdateDevice, DisableDevice, UpdateRelay, RelayHeartbeat, DisableRelay: *)
(* a row that exists is only reported missing to a request that repeats,   *)
(* within the second, what another request has just written; a control     *)
(* role or an entry that exists never is.                                  *)
OnlyRepeatsMissed ==
  \A c \in Calls : RefusedThoughThere(c) =>
    \E k \in Calls \ {c} : /\ Wrote(k) /\ task[k].id = task[c].id
                           /\ task[c].op \in RowOps /\ stamp[k] = stamp[c]

(* openapi.yaml: a heartbeat answers 404 for "Relay not found".  No        *)
(* heartbeat of a relay that exists is answered so.                        *)
HeartbeatFound ==
  \A c \in Calls : RefusedThoughThere(c) => task[c].op # "heartbeat"
=============================================================================
