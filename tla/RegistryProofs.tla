--------------------------- MODULE RegistryProofs ---------------------------
(***************************************************************************)
(* Proofs about Registry for any requests, over both stores, and whichever *)
(* calls may fail: what a change that was answered leaves, what the answer *)
(* and the audit log tell of it, and to whom a row is missing.             *)
(***************************************************************************)
EXTENDS Registry, TLAPS

-----------------------------------------------------------------------------
(* The inductive invariant *)

Steps == {"idle", "find", "write", "reread", "reread_rest", "audit", "done"}
Replies == {None, "ok", "not_found", "gone", "bad_request", "internal_error"}

(* The types, of groups and books each its own *)
StoreTypes ==
  /\ rows \in [Rows -> Row \cup {None}]
  /\ members \in [Sets -> (SUBSET (Users \cup Strangers)) \cup (SUBSET Entry) \cup {None}]
  /\ \A id \in Groups : members[id] \in (SUBSET (Users \cup Strangers)) \cup {None}
  /\ \A id \in Books : members[id] \in (SUBSET Entry) \cup {None}
  /\ roles \in [Roles -> Role \cup {None}]
  /\ settings \in [Sections -> [Keys -> Values \cup {None}]]

CallTypes ==
  /\ deployment \in Deployments
  /\ now \in Nat /\ now > 0
  /\ pc \in [Calls -> Steps]
  /\ task \in [Calls -> Requests \cup {None}]
  /\ stamp \in [Calls -> Nat]
  /\ copy = [c \in Calls |-> copy[c]]
  /\ reply \in [Calls -> Replies]
  /\ before \in [Calls -> SUBSET Calls]

(* Which requests are where, and who had answered when they arrived *)
StepOf(c) ==
  /\ pc[c] # "idle" => task[c] \in Requests /\ stamp[c] > 0
  /\ pc[c] # "done" => reply[c] = None
  /\ pc[c] = "find" => task[c].op \in {"add_member", "add_entry"}
  /\ pc[c] = "reread" => task[c].op # "delete_role"
  /\ pc[c] = "reread_rest" => task[c].op \in {"create_role", "update_role"}
  /\ pc[c] = "audit" => task[c].op \notin BookOps
  /\ \A k \in before[c] : pc[k] = "done"

(* It has changed the store, and has not failed since *)
Certain(c) == pc[c] \in {"reread", "reread_rest", "audit"} \/ Succeeded(c)

(* Whoever creates a row is the only one, and finds none *)
OnceOf(c) == pc[c] # "idle" /\ Creates(task[c]) =>
  /\ pc[c] = "write" => Absent(task[c].id)
  /\ \A k \in Calls : k # c /\ pc[k] # "idle" /\ Creates(task[k]) => task[k].id # task[c].id

(* Rows, groups and books that were changed are there *)
PresentOf(c) ==
  /\ Certain(c) /\ task[c].id \in Rows \cup Sets
  /\ ~(task[c].op = "remove_member" /\ pc[c] = "reread")
  => ~Absent(task[c].id)

(* The entry to remove was made by a request that has been answered *)
SeenOf(c) == pc[c] # "idle" /\ task[c].op = "remove_entry" =>
  (task[c].entry.by \in Calls => pc[task[c].entry.by] = "done")

(* Asked, Adds, Removes, Enters, Strikes and RoleOf of a request r, or of c *)
(* with the request r                                                       *)
StatusIn(r, mysql) ==
  CASE r.op \in {"create", "update"} ->
         IF r.status # None THEN r.status
         ELSE IF mysql \/ r.op = "create" THEN Default(r.id) ELSE None
    [] r.op = "disable" -> "disabled"
    [] OTHER -> r.status

AddsIn(r) == IF r.op \in {"create_group", "add_member"} THEN r.users ELSE {}
RemovesIn(r) == IF r.op = "remove_member" THEN r.users ELSE {}
EntriesIn(c, r) == {[by |-> c, nth |-> i, device |-> r.devices[i]] : i \in DOMAIN r.devices}
EntersIn(c, r) == IF r.op = "remove_entry" THEN {} ELSE EntriesIn(c, r)
StrikesIn(r) == IF r.op = "remove_entry" THEN {r.entry} ELSE {}
RoleIn(r) == IF r.op = "delete_role" THEN None ELSE r.role

(* Shows, for c with the request r *)
Fits(c, r, mysql, reading) ==
  /\ r.id \in Rows => StatusIn(r, mysql) \in {None, reading}
  /\ r.id \in Groups => AddsIn(r) \cap Users \subseteq reading /\ RemovesIn(r) \cap reading = {}
  /\ r.id \in Books => EntersIn(c, r) \subseteq reading /\ StrikesIn(r) \cap reading = {}
  /\ r.id \in Roles => reading = RoleIn(r)
  /\ r.id \in Sections => \A x \in DOMAIN r.values : reading[x] \in r.values[x]

(* Against, for c with the request r and another request q *)
Opposes(q, c, r, mysql) ==
  /\ q.id = r.id
  /\ \/ r.id \in Rows /\ StatusIn(q, mysql) \notin {None, StatusIn(r, mysql)}
     \/ r.id \in Groups /\ (AddsIn(q) \cap RemovesIn(r) # {} \/ RemovesIn(q) \cap AddsIn(r) # {})
     \/ r.id \in Books /\ StrikesIn(q) \cap EntersIn(c, r) # {}
     \/ r.id \in Roles /\ RoleIn(q) # RoleIn(r)
     \/ r.id \in Sections /\ \E x \in DOMAIN q.values \cap DOMAIN r.values :
                                ~(q.values[x] \subseteq r.values[x])

(* A request that was not answered before c and asks for something else *)
Excused(c) == \E k \in Calls \ (before[c] \cup {c}) :
                Wrote(k) /\ Opposes(task[k], c, task[c], MySQL)

StandsOf(c) ==
  Certain(c) /\ (task[c].id \in Sets => ~Absent(task[c].id)) =>
    Fits(c, task[c], MySQL, Reading(task[c].id)) \/ Excused(c)

(* It has made its copy *)
HasCopy(c) ==
  /\ \/ Succeeded(c) \/ pc[c] = "reread_rest"
     \/ pc[c] = "audit" /\ task[c].op # "put"
  /\ task[c].op # "delete_role"

Overtaken(c) == \E k \in Calls \ (before[c] \cup {c}) :
                  c \notin before[k] /\ Wrote(k) /\ Opposes(task[k], c, task[c], MySQL)

TellsOf(c) == HasCopy(c) =>
  /\ Fits(c, task[c], MySQL, copy[c]) \/ Overtaken(c)
  /\ task[c].id \in Roles => copy[c] \in Role

(* What is missing to a request is absent, was created since, or has been  *)
(* written in the same second                                              *)
MissedOf(c) == pc[c] = "done" /\ reply[c] \in {"not_found", "gone"} =>
  \/ Absent(task[c].id)
  \/ task[c].op = "remove_entry" /\ task[c].entry \notin members[task[c].id]
  \/ \E k \in Calls \ before[c] : Wrote(k) /\ Creates(task[k]) /\ task[k].id = task[c].id
  \/ \E k \in Calls \ {c} : /\ Wrote(k) /\ task[k].id = task[c].id
                            /\ task[c].op \in RowOps /\ stamp[k] = stamp[c]

CallInv(c) ==
  StepOf(c) /\ OnceOf(c) /\ PresentOf(c) /\ SeenOf(c) /\ StandsOf(c) /\ TellsOf(c) /\ MissedOf(c)

(* The time of a row is that of a request that wrote it *)
StampedOf(id) == rows[id] # None =>
  \/ rows[id].updated = 0
  \/ \E k \in Calls : Wrote(k) /\ task[k].id = id /\ stamp[k] = rows[id].updated

(* A request about id may fail *)
Untold(id) == \E c \in Calls : pc[c] # "idle" /\ task[c].id = id /\ Fails(c)

(* What the audit log tells, and what a request will tell unless it fails *)
RowOnRecord(id) == \E e \in auditLog : e.id = id /\ e.told = rows[id].status

TellsRow(c, id) ==
  /\ pc[c] # "idle" /\ task[c].id = id
  /\ pc[c] = "reread" \/ (pc[c] = "audit" /\ copy[c] = rows[id].status)

RowTold(id) ==
  rows[id] # None /\ ~Untold(id) => RowOnRecord(id) \/ \E c \in Calls : TellsRow(c, id)

EnabledOnRecord(id) ==
  \E e \in auditLog : e.id = id /\ e.told # None /\ e.told.enabled = roles[id].enabled

TellsEnabled(c, id) ==
  /\ pc[c] # "idle" /\ task[c].id = id /\ task[c].op # "delete_role"
  /\ \/ pc[c] = "reread"
     \/ pc[c] \in {"reread_rest", "audit"} /\ copy[c].enabled = roles[id].enabled

EnabledTold(id) ==
  roles[id] # None /\ ~Untold(id) => EnabledOnRecord(id) \/ \E c \in Calls : TellsEnabled(c, id)

PermissionsOnRecord(id) ==
  \E e \in auditLog : e.id = id /\ e.told # None /\ e.told.permissions = roles[id].permissions

TellsPermissions(c, id) ==
  /\ pc[c] # "idle" /\ task[c].id = id /\ task[c].op # "delete_role"
  /\ \/ pc[c] \in {"reread", "reread_rest"}
     \/ pc[c] = "audit" /\ copy[c].permissions = roles[id].permissions

PermissionsTold(id) ==
  roles[id] # None /\ ~Untold(id) =>
    PermissionsOnRecord(id) \/ \E c \in Calls : TellsPermissions(c, id)

KeyOnRecord(id, key) == \E e \in auditLog : e.id = id /\ e.told # None /\ key \in e.told

TellsKey(c, id, key) == pc[c] = "audit" /\ task[c].id = id /\ key \in DOMAIN task[c].values

KeysTold(id) == ~Untold(id) => \A key \in Keys : settings[id][key] # None =>
  KeyOnRecord(id, key) \/ \E c \in Calls : TellsKey(c, id, key)

SharedInv ==
  /\ \A id \in Rows : StampedOf(id) /\ RowTold(id)
  /\ \A id \in Roles : EnabledTold(id) /\ PermissionsTold(id)
  /\ \A id \in Sections : KeysTold(id)

Inv == StoreTypes /\ CallTypes /\ SharedInv /\ \A c \in Calls : CallInv(c)

-----------------------------------------------------------------------------
(* Requests *)

(* What a request is about follows from what it asks for, and conversely *)
LEMMA Kinds ==
  ASSUME NEW r \in Requests
  PROVE  /\ r.id \in Rows <=> r.op \in RowOps
         /\ r.id \in Groups <=> r.op \in GroupOps
         /\ r.id \in Books <=> r.op \in BookOps
         /\ r.id \in Roles <=> r.op \in RoleOps
         /\ r.id \in Sections <=> r.op = "put"
         /\ r.id \in Ids
         /\ r.op \in RowOps \cup GroupOps \cup BookOps \cup RoleOps \cup {"put"}
<1>1. \/ r.op \in RowOps /\ r.id \in Rows
      \/ r.op \in GroupOps /\ r.id \in Groups
      \/ r.op \in BookOps /\ r.id \in Books
      \/ r.op \in RoleOps /\ r.id \in Roles
      \/ r.op = "put" /\ r.id \in Sections
  BY RequestAssumption DEF BookOps, RoleOps
<1>2. /\ Groups \cap Books = {} /\ Rows \cap (Sets \cup Roles \cup Sections) = {}
      /\ Sets \cap (Roles \cup Sections) = {} /\ Roles \cap Sections = {}
  BY NameAssumption
<1>3. /\ RowOps \cap (GroupOps \cup BookOps \cup RoleOps \cup {"put"}) = {}
      /\ GroupOps \cap (BookOps \cup RoleOps \cup {"put"}) = {}
      /\ BookOps \cap (RoleOps \cup {"put"}) = {} /\ "put" \notin RoleOps
  BY DEF RowOps, GroupOps, BookOps, RoleOps
<1> QED BY <1>1, <1>2, <1>3 DEF Ids, Sets

(* The fields of a request *)
LEMMA RowRequest ==
  ASSUME NEW r \in Requests, r.id \in Rows
  PROVE  /\ r.op \in RowOps /\ r.status \in Strings \cup {None}
         /\ r.op # "create" => r.status \in Statuses(r.id) \cup {None}
         /\ r.op \in {"create", "update"} => r.label \in Nat
         /\ r.op = "heartbeat" => r.id \in Relays /\ r.sessions \in Nat \cup {None}
<1>1. r.op \in RowOps
  BY Kinds
<1>2. r.op \notin GroupOps /\ r.op \notin BookOps /\ r.op \notin RoleOps /\ r.op # "put"
  BY <1>1 DEF RowOps, GroupOps, BookOps, RoleOps
<1>3. Statuses(r.id) \subseteq Strings
  BY DEF Strings
<1> QED BY <1>1, <1>2, <1>3, RequestAssumption DEF BookOps, RoleOps

(* ... of a request about a user group *)
LEMMA GroupRequest ==
  ASSUME NEW r \in Requests, r.id \in Groups
  PROVE  r.op \in GroupOps /\ r.users \in SUBSET (Users \cup Strangers)
<1>1. r.op \in GroupOps
  BY Kinds
<1>2. r.op \notin RowOps /\ r.op \notin BookOps /\ r.op \notin RoleOps /\ r.op # "put"
  BY <1>1 DEF RowOps, GroupOps, BookOps, RoleOps
<1> QED BY <1>1, <1>2, RequestAssumption DEF BookOps, RoleOps

(* ... about an address book *)
LEMMA BookRequest ==
  ASSUME NEW r \in Requests, r.id \in Books
  PROVE  /\ r.op \in BookOps
         /\ r.op \in {"create_book", "add_entry"} => r.devices \in Seq(Devices \cup Strangers)
         /\ r.op = "remove_entry" => r.entry \in Entry
<1>1. r.op \in BookOps
  BY Kinds
<1>2. r.op \notin RowOps /\ r.op \notin GroupOps /\ r.op \notin RoleOps /\ r.op # "put"
  BY <1>1 DEF RowOps, GroupOps, BookOps, RoleOps
<1> QED BY <1>1, <1>2, RequestAssumption DEF BookOps, RoleOps

(* ... about a control role *)
LEMMA RoleRequest ==
  ASSUME NEW r \in Requests, r.id \in Roles
  PROVE  r.op \in RoleOps /\ (r.op # "delete_role" => r.role \in Role)
<1>1. r.op \in RoleOps
  BY Kinds
<1>2. r.op \notin RowOps /\ r.op \notin GroupOps /\ r.op \notin BookOps /\ r.op # "put"
  BY <1>1 DEF RowOps, GroupOps, BookOps, RoleOps
<1> QED BY <1>1, <1>2, RequestAssumption DEF BookOps, RoleOps, Role

(* ... about a section of the settings *)
LEMMA SectionRequest ==
  ASSUME NEW r \in Requests, r.id \in Sections
  PROVE  /\ r.op = "put" /\ DOMAIN r.values \in SUBSET Keys
         /\ \A x \in DOMAIN r.values : r.values[x] \in SUBSET Values
<1>1. r.op = "put"
  BY Kinds
<1>2. r.op \notin RowOps /\ r.op \notin GroupOps /\ r.op \notin BookOps /\ r.op \notin RoleOps
  BY <1>1 DEF RowOps, GroupOps, BookOps, RoleOps
<1> QED BY <1>1, <1>2, RequestAssumption DEF BookOps, RoleOps

(* New entries are entries, known by the request that made them *)
LEMMA EntriesTyped ==
  ASSUME NEW c \in Calls, NEW r \in Requests, r.op \in {"create_book", "add_entry"}
  PROVE  EntriesIn(c, r) \in SUBSET Entry /\ (\A e \in EntriesIn(c, r) : e.by = c)
<1>1. r.id \in Books
  BY Kinds DEF BookOps
<1>2. \A i \in DOMAIN r.devices : r.devices[i] \in Devices \cup Strangers
  BY <1>1, BookRequest
<1>3. DOMAIN r.devices \subseteq Places
  BY DEF Places
<1>4. ASSUME NEW i \in DOMAIN r.devices
      PROVE  [by |-> c, nth |-> i, device |-> r.devices[i]] \in Entry
  <2>1. i \in Places /\ r.devices[i] \in Devices \cup Strangers
    BY <1>2, <1>3
  <2> QED BY <2>1 DEF Entry
<1> QED BY <1>4 DEF EntriesIn

(* The statuses there are, among all strings *)
LEMMA StatusesTyped ==
  \A id \in Rows : /\ None \notin Strings /\ Statuses(id) \subseteq Strings
                   /\ Default(id) \in Statuses(id) /\ "disabled" \in Statuses(id)
<1> TAKE id \in Rows
<1>1. None \notin Strings /\ Statuses(id) \subseteq Strings
  BY NameAssumption DEF Strings
<1>2. CASE id \in Devices
  BY <1>1, <1>2 DEF Statuses, Default
<1>3. CASE id \notin Devices
  BY <1>1, <1>3 DEF Statuses, Default
<1> QED BY <1>2, <1>3

(* What is there is not None *)
LEMMA Nothing ==
  /\ None \notin Row /\ None \notin Role /\ None \notin Values /\ None # "not_found"
  /\ None \notin SUBSET Entry /\ None \notin SUBSET (Users \cup Strangers)
  /\ None \notin SUBSET Keys
<1>1. /\ None \notin SUBSET Entry /\ None \notin SUBSET (Users \cup Strangers)
      /\ None \notin SUBSET Keys
  <2> SUFFICES ASSUME NEW set \in (SUBSET Entry) \cup (SUBSET (Users \cup Strangers)) \cup (SUBSET Keys)
               PROVE  set # None
    OBVIOUS
  <2> QED BY NameAssumption
<1> QED BY <1>1, NameAssumption

(* An id is of one kind *)
LEMMA OneKind ==
  ASSUME NEW id \in Ids
  PROVE  /\ id \in Rows => id \notin Sets /\ id \notin Roles /\ id \notin Sections
         /\ id \in Groups => id \notin Books /\ id \notin Rows /\ id \notin Roles /\ id \notin Sections
         /\ id \in Books => id \notin Groups /\ id \notin Rows /\ id \notin Roles /\ id \notin Sections
         /\ id \in Roles => id \notin Rows /\ id \notin Sets /\ id \notin Sections
         /\ id \in Sections => id \notin Rows /\ id \notin Sets /\ id \notin Roles
         /\ id \in Sets <=> id \in Groups \/ id \in Books
BY NameAssumption DEF Ids, Sets

-----------------------------------------------------------------------------
(* What a write leaves *)

(* Only what the request is about changes *)
SameBut(id) ==
  /\ \A x \in Rows \ {id} : rows'[x] = rows[x]
  /\ \A x \in Sets \ {id} : members'[x] = members[x]
  /\ \A x \in Roles \ {id} : roles'[x] = roles[x]
  /\ \A x \in Sections \ {id} : settings'[x] = settings[x]

(* The write of c, with the request r.  It shows what c asks for, and what  *)
(* any other request q has asked for unless r is against that.              *)
Lands(c, r, m) ==
  /\ StoreTypes'
  /\ SameBut(r.id)
  /\ Absent(r.id) /\ ~Absent(r.id)' => Creates(r)
  /\ r.id \in Rows \cup Sets => ~Absent(r.id)' \/ (r.op = "remove_member" /\ m /\ Absent(r.id))
  /\ r.id \in Rows => rows'[r.id].updated = Stamp(c)
  /\ (r.id \in Sets => ~Absent(r.id)') => Fits(c, r, m, Reading(r.id)')
  /\ \A k \in Calls \ {c}, q \in Requests :
       /\ q.id = r.id
       /\ q.op = "remove_entry" => q.entry.by # c
       /\ Absent(r.id) => r.id \in Roles \/ q.op = "remove_member"
       /\ ~Absent(r.id) \/ r.id \in Roles => Fits(k, q, m, Reading(r.id))
       /\ r.id \in Sets => ~Absent(r.id)'
       => Fits(k, q, m, Reading(r.id)') \/ Opposes(r, k, q, m)
  /\ r.id \in Books => \A e \in Entry : e.by # c /\ ~Absent(r.id) /\ e \notin members[r.id]
                                         => e \notin members'[r.id]
  /\ r.id \in Sections => \A x \in Keys : settings'[r.id][x] # None =>
                            settings[r.id][x] # None \/ x \in DOMAIN r.values

(* What counts for each kind of thing *)
LEMMA FitsRow ==
  ASSUME NEW c, NEW r \in Requests, NEW m, NEW x, r.id \in Rows
  PROVE  Fits(c, r, m, x) <=> StatusIn(r, m) \in {None, x}
BY Kinds, OneKind DEF Fits

(* ... members that were added are there, those removed are not *)
LEMMA FitsGroup ==
  ASSUME NEW c, NEW r \in Requests, NEW m, NEW x, r.id \in Groups
  PROVE  Fits(c, r, m, x) <=> AddsIn(r) \cap Users \subseteq x /\ RemovesIn(r) \cap x = {}
BY Kinds, OneKind DEF Fits

(* ... and so with entries *)
LEMMA FitsBook ==
  ASSUME NEW c, NEW r \in Requests, NEW m, NEW x, r.id \in Books
  PROVE  Fits(c, r, m, x) <=> EntersIn(c, r) \subseteq x /\ StrikesIn(r) \cap x = {}
BY Kinds, OneKind DEF Fits

(* ... a role is what was asked for *)
LEMMA FitsRole ==
  ASSUME NEW c, NEW r \in Requests, NEW m, NEW x, r.id \in Roles
  PROVE  Fits(c, r, m, x) <=> x = RoleIn(r)
BY Kinds, OneKind DEF Fits

(* ... each key has one of the values sent under it *)
LEMMA FitsSection ==
  ASSUME NEW c, NEW r \in Requests, NEW m, NEW x, r.id \in Sections
  PROVE  Fits(c, r, m, x) <=> \A y \in DOMAIN r.values : x[y] \in r.values[y]
BY Kinds, OneKind DEF Fits

(* ... and what asks for something else *)
LEMMA OpposesKind ==
  ASSUME NEW c, NEW q, NEW r \in Requests, NEW m, q.id = r.id
  PROVE  /\ r.id \in Rows /\ StatusIn(q, m) \notin {None, StatusIn(r, m)} => Opposes(q, c, r, m)
         /\ r.id \in Groups /\ (AddsIn(q) \cap RemovesIn(r) # {} \/ RemovesIn(q) \cap AddsIn(r) # {})
              => Opposes(q, c, r, m)
         /\ r.id \in Books /\ StrikesIn(q) \cap EntersIn(c, r) # {} => Opposes(q, c, r, m)
         /\ r.id \in Roles /\ RoleIn(q) # RoleIn(r) => Opposes(q, c, r, m)
         /\ r.id \in Sections /\ (\E x \in DOMAIN q.values \cap DOMAIN r.values :
                                    ~(q.values[x] \subseteq r.values[x])) => Opposes(q, c, r, m)
BY DEF Opposes

(* ... and what a reader gets, before a step and after it *)
LEMMA ReadingKind ==
  ASSUME NEW id \in Ids
  PROVE  /\ id \in Rows => Reading(id) = rows[id].status /\ (Absent(id) <=> rows[id] = None)
         /\ id \in Sets => Reading(id) = members[id] /\ (Absent(id) <=> members[id] = None)
         /\ id \in Roles => Reading(id) = roles[id] /\ (Absent(id) <=> roles[id] = None)
         /\ id \in Sections => Reading(id) = Merged(id) /\ ~Absent(id)
         /\ id \in Rows => Reading(id)' = rows'[id].status /\ (Absent(id)' <=> rows'[id] = None)
         /\ id \in Sets => Reading(id)' = members'[id] /\ (Absent(id)' <=> members'[id] = None)
         /\ id \in Roles => Reading(id)' = roles'[id] /\ (Absent(id)' <=> roles'[id] = None)
         /\ id \in Sections => Reading(id)' = Merged(id)' /\ ~Absent(id)'
<1>1. CASE id \in Rows
  <2>1. id \notin Sets /\ id \notin Roles /\ id \notin Sections
    BY <1>1, OneKind
  <2> QED BY <1>1, <2>1 DEF Reading, Absent
<1>2. CASE id \in Sets
  <2>1. id \notin Rows /\ id \notin Roles /\ id \notin Sections
    BY <1>2, OneKind
  <2> QED BY <1>2, <2>1 DEF Reading, Absent
<1>3. CASE id \in Roles
  <2>1. id \notin Rows /\ id \notin Sets /\ id \notin Sections
    BY <1>3, OneKind
  <2> QED BY <1>3, <2>1 DEF Reading, Absent
<1>4. CASE id \in Sections
  <2>1. id \notin Rows /\ id \notin Sets /\ id \notin Roles
    BY <1>4, OneKind
  <2> QED BY <1>4, <2>1 DEF Reading, Absent
<1> QED BY <1>1, <1>2, <1>3, <1>4 DEF Ids

-----------------------------------------------------------------------------
(* What a write does to devices and relays *)

(* The columns of an UPDATE *)
LEMMA StatusSet ==
  ASSUME NEW all, NEW maybe, NEW status \in all, NEW at \in Nat,
         NEW old \in [status : all, label : Nat, sessions : Nat, health : maybe, updated : Nat],
         NEW new, new = [old EXCEPT !.status = status, !.updated = at]
  PROVE  /\ new \in [status : all, label : Nat, sessions : Nat, health : maybe, updated : Nat]
         /\ new.status = status /\ new.updated = at
OBVIOUS

(* ... with the label, of UpdateDevice and UpdateRelay *)
LEMMA LabelSet ==
  ASSUME NEW all, NEW maybe, NEW status \in all, NEW label \in Nat, NEW at \in Nat,
         NEW old \in [status : all, label : Nat, sessions : Nat, health : maybe, updated : Nat],
         NEW new, new = [old EXCEPT !.status = status, !.label = label, !.updated = at]
  PROVE  /\ new \in [status : all, label : Nat, sessions : Nat, health : maybe, updated : Nat]
         /\ new.status = status /\ new.updated = at
OBVIOUS

(* ... with sessions and time of health, of RelayHeartbeat *)
LEMMA HealthSet ==
  ASSUME NEW all, NEW maybe, NEW status \in all, NEW sessions \in Nat, NEW health \in maybe, NEW at \in Nat,
         NEW old \in [status : all, label : Nat, sessions : Nat, health : maybe, updated : Nat],
         NEW new, new = [old EXCEPT !.status = status, !.sessions = sessions, !.health = health,
                                !.updated = at]
  PROVE  /\ new \in [status : all, label : Nat, sessions : Nat, health : maybe, updated : Nat]
         /\ new.status = status /\ new.updated = at
OBVIOUS

(* CreateDevice, UpdateRelay, RelayHeartbeat, DisableRelay, ...: the row    *)
(* they write has the status the request asks for, or the one it had.       *)
LEMMA RowWritten ==
  ASSUME StoreTypes, CallTypes, NEW c \in Calls, task[c] \in Requests, task[c].id \in Rows,
         task[c].op # "create" => rows[task[c].id] # None
  PROVE  /\ Written(c) \in Row /\ Written(c).status \in Strings
         /\ Written(c).updated = Stamp(c)
         /\ \/ StatusIn(task[c], MySQL) = None /\ Written(c).status = rows[task[c].id].status
            \/ Written(c).status = StatusIn(task[c], MySQL)
<1> DEFINE id == task[c].id
           r == task[c]
           all == Strings
           maybe == Nat \cup {None}
           Fields == [status : all, label : Nat, sessions : Nat, health : maybe, updated : Nat]
<1>9. Row = Fields
  BY DEF Row
<1>1. Stamp(c) \in Nat
  BY DEF CallTypes, Stamp
<1>2. /\ r.op \in RowOps /\ r.status \in Strings \cup {None}
      /\ r.op \in {"create", "update"} => r.label \in Nat
      /\ r.op = "heartbeat" => id \in Relays /\ r.sessions \in Nat \cup {None}
  BY RowRequest
<1>3. None \notin Strings /\ Default(id) \in Strings /\ "disabled" \in Strings
  BY StatusesTyped
<1>4. r.op # "create" => rows[id] \in Row /\ rows[id].status \in Strings
  <2>1. rows[id] \in Row => rows[id].status \in Strings
    BY DEF Row
  <2> QED BY <2>1 DEF StoreTypes
<1>5. CASE r.op = "create"
  <2> DEFINE status == IF r.status = None THEN Default(id) ELSE r.status
  <2>1. Written(c) = [status |-> status, label |-> r.label, sessions |-> 0, health |-> None,
                      updated |-> Stamp(c)]
    BY <1>5 DEF Written, Inserted, Fresh, Named
  <2>2. StatusIn(r, MySQL) = status /\ status \in Strings
    BY <1>2, <1>3, <1>5 DEF StatusIn
  <2> HIDE DEF status
  <2>3. Written(c) \in Row
    BY <1>1, <1>2, <1>5, <2>1, <2>2 DEF Row
  <2> QED BY <2>1, <2>2, <2>3
<1> DEFINE old == rows[id]
<1>6. CASE r.op = "update"
  <2> DEFINE status == IF r.status # None THEN r.status ELSE IF MySQL THEN Default(id) ELSE old.status
  <2>1. Written(c) = [old EXCEPT !.status = status, !.label = r.label, !.updated = Stamp(c)]
    BY <1>6 DEF Written, UpdatedByMySQL, UpdatedInMemory, Named
  <2>2. /\ status \in Strings
        /\ StatusIn(r, MySQL) = status \/ (StatusIn(r, MySQL) = None /\ status = old.status)
    BY <1>2, <1>3, <1>4, <1>6 DEF StatusIn
  <2> HIDE DEF status, old
  <2>3. /\ Written(c) \in Row /\ Written(c).status = status /\ Written(c).updated = Stamp(c)
    <3>1. old \in Row /\ r.label \in Nat /\ id \in Rows
      BY <1>2, <1>4, <1>6 DEF old
    <3> HIDE DEF r, id
    <3>2. old \in Fields /\ status \in all
      BY <1>9, <2>2, <3>1
    <3> HIDE DEF all, maybe
    <3>3. Written(c) \in Fields /\ Written(c).status = status /\ Written(c).updated = Stamp(c)
      BY <1>1, <2>1, <2>2, <3>1, <3>2, LabelSet
    <3> QED BY <1>9, <3>3
  <2> QED BY <2>2, <2>3 DEF old
<1>7. CASE r.op = "heartbeat"
  <2> DEFINE status == IF r.status = None THEN old.status ELSE r.status
             sessions == IF r.sessions = None THEN old.sessions ELSE r.sessions
  <2>1. Written(c) = [old EXCEPT !.status = status, !.sessions = sessions, !.health = Stamp(c),
                                 !.updated = Stamp(c)]
    BY <1>7 DEF Written, Beat, Beating, Named
  <2>2. /\ status \in Strings
        /\ StatusIn(r, MySQL) = status \/ (StatusIn(r, MySQL) = None /\ status = old.status)
    BY <1>2, <1>3, <1>4, <1>7 DEF StatusIn
  <2>3. sessions \in Nat
    BY <1>2, <1>4, <1>7 DEF Row
  <2> HIDE DEF status, sessions, old
  <2>4. /\ Written(c) \in Row /\ Written(c).status = status /\ Written(c).updated = Stamp(c)
    <3>1. old \in Row /\ id \in Rows
      BY <1>4, <1>7 DEF old
    <3> HIDE DEF r, id
    <3>2. old \in Fields /\ status \in all /\ Stamp(c) \in maybe
      BY <1>1, <1>9, <2>2, <3>1
    <3> HIDE DEF all, maybe
    <3>3. Written(c) \in Fields /\ Written(c).status = status /\ Written(c).updated = Stamp(c)
      BY <1>1, <2>1, <2>2, <2>3, <3>2, HealthSet
    <3> QED BY <1>9, <3>3
  <2> QED BY <2>2, <2>4 DEF old
<1>8. CASE r.op = "disable"
  <2>1. Written(c) = [old EXCEPT !.status = "disabled", !.updated = Stamp(c)]
    BY <1>8 DEF Written, Disabled
  <2>2. StatusIn(r, MySQL) = "disabled"
    BY <1>8 DEF StatusIn
  <2> HIDE DEF old
  <2>3. /\ Written(c) \in Row /\ Written(c).status = "disabled" /\ Written(c).updated = Stamp(c)
    <3>1. old \in Row /\ id \in Rows
      BY <1>4, <1>8 DEF old
    <3> HIDE DEF r, id
    <3>2. old \in Fields /\ "disabled" \in all
      BY <1>3, <1>9, <3>1
    <3> HIDE DEF all, maybe
    <3>3. Written(c) \in Fields /\ Written(c).status = "disabled" /\ Written(c).updated = Stamp(c)
      BY <1>1, <2>1, <3>2, StatusSet
    <3> QED BY <1>9, <3>3
  <2> QED BY <1>3, <2>2, <2>3
<1> QED BY <1>2, <1>5, <1>6, <1>7, <1>8 DEF RowOps

(* A device or a relay *)
LEMMA RowLands ==
  ASSUME StoreTypes, CallTypes, NEW c \in Calls, NEW r \in Requests, r = task[c], NEW m, m = MySQL,
         r.id \in Rows, ~Missing(c), Creates(r) => Absent(r.id), Effect(c)
  PROVE  Lands(c, r, m)
<1> DEFINE id == r.id
<1>1. rows' = [rows EXCEPT ![id] = Written(c)] /\ UNCHANGED <<members, roles, settings>>
  <2>1. r.op \in RowOps
    BY Kinds
  <2> QED
    BY <2>1 DEF RowOps, Effect, Asks, Put, CreateDevice, UpdateDevice, DisableDevice, CreateRelay,
      UpdateRelay, RelayHeartbeat, DisableRelay, CreateUserGroup, AddUserGroupMember,
      RemoveUserGroupMember, CreateAddressBook, AddAddressBookEntry, RemoveAddressBookEntry,
      CreateControlRole, UpdateControlRole, DeleteControlRole, UpsertSystemSettings
<1>2. r.op # "create" => rows[id] # None
  <2>1. r.op \in RowOps
    BY Kinds
  <2> QED BY <2>1 DEF Missing, Creates, Absent, RowOps
<1> PICK new : new = Written(c)
  OBVIOUS
<1>3. /\ new \in Row /\ new.status \in Strings /\ new.updated = Stamp(c)
      /\ \/ StatusIn(r, m) = None /\ new.status = rows[id].status
         \/ new.status = StatusIn(r, m)
  BY <1>2, RowWritten
<1>4. /\ rows' = [rows EXCEPT ![id] = new] /\ rows \in [Rows -> Row \cup {None}]
      /\ rows'[id] = new /\ new # None
  BY <1>1, <1>3, Nothing DEF StoreTypes
<1>5. id \in Ids /\ Reading(id)' = new.status /\ ~Absent(id)' /\ (Absent(id) <=> rows[id] = None)
      /\ Reading(id) = rows[id].status
  BY <1>4, ReadingKind DEF Ids
<1>6. StoreTypes'
  BY <1>1, <1>3, <1>4 DEF StoreTypes
<1>7. SameBut(id)
  BY <1>1, <1>4 DEF SameBut
<1>8. Absent(id) => Creates(r)
  BY <1>2, <1>5 DEF Creates
<1>9. Fits(c, r, m, new.status)
  BY <1>3, FitsRow
<1>10. ASSUME NEW k \in Calls \ {c}, NEW q \in Requests, q.id = id, ~Absent(id),
              Fits(k, q, m, rows[id].status)
       PROVE  Fits(k, q, m, new.status) \/ Opposes(r, k, q, m)
  <2>1. StatusIn(q, m) \in {None, rows[id].status}
    BY <1>10, FitsRow
  <2>2. new.status # None
    BY <1>3, StatusesTyped
  <2>3. CASE StatusIn(q, m) = None \/ StatusIn(q, m) = new.status
    BY <1>10, <2>3, FitsRow
  <2>4. CASE StatusIn(r, m) \notin {None, StatusIn(q, m)}
    BY <1>10, <2>4, OpposesKind
  <2> QED BY <1>3, <2>1, <2>2, <2>3, <2>4
<1>11. id \notin Roles /\ id \notin Sets /\ id \notin Books /\ id \notin Sections
  BY <1>5, OneKind
<1>12. ASSUME NEW q \in Requests, q.id = id
       PROVE  q.op # "remove_member"
  BY <1>11, <1>12, Kinds DEF Sets, GroupOps
<1> HIDE DEF id
<1>13. id = r.id
  BY DEF id
<1> QED
  BY <1>3, <1>4, <1>5, <1>6, <1>7, <1>8, <1>9, <1>10, <1>11, <1>12, <1>13 DEF Lands

-----------------------------------------------------------------------------
(* What a write does to groups and books *)

(* Members and entries replaced by a set of their kind *)
LEMMA SetsTyped ==
  ASSUME StoreTypes, NEW id \in Sets, NEW set,
         members' = [members EXCEPT ![id] = set], UNCHANGED <<rows, roles, settings>>,
         id \in Groups => set \in SUBSET (Users \cup Strangers),
         id \in Books => set \in SUBSET Entry
  PROVE  StoreTypes' /\ SameBut(id) /\ members'[id] = set /\ set # None
<1>1. Groups \cap Books = {} /\ Sets = Groups \cup Books
  BY NameAssumption DEF Sets
<1>2. set \in (SUBSET (Users \cup Strangers)) \cup (SUBSET Entry) \cup {None} /\ set # None
  BY <1>1, Nothing
<1>3. members'[id] = set /\ \A x \in Sets \ {id} : members'[x] = members[x]
  BY DEF StoreTypes
<1>4. members' \in [Sets -> (SUBSET (Users \cup Strangers)) \cup (SUBSET Entry) \cup {None}]
  BY <1>2 DEF StoreTypes
<1>5. /\ \A x \in Groups : members'[x] \in (SUBSET (Users \cup Strangers)) \cup {None}
      /\ \A x \in Books : members'[x] \in (SUBSET Entry) \cup {None}
  BY <1>1, <1>3 DEF StoreTypes
<1> QED BY <1>2, <1>3, <1>4, <1>5 DEF StoreTypes, SameBut

(* CreateUserGroup, AddUserGroupMember, RemoveUserGroupMember *)
LEMMA GroupLands ==
  ASSUME StoreTypes, NEW c \in Calls, NEW r \in Requests, r = task[c], NEW m, m = MySQL,
         r.id \in Groups, ~Missing(c), Creates(r) => Absent(r.id), Effect(c)
  PROVE  Lands(c, r, m)
<1> DEFINE id == r.id
           old == members[id]
<1>1. r.op \in GroupOps /\ r.users \in SUBSET (Users \cup Strangers)
  BY GroupRequest
<1>2. /\ id \in Sets /\ id \in Ids /\ id \notin Rows /\ id \notin Roles /\ id \notin Books
      /\ id \notin Sections
  BY OneKind DEF Ids, Sets
<1>3. /\ Reading(id) = old /\ Reading(id)' = members'[id] /\ (Absent(id) <=> old = None)
      /\ Absent(id)' <=> members'[id] = None
  BY <1>2, ReadingKind
<1> PICK new : new = Accepted(r.users)
  OBVIOUS
<1>4. new \subseteq r.users /\ r.users \cap Users \subseteq new
  BY <1>1 DEF Accepted
<1>5. /\ UNCHANGED <<rows, roles, settings>>
      /\ \/ r.op = "create_group" /\ members' = [members EXCEPT ![id] = new]
         \/ r.op = "add_member" /\ members' = [members EXCEPT ![id] = old \cup new]
         \/ /\ r.op = "remove_member" /\ ~Absent(id)
            /\ members' = [members EXCEPT ![id] = old \ r.users]
         \/ r.op = "remove_member" /\ Absent(id) /\ members' = members
  BY <1>1 DEF GroupOps, Effect, Asks, Put, PutMembers, PutRole, CreateDevice, UpdateDevice,
       DisableDevice, CreateRelay, UpdateRelay, RelayHeartbeat, DisableRelay, CreateUserGroup,
       AddUserGroupMember, RemoveUserGroupMember, CreateAddressBook, AddAddressBookEntry,
       RemoveAddressBookEntry, CreateControlRole, UpdateControlRole, DeleteControlRole,
       UpsertSystemSettings, store
<1>6. /\ r.op = "create_group" => Absent(id) /\ Creates(r)
      /\ r.op = "add_member" => ~Absent(id)
      /\ r.op = "remove_member" /\ Absent(id) => m
  BY <1>1 DEF Creates, Missing
<1>7. ~Absent(id) => old \in SUBSET (Users \cup Strangers)
  BY <1>3 DEF StoreTypes
<1>8. CASE r.op = "remove_member" /\ Absent(id)
  <2>1. members' = members
    BY <1>5, <1>8
  <2>2. StoreTypes' /\ SameBut(id) /\ Absent(id)'
    BY <1>3, <1>5, <1>8, <2>1 DEF StoreTypes, SameBut
  <2> HIDE DEF id
  <2>3. id = r.id
    BY DEF id
  <2> QED BY <1>2, <1>6, <1>8, <2>2, <2>3 DEF Lands
<1>9. CASE ~(r.op = "remove_member" /\ Absent(id))
  <2>1. PICK set : /\ members' = [members EXCEPT ![id] = set]
                   /\ \/ r.op = "create_group" /\ set = new
                      \/ r.op = "add_member" /\ set = old \cup new
                      \/ r.op = "remove_member" /\ set = old \ r.users
    BY <1>5, <1>9
  <2>2. ~Absent(id) <=> r.op # "create_group"
    BY <1>1, <1>6, <1>9 DEF GroupOps
  <2>3. set \in SUBSET (Users \cup Strangers)
    BY <1>1, <1>4, <1>7, <2>1, <2>2
  <2>4. StoreTypes' /\ SameBut(id) /\ members'[id] = set /\ set # None
    BY <1>2, <1>5, <2>1, <2>3, SetsTyped
  <2>5. Fits(c, r, m, set)
    <3>1. AddsIn(r) \cap Users \subseteq set /\ RemovesIn(r) \cap set = {}
      BY <1>4, <2>1 DEF AddsIn, RemovesIn
    <3> QED BY <3>1, FitsGroup
  <2>6. ASSUME NEW k \in Calls \ {c}, NEW q \in Requests, q.id = id,
               Absent(id) => q.op = "remove_member", ~Absent(id) => Fits(k, q, m, old)
        PROVE  Fits(k, q, m, set) \/ Opposes(r, k, q, m)
    <3> SUFFICES ASSUME AddsIn(r) \cap RemovesIn(q) = {}, RemovesIn(r) \cap AddsIn(q) = {}
                 PROVE  Fits(k, q, m, set)
      BY <2>6, OpposesKind
    <3>1. CASE Absent(id)
      <4>1. AddsIn(q) = {} /\ set \subseteq AddsIn(r)
        BY <1>4, <2>1, <2>2, <2>6, <3>1 DEF AddsIn
      <4> QED BY <2>6, <4>1, FitsGroup
    <3>2. CASE ~Absent(id)
      <4>1. AddsIn(q) \cap Users \subseteq old /\ RemovesIn(q) \cap old = {}
        BY <2>6, <3>2, FitsGroup
      <4>2. CASE r.op = "add_member"
        <5>1. new \subseteq AddsIn(r)
          BY <1>4, <4>2 DEF AddsIn
        <5> QED BY <2>1, <2>6, <4>1, <4>2, <5>1, FitsGroup
      <4>3. CASE r.op = "remove_member"
        <5>1. RemovesIn(r) = r.users
          BY <4>3 DEF RemovesIn
        <5> QED BY <2>1, <2>6, <4>1, <4>3, <5>1, FitsGroup
      <4> QED BY <2>1, <2>2, <3>2, <4>2, <4>3
    <3> QED BY <3>1, <3>2
  <2>7. Absent(id) => Creates(r)
    BY <1>6, <2>2
  <2>8. Reading(id)' = set /\ ~Absent(id)' /\ Reading(id) = old
    BY <1>3, <2>4
  <2> HIDE DEF id, old
  <2>9. id = r.id
    BY DEF id
  <2> QED BY <1>2, <2>4, <2>5, <2>6, <2>7, <2>8, <2>9 DEF Lands
<1> QED BY <1>8, <1>9

(* CreateAddressBook, AddAddressBookEntry, RemoveAddressBookEntry *)
LEMMA BookLands ==
  ASSUME StoreTypes, NEW c \in Calls, NEW r \in Requests, r = task[c], NEW m, m = MySQL,
         r.id \in Books, ~Missing(c), Creates(r) => Absent(r.id), Effect(c)
  PROVE  Lands(c, r, m)
<1> DEFINE id == r.id
           old == members[id]
           new == EntriesIn(c, r)
<1>1. r.op \in BookOps /\ (r.op = "remove_entry" => r.entry \in Entry)
  BY BookRequest
<1>2. /\ id \in Sets /\ id \in Ids /\ id \notin Rows /\ id \notin Roles /\ id \notin Groups
      /\ id \notin Sections
  BY OneKind DEF Ids, Sets
<1>3. /\ Reading(id) = old /\ Reading(id)' = members'[id] /\ (Absent(id) <=> old = None)
      /\ Absent(id)' <=> members'[id] = None
  BY <1>2, ReadingKind
<1>4. r.op # "remove_entry" => new \in SUBSET Entry /\ \A e \in new : e.by = c
  BY <1>1, EntriesTyped DEF BookOps
<1>5. new = Entries(c)
  BY DEF Entries, EntriesIn
<1> HIDE DEF new
<1>6. PICK set : /\ members' = [members EXCEPT ![id] = set]
                 /\ UNCHANGED <<rows, roles, settings>>
                 /\ \/ r.op = "create_book" /\ set = new
                    \/ r.op = "add_entry" /\ set = old \cup new
                    \/ r.op = "remove_entry" /\ set = old \ {r.entry}
  BY <1>1, <1>5 DEF BookOps, Effect, Asks, Put, PutMembers, PutRole, CreateDevice, UpdateDevice,
       DisableDevice, CreateRelay, UpdateRelay, RelayHeartbeat, DisableRelay, CreateUserGroup,
       AddUserGroupMember, RemoveUserGroupMember, CreateAddressBook, AddAddressBookEntry,
       RemoveAddressBookEntry, CreateControlRole, UpdateControlRole, DeleteControlRole,
       UpsertSystemSettings
<1>7. /\ ~Absent(id) <=> r.op # "create_book"
      /\ Absent(id) => Creates(r)
  BY <1>1 DEF BookOps, Creates, Missing
<1>8. ~Absent(id) => old \in SUBSET Entry
  BY <1>3 DEF StoreTypes
<1>9. set \in SUBSET Entry
  BY <1>1, <1>4, <1>6, <1>7, <1>8
<1>10. StoreTypes' /\ SameBut(id) /\ members'[id] = set /\ set # None
  BY <1>2, <1>6, <1>9, SetsTyped
<1>11. Fits(c, r, m, set)
  <2>1. EntersIn(c, r) \subseteq set /\ StrikesIn(r) \cap set = {}
    BY <1>6 DEF EntersIn, StrikesIn, new
  <2> QED BY <2>1, FitsBook
<1>12. ASSUME NEW k \in Calls \ {c}, NEW q \in Requests, q.id = id, ~Absent(id),
              q.op = "remove_entry" => q.entry.by # c, Fits(k, q, m, old)
       PROVE  Fits(k, q, m, set) \/ Opposes(r, k, q, m)
  <2> SUFFICES ASSUME StrikesIn(r) \cap EntersIn(k, q) = {} PROVE Fits(k, q, m, set)
    BY <1>12, OpposesKind
  <2>1. EntersIn(k, q) \subseteq old /\ StrikesIn(q) \cap old = {}
    BY <1>12, FitsBook
  <2>2. CASE r.op = "remove_entry"
    <3>1. StrikesIn(r) = {r.entry}
      BY <2>2 DEF StrikesIn
    <3> QED BY <1>6, <1>12, <2>1, <2>2, <3>1, FitsBook
  <2>3. CASE r.op = "add_entry"
    <3>1. StrikesIn(q) \cap new = {}
      BY <1>4, <1>12, <2>3 DEF StrikesIn
    <3> QED BY <1>6, <1>12, <2>1, <2>3, <3>1, FitsBook
  <2> QED BY <1>6, <1>7, <1>12, <2>2, <2>3
<1>13. ASSUME NEW e \in Entry, e.by # c, ~Absent(id), e \notin old
       PROVE  e \notin set
  BY <1>4, <1>6, <1>7, <1>13
<1>14. Reading(id)' = set /\ ~Absent(id)' /\ Reading(id) = old
  BY <1>3, <1>10
<1>15. ASSUME NEW q \in Requests, q.id = id
       PROVE  q.op # "remove_member"
  BY <1>2, <1>15, Kinds DEF GroupOps
<1>16. id = r.id /\ old = members[id]
  OBVIOUS
<1> HIDE DEF id, old
<1> QED BY <1>2, <1>7, <1>10, <1>11, <1>12, <1>13, <1>14, <1>15, <1>16 DEF Lands

-----------------------------------------------------------------------------
(* What a write does to control roles and settings *)

(* CreateControlRole, UpdateControlRole, DeleteControlRole *)
LEMMA RoleLands ==
  ASSUME StoreTypes, NEW c \in Calls, NEW r \in Requests, r = task[c], NEW m, m = MySQL,
         r.id \in Roles, ~Missing(c), Effect(c)
  PROVE  Lands(c, r, m)
<1> DEFINE id == r.id
           new == RoleIn(r)
<1>1. r.op \in RoleOps /\ (r.op # "delete_role" => r.role \in Role)
  BY RoleRequest
<1>2. id \in Ids /\ id \notin Rows /\ id \notin Sets /\ id \notin Books /\ id \notin Sections
  BY OneKind DEF Ids, Sets
<1>3. roles' = [roles EXCEPT ![id] = new] /\ UNCHANGED <<rows, members, settings>>
  BY <1>1 DEF RoleIn, RoleOps, Effect, Asks, Put, PutMembers, PutRole, CreateDevice, UpdateDevice,
       DisableDevice, CreateRelay, UpdateRelay, RelayHeartbeat, DisableRelay, CreateUserGroup,
       AddUserGroupMember, RemoveUserGroupMember, CreateAddressBook, AddAddressBookEntry,
       RemoveAddressBookEntry, CreateControlRole, UpdateControlRole, DeleteControlRole,
       UpsertSystemSettings
<1>4. new \in Role \cup {None} /\ (r.op # "delete_role" => new # None)
  BY <1>1, Nothing DEF RoleIn
<1>5. StoreTypes' /\ SameBut(id) /\ roles'[id] = new
  BY <1>3, <1>4 DEF StoreTypes, SameBut
<1>6. /\ Reading(id)' = new /\ (Absent(id) <=> roles[id] = None) /\ (Absent(id)' <=> new = None)
  BY <1>2, <1>5, ReadingKind
<1>7. Absent(id) => Creates(r)
  <2>1. r.op # "remove_member"
    BY <1>1 DEF RoleOps
  <2> QED BY <2>1 DEF Missing
<1>8. Fits(c, r, m, new)
  BY FitsRole
<1>9. ASSUME NEW k \in Calls \ {c}, NEW q \in Requests, q.id = id
      PROVE  Fits(k, q, m, new) \/ Opposes(r, k, q, m)
  BY <1>9, FitsRole, OpposesKind
<1>10. id = r.id
  OBVIOUS
<1> HIDE DEF id, new
<1> QED BY <1>2, <1>5, <1>6, <1>7, <1>8, <1>9, <1>10 DEF Lands

(* UpsertSystemSettings *)
LEMMA SectionLands ==
  ASSUME StoreTypes, NEW c \in Calls, NEW r \in Requests, r = task[c], NEW m, m = MySQL,
         r.id \in Sections, Effect(c)
  PROVE  Lands(c, r, m)
<1> DEFINE id == r.id
           old == settings[id]
<1>1. /\ r.op = "put" /\ DOMAIN r.values \in SUBSET Keys
      /\ \A x \in DOMAIN r.values : r.values[x] \in SUBSET Values
  BY SectionRequest
<1>2. id \in Ids /\ id \notin Rows /\ id \notin Sets /\ id \notin Books /\ id \notin Roles
  BY OneKind DEF Ids, Sets
<1>3. PICK f \in Chosen(c) :
        /\ settings' = [settings EXCEPT ![id] = [k \in Keys |-> IF k \in DOMAIN f THEN f[k] ELSE old[k]]]
        /\ UNCHANGED <<rows, members, roles>>
  BY <1>1 DEF Effect, Asks, Put, PutMembers, PutRole, CreateDevice, UpdateDevice,
       DisableDevice, CreateRelay, UpdateRelay, RelayHeartbeat, DisableRelay, CreateUserGroup,
       AddUserGroupMember, RemoveUserGroupMember, CreateAddressBook, AddAddressBookEntry,
       RemoveAddressBookEntry, CreateControlRole, UpdateControlRole, DeleteControlRole,
       UpsertSystemSettings
<1>4. /\ f \in [DOMAIN r.values -> Values] /\ DOMAIN f = DOMAIN r.values
      /\ \A x \in DOMAIN r.values : f[x] \in r.values[x] /\ f[x] \in Values /\ f[x] # None
  BY <1>3, Nothing DEF Chosen
<1> DEFINE new == [k \in Keys |-> IF k \in DOMAIN f THEN f[k] ELSE old[k]]
<1>5. old \in [Keys -> Values \cup {None}]
  BY DEF StoreTypes
<1>6. new \in [Keys -> Values \cup {None}]
  BY <1>1, <1>4, <1>5
<1>7. \A x \in Keys : new[x] = IF x \in DOMAIN r.values THEN f[x] ELSE old[x]
  BY <1>4
<1> HIDE DEF new
<1>8. StoreTypes' /\ SameBut(id) /\ settings'[id] = new
  BY <1>3, <1>6 DEF StoreTypes, SameBut, new
<1>9. /\ Reading(id) = Merged(id) /\ Reading(id)' = Merged(id)' /\ ~Absent(id) /\ ~Absent(id)'
  BY <1>2, ReadingKind
<1>10. PICK told : told = Merged(id)
  OBVIOUS
<1>11. PICK shown : shown = Merged(id)'
  OBVIOUS
<1>12. /\ \A x \in DOMAIN r.values : shown[x] = f[x]
       /\ \A x \in Keys \ DOMAIN r.values : shown[x] = told[x]
  BY <1>1, <1>4, <1>7, <1>8, <1>10, <1>11 DEF Merged
<1>13. Fits(c, r, m, shown)
  BY <1>4, <1>12, FitsSection
<1>14. ASSUME NEW k \in Calls \ {c}, NEW q \in Requests, q.id = id, Fits(k, q, m, told)
       PROVE  Fits(k, q, m, shown) \/ Opposes(r, k, q, m)
  <2> SUFFICES ASSUME \A x \in DOMAIN r.values \cap DOMAIN q.values : r.values[x] \subseteq q.values[x]
               PROVE  Fits(k, q, m, shown)
    BY <1>14, OpposesKind
  <2>1. DOMAIN q.values \in SUBSET Keys /\ \A x \in DOMAIN q.values : told[x] \in q.values[x]
    BY <1>14, FitsSection, SectionRequest
  <2>2. \A x \in DOMAIN q.values : shown[x] \in q.values[x]
    BY <1>4, <1>12, <2>1
  <2> QED BY <1>14, <2>2, FitsSection
<1>15. \A x \in Keys : settings'[id][x] # None => old[x] # None \/ x \in DOMAIN r.values
  BY <1>7, <1>8
<1>16. id = r.id /\ old = settings[id]
  OBVIOUS
<1> HIDE DEF id, old
<1> QED BY <1>2, <1>8, <1>9, <1>10, <1>11, <1>13, <1>14, <1>15, <1>16 DEF Lands

(* Every write *)
LEMMA WriteLands ==
  ASSUME StoreTypes, CallTypes, NEW c \in Calls, NEW r \in Requests, r = task[c],
         NEW m, m = MySQL, ~Missing(c), Creates(r) => Absent(r.id), Effect(c)
  PROVE  Lands(c, r, m)
<1>1. r.id \in Ids
  BY Kinds
<1> QED BY <1>1, RowLands, GroupLands, BookLands, RoleLands, SectionLands DEF Ids, Sets

-----------------------------------------------------------------------------
(* A step of c leaves the other requests where they are *)

Moves(c) ==
  /\ deployment' = deployment
  /\ \A k \in Calls \ {c} : /\ pc'[k] = pc[k] /\ task'[k] = task[k] /\ stamp'[k] = stamp[k]
                            /\ copy'[k] = copy[k] /\ reply'[k] = reply[k]
                            /\ before'[k] = before[k]
  /\ pc[c] # "done" /\ pc'[c] # "idle"
  /\ pc[c] # "idle" => task'[c] = task[c] /\ before'[c] = before[c]
  /\ Wrote(c) => Wrote(c)' /\ stamp'[c] = stamp[c]
  /\ auditLog \subseteq auditLog'

(* What a step of c leaves every request, and the others altogether *)
LEMMA Advance ==
  ASSUME NEW c \in Calls, Moves(c), NEW k \in Calls
  PROVE  /\ deployment' = deployment /\ (MySQL' <=> MySQL) /\ (Fails(k)' <=> Fails(k))
         /\ pc[k] # "idle" => pc'[k] # "idle" /\ task'[k] = task[k] /\ before'[k] = before[k]
         /\ pc[k] = "done" => pc'[k] = "done"
         /\ Wrote(k) => Wrote(k)' /\ stamp'[k] = stamp[k] /\ pc[k] # "idle"
         /\ k # c => /\ pc'[k] = pc[k] /\ task'[k] = task[k] /\ stamp'[k] = stamp[k]
                     /\ copy'[k] = copy[k] /\ reply'[k] = reply[k] /\ before'[k] = before[k]
                     /\ (Certain(k)' <=> Certain(k)) /\ (HasCopy(k)' <=> HasCopy(k))
                     /\ (Wrote(k)' <=> Wrote(k))
BY DEF Moves, MySQL, Fails, Wrote, Certain, HasCopy, Succeeded

(* Whoever asks for something else keeps asking *)
LEMMA ExcuseKept ==
  ASSUME NEW c \in Calls, Moves(c), NEW k \in Calls, pc[k] # "idle"
  PROVE  /\ Excused(k) => Excused(k)'
         /\ Overtaken(k) => Overtaken(k)'
<1>1. task'[k] = task[k] /\ before'[k] = before[k] /\ MySQL' = MySQL
  BY Advance DEF MySQL
<1>2. \A j \in Calls : Wrote(j) => Wrote(j)' /\ task'[j] = task[j] /\ before'[j] = before[j]
  BY Advance
<1>3. Excused(k) => Excused(k)'
  <2> SUFFICES ASSUME Excused(k) PROVE Excused(k)'
    OBVIOUS
  <2>1. PICK j \in Calls \ (before[k] \cup {k}) : Wrote(j) /\ Opposes(task[j], k, task[k], MySQL)
    BY DEF Excused
  <2>2. Wrote(j)' /\ Opposes(task'[j], k, task'[k], MySQL') /\ j \in Calls \ (before'[k] \cup {k})
    BY <1>1, <1>2, <2>1
  <2> QED BY <2>2 DEF Excused
<1>4. Overtaken(k) => Overtaken(k)'
  <2> SUFFICES ASSUME Overtaken(k) PROVE Overtaken(k)'
    OBVIOUS
  <2>1. PICK j \in Calls \ (before[k] \cup {k}) :
          k \notin before[j] /\ Wrote(j) /\ Opposes(task[j], k, task[k], MySQL)
    BY DEF Overtaken
  <2>2. /\ Wrote(j)' /\ Opposes(task'[j], k, task'[k], MySQL') /\ j \in Calls \ (before'[k] \cup {k})
        /\ k \notin before'[j]
    BY <1>1, <1>2, <2>1
  <2> QED BY <2>2 DEF Overtaken
<1> QED BY <1>3, <1>4

(* What does not look at the store *)
LEMMA AsideKept ==
  ASSUME \A k \in Calls : CallInv(k), CallTypes, NEW c \in Calls, Moves(c), OnceOf(c)',
         NEW k \in Calls, k # c
  PROVE  /\ StepOf(k)' /\ SeenOf(k)' /\ TellsOf(k)'
         /\ \A j \in Calls : j # k /\ pc'[k] # "idle" /\ Creates(task'[k]) /\ pc'[j] # "idle"
                             /\ Creates(task'[j]) => task'[j].id # task'[k].id
<1>1. CallInv(k)
  OBVIOUS
<1>2. before[k] \in SUBSET Calls
  BY DEF CallTypes
<1>3. StepOf(k)'
  <2>1. \A j \in before'[k] : pc'[j] = "done"
    BY <1>1, <1>2, Advance DEF CallInv, StepOf
  <2> QED BY <1>1, <2>1, Advance DEF CallInv, StepOf
<1>4. SeenOf(k)'
  BY <1>1, Advance DEF CallInv, SeenOf
<1>5. TellsOf(k)'
  <2> SUFFICES ASSUME HasCopy(k)'
               PROVE  /\ Fits(k, task'[k], MySQL', copy'[k]) \/ Overtaken(k)'
                      /\ task'[k].id \in Roles => copy'[k] \in Role
    BY DEF TellsOf
  <2>1. HasCopy(k) /\ task'[k] = task[k] /\ copy'[k] = copy[k] /\ MySQL' = MySQL /\ pc[k] # "idle"
    BY Advance DEF MySQL, HasCopy, Succeeded
  <2> QED BY <1>1, <2>1, ExcuseKept DEF CallInv, TellsOf
<1>6. ASSUME NEW j \in Calls, j # k, pc'[k] # "idle", Creates(task'[k]), pc'[j] # "idle",
             Creates(task'[j])
      PROVE  task'[j].id # task'[k].id
  <2>1. CASE j = c
    BY <1>6, <2>1 DEF OnceOf
  <2>2. CASE j # c
    BY <1>1, <1>6, <2>2, Advance DEF CallInv, OnceOf
  <2> QED BY <2>1, <2>2
<1> QED BY <1>3, <1>4, <1>5, <1>6

(* A step that leaves the store alone *)
LEMMA SameStore ==
  ASSUME UNCHANGED store
  PROVE  /\ \A id : Reading(id)' = Reading(id) /\ (Absent(id)' <=> Absent(id))
         /\ StoreTypes => StoreTypes'
<1>1. \A id : Merged(id)' = Merged(id)
  BY DEF Merged, store
<1>2. \A id : Absent(id)' <=> Absent(id)
  BY DEF Absent, store
<1>3. \A id : Reading(id)' = Reading(id)
  BY <1>1 DEF Reading, store
<1>4. StoreTypes => StoreTypes'
  BY DEF StoreTypes, store
<1> QED BY <1>2, <1>3, <1>4

(* The others, when the store is left alone *)
LEMMA OthersKept ==
  ASSUME \A k \in Calls : CallInv(k), CallTypes, NEW c \in Calls, Moves(c), OnceOf(c)',
         UNCHANGED store, NEW k \in Calls, k # c
  PROVE  CallInv(k)'
<1>1. CallInv(k)
  OBVIOUS
<1>2. StepOf(k)' /\ SeenOf(k)' /\ TellsOf(k)'
  BY AsideKept
<1>3. OnceOf(k)'
  BY <1>1, Advance, AsideKept, SameStore DEF CallInv, OnceOf
<1>4. PresentOf(k)'
  BY <1>1, Advance, SameStore DEF CallInv, PresentOf
<1>5. StandsOf(k)'
  <2> SUFFICES ASSUME Certain(k)', task'[k].id \in Sets => ~Absent(task[k].id)'
               PROVE  Fits(k, task'[k], MySQL', Reading(task[k].id)') \/ Excused(k)'
    BY DEF StandsOf
  <2>1. /\ Certain(k) /\ task'[k] = task[k] /\ MySQL' = MySQL /\ pc[k] # "idle"
        /\ Reading(task[k].id)' = Reading(task[k].id) /\ (Absent(task[k].id)' <=> Absent(task[k].id))
    BY Advance, SameStore DEF MySQL, Certain, Succeeded
  <2> QED BY <1>1, <2>1, ExcuseKept DEF CallInv, StandsOf
<1>6. MissedOf(k)'
  <2> SUFFICES ASSUME MissedOf(k) PROVE MissedOf(k)'
    BY <1>1 DEF CallInv
  <2>1. \A j \in Calls : Wrote(j) => Wrote(j)' /\ task'[j] = task[j] /\ stamp'[j] = stamp[j]
    BY Advance
  <2>2. /\ pc'[k] = pc[k] /\ task'[k] = task[k] /\ stamp'[k] = stamp[k] /\ reply'[k] = reply[k]
        /\ before'[k] = before[k] /\ (Absent(task[k].id)' <=> Absent(task[k].id)) /\ members' = members
    BY Advance, SameStore DEF store
  <2> QED BY <2>1, <2>2 DEF MissedOf
<1> QED BY <1>2, <1>3, <1>4, <1>5, <1>6 DEF CallInv

(* A write about another thing *)
LEMMA SameElsewhere ==
  ASSUME NEW id \in Ids, NEW other, id # other, SameBut(other)
  PROVE  /\ Reading(id)' = Reading(id) /\ (Absent(id)' <=> Absent(id))
         /\ id \in Sets => members'[id] = members[id]
<1>1. CASE id \in Rows
  BY <1>1, OneKind, ReadingKind DEF SameBut
<1>2. CASE id \in Sets
  BY <1>2, OneKind, ReadingKind DEF SameBut
<1>3. CASE id \in Roles
  BY <1>3, OneKind, ReadingKind DEF SameBut
<1>4. CASE id \in Sections
  <2>1. settings'[id] = settings[id] /\ id \notin Sets
    BY <1>4, OneKind DEF SameBut
  <2>2. Merged(id)' = Merged(id)
    BY <2>1 DEF Merged
  <2> QED BY <1>4, <2>1, <2>2, ReadingKind
<1> QED BY <1>1, <1>2, <1>3, <1>4 DEF Ids

(* The others, when c writes: what they asked for stands, or c asks for *)
(* something else; what they were told is missing is, or c creates it   *)
LEMMA OthersKeptByWrite ==
  ASSUME \A k \in Calls : CallInv(k), CallTypes, NEW c \in Calls, Moves(c), OnceOf(c)',
         NEW r \in Requests, r = task[c], NEW m, m = MySQL, Lands(c, r, m),
         pc[c] = "write", Wrote(c)', NEW k \in Calls, k # c
  PROVE  CallInv(k)'
<1>1. CallInv(k)
  OBVIOUS
<1>2. StepOf(k)' /\ SeenOf(k)' /\ TellsOf(k)'
  BY AsideKept
<1>3. c \notin before[k] /\ (task[c] = r /\ task'[c] = r) /\ pc[c] # "idle"
  BY <1>1, Advance DEF CallInv, StepOf
<1>4. pc[k] # "idle" => /\ task[k] \in Requests /\ task[k].id \in Ids
                        /\ task[k].op = "remove_entry" => task[k].entry.by # c
  <2> SUFFICES ASSUME pc[k] # "idle"
               PROVE  /\ task[k] \in Requests /\ task[k].id \in Ids
                      /\ task[k].op = "remove_entry" => task[k].entry.by # c
    OBVIOUS
  <2>1. task[k] \in Requests
    BY <1>1 DEF CallInv, StepOf
  <2> QED BY <1>1, <2>1, Kinds DEF CallInv, SeenOf
<1>5. pc[k] # "idle" /\ task[k].id # r.id =>
        /\ Reading(task[k].id)' = Reading(task[k].id)
        /\ Absent(task[k].id)' <=> Absent(task[k].id)
        /\ task[k].id \in Sets => members'[task[k].id] = members[task[k].id]
  <2> SUFFICES ASSUME pc[k] # "idle", NEW id, id = task[k].id, id # r.id
               PROVE  /\ Reading(id)' = Reading(id) /\ (Absent(id)' <=> Absent(id))
                      /\ id \in Sets => members'[id] = members[id]
    BY Advance
  <2>1. id \in Ids /\ SameBut(r.id)
    BY <1>4 DEF Lands
  <2> QED BY <2>1, SameElsewhere
<1>6. OnceOf(k)'
  <2>1. ASSUME pc'[k] = "write", Creates(task'[k]) PROVE Absent(task[k].id)'
    <3>1. pc[k] = "write" /\ Creates(task[k]) /\ Absent(task[k].id)
      BY <1>1, <2>1, Advance DEF CallInv, OnceOf
    <3>2. CASE task[k].id # r.id
      BY <1>5, <3>1, <3>2
    <3>3. CASE task[k].id = r.id
      <4>1. ~Creates(r)
        BY <1>1, <1>3, <3>1, <3>3 DEF CallInv, OnceOf
      <4>2. Absent(r.id)'
        BY <3>1, <3>3, <4>1 DEF Lands
      <4> QED BY <3>3, <4>2, Advance
    <3> QED BY <3>2, <3>3
  <2> QED BY <2>1, AsideKept, Advance DEF OnceOf
<1>7. PresentOf(k)'
  <2> SUFFICES ASSUME Certain(k), task[k].id \in Rows \cup Sets,
                      ~(task[k].op = "remove_member" /\ pc[k] = "reread")
               PROVE  ~Absent(task[k].id)'
    BY Advance DEF PresentOf, Certain, Succeeded
  <2>1. ~Absent(task[k].id) /\ pc[k] # "idle"
    BY <1>1 DEF CallInv, PresentOf, Certain, Succeeded
  <2>2. CASE task[k].id # r.id
    BY <1>5, <2>1, <2>2
  <2>3. CASE task[k].id = r.id
    <3>1. ~Absent(r.id)'
      BY <2>1, <2>3 DEF Lands
    <3> QED BY <2>1, <2>3, <3>1, Advance
  <2> QED BY <2>2, <2>3
<1>8. StandsOf(k)'
  <2> SUFFICES ASSUME Certain(k), task[k].id \in Sets => ~Absent(task[k].id)'
               PROVE  Fits(k, task[k], m, Reading(task[k].id)') \/ Excused(k)'
    BY Advance DEF MySQL, StandsOf, Certain, Succeeded
  <2>1. pc[k] # "idle"
    BY DEF Certain, Succeeded
  <2>2. CASE task[k].id # r.id
    BY <1>1, <1>5, <2>1, <2>2, ExcuseKept DEF CallInv, StandsOf
  <2>3. CASE task[k].id = r.id
    <3> PICK q : q = task[k]
      OBVIOUS
    <3>1. /\ q \in Requests /\ q.id = r.id /\ task'[k] = q
          /\ q.op = "remove_entry" => q.entry.by # c
      BY <1>4, <2>1, <2>3, Advance
    <3>2. CASE Opposes(r, k, q, m)
      <4>1. /\ c \in Calls \ (before'[k] \cup {k}) /\ Wrote(c)'
            /\ Opposes(task'[c], k, task'[k], MySQL')
        BY <1>3, <3>1, <3>2, Advance DEF MySQL
      <4> QED BY <4>1 DEF Excused
    <3>3. CASE ~Opposes(r, k, q, m)
      <4> SUFFICES ASSUME ~Excused(k) PROVE Fits(k, q, m, Reading(r.id)')
        BY <2>1, <2>3, <3>1, ExcuseKept
      <4>1. r.id \in Sets => ~Absent(r.id)'
        BY <2>3, <3>1
      <4>2. Absent(r.id) => r.id \in Roles \/ q.op = "remove_member"
        <5>1. r.id \in Rows \cup Sets /\ q.op # "remove_member" => ~Absent(r.id)
          BY <1>1, <3>1 DEF CallInv, PresentOf
        <5> QED BY <3>1, <5>1, Kinds, ReadingKind DEF Ids
      <4>3. ~Absent(r.id) \/ r.id \in Roles => Fits(k, q, m, Reading(r.id))
        <5>1. r.id \in Roles => r.id \notin Sets
          BY OneKind DEF Ids
        <5> QED BY <1>1, <3>1, <5>1 DEF CallInv, StandsOf
      <4> QED BY <3>1, <3>3, <4>1, <4>2, <4>3 DEF Lands
    <3> QED BY <3>2, <3>3
  <2> QED BY <2>2, <2>3
<1>9. MissedOf(k)'
  <2> SUFFICES ASSUME MissedOf(k), pc[k] = "done", reply[k] \in {"not_found", "gone"}
               PROVE  MissedOf(k)'
    BY <1>1, Advance DEF CallInv, MissedOf
  <2> DEFINE id == task[k].id
  <2>1. \A j \in Calls : Wrote(j) => Wrote(j)' /\ task'[j] = task[j] /\ stamp'[j] = stamp[j]
    BY Advance
  <2>2. /\ task'[k] = task[k] /\ stamp'[k] = stamp[k] /\ before'[k] = before[k] /\ pc[k] # "idle"
    BY Advance
  <2>3. CASE Absent(id)
    <3>1. CASE Absent(id)'
      BY <3>1, <2>2 DEF MissedOf
    <3>2. CASE ~Absent(id)'
      <4>1. id = r.id
        BY <1>5, <2>2, <2>3, <3>2
      <4>2. Creates(r)
        <5>1. ~Absent(r.id)'
          BY <2>2, <3>2, <4>1
        <5> QED BY <2>3, <4>1, <5>1 DEF Lands
      <4>3. c \in Calls \ before'[k] /\ Wrote(c)' /\ Creates(task'[c]) /\ task'[c].id = task'[k].id
        BY <1>3, <2>2, <4>1, <4>2
      <4> QED BY <4>3 DEF MissedOf
    <3> QED BY <3>1, <3>2
  <2>4. CASE ~Absent(id) /\ task[k].op = "remove_entry" /\ task[k].entry \notin members[id]
    <3>1. id \in Books /\ task[k].entry \in Entry /\ task[k].entry.by # c
      BY <1>4, <2>2, <2>4, Kinds, BookRequest DEF BookOps
    <3>2. task[k].entry \notin members'[id]
      <4>1. CASE id # r.id
        BY <1>5, <2>2, <2>4, <3>1, <4>1 DEF Sets
      <4>2. CASE id = r.id
        BY <2>4, <3>1, <4>2 DEF Lands
      <4> QED BY <4>1, <4>2
    <3> QED BY <2>2, <2>4, <3>2 DEF MissedOf
  <2>5. CASE \E j \in Calls \ before[k] : Wrote(j) /\ Creates(task[j]) /\ task[j].id = id
    BY <2>1, <2>2, <2>5 DEF MissedOf
  <2>6. CASE \E j \in Calls \ {k} : /\ Wrote(j) /\ task[j].id = id
                                   /\ task[k].op \in RowOps /\ stamp[j] = stamp[k]
    BY <2>1, <2>2, <2>6 DEF MissedOf
  <2> QED BY <2>3, <2>4, <2>5, <2>6 DEF MissedOf
<1> QED BY <1>2, <1>6, <1>7, <1>8, <1>9 DEF CallInv

-----------------------------------------------------------------------------
(* The step of a handler *)

(* Following, step by step *)
LEMMA FollowingIs ==
  ASSUME CallTypes, NEW c \in Calls, pc[c] \notin {"idle", "done"}, StepOf(c)
  PROVE  /\ pc[c] = "find" => Following(c) = "write"
         /\ pc[c] = "write" =>
              Following(c) = IF task[c].op \in {"delete_role", "put"} THEN "audit"
                             ELSE IF MySQL THEN "reread"
                             ELSE IF task[c].op \in BookOps THEN "done" ELSE "audit"
         /\ pc[c] = "reread" =>
              Following(c) = IF task[c].op \in RoleOps THEN "reread_rest"
                             ELSE IF task[c].op \in BookOps \cup {"put"} THEN "done" ELSE "audit"
         /\ pc[c] = "reread_rest" => Following(c) = "audit"
         /\ pc[c] = "audit" => Following(c) = IF task[c].op = "put" THEN "reread" ELSE "done"
<1>1. pc[c] \in {"find", "write", "reread", "reread_rest", "audit"}
  BY DEF CallTypes, Steps
<1>2. CASE pc[c] = "find"
  BY <1>2 DEF Following
<1>3. CASE pc[c] = "write"
  BY <1>3 DEF Following
<1>4. CASE pc[c] = "reread"
  BY <1>4 DEF Following
<1>5. CASE pc[c] = "reread_rest"
  BY <1>5 DEF Following, StepOf, BookOps
<1>6. CASE pc[c] = "audit"
  BY <1>6 DEF Following
<1> QED BY <1>1, <1>2, <1>3, <1>4, <1>5, <1>6

(* The request goes on to step to, and its answer is says, None as yet *)
Turns(c, to, says) ==
  /\ pc[c] \notin {"idle", "done"} /\ to \in Steps \ {"idle"} /\ says \in Replies
  /\ pc' = [pc EXCEPT ![c] = to] /\ reply' = [reply EXCEPT ![c] = says]
  /\ UNCHANGED <<deployment, task, before, now>>
  /\ pc[c] \notin {"find", "write"} =>
       to \notin {"find", "write"} /\ says # "not_found" /\ stamp' = stamp
  /\ stamp' = stamp \/ \E at \in Nat : stamp' = [stamp EXCEPT ![c] = at]
  /\ copy' = copy \/ \E read : copy' = [copy EXCEPT ![c] = read]
  /\ auditLog \subseteq auditLog'

(* A turn is a step that leaves the others where they are *)
LEMMA TurnMoves ==
  ASSUME CallTypes, NEW c \in Calls, NEW to, NEW says, Turns(c, to, says)
  PROVE  CallTypes' /\ Moves(c) /\ pc'[c] = to /\ reply'[c] = says /\ task'[c] = task[c]
<1>1. pc'[c] = to /\ reply'[c] = says
  BY DEF Turns, CallTypes
<1>2. /\ stamp' \in [Calls -> Nat] /\ copy' = [k \in Calls |-> copy'[k]]
      /\ \A k \in Calls \ {c} : stamp'[k] = stamp[k] /\ copy'[k] = copy[k]
  <2>1. stamp' \in [Calls -> Nat] /\ \A k \in Calls \ {c} : stamp'[k] = stamp[k]
    BY DEF Turns, CallTypes
  <2>2. copy' = [k \in Calls |-> copy'[k]] /\ \A k \in Calls \ {c} : copy'[k] = copy[k]
    <3>1. CASE copy' = copy
      BY <3>1 DEF CallTypes
    <3>2. CASE \E read : copy' = [copy EXCEPT ![c] = read]
      <4>1. PICK read : copy' = [copy EXCEPT ![c] = read]
        BY <3>2
      <4>2. copy = [k \in Calls |-> copy[k]]
        BY DEF CallTypes
      <4>3. copy' = [k \in Calls |-> IF k = c THEN read ELSE copy[k]]
        BY <4>1, <4>2
      <4> QED BY <4>3
    <3> QED BY <3>1, <3>2 DEF Turns
  <2> QED BY <2>1, <2>2
<1>3. CallTypes'
  <2>1. pc' \in [Calls -> Steps] /\ reply' \in [Calls -> Replies]
    BY DEF Turns, CallTypes
  <2> QED BY <1>2, <2>1 DEF Turns, CallTypes
<1>4. Moves(c)
  <2>1. Wrote(c) => Wrote(c)' /\ stamp'[c] = stamp[c]
    <3> SUFFICES ASSUME Wrote(c) PROVE Wrote(c)' /\ stamp'[c] = stamp[c]
      OBVIOUS
    <3>1. pc[c] \notin {"find", "write"}
      BY DEF Wrote
    <3>2. to \in {"reread", "reread_rest", "audit", "done"} /\ says # "not_found" /\ stamp' = stamp
      BY <3>1 DEF Turns, Steps
    <3> QED BY <1>1, <3>2 DEF Wrote
  <2>2. \A k \in Calls \ {c} : pc'[k] = pc[k] /\ reply'[k] = reply[k]
    BY DEF Turns, CallTypes
  <2> QED BY <1>1, <1>2, <2>1, <2>2 DEF Turns, Moves
<1> QED BY <1>1, <1>3, <1>4 DEF Turns

(* A store access that goes well is a turn *)
LEMMA ProceedTurns ==
  ASSUME CallTypes, NEW c \in Calls, StepOf(c), NEW step \in Steps \ {"idle", "done"}, Proceed(c, step),
         stamp' = stamp \/ (pc[c] = "write" /\ \E at \in Nat : stamp' = [stamp EXCEPT ![c] = at]),
         copy' = copy \/ \E read : copy' = [copy EXCEPT ![c] = read],
         auditLog \subseteq auditLog'
  PROVE  Turns(c, Following(c), IF Following(c) = "done" THEN "ok" ELSE None)
<1>1. pc[c] = step /\ pc[c] \notin {"idle", "done"}
  BY DEF Proceed, Goto
<1>2. Following(c) \in Steps \ {"idle"} /\ (pc[c] \notin {"find", "write"} =>
                                              Following(c) \notin {"find", "write"})
  BY <1>1, FollowingIs DEF Steps
<1>3. reply[c] = None
  BY <1>1 DEF StepOf
<1> PICK to : to = Following(c)
  OBVIOUS
<1>4. reply' = [reply EXCEPT ![c] = IF to = "done" THEN "ok" ELSE None]
  <2>1. CASE to = "done"
    BY <2>1 DEF Proceed, Answer
  <2>2. CASE to # "done"
    <3>1. reply' = reply /\ reply = [reply EXCEPT ![c] = None]
      BY <1>3, <2>2 DEF Proceed, CallTypes
    <3> QED BY <2>2, <3>1
  <2> QED BY <2>1, <2>2
<1>5. (IF to = "done" THEN "ok" ELSE None) \in Replies \ {"not_found"}
  BY Nothing DEF Replies
<1> QED BY <1>1, <1>2, <1>4, <1>5 DEF Turns, Proceed, Goto

(* The invariant, of one request *)
LEMMA InvParts ==
  ASSUME Inv, NEW c \in Calls
  PROVE  /\ StoreTypes /\ CallTypes /\ SharedInv /\ (\A k \in Calls : CallInv(k))
         /\ StepOf(c) /\ OnceOf(c) /\ PresentOf(c) /\ SeenOf(c) /\ StandsOf(c) /\ TellsOf(c) /\ MissedOf(c)
         /\ pc[c] # "idle" => task[c] \in Requests /\ task[c].id \in Ids
BY Kinds DEF Inv, CallInv, StepOf

(* Where c is now *)
LEMMA OwnAside ==
  ASSUME Inv, NEW c \in Calls, NEW to, NEW says, Turns(c, to, says), stamp'[c] > 0,
         to # "done" => says = None, to = "write" => ~Creates(task[c]), to # "find",
         to = "reread" => task[c].op # "delete_role",
         to = "reread_rest" => task[c].op \in {"create_role", "update_role"},
         to = "audit" => task[c].op \notin BookOps
  PROVE  StepOf(c)' /\ OnceOf(c)' /\ SeenOf(c)'
<1>1. pc'[c] = to /\ reply'[c] = says /\ task'[c] = task[c] /\ Moves(c) /\ pc[c] # "idle"
  BY InvParts, TurnMoves DEF Turns
<1>2. \A k \in Calls : pc[k] = "done" => pc'[k] = "done"
  BY <1>1, Advance
<1>3. StepOf(c)'
  <2>1. \A k \in before'[c] : pc'[k] = "done"
    BY <1>1, <1>2, InvParts, Advance DEF StepOf, CallTypes
  <2> QED BY <1>1, <2>1, InvParts DEF StepOf
<1>4. OnceOf(c)'
  <2>1. \A k \in Calls \ {c} : pc'[k] = pc[k] /\ task'[k] = task[k]
    BY <1>1, Advance
  <2> QED BY <1>1, <2>1, InvParts DEF OnceOf
<1>5. SeenOf(c)'
  BY <1>1, <1>2, InvParts DEF SeenOf
<1> QED BY <1>3, <1>4, <1>5

(* An answer that reports no success *)
LEMMA EndKeeps ==
  ASSUME Inv, NEW c \in Calls, NEW says, Turns(c, "done", says), says # "ok", stamp'[c] > 0,
         says \in {"not_found", "gone"} => MissedOf(c)'
  PROVE  CallInv(c)'
<1>1. pc'[c] = "done" /\ reply'[c] = says
  BY InvParts, TurnMoves
<1>2. StepOf(c)' /\ OnceOf(c)' /\ SeenOf(c)'
  BY OwnAside
<1>3. ~Certain(c)' /\ ~HasCopy(c)'
  BY <1>1 DEF Certain, HasCopy, Succeeded
<1> QED BY <1>1, <1>2, <1>3 DEF CallInv, PresentOf, StandsOf, TellsOf, MissedOf

(* A step that goes well *)
LEMMA ProceedAside ==
  ASSUME Inv, NEW c \in Calls, NEW step \in Steps \ {"idle", "done"}, Proceed(c, step),
         stamp' = stamp \/ (pc[c] = "write" /\ \E at \in Nat \ {0} : stamp' = [stamp EXCEPT ![c] = at]),
         copy' = copy \/ \E read : copy' = [copy EXCEPT ![c] = read],
         auditLog \subseteq auditLog'
  PROVE  /\ Turns(c, Following(c), IF Following(c) = "done" THEN "ok" ELSE None)
         /\ pc[c] = step /\ pc'[c] = Following(c) /\ task'[c] = task[c] /\ CallTypes' /\ Moves(c)
         /\ pc'[c] = "done" => reply'[c] = "ok"
         /\ StepOf(c)' /\ OnceOf(c)' /\ SeenOf(c)' /\ MissedOf(c)'
<1>1. /\ Turns(c, Following(c), IF Following(c) = "done" THEN "ok" ELSE None)
      /\ pc[c] = step
  <2>1. stamp' = stamp \/ (pc[c] = "write" /\ \E at \in Nat : stamp' = [stamp EXCEPT ![c] = at])
    OBVIOUS
  <2> QED BY <2>1, InvParts, ProceedTurns DEF Proceed, Goto
<1> PICK to, says : to = Following(c) /\ says = IF to = "done" THEN "ok" ELSE None
  OBVIOUS
<1>2. /\ pc'[c] = to /\ reply'[c] = says /\ task'[c] = task[c] /\ CallTypes' /\ Moves(c)
  BY <1>1, InvParts, TurnMoves
<1>3. stamp'[c] > 0
  BY <1>1, InvParts DEF StepOf, CallTypes
<1>4. /\ to = "write" => ~Creates(task[c])
      /\ to # "find" /\ (to = "reread" => task[c].op # "delete_role")
      /\ to = "reread_rest" => task[c].op \in {"create_role", "update_role"}
      /\ to = "audit" => task[c].op \notin BookOps
  <2>1. pc[c] \in {"find", "write", "reread", "reread_rest", "audit"} /\ StepOf(c) /\ CallTypes
    BY <1>1, InvParts DEF Steps
  <2>2. CASE pc[c] = "find"
    BY <2>1, <2>2, FollowingIs DEF StepOf, Creates
  <2>3. CASE pc[c] = "write"
    BY <2>1, <2>3, FollowingIs DEF BookOps
  <2>4. CASE pc[c] = "reread"
    BY <2>1, <2>4, FollowingIs DEF StepOf, RoleOps, BookOps
  <2>5. CASE pc[c] = "reread_rest"
    BY <2>1, <2>5, FollowingIs DEF StepOf, BookOps
  <2>6. CASE pc[c] = "audit"
    BY <2>1, <2>6, FollowingIs DEF StepOf, BookOps
  <2> QED BY <2>1, <2>2, <2>3, <2>4, <2>5, <2>6
<1>5. StepOf(c)' /\ OnceOf(c)' /\ SeenOf(c)'
  BY <1>1, <1>3, <1>4, OwnAside
<1>6. MissedOf(c)'
  BY <1>2 DEF MissedOf
<1> QED BY <1>1, <1>2, <1>5, <1>6

(* What is certain stays certain while the answer is prepared *)
LEMMA PreparedKeeps ==
  ASSUME Inv, NEW c \in Calls, NEW step \in {"reread", "reread_rest", "audit"}, Proceed(c, step),
         UNCHANGED <<store, stamp>>, copy' = copy \/ \E read : copy' = [copy EXCEPT ![c] = read],
         auditLog \subseteq auditLog', step = "reread" => ~Absent(task[c].id)
  PROVE  PresentOf(c)' /\ StandsOf(c)'
<1>1. /\ pc[c] = step /\ pc'[c] = Following(c) /\ task'[c] = task[c] /\ Moves(c) /\ MySQL' = MySQL
  BY ProceedAside DEF Steps, Moves, MySQL
<1>2. Certain(c) /\ pc[c] # "idle"
  BY <1>1 DEF Certain
<1>3. PresentOf(c)'
  BY <1>1, <1>2, InvParts, SameStore DEF PresentOf
<1>4. StandsOf(c)'
  BY <1>1, <1>2, InvParts, SameStore, ExcuseKept DEF StandsOf
<1> QED BY <1>3, <1>4

(* What c was to tell it has told, or is still to tell *)
Hands(c) ==
  /\ \A id \in Rows : TellsRow(c, id) /\ rows[id] # None /\ ~Fails(c) =>
       RowOnRecord(id)' \/ TellsRow(c, id)'
  /\ \A id \in Roles : TellsEnabled(c, id) /\ roles[id] # None /\ ~Fails(c) =>
       EnabledOnRecord(id)' \/ TellsEnabled(c, id)'
  /\ \A id \in Roles : TellsPermissions(c, id) /\ roles[id] # None /\ ~Fails(c) =>
       PermissionsOnRecord(id)' \/ TellsPermissions(c, id)'
  /\ \A id \in Sections, key \in Keys : TellsKey(c, id, key) /\ ~Fails(c) =>
       KeyOnRecord(id, key)' \/ TellsKey(c, id, key)'

(* c keeps what is said of it, and does its part *)
Keeps(c) == CallTypes' /\ Moves(c) /\ CallInv(c)' /\ Hands(c)

(* Who has not written, or may fail, has nothing to tell *)
LEMMA NothingToTell ==
  ASSUME NEW c, pc[c] \in {"idle", "find", "write"} \/ Fails(c)
  PROVE  Hands(c)
BY DEF Hands, TellsRow, TellsEnabled, TellsPermissions, TellsKey

(* A request arrives: whoever creates a row finds none, and is alone *)
LEMMA ArriveKeeps ==
  ASSUME Inv, NEW c \in Calls, Arrive(c)
  PROVE  Keeps(c) /\ UNCHANGED store
<1>1. PICK r \in Requests :
        /\ pc[c] = "idle"
        /\ Creates(r) => Unclaimed(r.id)
        /\ r.op = "remove_entry" => Seen(r.entry)
        /\ task' = [task EXCEPT ![c] = r]
        /\ pc' = [pc EXCEPT ![c] = First(r)]
        /\ stamp' = [stamp EXCEPT ![c] = now]
        /\ before' = [before EXCEPT ![c] = {k \in Calls : pc[k] = "done"}]
        /\ UNCHANGED <<deployment, store, now, copy, reply, auditLog>>
  BY DEF Arrive
<1>2. First(r) \in {"find", "write"} /\ (First(r) = "find" => r.op \in {"add_member", "add_entry"})
  BY DEF First
<1>3. CallTypes' /\ pc'[c] = First(r) /\ task'[c] = r /\ stamp'[c] = now /\ now > 0
      /\ before'[c] = {k \in Calls : pc[k] = "done"}
      /\ \A k \in Calls \ {c} : /\ pc'[k] = pc[k] /\ task'[k] = task[k] /\ stamp'[k] = stamp[k]
                               /\ before'[k] = before[k]
  <2>1. pc' \in [Calls -> Steps] /\ task' \in [Calls -> Requests \cup {None}]
        /\ stamp' \in [Calls -> Nat] /\ before' \in [Calls -> SUBSET Calls]
    BY <1>1, <1>2, InvParts DEF CallTypes, Steps
  <2> QED BY <1>1, <2>1, InvParts DEF CallTypes
<1>4. Moves(c)
  BY <1>1, <1>2, <1>3 DEF Moves, Wrote
<1>5. StepOf(c)'
  BY <1>1, <1>2, <1>3, InvParts DEF StepOf
<1>6. OnceOf(c)'
  <2> SUFFICES ASSUME Creates(r)
               PROVE  /\ Absent(r.id)'
                      /\ \A k \in Calls \ {c} : pc[k] # "idle" /\ Creates(task[k]) => task[k].id # r.id
    BY <1>3 DEF OnceOf
  <2>1. Unclaimed(r.id)
    BY <1>1
  <2> QED BY <1>1, <2>1, SameStore DEF Unclaimed, Creates
<1>7. SeenOf(c)'
  BY <1>1, <1>2, <1>3 DEF SeenOf, Seen
<1>8. PresentOf(c)' /\ StandsOf(c)' /\ TellsOf(c)' /\ MissedOf(c)'
  BY <1>2, <1>3 DEF PresentOf, StandsOf, TellsOf, MissedOf, Certain, HasCopy, Succeeded
<1> QED BY <1>1, <1>3, <1>4, <1>5, <1>6, <1>7, <1>8, NothingToTell DEF Keeps, CallInv

(* AddUserGroupMember and AddAddressBookEntry look first *)
LEMMA FindKeeps ==
  ASSUME Inv, NEW c \in Calls, Find(c)
  PROVE  Keeps(c) /\ UNCHANGED store
<1>1. /\ pc[c] = "find" /\ pc'[c] = "write" /\ CallTypes' /\ Moves(c)
      /\ StepOf(c)' /\ OnceOf(c)' /\ SeenOf(c)' /\ MissedOf(c)' /\ UNCHANGED store
  BY ProceedAside, InvParts, FollowingIs DEF Find, Steps, store
<1>2. PresentOf(c)' /\ StandsOf(c)' /\ TellsOf(c)'
  BY <1>1 DEF PresentOf, StandsOf, TellsOf, Certain, HasCopy, Succeeded
<1> QED BY <1>1, <1>2, NothingToTell DEF Keeps, CallInv

(* The last step of a request that reports no success *)
LEMMA EndTurns ==
  ASSUME Inv, NEW c \in Calls, NEW step \in Steps \ {"idle", "done"}, Goto(c, step, "done"),
         NEW says \in Replies \ {"ok"}, Answer(c, says), step \notin {"find", "write"} => says # "not_found",
         copy' = copy, auditLog' = auditLog,
         stamp' = stamp \/ (step = "write" /\ \E at \in Nat \ {0} : stamp' = [stamp EXCEPT ![c] = at]),
         says \in {"not_found", "gone"} => MissedOf(c)'
  PROVE  CallTypes' /\ Moves(c) /\ CallInv(c)'
<1>1. Turns(c, "done", says)
  <2>1. stamp' = stamp \/ \E at \in Nat : stamp' = [stamp EXCEPT ![c] = at]
    OBVIOUS
  <2> QED BY <2>1 DEF Turns, Goto, Answer, Steps
<1>2. stamp'[c] > 0
  BY InvParts DEF Goto, StepOf, CallTypes
<1> QED BY <1>1, <1>2, InvParts, TurnMoves, EndKeeps

(* A bad request *)
LEMMA RefuseKeeps ==
  ASSUME Inv, NEW c \in Calls, Refuse(c)
  PROVE  Keeps(c) /\ UNCHANGED store
<1>1. Hands(c)
  BY NothingToTell DEF Refuse, Goto
<1> QED BY <1>1, EndTurns DEF Refuse, Keeps, Steps, Replies, store

(* A reading or an audit event that fails *)
LEMMA FailureKeeps ==
  ASSUME Inv, NEW c \in Calls, ReadFails(c) \/ AuditFails(c)
  PROVE  Keeps(c) /\ UNCHANGED store
<1>1. Hands(c)
  BY NothingToTell DEF ReadFails, AuditFails
<1> PICK says : says = Failure(c)
  OBVIOUS
<1>2. says \in {"bad_request", "internal_error"}
  BY DEF Failure
<1>3. CASE ReadFails(c)
  BY <1>1, <1>2, <1>3, EndTurns DEF ReadFails, Keeps, Steps, Replies, store
<1>4. CASE AuditFails(c)
  BY <1>1, <1>4, EndTurns DEF AuditFails, Keeps, Steps, Replies, store
<1> QED BY <1>3, <1>4

(* DisableRelay, RelayHeartbeat, UpdateDevice, ... (affected rows): a row   *)
(* that the statement leaves as it is was written in the same second.       *)
LEMMA Repeats ==
  ASSUME Inv, NEW c \in Calls, pc[c] = "write", MySQL, task[c].op \in RowOps, ~Creates(task[c]),
         ~Absent(task[c].id), Written(c) = rows[task[c].id]
  PROVE  \E k \in Calls \ {c} : Wrote(k) /\ task[k].id = task[c].id /\ stamp[k] = stamp[c]
<1>1. task[c] \in Requests /\ task[c].id \in Rows /\ task[c].id \in Ids /\ stamp[c] > 0
  BY InvParts, Kinds DEF StepOf
<1>2. rows[task[c].id] # None
  BY <1>1, ReadingKind
<1>3. Written(c).updated = Stamp(c)
  BY <1>1, <1>2, InvParts, RowWritten
<1>4. Stamp(c) = stamp[c]
  BY DEF Stamp, Creates
<1>5. rows[task[c].id].updated = stamp[c] /\ stamp[c] # 0
  BY <1>1, <1>3, <1>4
<1>6. PICK k \in Calls : Wrote(k) /\ task[k].id = task[c].id /\ stamp[k] = stamp[c]
  BY <1>1, <1>2, <1>5 DEF Inv, SharedInv, StampedOf
<1>7. k # c
  BY <1>6 DEF Wrote
<1> QED BY <1>6, <1>7

(* What is reported missing is, or was just written by another request *)
LEMMA NotFoundKeeps ==
  ASSUME Inv, NEW c \in Calls, NotFound(c)
  PROVE  Keeps(c) /\ UNCHANGED store
<1>1. PICK step \in {"find", "write"} : Goto(c, step, "done")
  BY DEF NotFound
<1>2. /\ pc[c] = step /\ task' = task /\ before' = before /\ stamp' = stamp /\ UNCHANGED store
      /\ copy' = copy /\ auditLog' = auditLog /\ members' = members /\ Answer(c, "not_found")
      /\ Absent(task[c].id) \/ Missing(c)
      /\ \A k \in Calls \ {c} : pc'[k] = pc[k] /\ reply'[k] = reply[k]
  BY <1>1, InvParts DEF NotFound, Goto, Answer, store, CallTypes
<1>3. Absent(task[c].id) => MissedOf(c)'
  BY <1>2, SameStore DEF MissedOf
<1>4. Missing(c) => MissedOf(c)'
  <2> SUFFICES ASSUME Missing(c), ~Absent(task[c].id) PROVE MissedOf(c)'
    BY <1>3
  <2>1. CASE task[c].op = "remove_entry" /\ task[c].entry \notin members[task[c].id]
    BY <1>2, <2>1 DEF MissedOf
  <2>2. CASE MySQL /\ task[c].op \in RowOps /\ Written(c) = rows[task[c].id]
    <3>1. pc[c] = "write"
      <4>1. task[c].op \notin {"add_member", "add_entry"}
        BY <2>2 DEF RowOps
      <4> QED BY <1>2, <4>1, InvParts DEF StepOf
    <3>2. PICK k \in Calls \ {c} : Wrote(k) /\ task[k].id = task[c].id /\ stamp[k] = stamp[c]
      BY <2>2, <3>1, Repeats DEF Missing
    <3>3. Wrote(k)'
      BY <1>2, <3>2 DEF Wrote
    <3> QED BY <1>2, <2>2, <3>2, <3>3 DEF MissedOf
  <2> QED BY <2>1, <2>2 DEF Missing
<1>5. MissedOf(c)'
  BY <1>2, <1>3, <1>4
<1>6. CallTypes' /\ Moves(c) /\ CallInv(c)'
  BY <1>1, <1>2, <1>5, Nothing, EndTurns DEF Steps, Replies
<1>7. Hands(c)
  BY <1>2, NothingToTell
<1> QED BY <1>2, <1>6, <1>7 DEF Keeps

(* What was changed is gone *)
LEMMA RereadMissingKeeps ==
  ASSUME Inv, NEW c \in Calls, RereadMissing(c)
  PROVE  Keeps(c) /\ UNCHANGED store
<1>1. /\ pc[c] = "reread" /\ Goto(c, "reread", "done") /\ task' = task /\ stamp' = stamp
      /\ UNCHANGED store /\ copy' = copy /\ auditLog' = auditLog /\ Answer(c, "gone")
      /\ Absent(task[c].id)
  BY DEF RereadMissing, Goto
<1>2. MissedOf(c)'
  BY <1>1, SameStore DEF MissedOf
<1>3. CallTypes' /\ Moves(c) /\ CallInv(c)'
  BY <1>1, <1>2, EndTurns DEF Steps, Replies
<1>4. Hands(c)
  <2>1. \A id \in Rows : TellsRow(c, id) => rows[id] = None
    BY <1>1, ReadingKind DEF TellsRow, Ids
  <2>2. \A id \in Roles : TellsEnabled(c, id) \/ TellsPermissions(c, id) => roles[id] = None
    BY <1>1, ReadingKind DEF TellsEnabled, TellsPermissions, Ids
  <2> QED BY <1>1, <2>1, <2>2 DEF Hands, TellsKey
<1> QED BY <1>1, <1>3, <1>4 DEF Keeps

(* What is read again is what c asked for, unless another request that is *)
(* not answered asks for something else; c has not been answered either   *)
LEMMA RereadKeeps ==
  ASSUME Inv, NEW c \in Calls, Reread(c)
  PROVE  Keeps(c) /\ UNCHANGED store
<1> PICK r : r = task[c]
  OBVIOUS
<1>1. /\ Proceed(c, "reread") /\ ~Absent(r.id) /\ UNCHANGED <<store, stamp, auditLog>>
      /\ copy' = [copy EXCEPT ![c] = Reading(r.id)] /\ UNCHANGED store
  BY DEF Reread, store
<1>2. /\ pc[c] = "reread" /\ pc'[c] = Following(c) /\ task'[c] = r /\ CallTypes' /\ Moves(c)
      /\ StepOf(c)' /\ OnceOf(c)' /\ SeenOf(c)' /\ MissedOf(c)'
  BY <1>1, ProceedAside DEF Steps
<1>3. PresentOf(c)' /\ StandsOf(c)'
  BY <1>1, PreparedKeeps
<1>4. r \in Requests /\ r.id \in Ids /\ pc[c] # "idle" /\ Certain(c)
  BY <1>2, InvParts DEF Certain
<1>5. copy'[c] = Reading(r.id)
  BY <1>1, InvParts DEF CallTypes
<1>6. TellsOf(c)'
  <2>1. Fits(c, r, MySQL, Reading(r.id)) \/ Excused(c)
    BY <1>1, <1>4, InvParts DEF StandsOf
  <2>2. Excused(c) => Overtaken(c)
    <3>1. \A k \in Calls : c \notin before[k]
      BY <1>2, InvParts DEF StepOf
    <3> QED BY <3>1 DEF Excused, Overtaken
  <2>3. Fits(c, r, MySQL, Reading(r.id)) \/ Overtaken(c)'
    BY <1>2, <1>4, <2>1, <2>2, ExcuseKept
  <2>4. r.id \in Roles => Reading(r.id) \in Role
    BY <1>1, <1>4, InvParts, ReadingKind DEF StoreTypes
  <2>5. MySQL' = MySQL
    BY <1>2 DEF Moves, MySQL
  <2> QED BY <1>2, <1>5, <2>3, <2>4, <2>5 DEF TellsOf
<1>7. Hands(c)
  <2>1. r.id \in Rows => pc'[c] = "audit" /\ copy'[c] = rows'[r.id].status
    <3> SUFFICES ASSUME r.id \in Rows PROVE pc'[c] = "audit" /\ copy'[c] = rows'[r.id].status
      OBVIOUS
    <3>1. r.op \in RowOps
      BY <1>4, Kinds
    <3>2. r.op \notin RoleOps /\ r.op \notin BookOps \cup {"put"}
      BY <3>1 DEF RowOps, RoleOps, BookOps
    <3>3. pc'[c] = "audit"
      BY <1>2, <3>2, InvParts, FollowingIs
    <3> QED BY <1>1, <1>4, <1>5, <3>3, ReadingKind DEF store
  <2>2. r.id \in Roles => pc'[c] = "reread_rest" /\ copy'[c] = roles'[r.id]
    <3> SUFFICES ASSUME r.id \in Roles PROVE pc'[c] = "reread_rest" /\ copy'[c] = roles'[r.id]
      OBVIOUS
    <3>1. r.op \in RoleOps
      BY <1>4, Kinds
    <3>3. pc'[c] = "reread_rest"
      BY <1>2, <3>1, InvParts, FollowingIs
    <3> QED BY <1>1, <1>4, <1>5, <3>3, ReadingKind DEF store
  <2>3. ASSUME NEW id \in Rows, TellsRow(c, id) PROVE TellsRow(c, id)'
    BY <1>2, <2>1, <2>3 DEF TellsRow
  <2>4. ASSUME NEW id \in Roles, TellsEnabled(c, id) PROVE TellsEnabled(c, id)'
    BY <1>2, <2>2, <2>4 DEF TellsEnabled
  <2>5. ASSUME NEW id \in Roles, TellsPermissions(c, id) PROVE TellsPermissions(c, id)'
    BY <1>2, <2>2, <2>5 DEF TellsPermissions
  <2> QED BY <1>2, <2>3, <2>4, <2>5 DEF Hands, TellsKey
<1> QED BY <1>1, <1>2, <1>3, <1>6, <1>7 DEF Keeps, CallInv

(* A role with other permissions *)
LEMMA PermissionsRead ==
  ASSUME NEW role \in Role, NEW set
  PROVE  /\ [role EXCEPT !.permissions = set].permissions = set
         /\ [role EXCEPT !.permissions = set].enabled = role.enabled
         /\ set \in SUBSET Permissions => [role EXCEPT !.permissions = set] \in Role
         /\ set = role.permissions => [role EXCEPT !.permissions = set] = role
BY DEF Role

(* A role's permissions are read in another statement than its row: if both   *)
(* are c's then so is the copy, and if one is not, who wrote it is overtaking *)
LEMMA RereadPermissionsKeeps ==
  ASSUME Inv, NEW c \in Calls, RereadPermissions(c)
  PROVE  Keeps(c) /\ UNCHANGED store
<1> PICK r : r = task[c]
  OBVIOUS
<1> DEFINE held == IF roles[r.id] = None THEN {} ELSE roles[r.id].permissions
<1>1. /\ Proceed(c, "reread_rest") /\ UNCHANGED <<store, stamp, auditLog>> /\ UNCHANGED store
      /\ copy' = [copy EXCEPT ![c] = [copy[c] EXCEPT !.permissions = held]]
  BY DEF RereadPermissions, store
<1>2. /\ pc[c] = "reread_rest" /\ pc'[c] = Following(c) /\ task'[c] = r /\ CallTypes' /\ Moves(c)
      /\ StepOf(c)' /\ OnceOf(c)' /\ SeenOf(c)' /\ MissedOf(c)'
  BY <1>1, ProceedAside DEF Steps
<1>3. PresentOf(c)' /\ StandsOf(c)'
  BY <1>1, PreparedKeeps
<1>4. /\ r \in Requests /\ r.id \in Ids /\ pc[c] # "idle" /\ Certain(c)
      /\ r.op \in {"create_role", "update_role"}
  BY <1>2, InvParts DEF Certain, StepOf
<1>5. /\ r.id \in Roles /\ r.id \notin Sets /\ r.role \in Role /\ RoleIn(r) = r.role
      /\ pc'[c] = "audit" /\ HasCopy(c)
  <2>1. r.id \in Roles
    BY <1>4, Kinds DEF RoleOps
  <2> QED BY <1>2, <1>4, <2>1, InvParts, RoleRequest, OneKind, FollowingIs DEF RoleIn, HasCopy
<1> PICK read : read = copy[c]
  OBVIOUS
<1>6. read \in Role /\ (Fits(c, r, MySQL, read) \/ Overtaken(c))
  BY <1>5, InvParts DEF TellsOf
<1>7. held \in SUBSET Permissions
  BY <1>5, InvParts DEF StoreTypes, Role
<1>8. copy'[c] = [read EXCEPT !.permissions = held]
  BY <1>1, InvParts DEF CallTypes
<1> HIDE DEF held
<1> PICK new : new = copy'[c]
  OBVIOUS
<1>9. /\ new \in Role /\ new.permissions = held /\ new.enabled = read.enabled
      /\ held = read.permissions => new = read
  BY <1>6, <1>7, <1>8, PermissionsRead
<1>10. TellsOf(c)'
  <2>1. CASE Overtaken(c)
    <3>1. Overtaken(c)'
      BY <1>2, <1>4, <2>1, ExcuseKept
    <3> QED BY <1>9, <3>1 DEF TellsOf
  <2>2. CASE Excused(c)
    <3>1. \A k \in Calls : c \notin before[k]
      BY <1>2, InvParts DEF StepOf
    <3>2. Overtaken(c)
      BY <2>2, <3>1 DEF Excused, Overtaken
    <3> QED BY <2>1, <3>2
  <2>3. CASE ~Overtaken(c) /\ ~Excused(c)
    <3>1. read = r.role
      BY <1>4, <1>5, <1>6, <2>3, FitsRole
    <3>2. roles[r.id] = r.role
      <4>1. Fits(c, r, MySQL, Reading(r.id))
        BY <1>4, <1>5, <2>3, InvParts DEF StandsOf
      <4> QED BY <1>4, <1>5, <4>1, FitsRole, ReadingKind
    <3>3. held = read.permissions
      BY <1>5, <3>1, <3>2, Nothing DEF held
    <3>4. new = r.role
      BY <1>9, <3>1, <3>3
    <3>5. Fits(c, r, MySQL', new)
      BY <1>4, <1>5, <3>4, FitsRole
    <3> QED BY <1>2, <1>9, <3>5 DEF TellsOf
  <2> QED BY <2>1, <2>2, <2>3
<1>11. Hands(c)
  <2>1. ASSUME NEW id \in Roles, TellsEnabled(c, id), roles[id] # None PROVE TellsEnabled(c, id)'
    BY <1>1, <1>2, <1>5, <1>9, <2>1 DEF TellsEnabled, store
  <2>2. ASSUME NEW id \in Roles, TellsPermissions(c, id), roles[id] # None PROVE TellsPermissions(c, id)'
    BY <1>1, <1>2, <1>5, <1>9, <2>2 DEF TellsPermissions, store, held
  <2> QED BY <1>2, <2>1, <2>2 DEF Hands, TellsKey, TellsRow
<1> QED BY <1>1, <1>2, <1>3, <1>10, <1>11 DEF Keeps, CallInv

(* The event tells what c was to tell *)
LEMMA WriteAuditKeeps ==
  ASSUME Inv, NEW c \in Calls, WriteAudit(c)
  PROVE  Keeps(c) /\ UNCHANGED store
<1> PICK r : r = task[c]
  OBVIOUS
<1>1. /\ Proceed(c, "audit") /\ UNCHANGED <<store, stamp>> /\ UNCHANGED store /\ copy' = copy
      /\ auditLog' = auditLog \cup {Event(c)}
  BY DEF WriteAudit, store
<1>2. /\ pc[c] = "audit" /\ pc'[c] = Following(c) /\ task'[c] = r /\ CallTypes' /\ Moves(c)
      /\ StepOf(c)' /\ OnceOf(c)' /\ SeenOf(c)' /\ MissedOf(c)'
  BY <1>1, ProceedAside DEF Steps
<1>3. PresentOf(c)' /\ StandsOf(c)'
  BY <1>1, PreparedKeeps
<1>4. r \in Requests /\ r.id \in Ids /\ pc[c] # "idle" /\ pc'[c] = IF r.op = "put" THEN "reread" ELSE "done"
  BY <1>2, InvParts, FollowingIs
<1>5. TellsOf(c)'
  <2> SUFFICES ASSUME HasCopy(c)' PROVE TellsOf(c)'
    BY DEF TellsOf
  <2>1. HasCopy(c)
    BY <1>2, <1>4 DEF HasCopy, Succeeded
  <2>2. MySQL' = MySQL
    BY <1>2 DEF Moves, MySQL
  <2> QED BY <1>1, <1>2, <1>4, <2>1, <2>2, InvParts, ExcuseKept DEF TellsOf
<1>6. Hands(c)
  <2> PICK e : e = Event(c)
    OBVIOUS
  <2>1. e \in auditLog' /\ e.id = r.id /\ e.told = Told(c)
    BY <1>1 DEF Event
  <2>2. ASSUME NEW id \in Rows, TellsRow(c, id) PROVE RowOnRecord(id)'
    <3>1. r.id = id /\ copy[c] = rows'[id].status /\ r.op \in RowOps
      BY <1>1, <1>2, <1>4, <2>2, Kinds DEF TellsRow, store
    <3>2. Told(c) = copy[c]
      BY <3>1 DEF Told, RowOps
    <3> QED BY <2>1, <3>1, <3>2 DEF RowOnRecord
  <2>3. ASSUME NEW id \in Roles, r.id = id, r.op # "delete_role"
        PROVE  e.told = copy[c] /\ e.told # None
    <3>1. r.op \in RoleOps /\ r.op # "put"
      BY <1>4, <2>3, Kinds DEF RoleOps
    <3>2. Told(c) = copy[c] /\ HasCopy(c)
      BY <1>2, <2>3, <3>1 DEF Told, RoleOps, HasCopy
    <3>3. copy[c] \in Role
      BY <2>3, <3>2, InvParts DEF TellsOf
    <3> QED BY <2>1, <3>2, <3>3, Nothing
  <2>4. ASSUME NEW id \in Roles, TellsEnabled(c, id) PROVE EnabledOnRecord(id)'
    <3>1. r.id = id /\ r.op # "delete_role" /\ copy[c].enabled = roles'[id].enabled
      BY <1>1, <1>2, <2>4 DEF TellsEnabled, store
    <3> QED BY <2>1, <2>3, <3>1 DEF EnabledOnRecord
  <2>5. ASSUME NEW id \in Roles, TellsPermissions(c, id) PROVE PermissionsOnRecord(id)'
    <3>1. r.id = id /\ r.op # "delete_role" /\ copy[c].permissions = roles'[id].permissions
      BY <1>1, <1>2, <2>5 DEF TellsPermissions, store
    <3> QED BY <2>1, <2>3, <3>1 DEF PermissionsOnRecord
  <2>6. ASSUME NEW id \in Sections, NEW key \in Keys, TellsKey(c, id, key) PROVE KeyOnRecord(id, key)'
    <3>1. r.id = id /\ key \in DOMAIN r.values
      BY <2>6 DEF TellsKey
    <3>2. r.op = "put" /\ DOMAIN r.values \in SUBSET Keys
      BY <1>4, <3>1, SectionRequest
    <3>3. e.told = DOMAIN r.values /\ e.told # None
      BY <2>1, <3>2, Nothing DEF Told, RowOps
    <3> QED BY <2>1, <3>1, <3>3 DEF KeyOnRecord
  <2> QED BY <2>2, <2>4, <2>5, <2>6 DEF Hands
<1> QED BY <1>1, <1>2, <1>3, <1>5, <1>6 DEF Keeps, CallInv

-----------------------------------------------------------------------------
(* What the handlers know together *)

(* A step that leaves the store alone, by which c does its part *)
LEMMA SharedKept ==
  ASSUME SharedInv, NEW c \in Calls, Moves(c), Hands(c), UNCHANGED store
  PROVE  SharedInv'
<1>1. rows' = rows /\ roles' = roles /\ settings' = settings
  BY DEF store
<1>2. \A e \in auditLog : e \in auditLog'
  BY DEF Moves
<1>3. \A id \in Rows : StampedOf(id)'
  <2> SUFFICES ASSUME NEW id \in Rows, StampedOf(id) PROVE StampedOf(id)'
    BY DEF SharedInv
  <2>1. \A k \in Calls : Wrote(k) => Wrote(k)' /\ task'[k] = task[k] /\ stamp'[k] = stamp[k]
    BY Advance
  <2> QED BY <1>1, <2>1 DEF StampedOf
<1>4. ASSUME NEW id, ~Untold(id)'
      PROVE  ~Untold(id) /\ (pc[c] # "idle" /\ task[c].id = id => ~Fails(c))
  BY <1>4, Advance DEF Untold
<1>5. ASSUME NEW id \in Rows PROVE RowTold(id)'
  <2> SUFFICES ASSUME rows[id] # None, ~Untold(id)'
               PROVE  RowOnRecord(id)' \/ \E k \in Calls : TellsRow(k, id)'
    BY <1>1 DEF RowTold
  <2>1. RowOnRecord(id) \/ \E k \in Calls : TellsRow(k, id)
    BY <1>4 DEF SharedInv, RowTold
  <2>2. CASE RowOnRecord(id)
    BY <1>1, <1>2, <2>2 DEF RowOnRecord
  <2>3. ASSUME NEW k \in Calls, TellsRow(k, id), k # c PROVE TellsRow(k, id)'
    BY <1>1, <2>3, Advance DEF TellsRow
  <2>4. CASE TellsRow(c, id)
    <3>1. ~Fails(c)
      BY <1>4, <2>4 DEF TellsRow
    <3> QED BY <2>4, <3>1 DEF Hands
  <2> QED BY <2>1, <2>2, <2>3, <2>4
<1>6. ASSUME NEW id \in Roles PROVE EnabledTold(id)'
  <2> SUFFICES ASSUME roles[id] # None, ~Untold(id)'
               PROVE  EnabledOnRecord(id)' \/ \E k \in Calls : TellsEnabled(k, id)'
    BY <1>1 DEF EnabledTold
  <2>1. EnabledOnRecord(id) \/ \E k \in Calls : TellsEnabled(k, id)
    BY <1>4 DEF SharedInv, EnabledTold
  <2>2. CASE EnabledOnRecord(id)
    BY <1>1, <1>2, <2>2 DEF EnabledOnRecord
  <2>3. ASSUME NEW k \in Calls, TellsEnabled(k, id), k # c PROVE TellsEnabled(k, id)'
    BY <1>1, <2>3, Advance DEF TellsEnabled
  <2>4. CASE TellsEnabled(c, id)
    <3>1. ~Fails(c)
      BY <1>4, <2>4 DEF TellsEnabled
    <3> QED BY <2>4, <3>1 DEF Hands
  <2> QED BY <2>1, <2>2, <2>3, <2>4
<1>7. ASSUME NEW id \in Roles PROVE PermissionsTold(id)'
  <2> SUFFICES ASSUME roles[id] # None, ~Untold(id)'
               PROVE  PermissionsOnRecord(id)' \/ \E k \in Calls : TellsPermissions(k, id)'
    BY <1>1 DEF PermissionsTold
  <2>1. PermissionsOnRecord(id) \/ \E k \in Calls : TellsPermissions(k, id)
    BY <1>4 DEF SharedInv, PermissionsTold
  <2>2. CASE PermissionsOnRecord(id)
    BY <1>1, <1>2, <2>2 DEF PermissionsOnRecord
  <2>3. ASSUME NEW k \in Calls, TellsPermissions(k, id), k # c PROVE TellsPermissions(k, id)'
    BY <1>1, <2>3, Advance DEF TellsPermissions
  <2>4. CASE TellsPermissions(c, id)
    <3>1. ~Fails(c)
      BY <1>4, <2>4 DEF TellsPermissions
    <3> QED BY <2>4, <3>1 DEF Hands
  <2> QED BY <2>1, <2>2, <2>3, <2>4
<1>8. ASSUME NEW id \in Sections PROVE KeysTold(id)'
  <2> SUFFICES ASSUME NEW key \in Keys, settings[id][key] # None, ~Untold(id)'
               PROVE  KeyOnRecord(id, key)' \/ \E k \in Calls : TellsKey(k, id, key)'
    BY <1>1 DEF KeysTold
  <2>1. KeyOnRecord(id, key) \/ \E k \in Calls : TellsKey(k, id, key)
    BY <1>4 DEF SharedInv, KeysTold
  <2>2. CASE KeyOnRecord(id, key)
    BY <1>2, <2>2 DEF KeyOnRecord
  <2>3. ASSUME NEW k \in Calls, TellsKey(k, id, key), k # c PROVE TellsKey(k, id, key)'
    BY <2>3, Advance DEF TellsKey
  <2>4. CASE TellsKey(c, id, key)
    <3>1. ~Fails(c)
      BY <1>4, <2>4 DEF TellsKey
    <3> QED BY <2>4, <3>1 DEF Hands
  <2> QED BY <2>1, <2>2, <2>3, <2>4
<1> QED BY <1>3, <1>5, <1>6, <1>7, <1>8 DEF SharedInv

(* What is written will be told, unless c may fail *)
LEMMA SharedWritten ==
  ASSUME SharedInv, NEW c \in Calls, Moves(c), pc[c] = "write", NEW r, r = task[c], NEW m,
         Lands(c, r, m), Wrote(c)', stamp'[c] = Stamp(c),
         \/ Fails(c)
         \/ /\ r.id \in Rows => TellsRow(c, r.id)'
            /\ r.id \in Roles /\ roles'[r.id] # None => TellsEnabled(c, r.id)' /\ TellsPermissions(c, r.id)'
            /\ r.id \in Sections => \A key \in DOMAIN r.values : TellsKey(c, r.id, key)'
  PROVE  SharedInv'
<1>1. /\ task'[c] = r /\ pc'[c] # "idle" /\ SameBut(r.id)
      /\ \A e \in auditLog : e \in auditLog'
  BY Advance DEF Moves, Lands
<1>2. /\ \A id \in Rows \ {r.id} : rows'[id] = rows[id]
      /\ \A id \in Roles \ {r.id} : roles'[id] = roles[id]
      /\ \A id \in Sections \ {r.id} : settings'[id] = settings[id]
  BY <1>1 DEF SameBut
<1>3. Fails(c) => Untold(r.id)'
  BY <1>1, Advance DEF Untold
<1>4. ASSUME NEW id, ~Untold(id)'
      PROVE  ~Untold(id) /\ (id = r.id => ~Fails(c))
  BY <1>3, <1>4, Advance DEF Untold
<1>5. ASSUME NEW id \in Rows PROVE StampedOf(id)'
  <2>1. CASE id = r.id
    BY <1>1, <2>1 DEF StampedOf, Lands
  <2>2. CASE id # r.id
    <3>1. \A k \in Calls : Wrote(k) => Wrote(k)' /\ task'[k] = task[k] /\ stamp'[k] = stamp[k]
      BY Advance
    <3> QED BY <1>2, <2>2, <3>1 DEF StampedOf, SharedInv
  <2> QED BY <2>1, <2>2
<1>6. ASSUME NEW id \in Rows PROVE RowTold(id)'
  <2>1. CASE id = r.id
    <3> SUFFICES ASSUME rows'[id] # None, ~Untold(id)' PROVE TellsRow(c, id)'
      BY DEF RowTold
    <3>1. ~Fails(c)
      BY <1>3, <2>1
    <3> QED BY <2>1, <3>1 DEF TellsRow
  <2>2. CASE id # r.id
    <3> SUFFICES ASSUME rows[id] # None, ~Untold(id)'
                 PROVE  RowOnRecord(id)' \/ \E k \in Calls : TellsRow(k, id)'
      BY <1>2, <2>2 DEF RowTold
    <3>1. RowOnRecord(id) \/ \E k \in Calls : TellsRow(k, id)
      BY <1>4 DEF SharedInv, RowTold
    <3>2. RowOnRecord(id) => RowOnRecord(id)'
      BY <1>1, <1>2, <2>2 DEF RowOnRecord
    <3>3. ASSUME NEW k \in Calls, TellsRow(k, id) PROVE TellsRow(k, id)'
      BY <1>2, <2>2, <3>3, Advance DEF TellsRow
    <3> QED BY <3>1, <3>2, <3>3
  <2> QED BY <2>1, <2>2
<1>7. ASSUME NEW id \in Roles PROVE EnabledTold(id)'
  <2>1. CASE id = r.id
    <3> SUFFICES ASSUME roles'[id] # None, ~Untold(id)' PROVE TellsEnabled(c, id)'
      BY DEF EnabledTold
    <3>1. ~Fails(c)
      BY <1>3, <2>1
    <3> QED BY <2>1, <3>1 DEF TellsEnabled
  <2>2. CASE id # r.id
    <3> SUFFICES ASSUME roles[id] # None, ~Untold(id)'
                 PROVE  EnabledOnRecord(id)' \/ \E k \in Calls : TellsEnabled(k, id)'
      BY <1>2, <2>2 DEF EnabledTold
    <3>1. EnabledOnRecord(id) \/ \E k \in Calls : TellsEnabled(k, id)
      BY <1>4 DEF SharedInv, EnabledTold
    <3>2. EnabledOnRecord(id) => EnabledOnRecord(id)'
      BY <1>1, <1>2, <2>2 DEF EnabledOnRecord
    <3>3. ASSUME NEW k \in Calls, TellsEnabled(k, id) PROVE TellsEnabled(k, id)'
      BY <1>2, <2>2, <3>3, Advance DEF TellsEnabled
    <3> QED BY <3>1, <3>2, <3>3
  <2> QED BY <2>1, <2>2
<1>8. ASSUME NEW id \in Roles PROVE PermissionsTold(id)'
  <2>1. CASE id = r.id
    <3> SUFFICES ASSUME roles'[id] # None, ~Untold(id)' PROVE TellsPermissions(c, id)'
      BY DEF PermissionsTold
    <3>1. ~Fails(c)
      BY <1>3, <2>1
    <3> QED BY <2>1, <3>1 DEF TellsEnabled, TellsPermissions
  <2>2. CASE id # r.id
    <3> SUFFICES ASSUME roles[id] # None, ~Untold(id)'
                 PROVE  PermissionsOnRecord(id)' \/ \E k \in Calls : TellsPermissions(k, id)'
      BY <1>2, <2>2 DEF PermissionsTold
    <3>1. PermissionsOnRecord(id) \/ \E k \in Calls : TellsPermissions(k, id)
      BY <1>4 DEF SharedInv, PermissionsTold
    <3>2. PermissionsOnRecord(id) => PermissionsOnRecord(id)'
      BY <1>1, <1>2, <2>2 DEF PermissionsOnRecord
    <3>3. ASSUME NEW k \in Calls, TellsPermissions(k, id) PROVE TellsPermissions(k, id)'
      BY <1>2, <2>2, <3>3, Advance DEF TellsPermissions
    <3> QED BY <3>1, <3>2, <3>3
  <2> QED BY <2>1, <2>2
<1>9. ASSUME NEW id \in Sections PROVE KeysTold(id)'
  <2> SUFFICES ASSUME NEW key \in Keys, settings'[id][key] # None, ~Untold(id)'
               PROVE  KeyOnRecord(id, key)' \/ \E k \in Calls : TellsKey(k, id, key)'
    BY DEF KeysTold
  <2>1. settings[id][key] # None =>
          KeyOnRecord(id, key)' \/ \E k \in Calls : TellsKey(k, id, key)'
    <3> SUFFICES ASSUME settings[id][key] # None
                 PROVE  KeyOnRecord(id, key)' \/ \E k \in Calls : TellsKey(k, id, key)'
      OBVIOUS
    <3>1. KeyOnRecord(id, key) \/ \E k \in Calls : TellsKey(k, id, key)
      BY <1>4 DEF SharedInv, KeysTold
    <3>2. KeyOnRecord(id, key) => KeyOnRecord(id, key)'
      BY <1>1 DEF KeyOnRecord
    <3>3. ASSUME NEW k \in Calls, TellsKey(k, id, key) PROVE TellsKey(k, id, key)'
      BY <3>3, Advance DEF TellsKey
    <3> QED BY <3>1, <3>2, <3>3
  <2>2. CASE id = r.id
    <3>1. settings[id][key] # None \/ key \in DOMAIN r.values
      BY <2>2 DEF Lands
    <3>2. ~Fails(c)
      BY <1>3, <2>2
    <3>3. key \in DOMAIN r.values => TellsKey(c, id, key)'
      BY <2>2, <3>2 DEF TellsKey
    <3> QED BY <2>1, <3>1, <3>3
  <2>3. CASE id # r.id
    BY <1>2, <2>1, <2>3
  <2> QED BY <2>2, <2>3
<1> QED BY <1>5, <1>6, <1>7, <1>8, <1>9 DEF SharedInv

-----------------------------------------------------------------------------
(* The write of a handler *)

(* A statement takes effect *)
LEMMA Landing ==
  ASSUME Inv, NEW c \in Calls, pc[c] = "write", ~Missing(c), Effect(c),
         NEW r, r = task[c], NEW m, m = MySQL
  PROVE  Lands(c, r, m) /\ r \in Requests /\ r.id \in Ids /\ Stamp(c) \in Nat \ {0}
<1>1. r \in Requests /\ r.id \in Ids /\ (Creates(r) => Absent(r.id)) /\ stamp[c] > 0
  BY InvParts DEF OnceOf, StepOf
<1>2. Stamp(c) \in Nat \ {0}
  BY <1>1, InvParts DEF Stamp, CallTypes
<1> QED BY <1>1, <1>2, InvParts, WriteLands

(* A write that went well *)
LEMMA ChangeKeeps ==
  ASSUME Inv, NEW c \in Calls, Change(c)
  PROVE  Inv'
<1> PICK r : r = task[c]
  OBVIOUS
<1> PICK m : m = MySQL
  OBVIOUS
<1> PICK at : at = Stamp(c)
  OBVIOUS
<1>1. /\ Proceed(c, "write") /\ pc[c] = "write" /\ ~Missing(c) /\ Effect(c)
      /\ stamp' = [stamp EXCEPT ![c] = at] /\ auditLog' = auditLog
      /\ IF m \/ r.op \in {"delete_role", "put"} THEN UNCHANGED copy
         ELSE copy' = [copy EXCEPT ![c] = Reading(task[c].id)']
  BY DEF Change, Proceed, Goto
<1>2. Lands(c, r, m) /\ r \in Requests /\ r.id \in Ids /\ at \in Nat \ {0}
  BY <1>1, Landing
<1>3. /\ pc'[c] = Following(c) /\ task'[c] = r /\ CallTypes' /\ Moves(c)
      /\ StepOf(c)' /\ OnceOf(c)' /\ SeenOf(c)' /\ MissedOf(c)'
      /\ pc'[c] = "done" => reply'[c] = "ok"
  BY <1>1, <1>2, ProceedAside DEF Steps
<1>4. pc'[c] = IF r.op \in {"delete_role", "put"} THEN "audit"
               ELSE IF m THEN "reread"
               ELSE IF r.op \in BookOps THEN "done" ELSE "audit"
  BY <1>1, <1>3, InvParts, FollowingIs
<1>5. MySQL' = m
  BY <1>3 DEF Moves, MySQL
<1>6. stamp'[c] = Stamp(c)
  BY <1>1, InvParts DEF CallTypes
<1>7. StepOf(c) /\ Wrote(c)' /\ reply'[c] \in {None, "ok"}
  BY <1>1, <1>3, <1>4, InvParts, Nothing DEF StepOf, Wrote
<1>8. ~m /\ r.op \notin {"delete_role", "put"} => copy'[c] = Reading(r.id)'
  <2> SUFFICES ASSUME ~m, r.op \notin {"delete_role", "put"} PROVE copy'[c] = Reading(r.id)'
    OBVIOUS
  <2> PICK x : x = Reading(r.id)'
    OBVIOUS
  <2>1. Reading(task[c].id)' = x
    BY <1>3 DEF Reading, Merged
  <2>2. copy' = [copy EXCEPT ![c] = x]
    BY <1>1, <2>1
  <2> QED BY <2>2, InvParts DEF CallTypes
<1>9. PresentOf(c)'
  <2> SUFFICES ASSUME r.id \in Rows \cup Sets, ~(r.op = "remove_member" /\ pc'[c] = "reread")
               PROVE  ~Absent(r.id)'
    BY <1>3 DEF PresentOf
  <2>1. ~(r.op = "remove_member" /\ m)
    BY <1>4
  <2> QED BY <1>2, <2>1 DEF Lands
<1>10. StandsOf(c)'
  <2> SUFFICES ASSUME r.id \in Sets => ~Absent(r.id)' PROVE Fits(c, r, m, Reading(r.id)')
    BY <1>3, <1>5 DEF StandsOf
  <2> QED BY <1>2 DEF Lands
<1>11. TellsOf(c)'
  <2> SUFFICES ASSUME HasCopy(c)' PROVE TellsOf(c)'
    BY DEF TellsOf
  <2>1. ~m /\ r.op \notin {"delete_role", "put"}
    BY <1>3, <1>4 DEF HasCopy, Succeeded, BookOps
  <2>2. r.id \in Sets => ~Absent(r.id)'
    BY <1>2, <2>1 DEF Lands
  <2>3. Fits(c, r, m, Reading(r.id)')
    BY <1>2, <2>2 DEF Lands
  <2>4. r.id \in Roles => Reading(r.id)' \in Role
    <3> SUFFICES ASSUME r.id \in Roles PROVE Reading(r.id)' \in Role
      OBVIOUS
    <3>1. Reading(r.id)' = RoleIn(r)
      BY <1>2, <2>3, FitsRole
    <3> QED BY <1>2, <2>1, <3>1, RoleRequest DEF RoleIn
  <2> QED BY <1>3, <1>5, <1>8, <2>1, <2>3, <2>4 DEF TellsOf
<1>12. CallInv(c)'
  BY <1>3, <1>9, <1>10, <1>11 DEF CallInv
<1>13. \A k \in Calls \ {c} : CallInv(k)'
  BY <1>1, <1>2, <1>3, <1>7, InvParts, OthersKeptByWrite
<1>14. SharedInv'
  <2>1. r.id \in Rows => TellsRow(c, r.id)'
    <3> SUFFICES ASSUME r.id \in Rows PROVE TellsRow(c, r.id)'
      OBVIOUS
    <3>1. r.op \in RowOps
      BY <1>2, Kinds
    <3>2. r.op \notin {"delete_role", "put"} /\ r.op \notin BookOps
      BY <3>1 DEF RowOps, BookOps
    <3>3. Reading(r.id)' = rows'[r.id].status
      BY <1>2, ReadingKind
    <3> QED BY <1>3, <1>4, <1>8, <3>2, <3>3 DEF TellsRow
  <2>2. r.id \in Roles /\ roles'[r.id] # None => TellsEnabled(c, r.id)' /\ TellsPermissions(c, r.id)'
    <3> SUFFICES ASSUME r.id \in Roles, roles'[r.id] # None
                 PROVE  TellsEnabled(c, r.id)' /\ TellsPermissions(c, r.id)'
      OBVIOUS
    <3>1. r.op \in RoleOps
      BY <1>2, Kinds
    <3>2. r.op # "put" /\ r.op \notin BookOps
      BY <3>1 DEF RoleOps, BookOps
    <3>3. Reading(r.id)' = roles'[r.id] /\ r.id \notin Sets
      BY <1>2, ReadingKind, OneKind
    <3>4. r.op # "delete_role"
      <4>1. Fits(c, r, m, Reading(r.id)')
        BY <1>2, <3>3 DEF Lands
      <4> QED BY <1>2, <3>3, <4>1, FitsRole DEF RoleIn
    <3> QED BY <1>3, <1>4, <1>8, <3>2, <3>3, <3>4 DEF TellsEnabled, TellsPermissions
  <2>3. r.id \in Sections => \A key \in DOMAIN r.values : TellsKey(c, r.id, key)'
    BY <1>2, <1>3, <1>4, Kinds DEF TellsKey
  <2> QED BY <1>1, <1>2, <1>3, <1>6, <1>7, <2>1, <2>2, <2>3, InvParts, SharedWritten
<1>15. StoreTypes'
  BY <1>2 DEF Lands
<1> QED BY <1>3, <1>12, <1>13, <1>14, <1>15 DEF Inv

(* A write that reports an error, done or not *)
LEMMA ChangeFailsKeeps ==
  ASSUME Inv, NEW c \in Calls, ChangeFails(c)
  PROVE  Inv'
<1> PICK r : r = task[c]
  OBVIOUS
<1> PICK m : m = MySQL
  OBVIOUS
<1> PICK at : at = Stamp(c)
  OBVIOUS
<1> PICK says : says = Failure(c)
  OBVIOUS
<1>1. /\ Goto(c, "write", "done") /\ pc[c] = "write" /\ Fails(c) /\ task' = task
      /\ stamp' = [stamp EXCEPT ![c] = at] /\ copy' = copy /\ auditLog' = auditLog
      /\ Answer(c, says)
      /\ (~Missing(c) /\ Effect(c)) \/ UNCHANGED store
  BY DEF ChangeFails, Goto
<1>2. says \in {"bad_request", "internal_error"}
  BY DEF Failure
<1>3. at \in Nat \ {0}
  BY <1>1, InvParts DEF Stamp, CallTypes, StepOf
<1>4. CallTypes' /\ Moves(c) /\ CallInv(c)'
  <2>1. \E x \in Nat \ {0} : stamp' = [stamp EXCEPT ![c] = x]
    BY <1>1, <1>3
  <2>2. says \in Replies \ {"ok"} /\ says \notin {"not_found", "gone"} /\ "write" \in Steps \ {"idle", "done"}
    BY <1>2, Nothing DEF Replies, Steps
  <2> QED BY <1>1, <2>1, <2>2, EndTurns
<1>5. CASE UNCHANGED store
  <2>1. Hands(c) /\ OnceOf(c)'
    BY <1>1, <1>4, NothingToTell DEF CallInv
  <2>2. \A k \in Calls \ {c} : CallInv(k)'
    BY <1>4, <1>5, <2>1, InvParts, OthersKept
  <2>3. SharedInv' /\ StoreTypes'
    BY <1>4, <1>5, <2>1, InvParts, SharedKept, SameStore
  <2> QED BY <1>4, <2>2, <2>3 DEF Inv
<1>6. CASE ~Missing(c) /\ Effect(c)
  <2>1. Lands(c, r, m) /\ r \in Requests
    BY <1>1, <1>6, Landing
  <2>2. Wrote(c)' /\ stamp'[c] = Stamp(c) /\ OnceOf(c)'
    <3>1. pc'[c] = "done" /\ reply'[c] = says /\ stamp'[c] = at
      <4>1. CallTypes /\ pc' = [pc EXCEPT ![c] = "done"] /\ reply' = [reply EXCEPT ![c] = says]
        BY <1>1 DEF Inv, Goto, Answer
      <4> QED BY <1>1, <4>1 DEF CallTypes
    <3> QED BY <1>2, <1>4, <1>6, <3>1 DEF Wrote, CallInv
  <2>3. \A k \in Calls \ {c} : CallInv(k)'
    BY <1>1, <1>4, <2>1, <2>2, InvParts, OthersKeptByWrite
  <2>4. SharedInv'
    BY <1>1, <1>4, <2>1, <2>2, InvParts, SharedWritten
  <2>5. StoreTypes'
    BY <2>1 DEF Lands
  <2> QED BY <1>4, <2>3, <2>4, <2>5 DEF Inv
<1> QED BY <1>1, <1>5, <1>6

(* Every other step of a handler *)
LEMMA StepKeeps ==
  ASSUME Inv, NEW c \in Calls, Keeps(c), UNCHANGED store
  PROVE  Inv'
<1>1. CallTypes' /\ Moves(c) /\ CallInv(c)' /\ Hands(c) /\ OnceOf(c)'
  BY DEF Keeps, CallInv
<1>2. \A k \in Calls \ {c} : CallInv(k)'
  BY <1>1, InvParts, OthersKept
<1>3. SharedInv' /\ StoreTypes'
  BY <1>1, InvParts, SharedKept, SameStore
<1> QED BY <1>1, <1>2, <1>3 DEF Inv

(* Every step of a handler *)
LEMMA HandleKeeps ==
  ASSUME Inv, NEW c \in Calls, Handle(c)
  PROVE  Inv'
<1>1. CASE Change(c)
  BY <1>1, ChangeKeeps
<1>2. CASE ChangeFails(c)
  BY <1>2, ChangeFailsKeeps
<1>3. CASE Arrive(c)
  BY <1>3, ArriveKeeps, StepKeeps
<1>4. CASE Find(c)
  BY <1>4, FindKeeps, StepKeeps
<1>5. CASE NotFound(c)
  BY <1>5, NotFoundKeeps, StepKeeps
<1>6. CASE Refuse(c)
  BY <1>6, RefuseKeeps, StepKeeps
<1>7. CASE Reread(c)
  BY <1>7, RereadKeeps, StepKeeps
<1>8. CASE RereadPermissions(c)
  BY <1>8, RereadPermissionsKeeps, StepKeeps
<1>9. CASE RereadMissing(c)
  BY <1>9, RereadMissingKeeps, StepKeeps
<1>10. CASE WriteAudit(c)
  BY <1>10, WriteAuditKeeps, StepKeeps
<1>11. CASE ReadFails(c) \/ AuditFails(c)
  BY <1>11, FailureKeeps, StepKeeps
<1> QED
  BY <1>1, <1>2, <1>3, <1>4, <1>5, <1>6, <1>7, <1>8, <1>9, <1>10, <1>11 DEF Handle

(* The clock, and nothing *)
LEMMA RestKeeps ==
  ASSUME Inv, now' \in Nat, now' > 0,
         UNCHANGED <<deployment, store, pc, task, stamp, copy, reply, auditLog, before>>
  PROVE  Inv'
<1>1. UNCHANGED store
  OBVIOUS
<1>2. StoreTypes' /\ CallTypes'
  BY <1>1, SameStore DEF Inv, CallTypes
<1>3. SharedInv'
  <2>1. rows' = rows /\ roles' = roles /\ settings' = settings
    BY DEF store
  <2> QED BY <2>1 DEF Inv, SharedInv, StampedOf, RowTold, EnabledTold, PermissionsTold, KeysTold,
           Untold, Fails, MySQL, Wrote, RowOnRecord, TellsRow, EnabledOnRecord, TellsEnabled,
           PermissionsOnRecord, TellsPermissions, KeyOnRecord, TellsKey
<1>4. ASSUME NEW c \in Calls PROVE CallInv(c)'
  <2>1. CallInv(c) /\ members' = members
    BY DEF Inv, store
  <2>2. /\ StepOf(c)' /\ OnceOf(c)' /\ PresentOf(c)' /\ SeenOf(c)'
    BY <1>1, <2>1, SameStore DEF CallInv, StepOf, OnceOf, PresentOf, SeenOf, Certain, Succeeded
  <2>3. StandsOf(c)' /\ TellsOf(c)'
    <3>1. /\ Excused(c) => Excused(c)'
          /\ Overtaken(c) => Overtaken(c)'
          /\ MySQL' = MySQL
      BY DEF Excused, Overtaken, MySQL, Wrote
    <3> QED BY <1>1, <2>1, <3>1, SameStore DEF CallInv, StandsOf, TellsOf, Certain, HasCopy, Succeeded
  <2>4. MissedOf(c)'
    BY <1>1, <2>1, SameStore DEF CallInv, MissedOf, Wrote
  <2> QED BY <2>2, <2>3, <2>4 DEF CallInv
<1> QED BY <1>2, <1>3, <1>4 DEF Inv

(* At first there is nothing to be said *)
LEMMA InitInv == Init => Inv
<1> SUFFICES ASSUME Init PROVE Inv
  OBVIOUS
<1>1. \A id \in Rows : rows[id] \in {None, Fresh(id, Default(id), 0, 0)}
  BY DEF Init, Old
<1>2. \A id \in Rows : /\ Fresh(id, Default(id), 0, 0) \in Row
                       /\ Fresh(id, Default(id), 0, 0).status = Default(id)
                       /\ Fresh(id, Default(id), 0, 0).updated = 0
  BY StatusesTyped DEF Fresh, Row
<1>3. Listed \in SUBSET Entry
  BY DEF Listed, Entry, Places
<1>4. StoreTypes
  <2>1. rows \in [Rows -> Row \cup {None}]
    BY <1>1, <1>2 DEF Init
  <2>2. /\ members \in [Sets -> (SUBSET (Users \cup Strangers)) \cup (SUBSET Entry) \cup {None}]
        /\ \A id \in Groups : members[id] \in (SUBSET (Users \cup Strangers)) \cup {None}
        /\ \A id \in Books : members[id] \in (SUBSET Entry) \cup {None}
    <3>1. members \in [Sets -> {None, {}, Listed}]
      BY DEF Init
    <3>2. \A id \in Groups : members[id] \in {None, {}}
      BY DEF Init, Old
    <3>3. Groups \subseteq Sets /\ Books \subseteq Sets
      BY DEF Sets
    <3> QED BY <1>3, <3>1, <3>2, <3>3
  <2>3. roles \in [Roles -> Role \cup {None}]
    <3>1. roles \in [Roles -> {None, Bare}]
      BY DEF Init
    <3>2. Bare \in Role
      BY DEF Bare, Role
    <3> QED BY <3>1, <3>2
  <2>4. settings \in [Sections -> [Keys -> Values \cup {None}]]
    BY DEF Init
  <2> QED BY <2>1, <2>2, <2>3, <2>4 DEF StoreTypes
<1>5. CallTypes
  BY DEF Init, CallTypes, Steps, Replies
<1>6. ASSUME NEW c \in Calls PROVE CallInv(c)
  <2>1. pc[c] = "idle" /\ reply[c] = None /\ before[c] = {}
    BY DEF Init
  <2> QED BY <2>1 DEF CallInv, StepOf, OnceOf, PresentOf, SeenOf, StandsOf, TellsOf, MissedOf,
           Certain, HasCopy, Succeeded
<1>7. SharedInv
  <2>1. \A id \in Rows \cup Roles : (id \in Rows /\ rows[id] # None) \/ (id \in Roles /\ roles[id] # None) =>
          Created(id) \in auditLog
    BY DEF Init
  <2>2. ASSUME NEW id \in Rows PROVE StampedOf(id) /\ RowTold(id)
    <3> SUFFICES ASSUME rows[id] # None PROVE rows[id].updated = 0 /\ RowOnRecord(id)
      BY DEF StampedOf, RowTold
    <3>1. Created(id) \in auditLog /\ Created(id).id = id /\ Created(id).told = Default(id)
      BY <2>1 DEF Created
    <3> QED BY <1>1, <1>2, <3>1 DEF RowOnRecord
  <2>3. ASSUME NEW id \in Roles PROVE EnabledTold(id) /\ PermissionsTold(id)
    <3> SUFFICES ASSUME roles[id] # None PROVE EnabledOnRecord(id) /\ PermissionsOnRecord(id)
      BY DEF EnabledTold, PermissionsTold
    <3>1. id \notin Rows
      BY NameAssumption
    <3>2. Created(id) \in auditLog /\ Created(id).id = id /\ Created(id).told = Bare
      BY <2>1, <3>1 DEF Created
    <3>3. roles[id] = Bare /\ Bare # None
      BY DEF Init
    <3> QED BY <3>2, <3>3 DEF EnabledOnRecord, PermissionsOnRecord
  <2>4. ASSUME NEW id \in Sections PROVE KeysTold(id)
    BY DEF Init, KeysTold
  <2> QED BY <2>2, <2>3, <2>4 DEF SharedInv
<1> QED BY <1>4, <1>5, <1>6, <1>7 DEF Inv

-----------------------------------------------------------------------------
(* The theorems *)

(* Whatever the requests, both stores, and whichever accesses fail: the     *)
(* invariant holds from the state that finds some things created before on, *)
(* through every statement, reading, audit event and answer of a handler.   *)
THEOREM RegistryInvariant == Spec => []Inv
<1>1. Inv /\ [Next]_vars => Inv'
  <2> SUFFICES ASSUME Inv, [Next]_vars PROVE Inv'
    OBVIOUS
  <2>1. CASE \E c \in Calls : Handle(c)
    BY <2>1, HandleKeeps
  <2>2. CASE Tick
    <3>1. now \in Nat /\ now > 0
      BY DEF Inv, CallTypes
    <3> QED BY <2>2, <3>1, RestKeeps DEF Tick
  <2>3. CASE UNCHANGED vars
    <3>1. now \in Nat /\ now > 0
      BY DEF Inv, CallTypes
    <3> QED BY <2>3, <3>1, RestKeeps DEF vars
  <2> QED BY <2>1, <2>2, <2>3 DEF Next
<1> QED BY <1>1, InitInv, PTL DEF Spec

(* What the status columns hold *)
StatusTypes == \A id \in Rows : rows[id] # None => rows[id].status \in Column(id)

(* A write leaves what the column takes: MySQL refuses another string *)
LEMMA StatusWritten ==
  ASSUME Inv, StatusTypes, NEW c \in Calls,
         pc[c] = "write", ~Missing(c), ~Refused(c), Effect(c), UNCHANGED deployment
  PROVE  StatusTypes'
<1> DEFINE r == task[c]
           id == r.id
<1>1. r \in Requests /\ Lands(c, r, MySQL)
  <2>1. Lands(c, task[c], MySQL) /\ task[c] \in Requests
    BY Landing
  <2> QED BY <2>1
<1>2. \A x \in Rows : Column(x)' = Column(x) /\ Statuses(x) \subseteq Column(x)
  BY StatusesTyped DEF Column, MySQL
<1>3. CASE id \notin Rows
  <2>1. \A x \in Rows : rows'[x] = rows[x]
    BY <1>1, <1>3 DEF Lands, SameBut
  <2> QED BY <1>2, <2>1 DEF StatusTypes
<1>4. CASE id \in Rows
  <2>1. r.op \in RowOps /\ (r.op # "create" => r.status \in Statuses(id) \cup {None})
    BY <1>1, <1>4, RowRequest
  <2>2. rows' = [rows EXCEPT ![id] = Written(c)] /\ rows \in [Rows -> Row \cup {None}]
    <3>1. rows' = [rows EXCEPT ![task[c].id] = Written(c)]
      BY <2>1 DEF RowOps, Effect, Asks, Put, CreateDevice, UpdateDevice, DisableDevice, CreateRelay,
        UpdateRelay, RelayHeartbeat, DisableRelay, CreateUserGroup, AddUserGroupMember,
        RemoveUserGroupMember, CreateAddressBook, AddAddressBookEntry, RemoveAddressBookEntry,
        CreateControlRole, UpdateControlRole, DeleteControlRole, UpsertSystemSettings
    <3> QED BY <3>1 DEF Inv, StoreTypes
  <2>3. Written(c).status \in Column(id)
    <3>1. CASE r.op = "create"
      BY <3>1 DEF Refused, StatusRefused, Written
    <3>2. CASE r.op # "create"
      <4>1. rows[id] # None
        BY <1>4, <2>1, <3>2 DEF Missing, Creates, Absent, RowOps
      <4>2. Written(c).status = StatusIn(r, MySQL) \/ Written(c).status = rows[id].status
        BY <1>1, <1>4, <3>2, <4>1, RowWritten DEF Inv
      <4>3. CASE Written(c).status = rows[id].status
        BY <1>4, <4>1, <4>3 DEF StatusTypes
      <4>4. CASE StatusIn(r, MySQL) \in Statuses(id) /\ Written(c).status = StatusIn(r, MySQL)
        BY <1>2, <1>4, <4>4
      <4>5. StatusIn(r, MySQL) \in Statuses(id) \cup {None}
        BY <1>4, <2>1, <3>2, StatusesTyped DEF StatusIn
      <4>6. Written(c).status # None
        BY <1>1, <1>4, <3>2, <4>1, RowWritten, StatusesTyped DEF Inv
      <4> QED BY <4>2, <4>3, <4>4, <4>5, <4>6
    <3> QED BY <3>1, <3>2
  <2> QED BY <1>2, <1>4, <2>2, <2>3 DEF StatusTypes
<1> QED BY <1>3, <1>4

(* The status columns of devices and relays hold one of their values in     *)
(* MySQL, in the memory store any string a creation may name; groups and    *)
(* books hold members and entries, a role has permissions of the            *)
(* catalogue, and every request is at one of its handler's steps.           *)
THEOREM RegistryTypes == Spec => []TypeOK
<1>1. Init => StatusTypes
  <2> SUFFICES ASSUME Init, NEW id \in Rows, rows[id] # None
               PROVE  rows[id].status \in Column(id)
    BY DEF StatusTypes
  <2>1. rows[id] = Fresh(id, Default(id), 0, 0)
    BY DEF Init, Old
  <2>2. Default(id) \in Column(id)
    BY StatusesTyped DEF Column
  <2> QED BY <2>1, <2>2 DEF Fresh
<1>2. Inv /\ StatusTypes /\ [Next]_vars => StatusTypes'
  <2> SUFFICES ASSUME Inv, StatusTypes, [Next]_vars PROVE StatusTypes'
    OBVIOUS
  <2>1. CASE UNCHANGED <<rows, deployment>>
    BY <2>1 DEF StatusTypes, Column, MySQL
  <2>2. CASE \E c \in Calls : Change(c)
    BY <2>2, StatusWritten DEF Change, Proceed, Goto
  <2>3. ASSUME NEW c \in Calls, ChangeFails(c) PROVE StatusTypes'
    <3>1. pc[c] = "write" /\ UNCHANGED deployment
      BY <2>3 DEF ChangeFails, Goto
    <3>2. CASE ~Missing(c) /\ ~Refused(c) /\ Effect(c)
      BY <3>1, <3>2, StatusWritten
    <3>3. CASE UNCHANGED store
      BY <2>1, <3>1, <3>3 DEF store
    <3> QED BY <2>3, <3>2, <3>3 DEF ChangeFails
  <2>4. ASSUME NEW c \in Calls, Handle(c), ~Change(c), ~ChangeFails(c)
        PROVE  UNCHANGED <<rows, deployment>>
    BY <2>4 DEF Handle, Arrive, Find, NotFound, Refuse, Reread, RereadPermissions, RereadMissing,
      WriteAudit, ReadFails, AuditFails, Proceed, Goto, store
  <2>5. Tick \/ UNCHANGED vars => UNCHANGED <<rows, deployment>>
    BY DEF Tick, vars, store
  <2> QED BY <2>1, <2>2, <2>3, <2>4, <2>5 DEF Next
<1>3. Inv /\ StatusTypes => TypeOK
  BY DEF Inv, StoreTypes, CallTypes, StatusTypes, TypeOK, Steps, Replies
<1> QED BY <1>1, <1>2, <1>3, RegistryInvariant, PTL DEF Spec

(* What a request asks for, as a matter of the request alone *)
LEMMA SameWords ==
  ASSUME NEW c \in Calls, NEW r \in Requests, r = task[c], NEW m, m = MySQL
  PROVE  /\ Asked(c) = StatusIn(r, m)
         /\ Adds(c) = AddsIn(r) /\ Removes(c) = RemovesIn(r)
         /\ Enters(c) = EntersIn(c, r) /\ Strikes(c) = StrikesIn(r)
         /\ RoleOf(c) = RoleIn(r)
<1>1. Asked(c) = StatusIn(r, m)
  BY DEF Asked, StatusIn, Named
<1>2. Adds(c) = AddsIn(r) /\ Removes(c) = RemovesIn(r) /\ RoleOf(c) = RoleIn(r)
      /\ Strikes(c) = StrikesIn(r)
  BY DEF Adds, AddsIn, Removes, RemovesIn, RoleOf, RoleIn, Strikes, StrikesIn
<1>3. Enters(c) = EntersIn(c, r)
  BY DEF Enters, EntersIn, Entries, EntriesIn
<1> QED BY <1>1, <1>2, <1>3

(* What fits a request shows it *)
LEMMA ShowsFits ==
  ASSUME NEW c \in Calls, NEW r \in Requests, r = task[c], NEW m, m = MySQL, NEW x, Fits(c, r, m, x)
  PROVE  Shows(c, x)
<1>1. r.id \in Ids
  BY Kinds
<1>2. CASE r.id \in Rows
  <2>1. StatusIn(r, m) \in {None, x}
    BY <1>2, FitsRow
  <2>2. Asked(c) = StatusIn(r, m)
    BY SameWords
  <2>3. r.id \notin Groups \cup Books \cup Roles
    BY <1>1, <1>2, OneKind DEF Sets
  <2> QED BY <1>2, <2>1, <2>2, <2>3 DEF Shows
<1>3. CASE r.id \in Groups
  BY <1>1, <1>3, FitsGroup, OneKind, SameWords DEF Shows
<1>4. CASE r.id \in Books
  BY <1>1, <1>4, FitsBook, OneKind, SameWords DEF Shows
<1>5. CASE r.id \in Roles
  BY <1>1, <1>5, FitsRole, OneKind, SameWords DEF Shows, Sets
<1>6. CASE r.id \in Sections
  BY <1>1, <1>6, FitsSection, OneKind DEF Shows, Sets
<1> QED BY <1>1, <1>2, <1>3, <1>4, <1>5, <1>6 DEF Ids, Sets

(* What opposes a request is against it *)
LEMMA OpposesAgainst ==
  ASSUME NEW c \in Calls, NEW r \in Requests, r = task[c], NEW m, m = MySQL,
         NEW k \in Calls, NEW q \in Requests, q = task[k], Opposes(q, c, r, m)
  PROVE  Against(k, c)
<1>1. r.id \in Ids /\ q.id = r.id
  BY Kinds DEF Opposes
<1>2. CASE r.id \in Rows
  <2>1. StatusIn(q, m) \notin {None, StatusIn(r, m)}
    BY <1>1, <1>2, OneKind DEF Opposes, Sets
  <2>2. Asked(c) = StatusIn(r, m) /\ Asked(k) = StatusIn(q, m)
    BY SameWords
  <2>3. r.id \notin Groups \cup Books \cup Roles
    BY <1>1, <1>2, OneKind DEF Sets
  <2> QED BY <1>1, <1>2, <2>1, <2>2, <2>3 DEF Against
<1>3. CASE r.id \in Groups
  <2>1. AddsIn(q) \cap RemovesIn(r) # {} \/ RemovesIn(q) \cap AddsIn(r) # {}
    BY <1>1, <1>3, OneKind DEF Opposes
  <2>2. Adds(c) = AddsIn(r) /\ Adds(k) = AddsIn(q) /\ Removes(c) = RemovesIn(r) /\ Removes(k) = RemovesIn(q)
    BY SameWords
  <2> QED BY <1>1, <1>3, <2>1, <2>2, OneKind DEF Against
<1>4. CASE r.id \in Books
  <2>1. StrikesIn(q) \cap EntersIn(c, r) # {}
    BY <1>1, <1>4, OneKind DEF Opposes
  <2>2. Strikes(k) = StrikesIn(q) /\ Enters(c) = EntersIn(c, r)
    BY SameWords
  <2> QED BY <1>1, <1>4, <2>1, <2>2, OneKind DEF Against
<1>5. CASE r.id \in Roles
  <2>1. RoleIn(q) # RoleIn(r) /\ r.id \notin Rows \cup Groups \cup Books
    BY <1>1, <1>5, OneKind DEF Opposes, Sets
  <2>2. RoleOf(k) = RoleIn(q) /\ RoleOf(c) = RoleIn(r)
    BY SameWords
  <2> QED BY <1>1, <1>5, <2>1, <2>2 DEF Against
<1>6. CASE r.id \in Sections
  <2>1. r.id \notin Rows \cup Groups \cup Books \cup Roles
    BY <1>1, <1>6, OneKind DEF Sets
  <2>2. \E x \in DOMAIN q.values \cap DOMAIN r.values : ~(q.values[x] \subseteq r.values[x])
    BY <1>1, <1>6, <2>1 DEF Opposes
  <2> QED BY <1>1, <1>6, <2>1, <2>2 DEF Against
<1> QED BY <1>1, <1>2, <1>3, <1>4, <1>5, <1>6 DEF Ids, Sets

(* DisableDevice, UpdateRelay, AddUserGroupMember, RemoveAddressBookEntry,  *)
(* UpdateControlRole, UpsertSystemSettings, ...: what was answered as done  *)
(* stands until a request that had no answer when it arrived asks for       *)
(* something else.                                                          *)
THEOREM ChangesStand == Spec => []ChangeStands
<1>1. Inv => ChangeStands
  <2> SUFFICES ASSUME Inv, NEW c \in Calls, Succeeded(c), ~Shows(c, Reading(task[c].id))
               PROVE  \E k \in Calls \ (before[c] \cup {c}) : Wrote(k) /\ Against(k, c)
    BY DEF ChangeStands
  <2> PICK r, m : r = task[c] /\ m = MySQL
    OBVIOUS
  <2>1. r \in Requests /\ Certain(c) /\ pc[c] = "done"
    BY InvParts DEF Succeeded, Certain
  <2>2. r.id \in Sets => ~Absent(r.id)
    BY <2>1, InvParts DEF PresentOf
  <2>3. ~Fits(c, r, m, Reading(r.id))
    BY <2>1, ShowsFits
  <2>4. Excused(c)
    BY <2>1, <2>2, <2>3, InvParts DEF StandsOf
  <2>5. PICK k \in Calls \ (before[c] \cup {c}) : Wrote(k) /\ Opposes(task[k], c, r, m)
    BY <2>4 DEF Excused
  <2>6. task[k] \in Requests
    BY <2>5, InvParts DEF Wrote
  <2> QED BY <2>1, <2>5, <2>6, OpposesAgainst
<1> QED BY <1>1, RegistryInvariant, PTL

(* findRelayByID, findControlRoleByID, mergedSettings, ...: the answer,     *)
(* read after the change, shows it unless a request that ran at the same    *)
(* time asked for something else; a control role's two readings may be of   *)
(* two requests, of which then one is such a request.                       *)
THEOREM AnswersTell == Spec => []AnswerTells
<1>1. Inv => AnswerTells
  <2> SUFFICES ASSUME Inv, NEW c \in Calls, Succeeded(c), task[c].op # "delete_role",
                      ~Shows(c, copy[c])
               PROVE  \E k \in Calls \ (before[c] \cup {c}) :
                        c \notin before[k] /\ Wrote(k) /\ Against(k, c)
    BY DEF AnswerTells
  <2> PICK r, m : r = task[c] /\ m = MySQL
    OBVIOUS
  <2>1. r \in Requests /\ HasCopy(c)
    BY InvParts DEF Succeeded, HasCopy
  <2>2. ~Fits(c, r, m, copy[c])
    BY <2>1, ShowsFits
  <2>3. Overtaken(c)
    BY <2>1, <2>2, InvParts DEF TellsOf
  <2>4. PICK k \in Calls \ (before[c] \cup {c}) :
          c \notin before[k] /\ Wrote(k) /\ Opposes(task[k], c, r, m)
    BY <2>3 DEF Overtaken
  <2>5. task[k] \in Requests
    BY <2>4, InvParts DEF Wrote
  <2> QED BY <2>1, <2>4, <2>5, OpposesAgainst
<1> QED BY <1>1, RegistryInvariant, PTL

(* UpdateDevice, DisableDevice, UpdateRelay, RelayHeartbeat, DisableRelay:  *)
(* a row that exists is reported missing only to a request that repeats,    *)
(* within the second, what another has just written; a control role or an   *)
(* entry that exists never is.                                              *)
THEOREM OnlyRepeats == Spec => []OnlyRepeatsMissed
<1>1. Inv => OnlyRepeatsMissed
  BY InvParts DEF OnlyRepeatsMissed, RefusedThoughThere, Existed, MissedOf
<1> QED BY <1>1, RegistryInvariant, PTL

(* Handler.writeAudit: when all requests about a device, a relay, a role or *)
(* a section are answered, and none of them may fail, each part of what it  *)
(* has become is told by some event about it.                               *)
THEOREM OnRecord == Spec => []StatusOnRecord
<1>1. Inv => StatusOnRecord
  <2> SUFFICES ASSUME Inv, NEW id \in Rows \cup Roles \cup Sections, ~Absent(id),
                      \A c \in Calls : pc[c] # "idle" /\ task[c].id = id => pc[c] = "done" /\ ~Fails(c)
               PROVE  Recorded(id)
    BY DEF StatusOnRecord
  <2>1. ~Untold(id) /\ id \in Ids /\ SharedInv
    BY InvParts DEF Untold, Ids, Inv
  <2> DEFINE told == {e.told : e \in {x \in auditLog : x.id = id /\ x.told # None}}
  <2>2. CASE id \in Rows
    <3>1. rows[id] # None /\ rows[id].status # None
      <4>1. rows[id] # None /\ rows[id] \in Row
        BY <2>1, <2>2, ReadingKind DEF Inv, StoreTypes
      <4>2. rows[id].status \in Strings
        BY <4>1 DEF Row
      <4> QED BY <2>2, <4>1, <4>2, StatusesTyped
    <3>2. RowOnRecord(id)
      BY <2>1, <2>2, <3>1 DEF SharedInv, RowTold, TellsRow
    <3>3. rows[id].status \in told
      BY <3>1, <3>2 DEF RowOnRecord
    <3>4. id \notin Roles
      BY <2>1, <2>2, OneKind
    <3> QED BY <2>2, <3>3, <3>4 DEF Recorded
  <2>3. CASE id \in Roles
    <3>1. roles[id] # None /\ id \notin Rows
      BY <2>1, <2>3, ReadingKind, OneKind
    <3>2. EnabledOnRecord(id) /\ PermissionsOnRecord(id)
      BY <2>1, <2>3, <3>1 DEF SharedInv, EnabledTold, PermissionsTold, TellsEnabled, TellsPermissions
    <3>3. (\E role \in told : role.enabled = roles[id].enabled)
          /\ (\E role \in told : role.permissions = roles[id].permissions)
      BY <3>2 DEF EnabledOnRecord, PermissionsOnRecord
    <3> QED BY <2>3, <3>1, <3>3 DEF Recorded
  <2>4. CASE id \in Sections
    <3>1. id \notin Rows /\ id \notin Roles
      BY <2>1, <2>4, OneKind
    <3>2. \A key \in Keys : settings[id][key] # None => KeyOnRecord(id, key)
      BY <2>1, <2>4 DEF SharedInv, KeysTold, TellsKey
    <3>3. \A key \in Keys : settings[id][key] # None => \E keys \in told : key \in keys
      BY <3>2 DEF KeyOnRecord
    <3> QED BY <3>1, <3>3 DEF Recorded
  <2> QED BY <2>2, <2>3, <2>4
<1> QED BY <1>1, RegistryInvariant, PTL
=============================================================================
