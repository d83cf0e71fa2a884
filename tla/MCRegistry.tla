----------------------------- MODULE MCRegistry -----------------------------
(* Small instances of Registry for TLC *)
EXTENDS Registry, TLC

CONSTANTS c1, c2, c3, d, r, g, b, admin, section, u, stranger, p, k1, k2, other

RowRequest(op, id, status, label) ==
  [op |-> op, id |-> id, status |-> status, label |-> label]

Heartbeat(status, sessions) ==
  [op |-> "heartbeat", id |-> r, status |-> status, sessions |-> sessions]

GroupRequest(op, user) == [op |-> op, id |-> g, users |-> {user}]

BookRequest(op, devices) == [op |-> op, id |-> b, devices |-> devices]

Removal(call) ==
  [op |-> "remove_entry", id |-> b, entry |-> [by |-> call, nth |-> 1, device |-> d]]

RoleRequest(op, enabled, permissions) ==
  [op |-> op, id |-> admin, role |-> [enabled |-> enabled, permissions |-> permissions]]

PutRequest(values) == [op |-> "put", id |-> section, values |-> values]

(* What three requests, administrators' or a relay's, may be about *)
MCRequests ==
  {RowRequest("create", d, None, 0), RowRequest("create", d, other, 0),
   RowRequest("update", d, None, 0),
   RowRequest("update", d, "online", 0), RowRequest("disable", d, None, 0),
   RowRequest("create", r, None, 0), RowRequest("create", r, other, 0),
   RowRequest("update", r, None, 1),
   RowRequest("disable", r, None, 0),
   Heartbeat("active", 1), Heartbeat(None, 1),
   GroupRequest("create_group", u), GroupRequest("add_member", u),
   GroupRequest("add_member", stranger), GroupRequest("remove_member", u),
   BookRequest("create_book", <<d>>), BookRequest("create_book", <<d, d>>),
   BookRequest("add_entry", <<d>>), BookRequest("add_entry", <<stranger>>),
   RoleRequest("create_role", TRUE, {p}), RoleRequest("update_role", TRUE, {p}),
   RoleRequest("update_role", FALSE, {}), [op |-> "delete_role", id |-> admin],
   PutRequest(k1 :> {1}), PutRequest(k1 :> {0, 1}), PutRequest(k1 :> {0} @@ k2 :> {1})}
  \cup {Removal(call) : call \in Calls \cup {None}}

MCHeartbeats == {Heartbeat("active", 1), Heartbeat(None, 1), Heartbeat("degraded", None)}

(* Each resource with either store *)
MCDeployments == [mysql : BOOLEAN, about : {{id} : id \in Ids}]

MCRelay == {[mysql |-> TRUE, about |-> {r}]}

MCSymmetry == Permutations({c1, c2})
=============================================================================
