----------------------------- MODULE RelayGrant -----------------------------
(***************************************************************************)
(* Relay grants: the one-shot tokens a RustDesk client obtains from the    *)
(* control plane and hbbr presents back before it relays a session.        *)
(*                                                                         *)
(* Each HTTP request (issue, validate, revoke) is a member of Calls and    *)
(* runs through its handler one store access at a time, because the        *)
(* service holds no lock between two store accesses: ValidateWithContext   *)
(* reads the grant, judges the copy it read, and then writes the status    *)
(* unconditionally.  Several API processes may share the MySQL store, so   *)
(* a lock inside one process would not change this picture.  A request     *)
(* whose process dies, whose client hangs up or whose answer is lost is a  *)
(* call that takes no further step: Spec assumes no fairness, so every     *)
(* such crash is among its behaviours.                                     *)
(*                                                                         *)
(* Abstractions.  A token stands for the grant it was signed for; the      *)
(* HMAC and the nonce never disagree for a token the service signed.       *)
(* Bindings and expiry are written once, at creation, so a later step may  *)
(* read them from the store as well as from its own copy.  The clock unit  *)
(* is one minute.  The identity test of IssueWithContext cannot fail       *)
(* behind auth.Require, which gives every issue request a session.         *)
(***************************************************************************)
EXTENDS Integers

CONSTANTS
  Calls,             \* HTTP requests; each is handled once
  Route,             \* the handler each request is for
  Grants,            \* grant ids randomID can draw
  Relays,            \* relay names
  Devices,           \* device ids
  RustDeskIDs,       \* RustDesk ids
  None,              \* a null pointer or an empty string
  BlankToken,        \* an empty grant_token
  BadToken,          \* a grant_token that parse rejects
  IssueRequests,     \* bodies of POST /relay-grants
  ValidateRequests,  \* bodies of POST /relay-grants/validate
  DefaultTTL,        \* Config.RelayGrantTTL, minutes
  Faulty,            \* the calls whose store and log accesses may fail
  CountsMatchedRows, \* TRUE: memory store; FALSE: RowsAffected of MySQL
  MaxTime            \* bound on the clock

MinTTL == 1
MaxTTL == 5

Routes == {"issue", "validate", "revoke"}

ASSUME NullAssumption ==
  /\ None \notin Grants \cup Relays \cup Devices \cup RustDeskIDs
  /\ BlankToken \notin Grants \cup {None}
  /\ BadToken \notin Grants \cup {None, BlankToken}
ASSUME RequestAssumption ==
  /\ IssueRequests \subseteq [device : Devices \cup {None},
                              rustdesk : RustDeskIDs \cup {None},
                              relays : SUBSET Relays, ttl : Nat]
  /\ ValidateRequests \subseteq [device : Devices \cup {None},
                                 rustdesk : RustDeskIDs \cup {None},
                                 relay : Relays \cup {None}]
ASSUME ParameterAssumption ==
  /\ Route \in [Calls -> Routes]
  /\ DefaultTTL \in Nat
  /\ MaxTime \in Nat
  /\ Faulty \subseteq Calls
  /\ CountsMatchedRows \in BOOLEAN

VARIABLES
  status,    \* relay_grants.status, "none" before the row exists
  binding,   \* the issue request the row was created from
  expires,   \* relay_grants.expires_at
  usedAt,    \* relay_grants.used_at
  now,       \* time.Now()
  pc,        \* the handler's next step
  gid,       \* the grant a call is about
  req,       \* the body of its request, once parsed and found well-formed
  seen,      \* the status in the handler's copy of the grant
  reply,     \* the outcome the handler has decided on
  auditLog,  \* audit events
  connLog,   \* denied connection logs
  before,    \* history: the valid and revoke answers sent when a call arrived
  arrived    \* history: when a call arrived

row == <<status, binding, expires, usedAt>>
logs == <<auditLog, connLog>>
history == <<before, arrived>>
vars == <<row, now, pc, gid, req, seen, reply, logs, history>>

Statuses == {"issued", "used", "expired", "revoked"}
Settled == {"used", "expired", "revoked"}
Refusals == {"relay_auth_required", "invalid", "unknown", "revoked",
             "replayed", "expired", "target_mismatch", "relay_not_allowed"}
Replies == {"none", "valid", "issued", "revoke_ok", "bad_request",
            "not_found", "internal_error"} \cup Refusals
Steps == {"create", "find", "check", "mark_used", "mark_expired", "revoke",
          "audit", "conn_log"}

Init ==
  /\ status = [g \in Grants |-> "none"]
  /\ binding = [g \in Grants |-> None]
  /\ expires = [g \in Grants |-> 0]
  /\ usedAt = [g \in Grants |-> None]
  /\ now = 0
  /\ pc = [c \in Calls |-> "idle"]
  /\ gid = [c \in Calls |-> None]
  /\ req = [c \in Calls |-> None]
  /\ seen = [c \in Calls |-> "none"]
  /\ reply = [c \in Calls |-> "none"]
  /\ auditLog = {}
  /\ connLog = {}
  /\ before = [c \in Calls |-> {}]
  /\ arrived = [c \in Calls |-> 0]

-----------------------------------------------------------------------------
(* Steps shared by the handlers *)

Valid(c) == reply[c] = "valid"

(* A revocation that found the grant; the 500 is its audit write failing *)
Revoked(c) == Route[c] = "revoke" /\ reply[c] \in {"revoke_ok", "internal_error"}

Closing(c) == Valid(c) \/ Revoked(c)

Arrive(c, handler, g, step) ==
  /\ pc[c] = "idle"
  /\ Route[c] = handler
  /\ gid' = [gid EXCEPT ![c] = g]
  /\ pc' = [pc EXCEPT ![c] = step]
  /\ before' = [before EXCEPT ![c] = {k \in Calls : pc[k] = "done" /\ Closing(k)}]
  /\ arrived' = [arrived EXCEPT ![c] = now]

Goto(c, from, to) ==
  /\ pc[c] = from
  /\ pc' = [pc EXCEPT ![c] = to]
  /\ UNCHANGED <<gid, req, history, now>>

Decide(c, outcome) == reply' = [reply EXCEPT ![c] = outcome]

(* The status column is an ENUM: a blank status is what the guard of       *)
(* UpdateRelayGrantStatus keeps out.                                       *)
SetStatusBlank(g, s, at) ==
  /\ status' = [status EXCEPT ![g] = ""]
  /\ UNCHANGED <<binding, expires, usedAt>>

(* UpdateRelayGrantStatus: the status being replaced is not tested;        *)
(* used_at is kept when the caller passes none.                            *)
SetStatus(g, s, at) ==
  /\ status' = [status EXCEPT ![g] = s]
  /\ usedAt' = [usedAt EXCEPT ![g] = IF at = None THEN @ ELSE at]
  /\ UNCHANGED <<binding, expires>>

Unwritten(c) == c \in Faulty /\ UNCHANGED row

-----------------------------------------------------------------------------
(* POST /relay-grants *)

TTL(r) == IF r.ttl > 0 THEN r.ttl ELSE DefaultTTL

Issuable(r) ==
  /\ r.device # None \/ r.rustdesk # None
  /\ r.relays # {}
  /\ TTL(r) \in MinTTL .. MaxTTL

IssueRejected(c) ==
  /\ \E r \in IssueRequests : ~Issuable(r)
  /\ Arrive(c, "issue", None, "done")
  /\ Decide(c, "bad_request")
  /\ UNCHANGED <<row, now, req, seen, logs>>

(* randomID never draws the same id twice *)
IssueArrive(c) ==
  /\ \E r \in IssueRequests, g \in Grants :
       /\ Issuable(r)
       /\ \A k \in Calls : Route[k] = "issue" => gid[k] # g
       /\ req' = [req EXCEPT ![c] = r]
       /\ Arrive(c, "issue", g, "create")
  /\ UNCHANGED <<row, now, seen, reply, logs>>

InsertGrant(c) ==
  LET g == gid[c] IN
  /\ status' = [status EXCEPT ![g] = "issued"]
  /\ binding' = [binding EXCEPT ![g] = req[c]]
  /\ expires' = [expires EXCEPT ![g] = arrived[c] + TTL(req[c])]
  /\ UNCHANGED usedAt

(* The audit event is written after the grant exists *)
CreateGrant(c) ==
  /\ Goto(c, "create", "audit")
  /\ InsertGrant(c)
  /\ Decide(c, "issued")
  /\ UNCHANGED <<seen, logs>>

(* An insert that reports an error may still have happened *)
CreateFails(c) ==
  /\ c \in Faulty
  /\ Goto(c, "create", "done")
  /\ InsertGrant(c) \/ Unwritten(c)
  /\ Decide(c, "bad_request")
  /\ UNCHANGED <<seen, logs>>

-----------------------------------------------------------------------------
(* POST /relay-grants/validate *)

(* A token leaves the service only in the answer to an issue request *)
Held == {gid[k] : k \in {i \in Calls : pc[i] = "done" /\ reply[i] = "issued"}}

ValidateArrive(c) ==
  /\ \E g \in Held, r \in ValidateRequests :
       /\ req' = [req EXCEPT ![c] = r]
       /\ Arrive(c, "validate", g, "find")
  /\ UNCHANGED <<row, now, seen, reply, logs>>

ValidateUnparsed(c) ==
  /\ \E t \in {BlankToken, BadToken} :
       Decide(c, IF t = BlankToken THEN "relay_auth_required" ELSE "invalid")
  /\ Arrive(c, "validate", None, "audit")
  /\ UNCHANGED <<row, now, req, seen, logs>>

FindGrant(c) ==
  /\ Goto(c, "find", "check")
  /\ status[gid[c]] # "none"
  /\ seen' = [seen EXCEPT ![c] = status[gid[c]]]
  /\ UNCHANGED <<row, reply, logs>>

FindFails(c) ==
  /\ c \in Faulty
  /\ Goto(c, "find", "audit")
  /\ Decide(c, "unknown")
  /\ UNCHANGED <<row, seen, logs>>

NeverExpired(c) == FALSE

Expired(c) == now > expires[gid[c]]

Differ(a, b) == a # None /\ b # None /\ a # b

TargetMismatch(c) ==
  LET b == binding[gid[c]] IN
  Differ(req[c].device, b.device) \/ Differ(req[c].rustdesk, b.rustdesk)

AnyRelay(c) == FALSE

RelayNotAllowed(c) ==
  req[c].relay # None /\ req[c].relay \notin binding[gid[c]].relays

(* The first test that fails, in the order ValidateWithContext makes them *)
RefusalWithoutStatus(c) ==
  IF Expired(c) THEN "expired"
  ELSE IF TargetMismatch(c) THEN "target_mismatch"
  ELSE IF RelayNotAllowed(c) THEN "relay_not_allowed"
  ELSE "none"

RefusalWithoutReplay(c) ==
  IF seen[c] \in {"revoked", "expired"} THEN seen[c] ELSE RefusalWithoutStatus(c)

Refusal(c) ==
  IF seen[c] = "used" THEN "replayed"
  ELSE IF seen[c] # "issued" THEN seen[c]
  ELSE IF Expired(c) THEN "expired"
  ELSE IF TargetMismatch(c) THEN "target_mismatch"
  ELSE IF RelayNotAllowed(c) THEN "relay_not_allowed"
  ELSE "none"

FoundExpired(c) == seen[c] = "issued" /\ Expired(c)

CheckRefuse(c) ==
  /\ Goto(c, "check", "audit")
  /\ Refusal(c) # "none"
  /\ ~FoundExpired(c)
  /\ Decide(c, Refusal(c))
  /\ UNCHANGED <<row, seen, logs>>

CheckExpired(c) ==
  /\ Goto(c, "check", "mark_expired")
  /\ FoundExpired(c)
  /\ UNCHANGED <<row, seen, reply, logs>>

CheckPass(c) ==
  /\ Goto(c, "check", "mark_used")
  /\ Refusal(c) = "none"
  /\ UNCHANGED <<row, seen, reply, logs>>

(* updateGrantStatus falls back to the local copy when the store fails, *)
(* and the handler answers from that copy as if the write had happened. *)
MarkExpired(c) ==
  /\ Goto(c, "mark_expired", "audit")
  /\ SetStatus(gid[c], "expired", None) \/ Unwritten(c)
  /\ Decide(c, "expired")
  /\ UNCHANGED <<seen, logs>>

MarkUsedUnwritten(c) ==
  /\ Goto(c, "mark_used", "done")
  /\ Decide(c, "valid")
  /\ UNCHANGED <<row, seen, logs>>

MarkUsed(c) ==
  /\ Goto(c, "mark_used", "done")
  /\ SetStatus(gid[c], "used", now) \/ Unwritten(c)
  /\ Decide(c, "valid")
  /\ UNCHANGED <<seen, logs>>

-----------------------------------------------------------------------------
(* POST /relay-grants/{id}/revoke and POST /relay-grants/revoke *)

RevokeArrive(c) ==
  /\ \E g \in Grants : Arrive(c, "revoke", g, "revoke")
  /\ UNCHANGED <<row, now, req, seen, reply, logs>>

(* MySQL counts the rows an UPDATE changed, not the rows it matched *)
RowAffected(g) ==
  status[g] # "none" /\ (CountsMatchedRows \/ status[g] # "revoked")

RevokeGrant(c) ==
  /\ Goto(c, "revoke", "audit")
  /\ RowAffected(gid[c])
  /\ SetStatus(gid[c], "revoked", None)
  /\ Decide(c, "revoke_ok")
  /\ UNCHANGED <<seen, logs>>

RevokeNotFound(c) ==
  /\ Goto(c, "revoke", "done")
  /\ ~RowAffected(gid[c])
  /\ Decide(c, "not_found")
  /\ UNCHANGED <<row, seen, logs>>

RevokeFails(c) ==
  /\ c \in Faulty
  /\ Goto(c, "revoke", "done")
  /\ (RowAffected(gid[c]) /\ SetStatus(gid[c], "revoked", None)) \/ Unwritten(c)
  /\ Decide(c, "not_found")
  /\ UNCHANGED <<seen, logs>>

-----------------------------------------------------------------------------
(* Audit, connection log, answer *)

AuditRow(c) == [call |-> c, action |-> Route[c], grant |-> gid[c]]

DenyReason(c) ==
  IF reply[c] = "relay_auth_required" THEN reply[c] ELSE "invalid_relay_grant"

DenialRow(c) == [call |-> c, deny |-> DenyReason(c), reason |-> reply[c]]

WriteAudit(c) ==
  /\ Goto(c, "audit", IF Route[c] = "validate" THEN "conn_log" ELSE "done")
  /\ auditLog' = auditLog \cup {AuditRow(c)}
  /\ UNCHANGED <<row, seen, reply, connLog>>

WriteDenial(c) ==
  /\ Goto(c, "conn_log", "done")
  /\ connLog' = connLog \cup {DenialRow(c)}
  /\ UNCHANGED <<row, seen, reply, auditLog>>

LogFailsSilently(c) ==
  /\ c \in Faulty
  /\ Goto(c, "audit", "done")
  /\ UNCHANGED <<row, seen, reply, logs>>

(* A failed audit or log write turns the answer into a 500; what the call *)
(* already changed in the store stays changed.                            *)
LogFails(c) ==
  /\ c \in Faulty
  /\ Goto(c, "audit", "done") \/ Goto(c, "conn_log", "done")
  /\ Decide(c, "internal_error")
  /\ UNCHANGED <<row, seen, logs>>

Tick ==
  /\ now < MaxTime
  /\ now' = now + 1
  /\ UNCHANGED <<row, pc, gid, req, seen, reply, logs, history>>

Request(c) ==
  IssueRejected(c) \/ IssueArrive(c) \/ ValidateArrive(c) \/ ValidateUnparsed(c)
  \/ RevokeArrive(c)

Handle(c) ==
  \/ CreateGrant(c) \/ CreateFails(c)
  \/ FindGrant(c) \/ FindFails(c)
  \/ CheckRefuse(c) \/ CheckExpired(c) \/ CheckPass(c)
  \/ MarkExpired(c) \/ MarkUsed(c)
  \/ RevokeGrant(c) \/ RevokeNotFound(c) \/ RevokeFails(c)
  \/ WriteAudit(c) \/ WriteDenial(c) \/ LogFails(c)

Next == (\E c \in Calls : Request(c) \/ Handle(c)) \/ Tick

Spec == Init /\ [][Next]_vars

-----------------------------------------------------------------------------
(* Properties *)

(* Types of the state: one status per grant id, one handler step per call. *)
TypeOK ==
  /\ status \in [Grants -> Statuses \cup {"none"}]
  /\ binding \in [Grants -> IssueRequests \cup {None}]
  /\ expires \in [Grants -> Nat]
  /\ usedAt \in [Grants -> Nat \cup {None}]
  /\ now \in Nat
  /\ pc \in [Calls -> Steps \cup {"idle", "done"}]
  /\ gid \in [Calls -> Grants \cup {None}]
  /\ req \in [Calls -> IssueRequests \cup ValidateRequests \cup {None}]
  /\ seen \in [Calls -> Statuses \cup {"none"}]
  /\ reply \in [Calls -> Replies]
  /\ auditLog \subseteq [call : Calls, grant : Grants \cup {None},
                         action : Routes]
  /\ connLog \subseteq [call : Calls, reason : Replies,
                        deny : {"relay_auth_required", "invalid_relay_grant"}]
  /\ before \in [Calls -> SUBSET Calls]
  /\ arrived \in [Calls -> Nat]

(* ValidateWithContext refuses a replayed grant: once one validation has   *)
(* answered valid, no validation that arrives later answers valid for the  *)
(* same grant, whatever overlapping validations and revocations do to the  *)
(* status in between and whichever of their accesses fail, as long as the  *)
(* first one's own write did not.                                          *)
SequentialSingleUse ==
  \A c, d \in Calls :
    c \in before[d] /\ gid[c] = gid[d] /\ Valid(c) /\ c \notin Faulty => ~Valid(d)

(* docs/relay-auth.md: "Nonce protected against replay."  At most one      *)
(* validation of a grant answers valid.                                    *)
SingleUse ==
  \A c, d \in Calls : Valid(c) /\ Valid(d) /\ gid[c] = gid[d] => c = d

(* Revoke: once a revocation that found the grant has been answered, even  *)
(* with a 500 for its audit event, no validation that arrives later        *)
(* answers valid, although an overlapping validation may overwrite the     *)
(* revoked status.                                                         *)
RevocationEffective ==
  \A c, d \in Calls : c \in before[d] /\ gid[c] = gid[d] /\ Revoked(c) => ~Valid(d)

(* A validation that arrived after the grant's expiry never answers valid, *)
(* however late its handler reads the clock.                               *)
AcceptedInTime ==
  \A c \in Calls : Valid(c) => arrived[c] <= expires[gid[c]]

Satisfies(c, g) ==
  /\ ~Differ(req[c].device, binding[g].device)
  /\ ~Differ(req[c].rustdesk, binding[g].rustdesk)
  /\ req[c].relay \in binding[g].relays \cup {None}

(* A grant is consumed only by a validation for its own target and one of  *)
(* its relays: a refused validation never marks the grant used.            *)
ConsumedByItsTarget ==
  \A g \in Grants :
    usedAt[g] # None => \E c \in Calls : Valid(c) /\ gid[c] = g /\ Satisfies(c, g)

(* No answer leaves the API before what it tells is on record: an issued   *)
(* token and a revocation have their audit event, a refusal its audit      *)
(* event and a denied connection log with the documented deny reason.      *)
AnswersRecorded ==
  \A c \in Calls : pc[c] = "done" =>
    /\ reply[c] \in {"issued", "revoke_ok"} \cup Refusals => AuditRow(c) \in auditLog
    /\ reply[c] \in Refusals => DenialRow(c) \in connLog

-----------------------------------------------------------------------------
(* The service implements the ledger *)

LiveGrants == {g \in Grants : status[g] = "issued"}
ClosedGrants == {g \in Grants : status[g] \in Settled}
AcceptedCalls == {c \in Calls : Valid(c)}

(* The grant a validation found live and has not decided about *)
Pending ==
  [c \in Calls |-> IF pc[c] \in {"check", "mark_used"} /\ seen[c] = "issued"
                  THEN gid[c] ELSE None]

Ledger == INSTANCE GrantLedger WITH
  live <- LiveGrants, closed <- ClosedGrants,
  pending <- Pending, accepted <- AcceptedCalls

(* Overlapping validations may each be accepted, but only those that read  *)
(* the grant while it was live.                                            *)
ImplementsLedger == Ledger!Spec
=============================================================================
