-------------------------- MODULE RelayGrantProofs --------------------------
(* Theorems about RelayGrant, for every set of calls and grants. *)
EXTENDS RelayGrant, TLAPS

-----------------------------------------------------------------------------
(* The inductive invariant *)

(* Where each handler can be, and what it then knows *)
HandlerInv ==
  \A c \in Calls :
    /\ pc[c] = "idle" => gid[c] = None /\ reply[c] = "none" /\ before[c] = {}
    /\ pc[c] \in Steps \ {"audit", "conn_log"} => gid[c] \in Grants
    /\ pc[c] = "create" => Route[c] = "issue" /\ req[c] \in IssueRequests
    /\ pc[c] \in {"find", "check", "mark_used", "mark_expired", "conn_log"}
         => Route[c] = "validate"
    /\ pc[c] = "revoke" => Route[c] = "revoke"
    /\ pc[c] = "check" => seen[c] # "none"
    /\ pc[c] = "mark_used" => seen[c] = "issued"
    /\ pc[c] = "audit" => reply[c] # "none"
    /\ reply[c] # "none" => pc[c] \in {"audit", "conn_log", "done"}
    /\ pc[c] = "audit" /\ Route[c] = "revoke" => reply[c] = "revoke_ok"
    /\ pc[c] = "audit" /\ Route[c] = "issue" => reply[c] = "issued"
    /\ Valid(c) => pc[c] = "done" /\ Route[c] = "validate"
    /\ Closing(c) \/ reply[c] = "issued" => gid[c] \in Grants
    /\ \A k \in before[c] : pc[k] = "done" /\ Closing(k)

(* A grant id belongs to one issue request, has no row before that        *)
(* request's insert, and has one once a validation has read it.          *)
IssuerInv ==
  /\ \A c, d \in Calls :
       Route[c] = "issue" /\ Route[d] = "issue" /\ gid[c] = gid[d] /\ gid[c] # None
         => c = d
  /\ \A g \in Grants :
       status[g] # "none" =>
         \E c \in Calls : Route[c] = "issue" /\ gid[c] = g /\ pc[c] # "create"
  /\ \A c \in Calls :
       pc[c] \in {"check", "mark_used", "mark_expired"} \/ Valid(c)
         => status[gid[c]] # "none"

(* What an answer promises about the status, which is never "issued" again *)
Shutting(c) == Revoked(c) \/ (Valid(c) /\ c \notin Faulty)

SettledInv == \A c \in Calls : Shutting(c) => status[gid[c]] \in Settled

(* A validation that arrived after such an answer did not, and will not,   *)
(* find the grant issued.                                                  *)
BarredInv ==
  \A c, d \in Calls :
    c \in before[d] /\ gid[c] = gid[d] /\ Shutting(c) =>
      /\ pc[d] = "check" => seen[d] # "issued"
      /\ pc[d] # "mark_used"
      /\ ~Valid(d)

(* A validation about to answer valid arrived before the expiry and names *)
(* the target and a relay of the grant.                                   *)
AdmittedInv ==
  \A c \in Calls :
    /\ arrived[c] <= now
    /\ pc[c] = "mark_used" \/ Valid(c) =>
         arrived[c] <= expires[gid[c]] /\ Satisfies(c, gid[c])

(* What is on record when a denial log is due and when an answer is out *)
RecordedInv ==
  /\ AnswersRecorded
  /\ \A c \in Calls : pc[c] = "conn_log" => AuditRow(c) \in auditLog

Inv == /\ TypeOK /\ HandlerInv /\ IssuerInv /\ SettledInv /\ BarredInv
       /\ AdmittedInv /\ ConsumedByItsTarget /\ RecordedInv

-----------------------------------------------------------------------------
(* Preservation, one lemma per conjunct *)

(* Every step keeps the types of the state. *)
LEMMA TypeStep == TypeOK /\ HandlerInv /\ [Next]_vars => TypeOK'
  <1> SUFFICES ASSUME TypeOK, HandlerInv, [Next]_vars
               PROVE  TypeOK'
    OBVIOUS
  <1> USE NullAssumption, RequestAssumption, ParameterAssumption
          DEF TypeOK, row, logs, Statuses, Steps, Replies, Refusals, Routes
  <1>1. ASSUME NEW c \in Calls, IssueRejected(c)
       PROVE  TypeOK'
    BY <1>1 DEF IssueRejected, Arrive, Decide
  <1>2. ASSUME NEW c \in Calls, IssueArrive(c)
       PROVE  TypeOK'
    BY <1>2 DEF IssueArrive, Arrive
  <1>3. ASSUME NEW c \in Calls, ValidateArrive(c)
       PROVE  TypeOK'
    BY <1>3 DEF ValidateArrive, Arrive, Held
  <1>4. ASSUME NEW c \in Calls, ValidateUnparsed(c)
       PROVE  TypeOK'
    BY <1>4 DEF ValidateUnparsed, Arrive, Decide
  <1>5. ASSUME NEW c \in Calls, RevokeArrive(c)
       PROVE  TypeOK'
    BY <1>5 DEF RevokeArrive, Arrive
  <1>6. ASSUME NEW c \in Calls, CreateGrant(c)
       PROVE  TypeOK'
    <2>1. gid[c] \in Grants /\ req[c] \in IssueRequests
      BY <1>6 DEF CreateGrant, Goto, HandlerInv, Steps
    <2> QED
      BY <2>1, <1>6 DEF CreateGrant, Goto, Decide, InsertGrant, TTL, history
  <1>7. ASSUME NEW c \in Calls, CreateFails(c)
       PROVE  TypeOK'
    <2>1. gid[c] \in Grants /\ req[c] \in IssueRequests
      BY <1>7 DEF CreateFails, Goto, HandlerInv, Steps
    <2>2. CASE InsertGrant(c)
      BY <2>1, <2>2, <1>7 DEF CreateFails, Goto, Decide, InsertGrant, TTL, history
    <2>3. CASE Unwritten(c)
      BY <2>3, <1>7 DEF CreateFails, Goto, Decide, Unwritten, history
    <2> QED
      BY <2>2, <2>3, <1>7 DEF CreateFails
  <1>8. ASSUME NEW c \in Calls, FindGrant(c)
       PROVE  TypeOK'
    <2>1. gid[c] \in Grants
      BY <1>8 DEF FindGrant, Goto, HandlerInv, Steps
    <2> QED
      BY <2>1, <1>8 DEF FindGrant, Goto, history
  <1>9. ASSUME NEW c \in Calls, FindFails(c)
       PROVE  TypeOK'
    BY <1>9 DEF FindFails, Goto, Decide, history
  <1>10. ASSUME NEW c \in Calls, CheckRefuse(c)
       PROVE  TypeOK'
    BY <1>10 DEF CheckRefuse, Goto, Decide, Refusal, history
  <1>11. ASSUME NEW c \in Calls, CheckExpired(c)
       PROVE  TypeOK'
    BY <1>11 DEF CheckExpired, Goto, history
  <1>12. ASSUME NEW c \in Calls, CheckPass(c)
       PROVE  TypeOK'
    BY <1>12 DEF CheckPass, Goto, Refusal, history
  <1>13. ASSUME NEW c \in Calls, MarkExpired(c)
       PROVE  TypeOK'
    BY <1>13 DEF MarkExpired, Goto, Decide, SetStatus, Unwritten, history
  <1>14. ASSUME NEW c \in Calls, MarkUsed(c)
       PROVE  TypeOK'
    <2>1. gid[c] \in Grants
      BY <1>14 DEF MarkUsed, Goto, HandlerInv, Steps
    <2>2. CASE SetStatus(gid[c], "used", now)
      BY <2>1, <2>2, <1>14 DEF MarkUsed, Goto, Decide, SetStatus, history
    <2>3. CASE Unwritten(c)
      BY <2>3, <1>14 DEF MarkUsed, Goto, Decide, Unwritten, history
    <2> QED
      BY <2>2, <2>3, <1>14 DEF MarkUsed
  <1>15. ASSUME NEW c \in Calls, RevokeGrant(c)
       PROVE  TypeOK'
    BY <1>15 DEF RevokeGrant, Goto, Decide, SetStatus, RowAffected, history
  <1>16. ASSUME NEW c \in Calls, RevokeNotFound(c)
       PROVE  TypeOK'
    BY <1>16 DEF RevokeNotFound, Goto, Decide, history
  <1>17. ASSUME NEW c \in Calls, RevokeFails(c)
       PROVE  TypeOK'
    BY <1>17 DEF RevokeFails, Goto, Decide, SetStatus, Unwritten, RowAffected,
       history
  <1>18. ASSUME NEW c \in Calls, WriteAudit(c)
       PROVE  TypeOK'
    BY <1>18 DEF WriteAudit, Goto, AuditRow, history
  <1>19. ASSUME NEW c \in Calls, WriteDenial(c)
       PROVE  TypeOK'
    BY <1>19 DEF WriteDenial, Goto, DenialRow, DenyReason, history
  <1>20. ASSUME NEW c \in Calls, LogFails(c)
       PROVE  TypeOK'
    BY <1>20 DEF LogFails, Goto, Decide, history
  <1>21. CASE Tick
    BY <1>21 DEF Tick, history
  <1>22. CASE UNCHANGED vars
    BY <1>22 DEF vars, history
  <1> QED
    BY <1>1, <1>2, <1>3, <1>4, <1>5, <1>6, <1>7, <1>8, <1>9, <1>10, <1>11,
       <1>12, <1>13, <1>14, <1>15, <1>16, <1>17, <1>18, <1>19, <1>20, <1>21, <1>22
       DEF Next, Request, Handle

(* Every step keeps what a handler's place says of it. *)
LEMMA HandlerStep == TypeOK /\ HandlerInv /\ [Next]_vars => HandlerInv'
  <1> SUFFICES ASSUME TypeOK, HandlerInv, [Next]_vars
               PROVE  HandlerInv'
    OBVIOUS
  <1> USE NullAssumption, RequestAssumption, ParameterAssumption
          DEF TypeOK, HandlerInv, row, logs, Statuses, Steps, Replies, Refusals,
              Routes, Valid, Revoked, Closing
  <1>1. ASSUME NEW c \in Calls, IssueRejected(c)
       PROVE  HandlerInv'
    BY <1>1 DEF IssueRejected, Arrive, Decide
  <1>2. ASSUME NEW c \in Calls, IssueArrive(c)
       PROVE  HandlerInv'
    BY <1>2 DEF IssueArrive, Arrive
  <1>3. ASSUME NEW c \in Calls, ValidateArrive(c)
       PROVE  HandlerInv'
    BY <1>3 DEF ValidateArrive, Arrive, Held
  <1>4. ASSUME NEW c \in Calls, ValidateUnparsed(c)
       PROVE  HandlerInv'
    BY <1>4 DEF ValidateUnparsed, Arrive, Decide
  <1>5. ASSUME NEW c \in Calls, RevokeArrive(c)
       PROVE  HandlerInv'
    BY <1>5 DEF RevokeArrive, Arrive
  <1>6. ASSUME NEW c \in Calls, CreateGrant(c)
       PROVE  HandlerInv'
    BY <1>6 DEF CreateGrant, Goto, Decide, InsertGrant, TTL, history
  <1>7. ASSUME NEW c \in Calls, CreateFails(c)
       PROVE  HandlerInv'
    BY <1>7 DEF CreateFails, Goto, Decide, InsertGrant, Unwritten, TTL, history
  <1>8. ASSUME NEW c \in Calls, FindGrant(c)
       PROVE  HandlerInv'
    BY <1>8 DEF FindGrant, Goto, history
  <1>9. ASSUME NEW c \in Calls, FindFails(c)
       PROVE  HandlerInv'
    BY <1>9 DEF FindFails, Goto, Decide, history
  <1>10. ASSUME NEW c \in Calls, CheckRefuse(c)
       PROVE  HandlerInv'
    BY <1>10 DEF CheckRefuse, Goto, Decide, Refusal, history
  <1>11. ASSUME NEW c \in Calls, CheckExpired(c)
       PROVE  HandlerInv'
    BY <1>11 DEF CheckExpired, Goto, history
  <1>12. ASSUME NEW c \in Calls, CheckPass(c)
       PROVE  HandlerInv'
    BY <1>12 DEF CheckPass, Goto, Refusal, history
  <1>13. ASSUME NEW c \in Calls, MarkExpired(c)
       PROVE  HandlerInv'
    BY <1>13 DEF MarkExpired, Goto, Decide, SetStatus, Unwritten, history
  <1>14. ASSUME NEW c \in Calls, MarkUsed(c)
       PROVE  HandlerInv'
    BY <1>14 DEF MarkUsed, Goto, Decide, SetStatus, Unwritten, history
  <1>15. ASSUME NEW c \in Calls, RevokeGrant(c)
       PROVE  HandlerInv'
    BY <1>15 DEF RevokeGrant, Goto, Decide, SetStatus, RowAffected, history
  <1>16. ASSUME NEW c \in Calls, RevokeNotFound(c)
       PROVE  HandlerInv'
    BY <1>16 DEF RevokeNotFound, Goto, Decide, history
  <1>17. ASSUME NEW c \in Calls, RevokeFails(c)
       PROVE  HandlerInv'
    BY <1>17 DEF RevokeFails, Goto, Decide, SetStatus, Unwritten, RowAffected,
       history
  <1>18. ASSUME NEW c \in Calls, WriteAudit(c)
       PROVE  HandlerInv'
    BY <1>18 DEF WriteAudit, Goto, AuditRow, history
  <1>19. ASSUME NEW c \in Calls, WriteDenial(c)
       PROVE  HandlerInv'
    BY <1>19 DEF WriteDenial, Goto, DenialRow, DenyReason, history
  <1>20. ASSUME NEW c \in Calls, LogFails(c)
       PROVE  HandlerInv'
    BY <1>20 DEF LogFails, Goto, Decide, history
  <1>21. CASE Tick
    BY <1>21 DEF Tick, history
  <1>22. CASE UNCHANGED vars
    BY <1>22 DEF vars, history
  <1> QED
    BY <1>1, <1>2, <1>3, <1>4, <1>5, <1>6, <1>7, <1>8, <1>9, <1>10, <1>11,
       <1>12, <1>13, <1>14, <1>15, <1>16, <1>17, <1>18, <1>19, <1>20, <1>21, <1>22
       DEF Next, Request, Handle

(* Every step keeps a grant with its issue request. *)
LEMMA IssuerStep == TypeOK /\ HandlerInv /\ IssuerInv /\ [Next]_vars => IssuerInv'
  <1> SUFFICES ASSUME TypeOK, HandlerInv, IssuerInv, [Next]_vars
               PROVE  IssuerInv'
    OBVIOUS
  <1> USE NullAssumption, ParameterAssumption
          DEF TypeOK, HandlerInv, IssuerInv, Valid, row, logs, Routes, Steps,
              Statuses
  <1>1. ASSUME NEW c \in Calls, IssueRejected(c)
       PROVE  IssuerInv'
    BY <1>1 DEF IssueRejected, Arrive, Decide
  <1>2. ASSUME NEW c \in Calls, IssueArrive(c)
       PROVE  IssuerInv'
    BY <1>2 DEF IssueArrive, Arrive
  <1>3. ASSUME NEW c \in Calls, ValidateArrive(c)
       PROVE  IssuerInv'
    BY <1>3 DEF ValidateArrive, Arrive, Held
  <1>4. ASSUME NEW c \in Calls, ValidateUnparsed(c)
       PROVE  IssuerInv'
    BY <1>4 DEF ValidateUnparsed, Arrive, Decide
  <1>5. ASSUME NEW c \in Calls, RevokeArrive(c)
       PROVE  IssuerInv'
    BY <1>5 DEF RevokeArrive, Arrive
  <1>6. ASSUME NEW c \in Calls, CreateGrant(c)
       PROVE  IssuerInv'
    BY <1>6 DEF CreateGrant, Goto, Decide, InsertGrant, TTL, history
  <1>7. ASSUME NEW c \in Calls, CreateFails(c)
       PROVE  IssuerInv'
    <2>1. CASE InsertGrant(c)
      BY <2>1, <1>7 DEF CreateFails, Goto, Decide, InsertGrant, history
    <2>2. CASE Unwritten(c)
      BY <2>2, <1>7 DEF CreateFails, Goto, Decide, Unwritten, history
    <2> QED
      BY <2>1, <2>2, <1>7 DEF CreateFails
  <1>8. ASSUME NEW c \in Calls, FindGrant(c)
       PROVE  IssuerInv'
    BY <1>8 DEF FindGrant, Goto, history
  <1>9. ASSUME NEW c \in Calls, FindFails(c)
       PROVE  IssuerInv'
    BY <1>9 DEF FindFails, Goto, Decide, history
  <1>10. ASSUME NEW c \in Calls, CheckRefuse(c)
       PROVE  IssuerInv'
    BY <1>10 DEF CheckRefuse, Goto, Decide, Refusal, history
  <1>11. ASSUME NEW c \in Calls, CheckExpired(c)
       PROVE  IssuerInv'
    BY <1>11 DEF CheckExpired, Goto, history
  <1>12. ASSUME NEW c \in Calls, CheckPass(c)
       PROVE  IssuerInv'
    BY <1>12 DEF CheckPass, Goto, Refusal, history
  <1>13. ASSUME NEW c \in Calls, MarkExpired(c)
       PROVE  IssuerInv'
    <2>1. CASE SetStatus(gid[c], "expired", None)
      BY <2>1, <1>13 DEF MarkExpired, Goto, Decide, SetStatus, history
    <2>2. CASE Unwritten(c)
      BY <2>2, <1>13 DEF MarkExpired, Goto, Decide, Unwritten, history
    <2> QED
      BY <2>1, <2>2, <1>13 DEF MarkExpired
  <1>14. ASSUME NEW c \in Calls, MarkUsed(c)
       PROVE  IssuerInv'
    <2>1. CASE SetStatus(gid[c], "used", now)
      BY <2>1, <1>14 DEF MarkUsed, Goto, Decide, SetStatus, history
    <2>2. CASE Unwritten(c)
      BY <2>2, <1>14 DEF MarkUsed, Goto, Decide, Unwritten, history
    <2> QED
      BY <2>1, <2>2, <1>14 DEF MarkUsed
  <1>15. ASSUME NEW c \in Calls, RevokeGrant(c)
       PROVE  IssuerInv'
    BY <1>15 DEF RevokeGrant, Goto, Decide, SetStatus, RowAffected, history
  <1>16. ASSUME NEW c \in Calls, RevokeNotFound(c)
       PROVE  IssuerInv'
    BY <1>16 DEF RevokeNotFound, Goto, Decide, history
  <1>17. ASSUME NEW c \in Calls, RevokeFails(c)
       PROVE  IssuerInv'
    <2>1. CASE RowAffected(gid[c]) /\ SetStatus(gid[c], "revoked", None)
      BY <2>1, <1>17 DEF RevokeFails, Goto, Decide, SetStatus, RowAffected, history
    <2>2. CASE Unwritten(c)
      BY <2>2, <1>17 DEF RevokeFails, Goto, Decide, Unwritten, history
    <2> QED
      BY <2>1, <2>2, <1>17 DEF RevokeFails
  <1>18. ASSUME NEW c \in Calls, WriteAudit(c)
       PROVE  IssuerInv'
    BY <1>18 DEF WriteAudit, Goto, AuditRow, history
  <1>19. ASSUME NEW c \in Calls, WriteDenial(c)
       PROVE  IssuerInv'
    BY <1>19 DEF WriteDenial, Goto, DenialRow, DenyReason, history
  <1>20. ASSUME NEW c \in Calls, LogFails(c)
       PROVE  IssuerInv'
    BY <1>20 DEF LogFails, Goto, Decide, history
  <1>21. CASE Tick
    BY <1>21 DEF Tick, history
  <1>22. CASE UNCHANGED vars
    BY <1>22 DEF vars, history
  <1> QED
    BY <1>1, <1>2, <1>3, <1>4, <1>5, <1>6, <1>7, <1>8, <1>9, <1>10, <1>11,
       <1>12, <1>13, <1>14, <1>15, <1>16, <1>17, <1>18, <1>19, <1>20, <1>21, <1>22
       DEF Next, Request, Handle

(* A grant stays settled once an answer promised it. *)
LEMMA SettledStep ==
  TypeOK /\ HandlerInv /\ IssuerInv /\ SettledInv /\ [Next]_vars => SettledInv'
  <1> SUFFICES ASSUME TypeOK, HandlerInv, IssuerInv, SettledInv, [Next]_vars
               PROVE  SettledInv'
    OBVIOUS
  <1> USE NullAssumption, ParameterAssumption
          DEF TypeOK, HandlerInv, IssuerInv, SettledInv, Shutting, Valid, Revoked,
              Settled, row, logs, Routes, Steps, Statuses
  <1>1. ASSUME NEW c \in Calls, IssueRejected(c)
       PROVE  SettledInv'
    BY <1>1 DEF IssueRejected, Arrive, Decide
  <1>2. ASSUME NEW c \in Calls, IssueArrive(c)
       PROVE  SettledInv'
    BY <1>2 DEF IssueArrive, Arrive
  <1>3. ASSUME NEW c \in Calls, ValidateArrive(c)
       PROVE  SettledInv'
    BY <1>3 DEF ValidateArrive, Arrive, Held
  <1>4. ASSUME NEW c \in Calls, ValidateUnparsed(c)
       PROVE  SettledInv'
    BY <1>4 DEF ValidateUnparsed, Arrive, Decide
  <1>5. ASSUME NEW c \in Calls, RevokeArrive(c)
       PROVE  SettledInv'
    BY <1>5 DEF RevokeArrive, Arrive
  <1>6. ASSUME NEW c \in Calls, CreateGrant(c)
       PROVE  SettledInv'
    BY <1>6 DEF CreateGrant, Goto, Decide, InsertGrant, TTL, history
  <1>7. ASSUME NEW c \in Calls, CreateFails(c)
       PROVE  SettledInv'
    <2>1. CASE InsertGrant(c)
      BY <2>1, <1>7 DEF CreateFails, Goto, Decide, InsertGrant, history
    <2>2. CASE Unwritten(c)
      BY <2>2, <1>7 DEF CreateFails, Goto, Decide, Unwritten, history
    <2> QED
      BY <2>1, <2>2, <1>7 DEF CreateFails
  <1>8. ASSUME NEW c \in Calls, FindGrant(c)
       PROVE  SettledInv'
    BY <1>8 DEF FindGrant, Goto, history
  <1>9. ASSUME NEW c \in Calls, FindFails(c)
       PROVE  SettledInv'
    BY <1>9 DEF FindFails, Goto, Decide, history
  <1>10. ASSUME NEW c \in Calls, CheckRefuse(c)
       PROVE  SettledInv'
    BY <1>10 DEF CheckRefuse, Goto, Decide, Refusal, history
  <1>11. ASSUME NEW c \in Calls, CheckExpired(c)
       PROVE  SettledInv'
    BY <1>11 DEF CheckExpired, Goto, history
  <1>12. ASSUME NEW c \in Calls, CheckPass(c)
       PROVE  SettledInv'
    BY <1>12 DEF CheckPass, Goto, Refusal, history
  <1>13. ASSUME NEW c \in Calls, MarkExpired(c)
       PROVE  SettledInv'
    <2>1. CASE SetStatus(gid[c], "expired", None)
      BY <2>1, <1>13 DEF MarkExpired, Goto, Decide, SetStatus, history
    <2>2. CASE Unwritten(c)
      BY <2>2, <1>13 DEF MarkExpired, Goto, Decide, Unwritten, history
    <2> QED
      BY <2>1, <2>2, <1>13 DEF MarkExpired
  <1>14. ASSUME NEW c \in Calls, MarkUsed(c)
       PROVE  SettledInv'
    <2>1. CASE SetStatus(gid[c], "used", now)
      BY <2>1, <1>14 DEF MarkUsed, Goto, Decide, SetStatus, history
    <2>2. CASE Unwritten(c)
      BY <2>2, <1>14 DEF MarkUsed, Goto, Decide, Unwritten, history
    <2> QED
      BY <2>1, <2>2, <1>14 DEF MarkUsed
  <1>15. ASSUME NEW c \in Calls, RevokeGrant(c)
       PROVE  SettledInv'
    BY <1>15 DEF RevokeGrant, Goto, Decide, SetStatus, RowAffected, history
  <1>16. ASSUME NEW c \in Calls, RevokeNotFound(c)
       PROVE  SettledInv'
    BY <1>16 DEF RevokeNotFound, Goto, Decide, history
  <1>17. ASSUME NEW c \in Calls, RevokeFails(c)
       PROVE  SettledInv'
    <2>1. CASE RowAffected(gid[c]) /\ SetStatus(gid[c], "revoked", None)
      BY <2>1, <1>17 DEF RevokeFails, Goto, Decide, SetStatus, RowAffected, history
    <2>2. CASE Unwritten(c)
      BY <2>2, <1>17 DEF RevokeFails, Goto, Decide, Unwritten, history
    <2> QED
      BY <2>1, <2>2, <1>17 DEF RevokeFails
  <1>18. ASSUME NEW c \in Calls, WriteAudit(c)
       PROVE  SettledInv'
    BY <1>18 DEF WriteAudit, Goto, AuditRow, history
  <1>19. ASSUME NEW c \in Calls, WriteDenial(c)
       PROVE  SettledInv'
    BY <1>19 DEF WriteDenial, Goto, DenialRow, DenyReason, history
  <1>20. ASSUME NEW c \in Calls, LogFails(c)
       PROVE  SettledInv'
    BY <1>20 DEF LogFails, Goto, Decide, history
  <1>21. CASE Tick
    BY <1>21 DEF Tick, history
  <1>22. CASE UNCHANGED vars
    BY <1>22 DEF vars, history
  <1> QED
    BY <1>1, <1>2, <1>3, <1>4, <1>5, <1>6, <1>7, <1>8, <1>9, <1>10, <1>11,
       <1>12, <1>13, <1>14, <1>15, <1>16, <1>17, <1>18, <1>19, <1>20, <1>21, <1>22
       DEF Next, Request, Handle

(* A validation barred by an earlier answer stays barred. *)
LEMMA BarredStep ==
  TypeOK /\ HandlerInv /\ SettledInv /\ BarredInv /\ [Next]_vars => BarredInv'
  <1> SUFFICES ASSUME TypeOK, HandlerInv, SettledInv, BarredInv, [Next]_vars
               PROVE  BarredInv'
    OBVIOUS
  <1> USE NullAssumption, ParameterAssumption
          DEF TypeOK, HandlerInv, SettledInv, BarredInv, Shutting, Valid, Revoked,
              Closing, Settled, row, logs, Routes, Steps, Statuses
  <1>1. ASSUME NEW c \in Calls, IssueRejected(c)
       PROVE  BarredInv'
    BY <1>1 DEF IssueRejected, Arrive, Decide
  <1>2. ASSUME NEW c \in Calls, IssueArrive(c)
       PROVE  BarredInv'
    BY <1>2 DEF IssueArrive, Arrive
  <1>3. ASSUME NEW c \in Calls, ValidateArrive(c)
       PROVE  BarredInv'
    BY <1>3 DEF ValidateArrive, Arrive, Held
  <1>4. ASSUME NEW c \in Calls, ValidateUnparsed(c)
       PROVE  BarredInv'
    BY <1>4 DEF ValidateUnparsed, Arrive, Decide
  <1>5. ASSUME NEW c \in Calls, RevokeArrive(c)
       PROVE  BarredInv'
    BY <1>5 DEF RevokeArrive, Arrive
  <1>6. ASSUME NEW c \in Calls, CreateGrant(c)
       PROVE  BarredInv'
    BY <1>6 DEF CreateGrant, Goto, Decide, InsertGrant, TTL, history
  <1>7. ASSUME NEW c \in Calls, CreateFails(c)
       PROVE  BarredInv'
    BY <1>7 DEF CreateFails, Goto, Decide, InsertGrant, Unwritten, TTL, history
  <1>8. ASSUME NEW c \in Calls, FindGrant(c)
       PROVE  BarredInv'
    BY <1>8 DEF FindGrant, Goto, history
  <1>9. ASSUME NEW c \in Calls, FindFails(c)
       PROVE  BarredInv'
    BY <1>9 DEF FindFails, Goto, Decide, history
  <1>10. ASSUME NEW c \in Calls, CheckRefuse(c)
       PROVE  BarredInv'
    BY <1>10 DEF CheckRefuse, Goto, Decide, Refusal, history
  <1>11. ASSUME NEW c \in Calls, CheckExpired(c)
       PROVE  BarredInv'
    BY <1>11 DEF CheckExpired, Goto, history
  <1>12. ASSUME NEW c \in Calls, CheckPass(c)
       PROVE  BarredInv'
    BY <1>12 DEF CheckPass, Goto, Refusal, history
  <1>13. ASSUME NEW c \in Calls, MarkExpired(c)
       PROVE  BarredInv'
    BY <1>13 DEF MarkExpired, Goto, Decide, SetStatus, Unwritten, history
  <1>14. ASSUME NEW c \in Calls, MarkUsed(c)
       PROVE  BarredInv'
    BY <1>14 DEF MarkUsed, Goto, Decide, SetStatus, Unwritten, history
  <1>15. ASSUME NEW c \in Calls, RevokeGrant(c)
       PROVE  BarredInv'
    BY <1>15 DEF RevokeGrant, Goto, Decide, SetStatus, RowAffected, history
  <1>16. ASSUME NEW c \in Calls, RevokeNotFound(c)
       PROVE  BarredInv'
    BY <1>16 DEF RevokeNotFound, Goto, Decide, history
  <1>17. ASSUME NEW c \in Calls, RevokeFails(c)
       PROVE  BarredInv'
    BY <1>17 DEF RevokeFails, Goto, Decide, SetStatus, Unwritten, RowAffected,
       history
  <1>18. ASSUME NEW c \in Calls, WriteAudit(c)
       PROVE  BarredInv'
    BY <1>18 DEF WriteAudit, Goto, AuditRow, history
  <1>19. ASSUME NEW c \in Calls, WriteDenial(c)
       PROVE  BarredInv'
    BY <1>19 DEF WriteDenial, Goto, DenialRow, DenyReason, history
  <1>20. ASSUME NEW c \in Calls, LogFails(c)
       PROVE  BarredInv'
    BY <1>20 DEF LogFails, Goto, Decide, history
  <1>21. CASE Tick
    BY <1>21 DEF Tick, history
  <1>22. CASE UNCHANGED vars
    BY <1>22 DEF vars, history
  <1> QED
    BY <1>1, <1>2, <1>3, <1>4, <1>5, <1>6, <1>7, <1>8, <1>9, <1>10, <1>11,
       <1>12, <1>13, <1>14, <1>15, <1>16, <1>17, <1>18, <1>19, <1>20, <1>21, <1>22
       DEF Next, Request, Handle

(* Every step keeps the validations about to be accepted admissible. *)
LEMMA AdmittedStep ==
  TypeOK /\ HandlerInv /\ IssuerInv /\ AdmittedInv /\ [Next]_vars => AdmittedInv'
  <1> SUFFICES ASSUME TypeOK, HandlerInv, IssuerInv, AdmittedInv, [Next]_vars
               PROVE  AdmittedInv'
    OBVIOUS
  <1> USE NullAssumption, RequestAssumption, ParameterAssumption
          DEF TypeOK, HandlerInv, IssuerInv, AdmittedInv, Valid, Satisfies, row,
              logs, Routes, Steps, Statuses
  <1>1. ASSUME NEW c \in Calls, IssueRejected(c)
       PROVE  AdmittedInv'
    BY <1>1 DEF IssueRejected, Arrive, Decide
  <1>2. ASSUME NEW c \in Calls, IssueArrive(c)
       PROVE  AdmittedInv'
    BY <1>2 DEF IssueArrive, Arrive
  <1>3. ASSUME NEW c \in Calls, ValidateArrive(c)
       PROVE  AdmittedInv'
    BY <1>3 DEF ValidateArrive, Arrive, Held
  <1>4. ASSUME NEW c \in Calls, ValidateUnparsed(c)
       PROVE  AdmittedInv'
    BY <1>4 DEF ValidateUnparsed, Arrive, Decide
  <1>5. ASSUME NEW c \in Calls, RevokeArrive(c)
       PROVE  AdmittedInv'
    BY <1>5 DEF RevokeArrive, Arrive
  <1>6. ASSUME NEW c \in Calls, CreateGrant(c)
       PROVE  AdmittedInv'
    BY <1>6 DEF CreateGrant, Goto, Decide, InsertGrant, TTL, history
  <1>7. ASSUME NEW c \in Calls, CreateFails(c)
       PROVE  AdmittedInv'
    <2>1. CASE InsertGrant(c)
      BY <2>1, <1>7 DEF CreateFails, Goto, Decide, InsertGrant, TTL, history
    <2>2. CASE Unwritten(c)
      BY <2>2, <1>7 DEF CreateFails, Goto, Decide, Unwritten, history
    <2> QED
      BY <2>1, <2>2, <1>7 DEF CreateFails
  <1>8. ASSUME NEW c \in Calls, FindGrant(c)
       PROVE  AdmittedInv'
    BY <1>8 DEF FindGrant, Goto, history
  <1>9. ASSUME NEW c \in Calls, FindFails(c)
       PROVE  AdmittedInv'
    BY <1>9 DEF FindFails, Goto, Decide, history
  <1>10. ASSUME NEW c \in Calls, CheckRefuse(c)
       PROVE  AdmittedInv'
    BY <1>10 DEF CheckRefuse, Goto, Decide, Refusal, history
  <1>11. ASSUME NEW c \in Calls, CheckExpired(c)
       PROVE  AdmittedInv'
    BY <1>11 DEF CheckExpired, Goto, history
  <1>12. ASSUME NEW c \in Calls, CheckPass(c)
       PROVE  AdmittedInv'
    <2>1. seen[c] = "issued" /\ ~Expired(c) /\ ~TargetMismatch(c) /\ ~RelayNotAllowed(c)
      BY <1>12 DEF CheckPass, Goto, Refusal
    <2>2. arrived[c] <= expires[gid[c]] /\ Satisfies(c, gid[c])
      <3>1. gid[c] \in Grants
        BY <1>12 DEF CheckPass, Goto
      <3>2. arrived[c] <= expires[gid[c]]
        BY <2>1, <3>1 DEF Expired
      <3>3. Satisfies(c, gid[c])
        BY <2>1, <3>1 DEF TargetMismatch, RelayNotAllowed
      <3> QED
        BY <3>2, <3>3
    <2> QED
      BY <2>2, <1>12 DEF CheckPass, Goto, history
  <1>13. ASSUME NEW c \in Calls, MarkExpired(c)
       PROVE  AdmittedInv'
    BY <1>13 DEF MarkExpired, Goto, Decide, SetStatus, Unwritten, history
  <1>14. ASSUME NEW c \in Calls, MarkUsed(c)
       PROVE  AdmittedInv'
    BY <1>14 DEF MarkUsed, Goto, Decide, SetStatus, Unwritten, history
  <1>15. ASSUME NEW c \in Calls, RevokeGrant(c)
       PROVE  AdmittedInv'
    BY <1>15 DEF RevokeGrant, Goto, Decide, SetStatus, RowAffected, history
  <1>16. ASSUME NEW c \in Calls, RevokeNotFound(c)
       PROVE  AdmittedInv'
    BY <1>16 DEF RevokeNotFound, Goto, Decide, history
  <1>17. ASSUME NEW c \in Calls, RevokeFails(c)
       PROVE  AdmittedInv'
    BY <1>17 DEF RevokeFails, Goto, Decide, SetStatus, Unwritten, RowAffected,
       history
  <1>18. ASSUME NEW c \in Calls, WriteAudit(c)
       PROVE  AdmittedInv'
    BY <1>18 DEF WriteAudit, Goto, AuditRow, history
  <1>19. ASSUME NEW c \in Calls, WriteDenial(c)
       PROVE  AdmittedInv'
    BY <1>19 DEF WriteDenial, Goto, DenialRow, DenyReason, history
  <1>20. ASSUME NEW c \in Calls, LogFails(c)
       PROVE  AdmittedInv'
    BY <1>20 DEF LogFails, Goto, Decide, history
  <1>21. CASE Tick
    BY <1>21 DEF Tick, history
  <1>22. CASE UNCHANGED vars
    BY <1>22 DEF vars, history
  <1> QED
    BY <1>1, <1>2, <1>3, <1>4, <1>5, <1>6, <1>7, <1>8, <1>9, <1>10, <1>11,
       <1>12, <1>13, <1>14, <1>15, <1>16, <1>17, <1>18, <1>19, <1>20, <1>21, <1>22
       DEF Next, Request, Handle

(* Every step keeps a used grant with the validation that used it. *)
LEMMA ConsumedStep ==
  TypeOK /\ HandlerInv /\ IssuerInv /\ AdmittedInv /\ ConsumedByItsTarget /\ [Next]_vars
    => ConsumedByItsTarget'
  <1> SUFFICES ASSUME TypeOK, HandlerInv, IssuerInv, AdmittedInv,
                      ConsumedByItsTarget, [Next]_vars
               PROVE  ConsumedByItsTarget'
    OBVIOUS
  <1> USE NullAssumption, RequestAssumption, ParameterAssumption
          DEF TypeOK, HandlerInv, IssuerInv, AdmittedInv, ConsumedByItsTarget,
              Valid, Satisfies, row, logs, Routes, Steps, Statuses
  <1>1. ASSUME NEW c \in Calls, IssueRejected(c)
       PROVE  ConsumedByItsTarget'
    BY <1>1 DEF IssueRejected, Arrive, Decide
  <1>2. ASSUME NEW c \in Calls, IssueArrive(c)
       PROVE  ConsumedByItsTarget'
    <2> SUFFICES ASSUME NEW g \in Grants, usedAt[g] # None
                 PROVE  \E d \in Calls : (Valid(d) /\ gid[d] = g /\ Satisfies(d,
                 g))'
      BY <1>2 DEF IssueArrive
    <2>1. PICK d \in Calls : Valid(d) /\ gid[d] = g /\ Satisfies(d, g)
      OBVIOUS
    <2>2. d # c
      BY <2>1, <1>2 DEF IssueArrive, Arrive
    <2>3. (Valid(d) /\ gid[d] = g /\ Satisfies(d, g))'
      BY <2>1, <2>2, <1>2 DEF IssueArrive, Arrive
    <2> QED
      BY <2>3
  <1>3. ASSUME NEW c \in Calls, ValidateArrive(c)
       PROVE  ConsumedByItsTarget'
    BY <1>3 DEF ValidateArrive, Arrive, Held
  <1>4. ASSUME NEW c \in Calls, ValidateUnparsed(c)
       PROVE  ConsumedByItsTarget'
    BY <1>4 DEF ValidateUnparsed, Arrive, Decide
  <1>5. ASSUME NEW c \in Calls, RevokeArrive(c)
       PROVE  ConsumedByItsTarget'
    BY <1>5 DEF RevokeArrive, Arrive
  <1>6. ASSUME NEW c \in Calls, CreateGrant(c) \/ CreateFails(c)
       PROVE  ConsumedByItsTarget'
    <2>1. pc[c] = "create" /\ gid' = gid /\ req' = req
      BY <1>6 DEF CreateGrant, CreateFails, Goto
    <2>2. \A d \in Calls \ {c} : reply'[d] = reply[d]
      BY <1>6 DEF CreateGrant, CreateFails, Decide
    <2>3. usedAt' = usedAt /\ \A g \in Grants \ {gid[c]} : binding'[g] = binding[g]
      BY <1>6 DEF CreateGrant, CreateFails, InsertGrant, Unwritten
    <2> SUFFICES ASSUME NEW g \in Grants, usedAt'[g] # None
                 PROVE  \E d \in Calls : (Valid(d) /\ gid[d] = g /\ Satisfies(d, g))'
      OBVIOUS
    <2>4. PICK d \in Calls : Valid(d) /\ gid[d] = g /\ Satisfies(d, g)
      BY <2>3
    <2>5. d # c
      BY <2>1, <2>4
    <2>6. g # gid[c]
      BY <2>1, <2>4
    <2> QED
      BY <2>1, <2>2, <2>3, <2>4, <2>5, <2>6
  <1>8. ASSUME NEW c \in Calls, FindGrant(c)
       PROVE  ConsumedByItsTarget'
    BY <1>8 DEF FindGrant, Goto, history
  <1>9. ASSUME NEW c \in Calls, FindFails(c)
       PROVE  ConsumedByItsTarget'
    BY <1>9 DEF FindFails, Goto, Decide, history
  <1>10. ASSUME NEW c \in Calls, CheckRefuse(c)
       PROVE  ConsumedByItsTarget'
    BY <1>10 DEF CheckRefuse, Goto, Decide, Refusal, history
  <1>11. ASSUME NEW c \in Calls, CheckExpired(c)
       PROVE  ConsumedByItsTarget'
    BY <1>11 DEF CheckExpired, Goto, history
  <1>12. ASSUME NEW c \in Calls, CheckPass(c)
       PROVE  ConsumedByItsTarget'
    BY <1>12 DEF CheckPass, Goto, Refusal, history
  <1>13. ASSUME NEW c \in Calls, MarkExpired(c)
       PROVE  ConsumedByItsTarget'
    BY <1>13 DEF MarkExpired, Goto, Decide, SetStatus, Unwritten, history
  <1>14. ASSUME NEW c \in Calls, MarkUsed(c)
       PROVE  ConsumedByItsTarget'
    <2>1. gid[c] \in Grants /\ (Valid(c) /\ Satisfies(c, gid[c]))'
      BY <1>14 DEF MarkUsed, Goto, Decide, SetStatus, Unwritten
    <2>2. \A d \in Calls \ {c} : Valid(d) /\ Satisfies(d, gid[d])
            => (Valid(d) /\ Satisfies(d, gid[d]))'
      BY <1>14 DEF MarkUsed, Goto, Decide, SetStatus, Unwritten
    <2>3. gid' = gid /\ \A g \in Grants \ {gid[c]} : usedAt'[g] = usedAt[g]
      BY <1>14 DEF MarkUsed, Goto, SetStatus, Unwritten
    <2> SUFFICES ASSUME NEW g \in Grants, usedAt'[g] # None
                 PROVE  \E d \in Calls : (Valid(d) /\ gid[d] = g /\ Satisfies(d, g))'
      OBVIOUS
    <2>4. CASE g = gid[c]
      BY <2>1, <2>3, <2>4
    <2>5. CASE g # gid[c]
      <3>1. PICK d \in Calls : Valid(d) /\ gid[d] = g /\ Satisfies(d, g)
        BY <2>3, <2>5
      <3>2. d # c /\ (Valid(d) /\ Satisfies(d, g))'
        BY <2>2, <2>5, <3>1, <1>14 DEF MarkUsed, Goto
      <3> QED
        BY <2>3, <3>1, <3>2
    <2> QED
      BY <2>4, <2>5
  <1>15. ASSUME NEW c \in Calls, RevokeGrant(c)
       PROVE  ConsumedByItsTarget'
    BY <1>15 DEF RevokeGrant, Goto, Decide, SetStatus, RowAffected, history
  <1>16. ASSUME NEW c \in Calls, RevokeNotFound(c)
       PROVE  ConsumedByItsTarget'
    BY <1>16 DEF RevokeNotFound, Goto, Decide, history
  <1>17. ASSUME NEW c \in Calls, RevokeFails(c)
       PROVE  ConsumedByItsTarget'
    BY <1>17 DEF RevokeFails, Goto, Decide, SetStatus, Unwritten, RowAffected,
       history
  <1>18. ASSUME NEW c \in Calls, WriteAudit(c)
       PROVE  ConsumedByItsTarget'
    BY <1>18 DEF WriteAudit, Goto, AuditRow, history
  <1>19. ASSUME NEW c \in Calls, WriteDenial(c)
       PROVE  ConsumedByItsTarget'
    BY <1>19 DEF WriteDenial, Goto, DenialRow, DenyReason, history
  <1>20. ASSUME NEW c \in Calls, LogFails(c)
       PROVE  ConsumedByItsTarget'
    BY <1>20 DEF LogFails, Goto, Decide, history
  <1>21. CASE Tick
    BY <1>21 DEF Tick, history
  <1>22. CASE UNCHANGED vars
    BY <1>22 DEF vars, history
  <1> QED
    BY <1>1, <1>2, <1>3, <1>4, <1>5, <1>6, <1>8, <1>9, <1>10, <1>11,
       <1>12, <1>13, <1>14, <1>15, <1>16, <1>17, <1>18, <1>19, <1>20, <1>21, <1>22
       DEF Next, Request, Handle

(* Every step keeps the answers on record. *)
LEMMA RecordedStep ==
  TypeOK /\ HandlerInv /\ RecordedInv /\ [Next]_vars => RecordedInv'
  <1> SUFFICES ASSUME TypeOK, HandlerInv, RecordedInv, [Next]_vars
               PROVE  RecordedInv'
    OBVIOUS
  <1> USE NullAssumption, ParameterAssumption
          DEF TypeOK, HandlerInv, RecordedInv, AnswersRecorded, AuditRow,
              DenialRow, DenyReason, Refusals, row, logs, Routes, Steps, Statuses
  <1>1. ASSUME NEW c \in Calls, IssueRejected(c)
       PROVE  RecordedInv'
    BY <1>1 DEF IssueRejected, Arrive, Decide
  <1>2. ASSUME NEW c \in Calls, IssueArrive(c)
       PROVE  RecordedInv'
    BY <1>2 DEF IssueArrive, Arrive
  <1>3. ASSUME NEW c \in Calls, ValidateArrive(c)
       PROVE  RecordedInv'
    BY <1>3 DEF ValidateArrive, Arrive, Held
  <1>4. ASSUME NEW c \in Calls, ValidateUnparsed(c)
       PROVE  RecordedInv'
    BY <1>4 DEF ValidateUnparsed, Arrive, Decide
  <1>5. ASSUME NEW c \in Calls, RevokeArrive(c)
       PROVE  RecordedInv'
    BY <1>5 DEF RevokeArrive, Arrive
  <1>6. ASSUME NEW c \in Calls, CreateGrant(c)
       PROVE  RecordedInv'
    BY <1>6 DEF CreateGrant, Goto, Decide, InsertGrant, TTL, history
  <1>7. ASSUME NEW c \in Calls, CreateFails(c)
       PROVE  RecordedInv'
    BY <1>7 DEF CreateFails, Goto, Decide, InsertGrant, Unwritten, TTL, history
  <1>8. ASSUME NEW c \in Calls, FindGrant(c)
       PROVE  RecordedInv'
    BY <1>8 DEF FindGrant, Goto, history
  <1>9. ASSUME NEW c \in Calls, FindFails(c)
       PROVE  RecordedInv'
    BY <1>9 DEF FindFails, Goto, Decide, history
  <1>10. ASSUME NEW c \in Calls, CheckRefuse(c)
       PROVE  RecordedInv'
    BY <1>10 DEF CheckRefuse, Goto, Decide, Refusal, history
  <1>11. ASSUME NEW c \in Calls, CheckExpired(c)
       PROVE  RecordedInv'
    BY <1>11 DEF CheckExpired, Goto, history
  <1>12. ASSUME NEW c \in Calls, CheckPass(c)
       PROVE  RecordedInv'
    BY <1>12 DEF CheckPass, Goto, Refusal, history
  <1>13. ASSUME NEW c \in Calls, MarkExpired(c)
       PROVE  RecordedInv'
    BY <1>13 DEF MarkExpired, Goto, Decide, SetStatus, Unwritten, history
  <1>14. ASSUME NEW c \in Calls, MarkUsed(c)
       PROVE  RecordedInv'
    BY <1>14 DEF MarkUsed, Goto, Decide, SetStatus, Unwritten, history
  <1>15. ASSUME NEW c \in Calls, RevokeGrant(c)
       PROVE  RecordedInv'
    BY <1>15 DEF RevokeGrant, Goto, Decide, SetStatus, RowAffected, history
  <1>16. ASSUME NEW c \in Calls, RevokeNotFound(c)
       PROVE  RecordedInv'
    BY <1>16 DEF RevokeNotFound, Goto, Decide, history
  <1>17. ASSUME NEW c \in Calls, RevokeFails(c)
       PROVE  RecordedInv'
    BY <1>17 DEF RevokeFails, Goto, Decide, SetStatus, Unwritten, RowAffected,
       history
  <1>18. ASSUME NEW c \in Calls, WriteAudit(c)
       PROVE  RecordedInv'
    BY <1>18 DEF WriteAudit, Goto, AuditRow, history
  <1>19. ASSUME NEW c \in Calls, WriteDenial(c)
       PROVE  RecordedInv'
    BY <1>19 DEF WriteDenial, Goto, DenialRow, DenyReason, history
  <1>20. ASSUME NEW c \in Calls, LogFails(c)
       PROVE  RecordedInv'
    BY <1>20 DEF LogFails, Goto, Decide, history
  <1>21. CASE Tick
    BY <1>21 DEF Tick, history
  <1>22. CASE UNCHANGED vars
    BY <1>22 DEF vars, history
  <1> QED
    BY <1>1, <1>2, <1>3, <1>4, <1>5, <1>6, <1>7, <1>8, <1>9, <1>10, <1>11,
       <1>12, <1>13, <1>14, <1>15, <1>16, <1>17, <1>18, <1>19, <1>20, <1>21, <1>22
       DEF Next, Request, Handle

-----------------------------------------------------------------------------
(* The theorems *)

LEMMA InvInit == Init => Inv
  <1> SUFFICES ASSUME Init
               PROVE  Inv
    OBVIOUS
  <1> USE NullAssumption, ParameterAssumption
  <1>1. TypeOK
    BY DEF Init, TypeOK, Statuses, Steps, Replies, Refusals
  <1>2. HandlerInv
    BY DEF Init, HandlerInv, Steps, Valid, Revoked, Closing
  <1>3. IssuerInv
    BY DEF Init, IssuerInv, Valid
  <1>4. SettledInv /\ BarredInv
    BY DEF Init, SettledInv, BarredInv, Shutting, Valid, Revoked
  <1>5. AdmittedInv /\ ConsumedByItsTarget
    BY DEF Init, AdmittedInv, ConsumedByItsTarget, Valid
  <1>6. RecordedInv
    BY DEF Init, RecordedInv, AnswersRecorded
  <1> QED
    BY <1>1, <1>2, <1>3, <1>4, <1>5, <1>6 DEF Inv

LEMMA InvStep == Inv /\ [Next]_vars => Inv'
  BY TypeStep, HandlerStep, IssuerStep, SettledStep, BarredStep, AdmittedStep,
     ConsumedStep, RecordedStep DEF Inv

LEMMA Invariance == Spec => []Inv
  BY InvInit, InvStep, PTL DEF Spec

(* The state keeps its types: every handler is at one of its steps and every *)
(* grant in one of the four statuses of service.go.                          *)
THEOREM TypeCorrect == Spec => []TypeOK
  BY Invariance, PTL DEF Inv

(* A validation that arrives after another, whose store write did not fail,  *)
(* was told the grant is valid is never told so itself, for any number of    *)
(* overlapping requests, grants and API processes, whatever fails in them.   *)
THEOREM ReplayRefused == Spec => []SequentialSingleUse
  <1>1. Inv => SequentialSingleUse
    BY DEF Inv, BarredInv, Shutting, SequentialSingleUse
  <1> QED
    BY <1>1, Invariance, PTL

(* An answered revocation bars every later validation, whatever fails.       *)
THEOREM RevocationBars == Spec => []RevocationEffective
  <1>1. Inv => RevocationEffective
    BY DEF Inv, BarredInv, Shutting, RevocationEffective
  <1> QED
    BY <1>1, Invariance, PTL

(* A validation accepted by the service arrived before the grant's expiry.   *)
THEOREM AcceptanceInTime == Spec => []AcceptedInTime
  <1>1. Inv => AcceptedInTime
    BY DEF Inv, AdmittedInv, AcceptedInTime
  <1> QED
    BY <1>1, Invariance, PTL

(* Only a validation for the grant's own target and relays consumes it.      *)
THEOREM ConsumedByTarget == Spec => []ConsumedByItsTarget
  BY Invariance, PTL DEF Inv

(* Every issued token, revocation and refusal is on record when it is told.  *)
THEOREM AnswersOnRecord == Spec => []AnswersRecorded
  BY Invariance, PTL DEF Inv, RecordedInv

-----------------------------------------------------------------------------
(* The service implements the ledger *)

LEMMA LedgerInit == Init => Ledger!Init
  BY DEF Init, Ledger!Init, LiveGrants, ClosedGrants, AcceptedCalls, Pending,
     Valid, Settled

(* A step that touches no status and no pending validation is invisible. *)
LEMMA LedgerStutter ==
  ASSUME status' = status, Pending' = Pending, AcceptedCalls' = AcceptedCalls
  PROVE  UNCHANGED Ledger!ledger
  BY DEF Ledger!ledger, LiveGrants, ClosedGrants

(* Writing a settled status closes the grant, if it was live. *)
LEMMA LedgerShut ==
  ASSUME TypeOK, NEW g \in Grants, status[g] # "none",
         NEW s \in Settled, status' = [status EXCEPT ![g] = s]
  PROVE  /\ LiveGrants' = LiveGrants \ {g}
         /\ ClosedGrants' = ClosedGrants \cup {g}
         /\ g \notin LiveGrants => UNCHANGED <<LiveGrants, ClosedGrants>>
  BY DEF TypeOK, LiveGrants, ClosedGrants, Settled, Statuses

(* Such a write, when nothing else changes, is a step of the ledger or none. *)
LEMMA LedgerClose ==
  ASSUME TypeOK, NEW g \in Grants, status[g] # "none",
         NEW s \in Settled, status' = [status EXCEPT ![g] = s],
         Pending' = Pending, AcceptedCalls' = AcceptedCalls
  PROVE  Ledger!Next \/ UNCHANGED Ledger!ledger
  BY LedgerShut DEF Ledger!Close, Ledger!Shut, Ledger!ledger, Ledger!Next

LEMMA LedgerStep ==
  ASSUME TypeOK, HandlerInv, IssuerInv, [Next]_vars
  PROVE  [Ledger!Next]_(Ledger!ledger)
  <1> DEFINE Stutter == UNCHANGED Ledger!ledger
  <1> USE NullAssumption, ParameterAssumption DEF TypeOK, row, logs, history
  <1>1. ASSUME NEW c \in Calls, IssueRejected(c)
       PROVE  Stutter
    <2>1. status' = status /\ Pending' = Pending /\ AcceptedCalls' = AcceptedCalls
      BY <1>1 DEF IssueRejected, Arrive, Decide, HandlerInv, Pending,
         AcceptedCalls, Valid
    <2> QED
      BY <2>1, LedgerStutter
  <1>2. ASSUME NEW c \in Calls, ValidateUnparsed(c)
       PROVE  Stutter
    <2>1. status' = status /\ Pending' = Pending /\ AcceptedCalls' = AcceptedCalls
      BY <1>2 DEF ValidateUnparsed, Arrive, Decide, HandlerInv, Pending,
         AcceptedCalls, Valid
    <2> QED
      BY <2>1, LedgerStutter
  <1>3. ASSUME NEW c \in Calls, IssueArrive(c)
       PROVE  Stutter
    <2>1. status' = status /\ Pending' = Pending /\ AcceptedCalls' = AcceptedCalls
      BY <1>3 DEF IssueArrive, Arrive, Pending, AcceptedCalls, Valid
    <2> QED
      BY <2>1, LedgerStutter
  <1>4. ASSUME NEW c \in Calls, ValidateArrive(c)
       PROVE  Stutter
    <2>1. status' = status /\ Pending' = Pending /\ AcceptedCalls' = AcceptedCalls
      BY <1>4 DEF ValidateArrive, Arrive, Pending, AcceptedCalls, Valid
    <2> QED
      BY <2>1, LedgerStutter
  <1>5. ASSUME NEW c \in Calls, RevokeArrive(c)
       PROVE  Stutter
    <2>1. status' = status /\ Pending' = Pending /\ AcceptedCalls' = AcceptedCalls
      BY <1>5 DEF RevokeArrive, Arrive, Pending, AcceptedCalls, Valid
    <2> QED
      BY <2>1, LedgerStutter
  <1>6. ASSUME NEW c \in Calls, CreateGrant(c) \/ CreateFails(c)
       PROVE  Ledger!Next \/ Stutter
    <2>1. gid[c] \in Grants /\ status[gid[c]] = "none"
      BY <1>6 DEF CreateGrant, CreateFails, Goto, HandlerInv, IssuerInv, Steps
    <2>2. Pending' = Pending /\ AcceptedCalls' = AcceptedCalls
      BY <1>6 DEF CreateGrant, CreateFails, Goto, Decide, Pending, AcceptedCalls,
         Valid, HandlerInv
    <2>3. CASE InsertGrant(c)
      <3>1. status' = [status EXCEPT ![gid[c]] = "issued"]
        BY <2>3 DEF InsertGrant
      <3>2. LiveGrants' = LiveGrants \cup {gid[c]} /\ ClosedGrants' = ClosedGrants
        BY <2>1, <3>1 DEF LiveGrants, ClosedGrants, Settled
      <3>3. gid[c] \notin LiveGrants \cup ClosedGrants
        BY <2>1 DEF LiveGrants, ClosedGrants, Settled
      <3> QED
        BY <2>1, <2>2, <3>2, <3>3 DEF Ledger!Open, Ledger!Next
    <2>4. CASE Unwritten(c)
      BY <2>2, <2>4, LedgerStutter DEF Unwritten
    <2> QED
      BY <1>6, <2>3, <2>4 DEF CreateGrant, CreateFails
  <1>7. ASSUME NEW c \in Calls, FindGrant(c)
       PROVE  Ledger!Next \/ Stutter
    <2>1. gid[c] \in Grants /\ Pending[c] = None /\ AcceptedCalls' = AcceptedCalls
      BY <1>7 DEF FindGrant, Goto, HandlerInv, Steps, Pending, AcceptedCalls, Valid
    <2>2. status' = status
      BY <1>7 DEF FindGrant
    <2>3. CASE status[gid[c]] = "issued"
      <3>1. Pending' = [Pending EXCEPT ![c] = gid[c]]
        BY <2>3, <1>7 DEF FindGrant, Goto, Pending
      <3>2. gid[c] \in LiveGrants /\ UNCHANGED <<LiveGrants, ClosedGrants>>
        BY <2>1, <2>2, <2>3 DEF LiveGrants, ClosedGrants
      <3> QED
        BY <2>1, <3>1, <3>2 DEF Ledger!Lookup, Ledger!Next
    <2>4. CASE status[gid[c]] # "issued"
      <3>1. Pending' = Pending
        BY <2>4, <1>7 DEF FindGrant, Goto, Pending
      <3> QED
        BY <2>1, <2>2, <3>1, LedgerStutter
    <2> QED
      BY <2>3, <2>4
  <1>8. ASSUME NEW c \in Calls, CheckRefuse(c)
       PROVE  Ledger!Next \/ Stutter
    <2>1. gid[c] \in Grants /\ status' = status /\ AcceptedCalls' = AcceptedCalls
      BY <1>8 DEF CheckRefuse, Goto, Decide, Refusal, HandlerInv, Steps, Statuses,
         AcceptedCalls, Valid
    <2>2. UNCHANGED <<LiveGrants, ClosedGrants>>
      BY <2>1 DEF LiveGrants, ClosedGrants
    <2>3. CASE seen[c] = "issued"
      <3>1. Pending[c] # None /\ Pending' = [Pending EXCEPT ![c] = None]
        BY <2>1, <2>3, <1>8 DEF CheckRefuse, Goto, Pending
      <3> QED
        BY <2>1, <2>2, <3>1 DEF Ledger!Refuse, Ledger!Next
    <2>4. CASE seen[c] # "issued"
      <3>1. Pending' = Pending
        BY <2>4, <1>8 DEF CheckRefuse, Goto, Pending
      <3> QED
        BY <2>1, <3>1, LedgerStutter
    <2> QED
      BY <2>3, <2>4
  <1>9. ASSUME NEW c \in Calls, CheckExpired(c)
       PROVE  Ledger!Next \/ Stutter
    <2>1. gid[c] \in Grants /\ status' = status /\ AcceptedCalls' = AcceptedCalls
      BY <1>9 DEF CheckExpired, Goto, HandlerInv, Steps, Statuses, AcceptedCalls,
         Valid
    <2>2. UNCHANGED <<LiveGrants, ClosedGrants>>
      BY <2>1 DEF LiveGrants, ClosedGrants
    <2>3. CASE seen[c] = "issued"
      <3>1. Pending[c] # None /\ Pending' = [Pending EXCEPT ![c] = None]
        BY <2>1, <2>3, <1>9 DEF CheckExpired, Goto, Pending
      <3> QED
        BY <2>1, <2>2, <3>1 DEF Ledger!Refuse, Ledger!Next
    <2>4. CASE seen[c] # "issued"
      <3>1. Pending' = Pending
        BY <2>4, <1>9 DEF CheckExpired, Goto, Pending
      <3> QED
        BY <2>1, <3>1, LedgerStutter
    <2> QED
      BY <2>3, <2>4
  <1>10. ASSUME NEW c \in Calls, CheckPass(c)
       PROVE  Stutter
    <2>1. status' = status /\ Pending' = Pending /\ AcceptedCalls' = AcceptedCalls
      BY <1>10 DEF CheckPass, Goto, Pending, AcceptedCalls, Valid
    <2> QED
      BY <2>1, LedgerStutter
  <1>11. ASSUME NEW c \in Calls, MarkExpired(c)
       PROVE  Ledger!Next \/ Stutter
    <2>1. gid[c] \in Grants /\ status[gid[c]] # "none"
      BY <1>11 DEF MarkExpired, Goto, HandlerInv, IssuerInv, Steps
    <2>2. Pending' = Pending /\ AcceptedCalls' = AcceptedCalls
      BY <1>11 DEF MarkExpired, Goto, Decide, Pending, AcceptedCalls, Valid,
         HandlerInv
    <2>3. CASE SetStatus(gid[c], "expired", None)
      BY <2>1, <2>2, <2>3, LedgerClose DEF SetStatus, Settled
    <2>4. CASE Unwritten(c)
      BY <2>2, <2>4, LedgerStutter DEF Unwritten
    <2> QED
      BY <1>11, <2>3, <2>4 DEF MarkExpired
  <1>12. ASSUME NEW c \in Calls, MarkUsed(c)
       PROVE  Ledger!Next
    <2>1. gid[c] \in Grants /\ status[gid[c]] # "none" /\ pc[c] = "mark_used" /\ seen[c] = "issued"
      BY <1>12 DEF MarkUsed, Goto, HandlerInv, IssuerInv, Steps
    <2>2. Pending[c] = gid[c] /\ Pending' = [Pending EXCEPT ![c] = None]
      BY <2>1, <1>12 DEF MarkUsed, Goto, Pending
    <2>3. AcceptedCalls' = AcceptedCalls \cup {c}
      BY <1>12 DEF MarkUsed, Decide, AcceptedCalls, Valid
    <2>4. CASE SetStatus(gid[c], "used", now)
      <3>1. status' = [status EXCEPT ![gid[c]] = "used"]
        BY <2>4 DEF SetStatus
      <3>2. /\ LiveGrants' = LiveGrants \ {gid[c]}
            /\ ClosedGrants' = ClosedGrants \cup {gid[c]}
        BY <2>1, <3>1, LedgerShut DEF Settled
      <3> QED
        BY <2>1, <2>2, <2>3, <3>2 DEF Ledger!Accept, Ledger!Shut, Ledger!Next
    <2>5. CASE Unwritten(c)
      <3>1. c \in Faulty /\ UNCHANGED <<LiveGrants, ClosedGrants>>
        BY <2>5 DEF Unwritten, LiveGrants, ClosedGrants
      <3> QED
        BY <2>1, <2>2, <2>3, <3>1 DEF Ledger!Accept, Ledger!Next
    <2> QED
      BY <1>12, <2>4, <2>5 DEF MarkUsed
  <1>13. ASSUME NEW c \in Calls, RevokeGrant(c) \/ RevokeFails(c)
       PROVE  Ledger!Next \/ Stutter
    <2>1. Pending' = Pending /\ AcceptedCalls' = AcceptedCalls
      BY <1>13 DEF RevokeGrant, RevokeFails, Goto, Decide, Pending, AcceptedCalls,
         Valid, HandlerInv
    <2>2. CASE RowAffected(gid[c]) /\ SetStatus(gid[c], "revoked", None)
      <3>1. gid[c] \in Grants /\ status[gid[c]] # "none"
        BY <1>13, <2>2 DEF RevokeGrant, RevokeFails, Goto, HandlerInv, Steps, RowAffected
      <3> QED
        BY <2>1, <2>2, <3>1, LedgerClose DEF SetStatus, Settled
    <2>3. CASE Unwritten(c)
      BY <2>1, <2>3, LedgerStutter DEF Unwritten
    <2> QED
      BY <1>13, <2>2, <2>3 DEF RevokeGrant, RevokeFails
  <1>14. ASSUME NEW c \in Calls, RevokeNotFound(c)
       PROVE  Stutter
    <2>1. status' = status /\ Pending' = Pending /\ AcceptedCalls' = AcceptedCalls
      BY <1>14 DEF RevokeNotFound, Goto, Decide, HandlerInv, Pending,
         AcceptedCalls, Valid
    <2> QED
      BY <2>1, LedgerStutter
  <1>15. ASSUME NEW c \in Calls, WriteAudit(c)
       PROVE  Stutter
    <2>1. status' = status /\ Pending' = Pending /\ AcceptedCalls' = AcceptedCalls
      BY <1>15 DEF WriteAudit, Goto, Pending, AcceptedCalls, Valid
    <2> QED
      BY <2>1, LedgerStutter
  <1>16. ASSUME NEW c \in Calls, WriteDenial(c)
       PROVE  Stutter
    <2>1. status' = status /\ Pending' = Pending /\ AcceptedCalls' = AcceptedCalls
      BY <1>16 DEF WriteDenial, Goto, Pending, AcceptedCalls, Valid
    <2> QED
      BY <2>1, LedgerStutter
  <1>20. ASSUME NEW c \in Calls, FindFails(c) \/ LogFails(c)
       PROVE  Stutter
    <2>1. status' = status /\ Pending' = Pending /\ AcceptedCalls' = AcceptedCalls
      BY <1>20 DEF FindFails, LogFails, Goto, Decide, Pending, AcceptedCalls,
         Valid, HandlerInv
    <2> QED
      BY <2>1, LedgerStutter
  <1>21. CASE Tick \/ UNCHANGED vars
    <2>1. status' = status /\ Pending' = Pending /\ AcceptedCalls' = AcceptedCalls
      BY <1>21 DEF Tick, vars, Pending, AcceptedCalls, Valid
    <2> QED
      BY <2>1, LedgerStutter
  <1>22. ASSUME NEW c \in Calls, Request(c)
       PROVE  [Ledger!Next]_(Ledger!ledger)
    BY <1>1, <1>2, <1>3, <1>4, <1>5, <1>22 DEF Request
  <1>23. ASSUME NEW c \in Calls, Handle(c)
       PROVE  [Ledger!Next]_(Ledger!ledger)
    BY <1>6, <1>7, <1>8, <1>9, <1>10, <1>11, <1>12, <1>13, <1>14, <1>15, <1>16,
       <1>20, <1>23 DEF Handle
  <1> QED
    BY <1>21, <1>22, <1>23 DEF Next

(* The service implements the ledger: what it accepts it had found live, and *)
(* what it closed stays closed.                                              *)
THEOREM ServiceImplementsLedger == Spec => ImplementsLedger
  <1>1. Inv /\ [Next]_vars => [Ledger!Next]_(Ledger!ledger)
    BY LedgerStep DEF Inv
  <1> QED
    BY <1>1, LedgerInit, Invariance, PTL DEF Spec, Ledger!Spec, ImplementsLedger
=============================================================================
