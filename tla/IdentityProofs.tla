---------------------------- MODULE IdentityProofs ----------------------------
(***************************************************************************)
(* Proofs about Identity for any calls, users and tokens, over both stores *)
(* and whichever calls may fail: what has been closed by an answered       *)
(* request stays closed to the requests that arrive later, and nothing     *)
(* works that is not on record.                                            *)
(***************************************************************************)
EXTENDS Identity, TLAPS

-----------------------------------------------------------------------------
(* The inductive invariant *)

Replies == {"none", "ok", "conflict", "denied", "failed", "refused",
            "unauthenticated", "internal_error"}
Steps == {"idle", "count", "create", "find", "session", "log", "revoke", "token", "user",
          "record", "act", "audit", "done"}

(* Which requests are where, and who answered before *)
StepOf(c) ==
  /\ pc[c] \in {"count", "create"} => Is(c, "setup")
  /\ pc[c] \in {"find", "session", "log"} => Is(c, "login")
  /\ pc[c] = "revoke" => Is(c, "logout")
  /\ pc[c] \in {"token", "user", "record", "act"} => req[c].op \in Managing
  /\ pc[c] = "record" => req[c].tok \in ApiTokens
  /\ pc[c] = "audit" => /\ req[c].op \in {"setup"} \cup (Managing \ {"read"})
                        /\ reply[c] = "ok"
  /\ pc[c] = "log" => reply[c] \in {"ok", "denied", "failed"}
  /\ pc[c] \notin {"log", "audit", "done"} => reply[c] = "none"
  /\ \A k \in before[c] : pc[k] = "done"
  /\ arrived[c] <= now

Recorded(t) == [action |-> "create_api_token", target |-> t] \in auditLog

(* What a request names exists *)
TargetOf(c) == pc[c] # "idle" =>
  /\ req[c].op \in {"login", "update_user", "disable_user"} => req[c].target \in Users
  /\ Is(c, "revoke_api_token") => req[c].target \in ApiTokens
  /\ pc[c] = "audit" => req[c].target \in Users \cup ApiTokens
  /\ Changed(c, "create_api_token") =>
       req[c].target \in ApiTokens /\ owner[req[c].target] # None
  /\ Changed(c, "create_api_token") /\ reply[c] = "ok" /\ pc[c] = "done" =>
       Recorded(req[c].target)
  /\ Changed(c, "setup") => req[c].target \in Users /\ Exists(req[c].target)

(* The token it presents, or was given, has its row, and an API token its *)
(* record                                                                *)
NamesOf(c) == pc[c] # "idle" =>
  /\ req[c].op \in Managing \cup {"logout"} =>
       req[c].tok \in Tokens /\ owner[req[c].tok] # None
  /\ req[c].op \in Managing /\ req[c].tok \in ApiTokens => Recorded(req[c].tok)
  /\ Is(c, "logout") => req[c].tok \in Sessions
  /\ Is(c, "login") /\ reply[c] = "ok" =>
       req[c].tok \in Sessions /\ owner[req[c].tok] = req[c].target

(* A token that nobody is let in with any more *)
ShutToken(t) ==
  /\ t \in Tokens /\ owner[t] # None
  /\ t \in revoked \/ (expires[t] # None /\ now > expires[t])

LookedUp(c) == req[c].op \in Managing /\ (pc[c] \in {"user", "record"} \/ Served(c))

(* A closed token is shut, and a request that came later has not passed it *)
TokenOf(c) ==
  /\ \A t \in Tokens : Revokes(c, t) => ShutToken(t)
  /\ LookedUp(c) => /\ \A k \in before[c] : ~Revokes(k, req[c].tok)
                    /\ \/ expires[req[c].tok] = None
                       \/ arrived[c] < expires[req[c].tok]

Reactivated(c, u) == \E e \in Calls : Activates(e, u) /\ e \notin before[c]

(* A request that has found its user active *)
FoundActive(c, u) ==
  \/ req[c].op \in Managing /\ (pc[c] = "record" \/ Served(c)) /\ owner[req[c].tok] = u
  \/ Is(c, "login") /\ req[c].target = u /\ (pc[c] = "session" \/ reply[c] = "ok")

(* A disabled user is active again only through an update that was not     *)
(* answered before the disabling arrived                                   *)
UserOf(c) == \A u \in Users :
  /\ Disables(c, u) => Exists(u) /\ (Active(u) => Reactivated(c, u))
  /\ FoundActive(c, u) => \A k \in before[c] : Disables(k, u) => Reactivated(k, u)

Bootstrap == \E e \in auditLog : e.action = "bootstrap_initial_admin"

(* A setup that goes on has found no user *)
SetupOf(c) ==
  pc[c] = "create" \/ Changed(c, "setup") =>
    ~Bootstrap /\ \A k \in before[c] : ~Changed(k, "setup")

(* A log that reads succeeded is of a login that has succeeded *)
LoginOf(c) ==
  /\ [call |-> c, status |-> "succeeded"] \in loginLog =>
       Is(c, "login") /\ pc[c] = "done" /\ reply[c] = "ok"
  /\ Is(c, "login") /\ pc[c] = "done" /\ c \notin Faulty => LoginRow(c) \in loginLog

CallInv(c) ==
  StepOf(c) /\ TargetOf(c) /\ NamesOf(c) /\ TokenOf(c) /\ UserOf(c) /\ SetupOf(c) /\ LoginOf(c)

SharedInv ==
  /\ \A t \in Sessions : owner[t] # None => expires[t] # None
  /\ Bootstrap => \E u \in Users : Exists(u)

Inv == TypeOK /\ SharedInv /\ \A c \in Calls : CallInv(c)

(* Nobody has asked for anything at the start *)
LEMMA InvInit == Init => Inv
<1> SUFFICES ASSUME Init PROVE Inv
  OBVIOUS
<1>1. PICK admin \in SUBSET Users : Bootstrapped(admin)
  BY ParameterAssumption DEF Init, Deployment, Accounts
<1>2. TypeOK
  <2>1. /\ users \in [Users -> Statuses \cup {"absent"}] /\ password \subseteq Users
        /\ auditLog \subseteq [action : Ops \cup {"bootstrap_initial_admin"},
                               target : Users \cup ApiTokens]
    BY <1>1 DEF Bootstrapped, Statuses
  <2>2. req \in [Calls -> Requests]
    BY DEF Init, Requests, Ask, Ops, Managing
  <2> QED
    BY <2>1, <2>2 DEF Init, TypeOK
<1>3. SharedInv
  BY <1>1 DEF Init, SharedInv, Bootstrapped, Bootstrap, Exists
<1>4. ASSUME NEW c \in Calls PROVE CallInv(c)
  BY DEF Init, CallInv, StepOf, TargetOf, NamesOf, TokenOf, Revokes, LookedUp, Served, UserOf, Disables,
     FoundActive, SetupOf, LoginOf, Changed, Is, Ask
<1> QED
  BY <1>2, <1>3, <1>4 DEF Inv

-----------------------------------------------------------------------------
(* What a step leaves to the others *)

Same(d) ==
  /\ pc'[d] = pc[d] /\ req'[d] = req[d] /\ reply'[d] = reply[d]
  /\ before'[d] = before[d] /\ arrived'[d] = arrived[d]

(* Rows, logs and the clock only grow; what a disabled user needs to become *)
(* active again is an update                                               *)
Grows(c) ==
  /\ deployment' = deployment /\ now \in Nat /\ now' \in Nat /\ now <= now'
  /\ \A t \in Tokens : owner[t] # None => owner'[t] = owner[t] /\ expires'[t] = expires[t]
  /\ revoked \subseteq revoked'
  /\ auditLog \subseteq auditLog'
  /\ \A e \in auditLog' \ auditLog : e.action # "bootstrap_initial_admin"
  /\ \A u \in Users : Exists(u) =>
       users'[u] # "absent" /\ (users'[u] = "active" => Active(u) \/ Activates(c, u)')
  /\ loginLog \subseteq loginLog'
  /\ \A e \in loginLog' \ loginLog : e.call = c

(* A step of a call that has not answered *)
StepBy(c) ==
  /\ pc[c] # "done"
  /\ \A d \in Calls \ {c} : Same(d)
  /\ pc[c] = "audit" => pc'[c] = "done" /\ req'[c] = req[c]
  /\ Grows(c)

(* What a call relies on stays true when another takes a step: the requests *)
(* answered before it have ended, and what they closed is only opened by   *)
(* those that UserOf names                                                 *)
LEMMA OthersKept ==
  ASSUME Inv, NEW c \in Calls, StepBy(c), NEW d \in Calls \ {c}
  PROVE  CallInv(d)'
<1>1. /\ StepOf(d) /\ TargetOf(d) /\ NamesOf(d) /\ TokenOf(d) /\ UserOf(d) /\ SetupOf(d) /\ LoginOf(d)
      /\ Same(d) /\ Grows(c) /\ TypeOK
  BY DEF Inv, CallInv, StepBy
<1>2. \A k \in before[d] : k \in Calls /\ k # c /\ Same(k) /\ pc[k] = "done"
  BY <1>1 DEF StepOf, StepBy, TypeOK
<1>3. \A op : \A k \in Calls : Same(k) => (Changed(k, op)' <=> Changed(k, op))
  BY DEF Same, Changed
<1>4. StepOf(d)'
  BY <1>1, <1>2 DEF StepOf, Same, Is, Grows, TypeOK
<1>5. TargetOf(d)' /\ NamesOf(d)'
  <2>1. \A u \in Users : Exists(u) => Exists(u)'
    BY <1>1 DEF Grows, Exists
  <2>2. \A t : Recorded(t) => Recorded(t)'
    BY <1>1 DEF Grows, Recorded
  <2>3. \A t \in Tokens : owner[t] # None => owner'[t] = owner[t]
    BY <1>1 DEF Grows
  <2>4. Sessions \subseteq Tokens /\ ApiTokens \subseteq Tokens
    BY DEF Tokens
  <2>5. \A op : (Changed(d, op)' <=> Changed(d, op)) /\ (Is(d, op)' <=> Is(d, op))
    BY <1>1, <1>3 DEF Same, Is
  <2>6. req'[d] = req[d] /\ pc'[d] = pc[d] /\ reply'[d] = reply[d]
    BY <1>1 DEF Same
  <2>7. pc[d] # "idle" /\ Is(d, "login") /\ reply[d] = "ok" =>
          owner'[req[d].tok] = req[d].target
    BY <1>1, <2>3, <2>4, TokenAssumption DEF TargetOf, NamesOf, Is
  <2>8. TargetOf(d)'
    BY <1>1, <2>1, <2>2, <2>3, <2>4, <2>5, <2>6, TokenAssumption DEF TargetOf
  <2>9. NamesOf(d)'
    BY <1>1, <2>2, <2>3, <2>4, <2>5, <2>6, <2>7 DEF NamesOf
  <2> QED
    BY <2>8, <2>9
<1>6. TokenOf(d)'
  <2>1. \A t \in Tokens : ShutToken(t) => ShutToken(t)'
    BY <1>1, TokenAssumption DEF Grows, ShutToken, TypeOK
  <2>2. \A t : \A k \in Calls : Same(k) => (Revokes(k, t)' <=> Revokes(k, t))
    BY <1>3 DEF Revokes, Same
  <2>3. LookedUp(d)' <=> LookedUp(d)
    BY <1>1 DEF LookedUp, Served, Same
  <2>4. LookedUp(d) => /\ req[d].tok \in Tokens
                       /\ expires'[req[d].tok] = expires[req[d].tok]
    BY <1>1 DEF LookedUp, Served, NamesOf, Grows
  <2> QED
    BY <1>1, <1>2, <2>1, <2>2, <2>3, <2>4 DEF TokenOf, Same
<1>7. UserOf(d)'
  <2>1. \A u : \A e \in Calls : Activates(e, u) => Activates(e, u)'
    BY <1>1 DEF Activates, Is, StepBy, Same, Grows, MemoryStore
  <2>2. \A u : \A k \in Calls : Same(k) => (Disables(k, u)' <=> Disables(k, u))
    BY <1>3 DEF Disables, Same
  <2>3. \A u : \A k \in Calls : Same(k) /\ Reactivated(k, u) => Reactivated(k, u)'
    BY <2>1 DEF Reactivated, Same
  <2>4. \A u \in Users : FoundActive(d, u)' <=> FoundActive(d, u)
    <3>1. req[d].op \in Managing /\ (pc[d] = "record" \/ Served(d)) =>
            req[d].tok \in Tokens /\ owner'[req[d].tok] = owner[req[d].tok]
      BY <1>1 DEF Served, NamesOf, Grows
    <3> QED
      BY <1>1, <3>1 DEF FoundActive, Served, Is, Same
  <2>5. ASSUME NEW u \in Users, Disables(d, u)
        PROVE  Exists(u)' /\ (Active(u)' => Reactivated(d, u)')
    <3>1. Exists(u) /\ (Active(u) => Reactivated(d, u))
      BY <1>1, <2>5 DEF UserOf
    <3>2. Exists(u)' /\ (Active(u)' => Active(u) \/ Activates(c, u)')
      BY <1>1, <3>1 DEF Grows, Exists, Active
    <3>3. c \notin before'[d]
      BY <1>1, <1>2 DEF Same
    <3> QED
      BY <1>1, <2>3, <3>1, <3>2, <3>3 DEF Reactivated
  <2>6. ASSUME NEW u \in Users, FoundActive(d, u), NEW k \in before[d], Disables(k, u)
        PROVE  Reactivated(k, u)'
    BY <1>1, <1>2, <2>3, <2>6 DEF UserOf
  <2> QED
    BY <1>1, <1>2, <2>2, <2>4, <2>5, <2>6 DEF UserOf, Same
<1>8. SetupOf(d)'
  <2>1. Bootstrap' => Bootstrap
    BY <1>1 DEF Grows, Bootstrap
  <2> QED
    BY <1>1, <1>2, <1>3, <2>1 DEF SetupOf, Same
<1>9. LoginOf(d)'
  <2>1. \A e : e.call = d /\ e \in loginLog' => e \in loginLog
    BY <1>1 DEF Grows
  <2> QED
    BY <1>1, <2>1 DEF LoginOf, LoginRow, Same, Is, Faulty, Grows
<1> QED
  BY <1>4, <1>5, <1>6, <1>7, <1>8, <1>9 DEF CallInv

(* So that a step has to show its types, and what its own call relies on *)
LEMMA StepKeepsInv ==
  ASSUME Inv, NEW c \in Calls, StepBy(c), TypeOK', CallInv(c)',
         \A t \in Sessions : owner'[t] # None => expires'[t] # None
  PROVE  Inv'
<1>1. SharedInv'
  BY DEF Inv, SharedInv, StepBy, Grows, Bootstrap, Exists
<1>2. ASSUME NEW d \in Calls PROVE CallInv(d)'
  BY OthersKept
<1> QED
  BY <1>1, <1>2 DEF Inv

(* What a step of a call has to show: it passes a token only if it accepts *)
(* it, a user only if active, and goes on with a setup only if no user     *)
(* exists.                                                                 *)
LEMMA OwnStep ==
  ASSUME Inv, NEW c \in Calls, StepBy(c), TypeOK',
         \A t \in Sessions : owner'[t] # None => expires'[t] # None,
         before'[c] = before[c], arrived'[c] = arrived[c],
         StepOf(c)', TargetOf(c)', NamesOf(c)', LoginOf(c)',
         \A t \in Tokens : Revokes(c, t)' => ShutToken(t)',
         LookedUp(c)' => /\ req'[c].tok = req[c].tok /\ req[c].tok \in Tokens
                         /\ owner[req[c].tok] # None
                         /\ LookedUp(c) \/ Accepts(req[c].tok),
         \A u \in Users : Disables(c, u)' => Exists(u)' /\ (Active(u)' => Reactivated(c, u)'),
         \A u \in Users : FoundActive(c, u)' => FoundActive(c, u) \/ Active(u),
         pc'[c] = "create" \/ Changed(c, "setup")' =>
           pc[c] = "create" \/ Changed(c, "setup") \/ \A u \in Users : ~Exists(u)
  PROVE  Inv'
<1>1. /\ TypeOK /\ SharedInv /\ Grows(c)
      /\ \A d \in Calls : CallInv(d)
      /\ StepOf(c) /\ TokenOf(c) /\ UserOf(c) /\ SetupOf(c)
  BY DEF Inv, CallInv, StepBy
<1>2. \A k \in before[c] : k \in Calls /\ k # c /\ Same(k) /\ pc[k] = "done"
  BY <1>1 DEF StepOf, StepBy, TypeOK
<1>3. \A op : \A k \in Calls : Same(k) => (Changed(k, op)' <=> Changed(k, op))
  BY DEF Same, Changed
<1>4. TokenOf(c)'
  <2>1. \A t : \A k \in before[c] : Revokes(k, t)' <=> Revokes(k, t)
    BY <1>2, <1>3 DEF Revokes, Same
  <2>2. ASSUME LookedUp(c)'
        PROVE  /\ \A k \in before[c] : ~Revokes(k, req[c].tok)
               /\ expires[req[c].tok] = None \/ arrived[c] < expires[req[c].tok]
    <3>1. CASE LookedUp(c)
      BY <1>1, <3>1 DEF TokenOf
    <3>2. CASE Accepts(req[c].tok)
      <4>1. req[c].tok \in Tokens /\ ~ShutToken(req[c].tok)
        BY <1>1, <2>2, <3>2, TokenAssumption DEF Accepts, Expired, ShutToken, TypeOK
      <4>2. ASSUME NEW k \in before[c] PROVE ~Revokes(k, req[c].tok)
        BY <1>1, <1>2, <4>1 DEF CallInv, TokenOf
      <4>3. expires[req[c].tok] = None \/ arrived[c] < expires[req[c].tok]
        BY <1>1, <3>2, <4>1 DEF Accepts, Expired, StepOf, TypeOK
      <4> QED
        BY <4>2, <4>3
    <3> QED
      BY <2>2, <3>1, <3>2
  <2>3. LookedUp(c)' => expires'[req[c].tok] = expires[req[c].tok]
    BY <1>1 DEF Grows
  <2> QED
    BY <2>1, <2>2, <2>3 DEF TokenOf
<1>5. UserOf(c)'
  <2>1. \A u : \A e \in Calls \ {c} : Activates(e, u) => Activates(e, u)'
    BY <1>1 DEF Activates, Is, StepBy, Same, Grows, MemoryStore
  <2>2. \A u : Activates(c, u) => Activates(c, u)'
    BY <1>1 DEF Activates, Is, StepBy, Grows, MemoryStore
  <2>3. \A u : \A k \in before[c] : (Disables(k, u)' <=> Disables(k, u))
    BY <1>2, <1>3 DEF Disables, Same
  <2>4. \A u : \A k \in before[c] : Reactivated(k, u) => Reactivated(k, u)'
    BY <1>2, <2>1, <2>2 DEF Reactivated, Same
  <2>5. ASSUME NEW u \in Users, FoundActive(c, u)', NEW k \in before[c], Disables(k, u)
        PROVE  Reactivated(k, u)
    <3>1. CASE FoundActive(c, u)
      BY <1>1, <2>5, <3>1 DEF UserOf
    <3>2. CASE Active(u)
      BY <1>1, <1>2, <2>5, <3>2 DEF CallInv, UserOf
    <3> QED
      BY <2>5, <3>1, <3>2
  <2> QED
    BY <2>3, <2>4, <2>5 DEF UserOf
<1>6. SetupOf(c)'
  <2>1. Bootstrap' => Bootstrap
    BY <1>1 DEF Grows, Bootstrap
  <2>2. (\A u \in Users : ~Exists(u)) =>
          ~Bootstrap /\ \A k \in before[c] : ~Changed(k, "setup")
    BY <1>1, <1>2 DEF SharedInv, CallInv, TargetOf
  <2> QED
    BY <1>1, <1>2, <1>3, <2>1, <2>2 DEF SetupOf
<1> QED
  BY <1>4, <1>5, <1>6, StepKeepsInv DEF CallInv

-----------------------------------------------------------------------------
(* Arrivals *)

(* A client holds only tokens that have a row, and API tokens on record *)
LEMMA HeldTokens ==
  ASSUME Inv
  PROVE  \A t \in Held : /\ t \in Tokens /\ owner[t] # None
                         /\ t \in ApiTokens => Recorded(t)
<1> TAKE t \in Held
<1>1. PICK k \in Calls :
        /\ pc[k] = "done" /\ reply[k] = "ok"
        /\ \/ req[k].op = "login" /\ t = req[k].tok
           \/ req[k].op = "create_api_token" /\ t = req[k].target
  BY DEF Held
<1>2. TargetOf(k) /\ NamesOf(k)
  BY DEF Inv, CallInv
<1>3. CASE req[k].op = "login" /\ t = req[k].tok
  BY <1>1, <1>2, <1>3, TokenAssumption DEF TargetOf, NamesOf, Is, Tokens
<1>4. CASE req[k].op = "create_api_token" /\ t = req[k].target
  BY <1>1, <1>2, <1>4 DEF TargetOf, Changed, Tokens
<1> QED
  BY <1>1, <1>3, <1>4

(* A request that has arrived has done nothing yet *)
LEMMA ArrivalKeepsInv ==
  ASSUME Inv, NEW c \in Calls, NEW r \in Requests,
         NEW step \in {"count", "find", "revoke", "token"}, Arrive(c, r, step),
         step = "count" => r.op = "setup",
         step = "find" => r.op = "login" /\ r.target \in Users,
         step = "revoke" => r.op = "logout" /\ r.tok \in Held \cap Sessions,
         step = "token" => r.op \in Managing /\ r.tok \in Held,
         r.op \in {"update_user", "disable_user"} => r.target \in Users,
         r.op = "revoke_api_token" => r.target \in ApiTokens
  PROVE  Inv'
<1>1. TypeOK /\ SharedInv /\ StepOf(c) /\ LoginOf(c)
  BY DEF Inv, CallInv
<1>2. /\ pc[c] = "idle" /\ pc'[c] = step /\ req'[c] = r /\ reply'[c] = "none"
      /\ before'[c] = {k \in Calls : pc[k] = "done" /\ Closing(k)} /\ arrived'[c] = now
      /\ UNCHANGED <<deployment, users, password, owner, expires, revoked, used, loginLog,
                     auditLog, now, reply>>
      /\ pc' = [pc EXCEPT ![c] = step]
      /\ \A d \in Calls \ {c} : Same(d)
  BY <1>1 DEF Arrive, rows, userRows, tokenRows, logs, TypeOK, StepOf, Same
<1>3. StepBy(c)
  BY <1>1, <1>2 DEF StepBy, Grows, Exists, Active, TypeOK
<1>4. TypeOK'
  <2>1. req' \in [Calls -> Requests] /\ arrived' \in [Calls -> Nat]
        /\ before' \in [Calls -> SUBSET Calls] /\ pc' \in [Calls -> Steps]
    BY <1>1 DEF Arrive, TypeOK, Steps
  <2> QED
    BY <1>1, <1>2, <2>1 DEF TypeOK, Steps
<1>5. \A op : ~Changed(c, op)'
  BY <1>2 DEF Changed
<1>6. StepOf(c)'
  <2>1. \A k \in before'[c] : pc'[k] = "done"
    BY <1>2 DEF Same
  <2> QED
    BY <1>1, <1>2, <2>1 DEF StepOf, Is, TypeOK
<1>7. TargetOf(c)' /\ NamesOf(c)'
  <2>1. Recorded(r.tok)' <=> Recorded(r.tok)
    BY <1>2 DEF Recorded
  <2>2. TargetOf(c)'
    BY <1>2, <1>5 DEF TargetOf, Is, Managing
  <2>3. NamesOf(c)'
    BY <1>2, <2>1, HeldTokens DEF NamesOf, Is, Managing
  <2> QED
    BY <2>2, <2>3
<1>8. TokenOf(c)' /\ UserOf(c)' /\ SetupOf(c)'
  <2>1. ~LookedUp(c)' /\ \A u \in Users : ~FoundActive(c, u)'
    BY <1>2 DEF LookedUp, Served, FoundActive, Is, Managing
  <2> QED
    BY <1>2, <1>5, <2>1 DEF TokenOf, Revokes, UserOf, Disables, SetupOf
<1>9. LoginOf(c)'
  BY <1>1, <1>2 DEF LoginOf
<1>10. \A t \in Sessions : owner'[t] # None => expires'[t] # None
  BY <1>1, <1>2 DEF SharedInv
<1> QED
  BY <1>3, <1>4, <1>6, <1>7, <1>8, <1>9, <1>10, StepKeepsInv DEF CallInv

(* Every request that a client can send *)
LEMMA ArrivalsKeepInv ==
  ASSUME Inv, NEW c \in Calls,
         SetupArrive(c) \/ LoginArrive(c) \/ LogoutArrive(c) \/ ManageArrive(c)
  PROVE  Inv'
<1>1. Accounts \subseteq Users
  BY ParameterAssumption DEF Inv, TypeOK, Deployment, Accounts
<1>2. NewStatuses \subseteq Statuses \cup {None} /\ Held \subseteq Tokens
  BY ParameterAssumption, HeldTokens
<1>3. CASE SetupArrive(c)
  <2>1. Ask("setup", None, None, None) \in Requests
    BY DEF Requests, Ask, Ops
  <2> QED
    BY <1>3, <2>1, ArrivalKeepsInv DEF SetupArrive, Ask
<1>4. CASE LoginArrive(c)
  <2>1. PICK u \in Accounts : Arrive(c, Ask("login", None, u, None), "find")
    BY <1>4 DEF LoginArrive
  <2>2. Ask("login", None, u, None) \in Requests
    BY <1>1 DEF Requests, Ask, Ops
  <2> QED
    BY <1>1, <2>1, <2>2, ArrivalKeepsInv DEF Ask
<1>5. CASE LogoutArrive(c)
  <2>1. PICK t \in Held \cap Sessions : Arrive(c, Ask("logout", t, None, None), "revoke")
    BY <1>5 DEF LogoutArrive
  <2>2. Ask("logout", t, None, None) \in Requests
    BY <1>2 DEF Requests, Ask, Ops
  <2> QED
    BY <2>1, <2>2, ArrivalKeepsInv DEF Ask
<1>6. CASE ManageArrive(c)
  <2>1. PICK t \in Held, op \in Managing, x \in Users \cup ApiTokens \cup {None},
             s \in Statuses \cup {None} :
          /\ Arrive(c, Ask(op, t, x, s), "token")
          /\ op \in {"update_user", "disable_user"} => x \in Users
          /\ op = "revoke_api_token" => x \in ApiTokens
    BY <1>1, <1>2, <1>6 DEF ManageArrive, Managing
  <2>2. Ask(op, t, x, s) \in Requests
    BY <1>2 DEF Requests, Ask, Ops
  <2>3. op # "setup" /\ op # "login" /\ op # "logout"
    BY DEF Managing
  <2> QED
    BY <2>1, <2>2, <2>3, ArrivalKeepsInv DEF Ask
<1> QED
  BY <1>3, <1>4, <1>5, <1>6

-----------------------------------------------------------------------------
(* What the steps of a request have in common *)

(* Goto as a step of one call *)
LEMMA Moves ==
  ASSUME Inv, NEW c \in Calls, NEW from \in Steps \ {"done"}, NEW to \in Steps,
         Goto(c, from, to), from = "audit" => to = "done" /\ req'[c] = req[c],
         \A d \in Calls \ {c} : req'[d] = req[d] /\ reply'[d] = reply[d],
         Grows(c)
  PROVE  /\ StepBy(c) /\ pc[c] = from /\ pc'[c] = to /\ pc' \in [Calls -> Steps]
         /\ UNCHANGED <<deployment, now, before, arrived>>
BY DEF Inv, TypeOK, Goto, history, StepBy, Same, Steps

(* A change of the store that keeps what rows promise *)
Sound(c) ==
  /\ Grows(c)
  /\ users' \in [Users -> Statuses \cup {"absent"}] /\ password' \subseteq Users
  /\ owner' \in [Tokens -> Users \cup {None}] /\ expires' \in [Tokens -> Nat \cup {None}]
  /\ revoked' \subseteq Tokens /\ used' \subseteq ApiTokens
  /\ \A t \in Sessions : owner'[t] # None => expires'[t] # None

(* Such are: no change at all, a new user, a new token, a revocation, and *)
(* a status that makes a user active only through an update               *)
LEMMA SoundStutter ==
  ASSUME Inv, NEW c \in Calls, UNCHANGED <<deployment, now, rows, logs>>
  PROVE  Sound(c)
BY DEF Inv, TypeOK, SharedInv, rows, userRows, tokenRows, logs, Sound, Grows, Exists, Active

(* See SoundStutter *)
LEMMA SoundInsertUser ==
  ASSUME Inv, NEW c \in Calls, NEW u \in Users, ~Exists(u), NEW pw \in SUBSET Users,
         NEW s \in Statuses, InsertUser(u, pw, s), UNCHANGED <<deployment, now, logs>>
  PROVE  Sound(c)
BY DEF Inv, TypeOK, SharedInv, InsertUser, tokenRows, logs, Sound, Grows, Exists, Active

(* See SoundStutter; a session has an expiry *)
LEMMA SoundInsertToken ==
  ASSUME Inv, NEW c \in Calls, NEW t \in Tokens, owner[t] = None, NEW u \in Users,
         NEW until \in Nat \cup {None}, t \in Sessions => until # None,
         InsertToken(t, u, until), UNCHANGED <<deployment, now, logs>>
  PROVE  Sound(c)
<1>1. Sessions \subseteq Tokens
  BY DEF Tokens
<1> QED
  BY <1>1 DEF Inv, TypeOK, SharedInv, InsertToken, userRows, logs, Sound, Grows, Exists, Active

(* See SoundStutter *)
LEMMA SoundSetRevoked ==
  ASSUME Inv, NEW c \in Calls, NEW t \in Tokens, SetRevoked(t),
         UNCHANGED <<deployment, now, logs>>
  PROVE  Sound(c)
BY DEF Inv, TypeOK, SharedInv, SetRevoked, userRows, logs, Sound, Grows, Exists, Active

(* See SoundStutter *)
LEMMA SoundSetStatus ==
  ASSUME Inv, NEW c \in Calls, NEW u \in Users, NEW s \in Statuses, SetStatus(u, s),
         s = "active" => Active(u) \/ Activates(c, u)', UNCHANGED <<deployment, now, logs>>
  PROVE  Sound(c)
<1>1. "absent" \notin Statuses
  BY DEF Statuses
<1>2. /\ TypeOK /\ SharedInv /\ users' = [users EXCEPT ![u] = s]
      /\ UNCHANGED <<deployment, now, password, owner, expires, revoked, used, loginLog, auditLog>>
  BY DEF Inv, SetStatus, tokenRows, logs
<1>3. \A x \in Users : Exists(x) =>
        users'[x] # "absent" /\ (users'[x] = "active" => Active(x) \/ Activates(c, x)')
  BY <1>1, <1>2 DEF Exists, Active, TypeOK
<1> QED
  BY <1>2, <1>3 DEF TypeOK, SharedInv, Sound, Grows

(* The changes that management makes, and what they leave of the request *)
LEMMA SoundChange ==
  ASSUME Inv, NEW c \in Calls, pc[c] = "act", Change(c), UNCHANGED <<deployment, now, logs>>,
         pc'[c] \in {"audit", "done"}
  PROVE  /\ Sound(c)
         /\ req' \in [Calls -> Requests] /\ \A d \in Calls \ {c} : req'[d] = req[d]
         /\ req'[c].op = req[c].op /\ req'[c].tok = req[c].tok /\ req'[c].status = req[c].status
         /\ req[c].op \notin {"create_api_token", "create_user"} => req'[c] = req[c]
         /\ req[c].op = "create_user" => req'[c].target \in Users
         /\ req[c].op = "create_api_token" =>
              req'[c].target \in ApiTokens /\ owner'[req'[c].target] # None
         /\ req[c].op = "revoke_api_token" => req[c].target \in revoked' \cap Tokens
                                              /\ owner[req[c].target] # None
         /\ req[c].op = "disable_user" => users'[req[c].target] = "disabled"
         /\ req[c].op = "update_user" => users'[req[c].target] = StatusWritten(c)
         /\ req[c].op \in Managing \ {"read"}
<1>1. /\ TypeOK /\ SharedInv /\ StepOf(c) /\ TargetOf(c) /\ NamesOf(c)
      /\ Accounts \subseteq Users /\ req[c] \in Requests
  BY ParameterAssumption DEF Inv, CallInv, TypeOK, Deployment, Accounts
<1>2. /\ req[c].tok \in Tokens /\ owner[req[c].tok] \in Users
      /\ ApiTokens \subseteq Tokens /\ Sessions \cap ApiTokens = {}
  BY <1>1, TokenAssumption DEF StepOf, NamesOf, TypeOK, Tokens
<1>3. CASE CreateAPIToken(c)
  <2>1. PICK t \in ApiTokens, until \in {None, now + TokenTTL} :
          /\ Is(c, "create_api_token") /\ owner[t] = None
          /\ InsertToken(t, owner[req[c].tok], until)
          /\ req' = [req EXCEPT ![c].target = t]
    BY <1>3 DEF CreateAPIToken
  <2>2. until \in Nat \cup {None}
    BY <1>1, ParameterAssumption DEF TypeOK
  <2>3. Sound(c)
    BY <1>2, <2>1, <2>2, SoundInsertToken
  <2>4. req'[c] = [req[c] EXCEPT !.target = t] /\ owner'[t] # None
    BY <1>1, <1>2, <2>1, TokenAssumption DEF TypeOK, InsertToken
  <2> QED
    BY <1>1, <2>1, <2>3, <2>4 DEF TypeOK, Requests, Is, Managing
<1>4. CASE RevokeAPIToken(c)
  <2>1. req[c].target \in Tokens
    BY <1>1, <1>2, <1>4 DEF RevokeAPIToken, TargetOf
  <2>2. Sound(c)
    BY <1>4, <2>1, SoundSetRevoked DEF RevokeAPIToken
  <2> QED
    BY <1>1, <1>4, <2>1, <2>2 DEF RevokeAPIToken, SetRevoked, Is, TypeOK, Managing
<1>5. CASE CreateUser(c)
  <2>1. PICK u \in Accounts, s \in Statuses :
          /\ Is(c, "create_user") /\ ~Exists(u) /\ InsertUser(u, {}, s)
          /\ req' = [req EXCEPT ![c].target = u]
    BY <1>5 DEF CreateUser, Statuses
  <2>2. Sound(c)
    BY <1>1, <2>1, SoundInsertUser
  <2>3. req'[c] = [req[c] EXCEPT !.target = u]
    BY <1>1, <2>1 DEF TypeOK
  <2> QED
    BY <1>1, <2>1, <2>2, <2>3 DEF TypeOK, Requests, Is, Managing
<1>6. CASE UpdateUser(c)
  <2>1. req[c].target \in Users /\ Exists(req[c].target) /\ Is(c, "update_user")
    BY <1>1, <1>6 DEF UpdateUser, SetStatus, TargetOf, Is
  <2>2. StatusWritten(c) \in Statuses
    BY <1>1, <2>1 DEF StatusWritten, TypeOK, Requests, Statuses, Exists
  <2>3. PICK u \in Users, s \in Statuses : u = req[c].target /\ s = StatusWritten(c)
    BY <2>1, <2>2
  <2>4. Sound(c)
    <3>1. SetStatus(u, s) /\ req' = req /\ deployment' = deployment
      BY <1>6, <2>3 DEF UpdateUser, SetStatus
    <3>2. s = "active" => Active(u) \/ Activates(c, u)'
      BY <2>1, <2>3, <3>1 DEF StatusWritten, Activates, Active, Is, MemoryStore
    <3> QED
      BY <3>1, <3>2, SoundSetStatus
  <2>5. users'[req[c].target] = StatusWritten(c) /\ req' = req
    BY <1>1, <1>6, <2>1 DEF UpdateUser, SetStatus, TypeOK
  <2> QED
    BY <1>1, <2>1, <2>4, <2>5 DEF Is, TypeOK, Managing
<1>7. CASE DisableUser(c)
  <2>1. req[c].target \in Users /\ Is(c, "disable_user")
    BY <1>1, <1>7 DEF DisableUser, TargetOf, Is
  <2>2. Sound(c)
    BY <1>7, <2>1, SoundSetStatus DEF DisableUser, Statuses
  <2> QED
    BY <1>1, <1>7, <2>1, <2>2 DEF DisableUser, SetStatus, Is, TypeOK, Managing
<1> QED
  BY <1>3, <1>4, <1>5, <1>6, <1>7 DEF Change

-----------------------------------------------------------------------------
(* Requests that end with an error *)

(* Whatever they have changed, they have closed nothing *)
LEMMA ErrorKeepsInv ==
  ASSUME Inv, NEW c \in Calls, NEW from \in {"count", "create", "revoke", "token", "user", "act"},
         NEW outcome \in {"conflict", "failed", "refused", "unauthenticated"},
         Goto(c, from, "done"), Decide(c, outcome), UNCHANGED logs, Sound(c),
         from \in {"token", "user"} => outcome = "unauthenticated",
         req' \in [Calls -> Requests], \A d \in Calls \ {c} : req'[d] = req[d],
         req'[c].op = req[c].op, req'[c].tok = req[c].tok,
         req'[c].target = req[c].target \/ req[c].op \in {"create_api_token", "create_user"}
  PROVE  Inv'
<1>1. TypeOK /\ StepOf(c) /\ TargetOf(c) /\ NamesOf(c) /\ LoginOf(c)
  BY DEF Inv, CallInv
<1>2. \A d \in Calls \ {c} : reply'[d] = reply[d]
  BY <1>1 DEF Decide, TypeOK
<1>3. /\ StepBy(c) /\ pc[c] = from /\ pc'[c] = "done" /\ pc' \in [Calls -> Steps]
      /\ UNCHANGED <<deployment, now, before, arrived>>
  <2>1. from \in Steps \ {"done"} /\ from # "audit" /\ "done" \in Steps
    BY DEF Steps
  <2> QED
    BY <1>2, <2>1, Moves DEF Sound
<1>4. /\ reply' = [reply EXCEPT ![c] = outcome] /\ reply'[c] = outcome
      /\ UNCHANGED <<loginLog, auditLog>>
  BY <1>1 DEF Decide, TypeOK, logs
<1>5. TypeOK'
  BY <1>1, <1>3, <1>4 DEF Sound, TypeOK, Steps
<1>6. \A op : ~Changed(c, op)'
  BY <1>4 DEF Changed
<1>7. StepOf(c)'
  <2>1. \A k \in before[c] : pc'[k] = "done"
    BY <1>1, <1>3 DEF StepOf, StepBy, Same, TypeOK
  <2> QED
    BY <1>1, <1>3, <1>4, <2>1 DEF StepOf, Is
<1>8. req[c].op \in Managing \cup {"logout", "setup"} /\ req[c].op # "login"
  BY <1>1, <1>3 DEF StepOf, Is, Managing
<1>9. TargetOf(c)'
  BY <1>1, <1>3, <1>6, <1>8 DEF TargetOf, Is
<1>10. NamesOf(c)'
  <2>1. \A t : Recorded(t)' <=> Recorded(t)
    BY <1>4 DEF Recorded
  <2>2. \A t \in Tokens : owner[t] # None => owner'[t] = owner[t]
    BY DEF Sound, Grows
  <2> QED
    BY <1>1, <1>3, <1>8, <2>1, <2>2 DEF NamesOf, Is
<1>11. LoginOf(c)'
  BY <1>1, <1>3, <1>4, <1>8 DEF LoginOf, Is
<1>12. /\ (LookedUp(c)' \/ Served(c)') => LookedUp(c) /\ Served(c)
       /\ LookedUp(c) => req[c].tok \in Tokens /\ owner[req[c].tok] # None
                         /\ owner'[req[c].tok] = owner[req[c].tok]
  <2>1. Served(c)' => pc[c] = "act" /\ reply[c] = "none" /\ req[c].op \in Managing
    BY <1>1, <1>3, <1>4 DEF Served, StepOf, Is, Managing
  <2>2. LookedUp(c)' => Served(c)'
    BY <1>3 DEF LookedUp
  <2>3. LookedUp(c) => req[c].tok \in Tokens /\ owner[req[c].tok] # None
    BY <1>1, <1>3 DEF LookedUp, NamesOf
  <2> QED
    BY <2>1, <2>2, <2>3 DEF LookedUp, Served, Sound, Grows
<1>13. \A u \in Users : FoundActive(c, u)' => FoundActive(c, u)
  <2> TAKE u \in Users
  <2>1. FoundActive(c, u)' => Served(c)' /\ owner'[req[c].tok] = u /\ req[c].op \in Managing
    BY <1>3, <1>8 DEF FoundActive, Is
  <2> QED
    BY <1>12, <2>1 DEF FoundActive
<1> QED
  BY <1>3, <1>5, <1>6, <1>7, <1>9, <1>10, <1>11, <1>12, <1>13, OwnStep
  DEF Revokes, Disables, Sound

(* The errors of every handler *)
LEMMA ErrorsKeepInv ==
  ASSUME Inv, NEW c \in Calls,
         \/ SetupFails(c) \/ RevokeSessionFails(c) \/ TokenRefused(c) \/ UserRefused(c)
         \/ ActRefused(c) \/ ActFails(c)
  PROVE  Inv'
<1>1. TypeOK /\ StepOf(c) /\ NamesOf(c) /\ Accounts \subseteq Users
  BY ParameterAssumption DEF Inv, CallInv, TypeOK, Deployment, Accounts
<1>2. ASSUME UNCHANGED <<deployment, now, rows, logs>> PROVE Sound(c)
  BY <1>2, SoundStutter
<1>3. req' = req => req' \in [Calls -> Requests]
  BY <1>1 DEF TypeOK
<1>4. CASE SetupFails(c)
  <2>1. Sound(c)
    <3>1. CASE UNCHANGED rows
      BY <1>2, <1>4, <3>1 DEF SetupFails, Goto
    <3>2. CASE \E u \in Accounts : ~Exists(u) /\ InsertUser(u, {u}, "active")
      BY <1>1, <1>4, <3>2, SoundInsertUser DEF SetupFails, Goto, Statuses
    <3> QED
      BY <1>4, <3>1, <3>2 DEF SetupFails
  <2>2. Goto(c, "count", "done") \/ Goto(c, "create", "done")
    BY <1>4 DEF SetupFails
  <2> QED
    BY <1>3, <1>4, <2>1, <2>2, ErrorKeepsInv DEF SetupFails
<1>5. CASE RevokeSessionFails(c)
  <2>1. req[c].tok \in Tokens
    BY <1>1, <1>5 DEF RevokeSessionFails, Goto, StepOf, NamesOf, Is
  <2>2. Sound(c)
    BY <1>2, <1>5, <2>1, SoundSetRevoked DEF RevokeSessionFails, Goto
  <2> QED
    BY <1>3, <1>5, <2>2, ErrorKeepsInv DEF RevokeSessionFails
<1>6. CASE TokenRefused(c)
  BY <1>2, <1>3, <1>6, ErrorKeepsInv DEF TokenRefused, Refuse, Goto
<1>7. CASE UserRefused(c)
  BY <1>2, <1>3, <1>7, ErrorKeepsInv DEF UserRefused, Refuse, Goto
<1>8. CASE ActRefused(c)
  BY <1>2, <1>3, <1>8, ErrorKeepsInv DEF ActRefused, Goto
<1>9. CASE ActFails(c)
  <2>1. CASE Change(c)
    <3>1. pc[c] = "act" /\ pc'[c] = "done" /\ UNCHANGED <<deployment, now, logs>>
      BY <1>1, <1>9 DEF ActFails, Goto, TypeOK
    <3> QED
      BY <1>9, <2>1, <3>1, SoundChange, ErrorKeepsInv DEF ActFails
  <2>2. CASE UNCHANGED <<rows, req>>
    BY <1>2, <1>3, <1>9, <2>2, ErrorKeepsInv DEF ActFails, Goto
  <2> QED
    BY <1>9, <2>1, <2>2 DEF ActFails
<1> QED
  BY <1>4, <1>5, <1>6, <1>7, <1>8, <1>9

-----------------------------------------------------------------------------
(* Requests that go on after a read *)

(* A read lets the request go on only for what it has found *)
LEMMA ReadKeepsInv ==
  ASSUME Inv, NEW c \in Calls, NEW from \in {"count", "find", "token", "user", "record"},
         NEW to \in {"create", "session", "user", "record", "act"}, Goto(c, from, to),
         UNCHANGED <<users, password, owner, expires, revoked, loginLog, auditLog, req, reply>>,
         used' \subseteq ApiTokens,
         from = "count" <=> to = "create", from = "find" <=> to = "session",
         from = "token" <=> to = "user", to = "record" => req[c].tok \in ApiTokens,
         from = "count" => \A u \in Users : ~Exists(u),
         from = "find" => Active(req[c].target),
         from = "token" => Accepts(req[c].tok),
         from = "user" => Active(owner[req[c].tok])
  PROVE  Inv'
<1>1. TypeOK /\ SharedInv /\ StepOf(c) /\ TargetOf(c) /\ NamesOf(c) /\ LoginOf(c)
  BY DEF Inv, CallInv
<1>2. Sound(c)
  BY <1>1 DEF Goto, TypeOK, SharedInv, Sound, Grows, Exists, Active
<1>3. /\ StepBy(c) /\ pc[c] = from /\ pc'[c] = to /\ pc' \in [Calls -> Steps]
      /\ UNCHANGED <<deployment, now, before, arrived>>
  <2>1. from \in Steps \ {"done"} /\ from # "audit" /\ to \in Steps
    BY DEF Steps
  <2> QED
    BY <1>2, <2>1, Moves DEF Sound
<1>4. TypeOK'
  BY <1>1, <1>3 DEF TypeOK, Steps
<1>5. reply[c] = "none" /\ \A op : ~Changed(c, op)'
  BY <1>1, <1>3 DEF StepOf, Changed
<1>6. StepOf(c)'
  <2>1. \A k \in before[c] : pc'[k] = "done"
    BY <1>1, <1>3 DEF StepOf, StepBy, Same, TypeOK
  <2> QED
    BY <1>1, <1>3, <1>5, <2>1 DEF StepOf, Is
<1>7. TargetOf(c)' /\ NamesOf(c)' /\ LoginOf(c)'
  <2>1. TargetOf(c)'
    BY <1>1, <1>3, <1>5 DEF TargetOf, Is
  <2>2. NamesOf(c)'
    BY <1>1, <1>3, <1>5 DEF NamesOf, Is, Recorded
  <2>3. LoginOf(c)'
    BY <1>1, <1>3 DEF LoginOf, Is
  <2> QED
    BY <2>1, <2>2, <2>3
<1>8. LookedUp(c)' => /\ req'[c].tok = req[c].tok /\ req[c].tok \in Tokens
                      /\ owner[req[c].tok] # None
                      /\ LookedUp(c) \/ Accepts(req[c].tok)
  <2>1. LookedUp(c)' => req[c].op \in Managing
    BY DEF LookedUp
  <2>2. req[c].op \in Managing => from \in {"token", "user", "record"}
    BY <1>1, <1>3 DEF StepOf, Is, Managing
  <2>3. req[c].op \in Managing => req[c].tok \in Tokens /\ owner[req[c].tok] # None
    BY <1>1, <1>3 DEF NamesOf
  <2> QED
    BY <1>3, <2>1, <2>2, <2>3 DEF LookedUp
<1>9. ASSUME NEW u \in Users, FoundActive(c, u)' PROVE FoundActive(c, u) \/ Active(u)
  <2>1. \/ req[c].op \in Managing /\ owner[req[c].tok] = u /\ pc'[c] \in {"record", "act"}
        \/ Is(c, "login") /\ req[c].target = u /\ pc'[c] = "session"
    BY <1>3, <1>5, <1>9 DEF FoundActive, Served, Is
  <2>2. CASE req[c].op \in Managing /\ owner[req[c].tok] = u /\ pc'[c] \in {"record", "act"}
    <3>1. from \in {"token", "user", "record"}
      BY <1>1, <1>3, <2>2 DEF StepOf, Is, Managing
    <3>2. CASE from = "token"
      BY <1>3, <2>2, <3>2
    <3> QED
      BY <1>3, <2>2, <3>1, <3>2 DEF FoundActive
  <2> QED
    BY <1>3, <2>1, <2>2
<1> QED
  BY <1>2, <1>3, <1>4, <1>5, <1>6, <1>7, <1>8, <1>9, OwnStep DEF Revokes, Disables, Sound

(* The reads of setup and of auth.Require *)
LEMMA ReadsKeepInv ==
  ASSUME Inv, NEW c \in Calls,
         \/ CountUsers(c) \/ FindToken(c) \/ FindUserByID(c) \/ RecordAPITokenUsed(c)
  PROVE  Inv'
<1>1. TypeOK /\ StepOf(c) /\ NamesOf(c)
  BY DEF Inv, CallInv
<1>2. CASE CountUsers(c)
  <2>1. CASE \E u \in Users : Exists(u)
    <3>1. UNCHANGED <<deployment, now, rows, logs>> /\ req' \in [Calls -> Requests]
      BY <1>1, <1>2, <2>1 DEF CountUsers, Goto, TypeOK
    <3> QED
      BY <1>2, <2>1, <3>1, SoundStutter, ErrorKeepsInv DEF CountUsers
  <2>2. CASE ~\E u \in Users : Exists(u)
    <3>1. Goto(c, "count", "create") /\ used' \subseteq ApiTokens
          /\ UNCHANGED <<users, password, owner, expires, revoked, loginLog, auditLog, req, reply>>
      BY <1>1, <1>2, <2>2 DEF CountUsers, rows, userRows, tokenRows, logs, TypeOK
    <3> QED
      BY <2>2, <3>1, ReadKeepsInv
  <2> QED
    BY <2>1, <2>2
<1>3. CASE FindToken(c)
  <2>1. used' \subseteq ApiTokens
        /\ UNCHANGED <<users, password, owner, expires, revoked, loginLog, auditLog, req, reply>>
    BY <1>1, <1>3 DEF FindToken, rows, userRows, tokenRows, logs, TypeOK
  <2> QED
    BY <1>3, <2>1, ReadKeepsInv DEF FindToken
<1>4. CASE FindUserByID(c)
  <2>1. used' \subseteq ApiTokens
        /\ UNCHANGED <<users, password, owner, expires, revoked, loginLog, auditLog, req, reply>>
    BY <1>1, <1>4 DEF FindUserByID, rows, userRows, tokenRows, logs, TypeOK
  <2> DEFINE to == IF req[c].tok \in ApiTokens THEN "record" ELSE "act"
  <2>2. Goto(c, "user", to) /\ to \in {"record", "act"} /\ (to = "record" => req[c].tok \in ApiTokens)
    BY <1>4 DEF FindUserByID
  <2> HIDE DEF to
  <2> QED
    BY <1>4, <2>1, <2>2, ReadKeepsInv DEF FindUserByID
<1>5. CASE RecordAPITokenUsed(c)
  <2>1. req[c].tok \in ApiTokens
    BY <1>1, <1>5 DEF RecordAPITokenUsed, Goto, StepOf
  <2>2. UNCHANGED <<users, password, owner, expires, revoked, loginLog, auditLog, req, reply>>
    BY <1>5 DEF RecordAPITokenUsed, userRows, logs
  <2> QED
    BY <1>1, <1>5, <2>1, <2>2, ReadKeepsInv DEF RecordAPITokenUsed, TypeOK
<1> QED
  BY <1>2, <1>3, <1>4, <1>5

-----------------------------------------------------------------------------
(* Setup, login and logout *)

(* The administrator of a setup that found no user *)
LEMMA CreateAdminKeepsInv ==
  ASSUME Inv, NEW c \in Calls, CreateAdmin(c)
  PROVE  Inv'
<1>1. /\ TypeOK /\ StepOf(c) /\ TargetOf(c) /\ NamesOf(c) /\ LoginOf(c)
      /\ Accounts \subseteq Users
  BY ParameterAssumption DEF Inv, CallInv, TypeOK, Deployment, Accounts
<1>2. PICK u \in Users : /\ ~Exists(u) /\ InsertUser(u, {u}, "active")
                         /\ req' = [req EXCEPT ![c].target = u]
  BY <1>1 DEF CreateAdmin
<1>3. Sound(c)
  BY <1>2, SoundInsertUser DEF CreateAdmin, Goto, Statuses
<1>4. /\ req'[c] = [req[c] EXCEPT !.target = u] /\ \A d \in Calls \ {c} : req'[d] = req[d]
      /\ req' \in [Calls -> Requests] /\ users'[u] = "active"
  BY <1>1, <1>2 DEF TypeOK, Requests, InsertUser
<1>5. /\ reply' = [reply EXCEPT ![c] = "ok"] /\ reply'[c] = "ok"
      /\ \A d \in Calls \ {c} : reply'[d] = reply[d]
      /\ UNCHANGED <<loginLog, auditLog>>
  BY <1>1 DEF CreateAdmin, Decide, logs, TypeOK
<1>6. /\ StepBy(c) /\ pc[c] = "create" /\ pc'[c] = "audit" /\ pc' \in [Calls -> Steps]
      /\ UNCHANGED <<deployment, now, before, arrived>>
  <2>1. "create" \in Steps \ {"done"} /\ "audit" \in Steps
    BY DEF Steps
  <2> QED
    BY <1>3, <1>4, <1>5, <2>1, Moves DEF CreateAdmin, Sound
<1>7. TypeOK'
  BY <1>1, <1>3, <1>4, <1>5, <1>6 DEF Sound, TypeOK, Steps
<1>8. req[c].op = "setup" /\ req'[c].op = "setup" /\ req'[c].target = u
  BY <1>1, <1>4, <1>6 DEF StepOf, Is, TypeOK, Requests
<1>9. StepOf(c)'
  <2>1. \A k \in before[c] : pc'[k] = "done"
    BY <1>1, <1>6 DEF StepOf, StepBy, Same, TypeOK
  <2> QED
    BY <1>1, <1>5, <1>6, <1>8, <2>1 DEF StepOf, Is, Managing
<1>10. TargetOf(c)' /\ NamesOf(c)' /\ LoginOf(c)'
  BY <1>1, <1>4, <1>5, <1>6, <1>8 DEF TargetOf, NamesOf, LoginOf, Is, Changed, Managing, Exists
<1>11. ~LookedUp(c)' /\ \A x \in Users : ~FoundActive(c, x)'
  BY <1>8 DEF LookedUp, FoundActive, Is, Managing
<1>12. \A x : ~Revokes(c, x)' /\ ~Disables(c, x)'
  BY <1>8 DEF Revokes, Disables, Changed
<1> QED
  BY <1>3, <1>6, <1>7, <1>9, <1>10, <1>11, <1>12, OwnStep DEF Sound

(* A login that is decided: its session, if it got one, is its user's *)
LEMMA LoginDecided ==
  ASSUME Inv, NEW c \in Calls, NEW from \in {"find", "session"},
         NEW outcome \in {"ok", "denied", "failed"},
         Goto(c, from, "log"), Decide(c, outcome), UNCHANGED logs, Sound(c),
         req' \in [Calls -> Requests], \A d \in Calls \ {c} : req'[d] = req[d],
         req'[c].op = req[c].op, req'[c].target = req[c].target,
         outcome = "ok" => /\ from = "session" /\ req'[c].tok \in Sessions
                           /\ owner'[req'[c].tok] = req[c].target
  PROVE  Inv'
<1>1. TypeOK /\ StepOf(c) /\ TargetOf(c) /\ NamesOf(c) /\ LoginOf(c)
  BY DEF Inv, CallInv
<1>2. /\ reply' = [reply EXCEPT ![c] = outcome] /\ reply'[c] = outcome
      /\ \A d \in Calls \ {c} : reply'[d] = reply[d]
      /\ UNCHANGED <<loginLog, auditLog>>
  BY <1>1 DEF Decide, logs, TypeOK
<1>3. /\ StepBy(c) /\ pc[c] = from /\ pc'[c] = "log" /\ pc' \in [Calls -> Steps]
      /\ UNCHANGED <<deployment, now, before, arrived>>
  <2>1. from \in Steps \ {"done"} /\ from # "audit" /\ "log" \in Steps
    BY DEF Steps
  <2> QED
    BY <1>2, <2>1, Moves DEF Sound
<1>4. TypeOK'
  BY <1>1, <1>2, <1>3 DEF Sound, TypeOK, Steps
<1>5. req[c].op = "login" /\ req'[c].op = "login"
  BY <1>1, <1>3 DEF StepOf, Is
<1>6. StepOf(c)'
  <2>1. \A k \in before[c] : pc'[k] = "done"
    BY <1>1, <1>3 DEF StepOf, StepBy, Same, TypeOK
  <2> QED
    BY <1>1, <1>2, <1>3, <1>5, <2>1 DEF StepOf, Is, Managing
<1>7. TargetOf(c)' /\ NamesOf(c)' /\ LoginOf(c)'
  BY <1>1, <1>2, <1>3, <1>5 DEF TargetOf, NamesOf, LoginOf, Is, Changed, Managing
<1>8. ~LookedUp(c)' /\ \A x : ~Revokes(c, x)' /\ ~Disables(c, x)'
  BY <1>5 DEF LookedUp, Revokes, Disables, Changed, Managing
<1>9. \A u \in Users : FoundActive(c, u)' => FoundActive(c, u)
  BY <1>2, <1>3, <1>5 DEF FoundActive, Is, Managing
<1>10. pc'[c] # "create" /\ ~Changed(c, "setup")'
  BY <1>3, <1>5 DEF Changed
<1> QED
  BY <1>3, <1>4, <1>6, <1>7, <1>8, <1>9, <1>10, OwnStep DEF Sound

(* A login before it is logged *)
LEMMA LoginKeepsInv ==
  ASSUME Inv, NEW c \in Calls, FindUserByEmail(c) \/ CreateSession(c) \/ CreateSessionFails(c)
  PROVE  Inv'
<1>1. /\ TypeOK /\ req[c] \in Requests
      /\ req' = req => req' \in [Calls -> Requests]
      /\ pc[c] = "session" => req[c].target \in Users
  BY DEF Inv, CallInv, StepOf, TargetOf, Is, TypeOK
<1>2. TokenTTL \in Nat /\ now + TokenTTL \in Nat /\ now + TokenTTL # None
      /\ Sessions \subseteq Tokens
  BY <1>1, ParameterAssumption, TokenAssumption DEF TypeOK, Tokens
<1>3. CASE FindUserByEmail(c)
  <2> DEFINE u == req[c].target
  <2>1. CASE u \in password /\ Active(u)
    <3>1. Goto(c, "find", "session") /\ used' \subseteq ApiTokens
          /\ UNCHANGED <<users, password, owner, expires, revoked, loginLog, auditLog, req, reply>>
      BY <1>1, <1>3, <2>1 DEF FindUserByEmail, rows, userRows, tokenRows, logs, TypeOK
    <3> QED
      BY <2>1, <3>1, ReadKeepsInv
  <2>2. CASE ~(u \in password /\ Active(u))
    <3>1. PICK outcome \in {"denied", "failed"} :
            /\ Goto(c, "find", "log") /\ Decide(c, outcome)
            /\ UNCHANGED <<rows, logs, req>>
      BY <1>3, <2>2 DEF FindUserByEmail
    <3>2. Sound(c)
      BY <3>1, SoundStutter DEF Goto
    <3> QED
      BY <1>1, <3>1, <3>2, LoginDecided
  <2> QED
    BY <2>1, <2>2
<1>4. CASE CreateSession(c)
  <2>1. PICK t \in Sessions : /\ owner[t] = None
                              /\ InsertToken(t, req[c].target, now + TokenTTL)
                              /\ req' = [req EXCEPT ![c].tok = t]
    BY <1>4 DEF CreateSession
  <2>2. Sound(c) /\ owner'[t] = req[c].target
    BY <1>1, <1>2, <1>4, <2>1, SoundInsertToken DEF CreateSession, Goto, InsertToken, TypeOK
  <2>3. /\ req'[c] = [req[c] EXCEPT !.tok = t] /\ req' \in [Calls -> Requests]
        /\ \A d \in Calls \ {c} : req'[d] = req[d]
    BY <1>1, <1>2, <2>1 DEF TypeOK, Requests
  <2>4. req'[c].op = req[c].op /\ req'[c].target = req[c].target /\ req'[c].tok = t
    BY <1>1, <2>3 DEF Requests
  <2> QED
    BY <1>4, <2>2, <2>3, <2>4, LoginDecided DEF CreateSession
<1>5. CASE CreateSessionFails(c)
  <2>1. CASE UNCHANGED rows
    <3>1. Sound(c)
      BY <1>5, <2>1, SoundStutter DEF CreateSessionFails, Goto
    <3> QED
      BY <1>1, <1>5, <3>1, LoginDecided DEF CreateSessionFails
  <2>2. CASE \E t \in Sessions : owner[t] = None /\ InsertToken(t, req[c].target, now + TokenTTL)
    <3>1. Sound(c)
      BY <1>1, <1>2, <1>5, <2>2, SoundInsertToken DEF CreateSessionFails, Goto
    <3> QED
      BY <1>1, <1>5, <3>1, LoginDecided DEF CreateSessionFails
  <2> QED
    BY <1>5, <2>1, <2>2 DEF CreateSessionFails
<1> QED
  BY <1>3, <1>4, <1>5

(* The log tells what the login has decided *)
LEMMA RecordLoginLogKeepsInv ==
  ASSUME Inv, NEW c \in Calls, RecordLoginLog(c)
  PROVE  Inv'
<1>1. TypeOK /\ SharedInv /\ StepOf(c) /\ TargetOf(c) /\ NamesOf(c) /\ LoginOf(c)
  BY DEF Inv, CallInv
<1>2. /\ UNCHANGED <<deployment, now, users, password, owner, expires, revoked, used, auditLog,
                     req, reply>>
      /\ loginLog' = loginLog \cup {LoginRow(c)} \/ (c \in Faulty /\ loginLog' = loginLog)
      /\ pc[c] = "log"
  BY DEF RecordLoginLog, Goto, rows, userRows, tokenRows
<1>3. Grows(c)
  BY <1>1, <1>2 DEF Grows, LoginRow, Exists, Active, TypeOK
<1>4. /\ StepBy(c) /\ pc'[c] = "done" /\ pc' \in [Calls -> Steps]
      /\ UNCHANGED <<before, arrived>>
  <2>1. "log" \in Steps \ {"done"} /\ "done" \in Steps
    BY DEF Steps
  <2> QED
    BY <1>2, <1>3, <2>1, Moves DEF RecordLoginLog
<1>5. req[c].op = "login" /\ reply[c] \in {"ok", "denied", "failed"}
  BY <1>1, <1>2 DEF StepOf, Is
<1>6. TypeOK'
  <2>1. LoginRow(c) \in [call : Calls, status : {"succeeded", "failed", "denied"}]
    BY <1>5 DEF LoginRow
  <2> QED
    BY <1>1, <1>2, <1>4, <2>1 DEF TypeOK, Steps
<1>7. StepOf(c)'
  <2>1. \A k \in before[c] : pc'[k] = "done"
    BY <1>1, <1>4 DEF StepOf, StepBy, Same, TypeOK
  <2> QED
    BY <1>1, <1>2, <1>4, <2>1 DEF StepOf, Is
<1>8. TargetOf(c)' /\ NamesOf(c)'
  BY <1>1, <1>2, <1>4, <1>5 DEF TargetOf, NamesOf, Is, Changed, Managing
<1>9. LoginOf(c)'
  <2>1. [call |-> c, status |-> "succeeded"] \notin loginLog
    BY <1>1, <1>2 DEF LoginOf
  <2>2. [call |-> c, status |-> "succeeded"] = LoginRow(c) => reply[c] = "ok"
    BY <1>5 DEF LoginRow
  <2>3. LoginRow(c)' = LoginRow(c) /\ Faulty' = Faulty
    BY <1>2 DEF LoginRow, Faulty
  <2>4. [call |-> c, status |-> "succeeded"] \in loginLog' => reply[c] = "ok"
    BY <1>2, <2>1, <2>2
  <2>5. c \notin Faulty => LoginRow(c) \in loginLog'
    BY <1>2
  <2> QED
    BY <1>2, <1>4, <1>5, <2>3, <2>4, <2>5 DEF LoginOf, Is
<1>10. ~LookedUp(c)' /\ \A x : ~Revokes(c, x)' /\ ~Disables(c, x)'
  BY <1>2, <1>5 DEF LookedUp, Revokes, Disables, Changed, Managing
<1>11. \A u \in Users : FoundActive(c, u)' => FoundActive(c, u)
  BY <1>2, <1>4, <1>5 DEF FoundActive, Is, Managing
<1>12. pc'[c] # "create" /\ ~Changed(c, "setup")'
  BY <1>2, <1>4, <1>5 DEF Changed
<1>13. \A t \in Sessions : owner'[t] # None => expires'[t] # None
  BY <1>1, <1>2 DEF SharedInv
<1> QED
  BY <1>4, <1>6, <1>7, <1>8, <1>9, <1>10, <1>11, <1>12, <1>13, OwnStep

(* A logout shuts its token, or finds it expired *)
LEMMA RevokeSessionKeepsInv ==
  ASSUME Inv, NEW c \in Calls, RevokeSession(c)
  PROVE  Inv'
<1>1. TypeOK /\ SharedInv /\ StepOf(c) /\ TargetOf(c) /\ NamesOf(c) /\ LoginOf(c)
  BY DEF Inv, CallInv
<1>2. PICK t \in Sessions :
        /\ t = req[c].tok /\ t \in Tokens /\ owner[t] # None
        /\ pc[c] = "revoke" /\ req[c].op = "logout" /\ req' = req
        /\ UNCHANGED <<deployment, now, loginLog, auditLog>>
  BY <1>1 DEF RevokeSession, Goto, StepOf, Is, NamesOf, logs
<1>3. Sound(c)
  <2>1. CASE UNCHANGED rows
    BY <1>2, <2>1, SoundStutter DEF logs
  <2>2. CASE SetRevoked(t)
    BY <1>2, <2>2, SoundSetRevoked DEF logs
  <2> QED
    BY <1>2, <2>1, <2>2 DEF RevokeSession
<1>4. ShutToken(t)'
  <2>1. CASE now > expires[t]
    BY <1>1, <1>2, <2>1
    DEF RevokeSession, ShutToken, SharedInv, rows, tokenRows
  <2>2. CASE ~(now > expires[t])
    BY <1>2, <2>2 DEF RevokeSession, SetRevoked, ShutToken
  <2> QED
    BY <2>1, <2>2
<1>5. /\ reply' = [reply EXCEPT ![c] = "ok"] /\ reply'[c] = "ok"
      /\ \A d \in Calls \ {c} : reply'[d] = reply[d]
  BY <1>1 DEF RevokeSession, Decide, TypeOK
<1>6. /\ StepBy(c) /\ pc'[c] = "done" /\ pc' \in [Calls -> Steps]
      /\ UNCHANGED <<before, arrived>>
  <2>1. "revoke" \in Steps \ {"done"} /\ "done" \in Steps
    BY DEF Steps
  <2> QED
    BY <1>2, <1>3, <1>5, <2>1, Moves DEF RevokeSession, Sound
<1>7. TypeOK'
  BY <1>1, <1>2, <1>3, <1>5, <1>6 DEF Sound, TypeOK, Steps
<1>8. StepOf(c)'
  <2>1. \A k \in before[c] : pc'[k] = "done"
    BY <1>1, <1>6 DEF StepOf, StepBy, Same, TypeOK
  <2> QED
    BY <1>1, <1>2, <1>6, <2>1 DEF StepOf, Is
<1>9. TargetOf(c)' /\ NamesOf(c)' /\ LoginOf(c)'
  <2>1. owner'[t] = owner[t]
    BY <1>2, <1>3 DEF Sound, Grows
  <2>2. TargetOf(c)' /\ LoginOf(c)'
    BY <1>1, <1>2, <1>5, <1>6 DEF TargetOf, LoginOf, Is, Changed
  <2>3. NamesOf(c)'
    BY <1>2, <1>6, <2>1 DEF NamesOf, Is, Managing
  <2> QED
    BY <2>2, <2>3
<1>10. ~LookedUp(c)' /\ \A x : ~FoundActive(c, x)' /\ ~Disables(c, x)' /\ ~Changed(c, "setup")'
  BY <1>2 DEF LookedUp, FoundActive, Is, Disables, Changed, Managing
<1>11. \A x : Revokes(c, x)' => x = t
  BY <1>2 DEF Revokes, Changed
<1> QED
  BY <1>3, <1>4, <1>6, <1>7, <1>8, <1>9, <1>10, <1>11, OwnStep DEF Sound

-----------------------------------------------------------------------------
(* Requests that are served *)

(* What management has changed is in the store *)
LEMMA ServedKeepsInv ==
  ASSUME Inv, NEW c \in Calls, Read(c) \/ Act(c)
  PROVE  Inv'
<1>1. /\ TypeOK /\ SharedInv /\ StepOf(c) /\ TargetOf(c) /\ NamesOf(c) /\ LoginOf(c)
      /\ req[c] \in Requests
  BY DEF Inv, CallInv, TypeOK
<1>2. PICK to \in {"audit", "done"} : Goto(c, "act", to) /\ (Act(c) => to = "audit")
                                      /\ (Read(c) => to = "done")
  BY DEF Read, Act, Goto, Is, Change, CreateAPIToken, RevokeAPIToken, CreateUser, UpdateUser, DisableUser
<1>3. /\ pc[c] = "act" /\ pc'[c] = to /\ UNCHANGED <<deployment, now, loginLog, auditLog>>
      /\ req[c].op \in Managing
      /\ req[c].tok \in Tokens /\ owner[req[c].tok] # None
  BY <1>1, <1>2 DEF Read, Act, Goto, logs, StepOf, NamesOf, TypeOK
<1>4. /\ Sound(c)
      /\ req' \in [Calls -> Requests] /\ \A d \in Calls \ {c} : req'[d] = req[d]
      /\ req'[c].op = req[c].op /\ req'[c].tok = req[c].tok /\ req'[c].status = req[c].status
      /\ req[c].op \notin {"create_api_token", "create_user"} => req'[c] = req[c]
  <2>1. CASE Read(c)
    BY <1>1, <1>3, <2>1, SoundStutter DEF Read, TypeOK, logs
  <2>2. CASE Act(c)
    BY <1>1, <1>2, <1>3, <2>2, SoundChange DEF Act, logs
  <2> QED
    BY <2>1, <2>2
<1>5. \/ req[c].op = "read" /\ to = "done"
      \/ /\ to = "audit"
         /\ req[c].op = "create_user" => req'[c].target \in Users
         /\ req[c].op = "create_api_token" =>
              req'[c].target \in ApiTokens /\ owner'[req'[c].target] # None
         /\ req[c].op = "revoke_api_token" => req[c].target \in revoked' \cap Tokens
                                              /\ owner[req[c].target] # None
         /\ req[c].op = "disable_user" => users'[req[c].target] = "disabled"
         /\ req[c].op = "update_user" => users'[req[c].target] = StatusWritten(c)
         /\ req[c].op \in Managing \ {"read"}
  <2>1. CASE Read(c)
    BY <1>2, <2>1 DEF Read, Is
  <2>2. CASE Act(c)
    BY <1>1, <1>2, <1>3, <2>2, SoundChange DEF Act, logs
  <2> QED
    BY <2>1, <2>2
<1>6. /\ reply' = [reply EXCEPT ![c] = "ok"] /\ reply'[c] = "ok" /\ reply[c] = "none"
      /\ \A d \in Calls \ {c} : reply'[d] = reply[d]
  BY <1>1, <1>3 DEF Read, Act, Decide, TypeOK, StepOf
<1>7. /\ StepBy(c) /\ pc' \in [Calls -> Steps] /\ UNCHANGED <<before, arrived>>
  <2>1. "act" \in Steps \ {"done"} /\ to \in Steps
    BY DEF Steps
  <2> QED
    BY <1>2, <1>4, <1>6, <2>1, Moves DEF Sound
<1>8. TypeOK'
  BY <1>1, <1>3, <1>4, <1>6, <1>7 DEF Sound, TypeOK, Steps
<1>9. StepOf(c)'
  <2>1. \A k \in before[c] : pc'[k] = "done"
    BY <1>1, <1>7 DEF StepOf, StepBy, Same, TypeOK
  <2> QED
    BY <1>1, <1>3, <1>4, <1>5, <1>6, <1>7, <2>1 DEF StepOf, Is, Managing
<1>10. TargetOf(c)' /\ NamesOf(c)' /\ LoginOf(c)'
  <2>1. req[c].op \in {"update_user", "disable_user"} => req[c].target \in Users
    BY <1>1, <1>3 DEF TargetOf
  <2>2. req[c].op = "revoke_api_token" => req[c].target \in ApiTokens
    BY <1>1, <1>3 DEF TargetOf, Is
  <2>3. req[c].op \notin {"setup", "login", "logout"}
    BY <1>3 DEF Managing
  <2>4. to = "audit" => req'[c].target \in Users \cup ApiTokens
    BY <1>4, <1>5, <2>1, <2>2 DEF Managing
  <2>5. TargetOf(c)'
    BY <1>3, <1>4, <1>5, <2>1, <2>2, <2>3, <2>4 DEF TargetOf, Is, Changed
  <2>6. NamesOf(c)'
    <3>1. owner'[req[c].tok] = owner[req[c].tok] /\ Recorded(req[c].tok)' = Recorded(req[c].tok)
      BY <1>3, <1>4 DEF Sound, Grows, Recorded
    <3> QED
      BY <1>1, <1>3, <1>4, <2>3, <3>1 DEF NamesOf, Is
  <2>7. LoginOf(c)'
    BY <1>1, <1>3, <1>4, <2>3 DEF LoginOf, Is
  <2> QED
    BY <2>5, <2>6, <2>7
<1>11. /\ LookedUp(c)
       /\ \A u \in Users : FoundActive(c, u)' => FoundActive(c, u)
  <2>1. Served(c) /\ owner'[req[c].tok] = owner[req[c].tok]
    BY <1>3, <1>4, <1>6 DEF Served, Sound, Grows
  <2> QED
    BY <1>3, <1>4, <2>1 DEF LookedUp, FoundActive, Is, Managing
<1>12. ASSUME NEW t \in Tokens, Revokes(c, t)' PROVE ShutToken(t)'
  <2>1. req[c].op = "revoke_api_token" /\ t = req[c].target
    BY <1>3, <1>4, <1>12 DEF Revokes, Changed, Managing
  <2>2. t \in revoked' /\ owner[t] # None /\ owner'[t] = owner[t]
    BY <1>4, <1>5, <2>1 DEF Sound, Grows
  <2> QED
    BY <2>2 DEF ShutToken
<1>13. ASSUME NEW u \in Users, Disables(c, u)' PROVE Exists(u)' /\ ~Active(u)'
  <2>1. /\ req'[c] = req[c] /\ u = req[c].target
        /\ \/ req[c].op = "disable_user"
           \/ req[c].op = "update_user" /\ req[c].status \in {"disabled", "locked"}
    BY <1>4, <1>13 DEF Disables, Changed
  <2>2. users'[u] \in {"disabled", "locked"}
    <3>1. None \notin {"disabled", "locked"}
      BY TokenAssumption DEF Statuses
    <3> QED
      BY <1>5, <2>1, <3>1 DEF StatusWritten
  <2> QED
    BY <2>2 DEF Exists, Active
<1>14. pc'[c] # "create" /\ ~Changed(c, "setup")'
  BY <1>3, <1>4 DEF Changed, Managing
<1> QED
  BY <1>3, <1>4, <1>7, <1>8, <1>9, <1>10, <1>11, <1>12, <1>13, <1>14, OwnStep DEF Sound

(* The audit event of a change, or the error that it could not be written *)
LEMMA AuditKeepsInv ==
  ASSUME Inv, NEW c \in Calls, WriteAudit(c) \/ AuditFails(c)
  PROVE  Inv'
<1>1. TypeOK /\ SharedInv /\ StepOf(c) /\ TargetOf(c) /\ NamesOf(c) /\ LoginOf(c)
      /\ TokenOf(c) /\ UserOf(c)
  BY DEF Inv, CallInv
<1>2. /\ Goto(c, "audit", "done") /\ pc[c] = "audit" /\ reply[c] = "ok"
      /\ UNCHANGED <<deployment, now, users, password, owner, expires, revoked, used, loginLog, req>>
      /\ \/ auditLog' = auditLog \cup {Event(c)} /\ reply' = reply
         \/ auditLog' = auditLog /\ reply' = [reply EXCEPT ![c] = "internal_error"]
  BY <1>1 DEF WriteAudit, AuditFails, Decide, Goto, rows, userRows, tokenRows, logs, StepOf
<1>3. /\ reply'[c] \in {"ok", "internal_error"} /\ \A d \in Calls \ {c} : reply'[d] = reply[d]
      /\ reply' \in [Calls -> Replies]
      /\ reply'[c] = "ok" => auditLog' = auditLog \cup {Event(c)}
  BY <1>1, <1>2 DEF TypeOK, Replies
<1>4. req[c].op \in {"setup"} \cup (Managing \ {"read"}) /\ Event(c).action = req[c].op
      /\ Event(c) \in [action : Ops, target : Users \cup ApiTokens]
  BY <1>1, <1>2 DEF StepOf, TargetOf, Event, Ops
<1>5. Grows(c)
  <2>1. \A e \in auditLog' \ auditLog : e.action # "bootstrap_initial_admin"
    BY <1>2, <1>4 DEF Managing
  <2> QED
    BY <1>1, <1>2, <2>1 DEF Grows, Exists, Active, TypeOK
<1>6. /\ StepBy(c) /\ pc'[c] = "done" /\ pc' \in [Calls -> Steps] /\ UNCHANGED <<before, arrived>>
  <2>1. "audit" \in Steps \ {"done"} /\ "done" \in Steps
    BY DEF Steps
  <2> QED
    BY <1>2, <1>3, <1>5, <2>1, Moves
<1>7. TypeOK'
  BY <1>1, <1>2, <1>3, <1>4, <1>6 DEF TypeOK, Steps, Replies
<1>8. StepOf(c)'
  <2>1. \A k \in before[c] : pc'[k] = "done"
    BY <1>1, <1>6 DEF StepOf, StepBy, Same, TypeOK
  <2> QED
    BY <1>1, <1>2, <1>6, <2>1 DEF StepOf, Is
<1>9. \A op : Changed(c, op)' <=> Changed(c, op)
  BY <1>2, <1>3 DEF Changed
<1>10. TargetOf(c)' /\ NamesOf(c)' /\ LoginOf(c)'
  <2>1. \A t : Recorded(t) => Recorded(t)'
    BY <1>2 DEF Recorded
  <2>2. req[c].op = "create_api_token" /\ reply'[c] = "ok" => Recorded(req[c].target)'
    BY <1>2, <1>3 DEF Recorded, Event
  <2>3. req[c].op \notin {"login", "logout"}
    BY <1>4 DEF Managing
  <2>4. TargetOf(c)'
    BY <1>1, <1>2, <1>3, <1>6, <1>9, <2>2 DEF TargetOf, Is, Exists, Changed
  <2>5. NamesOf(c)'
    BY <1>1, <1>2, <2>1, <2>3 DEF NamesOf, Is
  <2>6. LoginOf(c)'
    BY <1>1, <1>2, <2>3 DEF LoginOf, Is
  <2> QED
    BY <2>4, <2>5, <2>6
<1>11. LookedUp(c)' => LookedUp(c) /\ req[c].tok \in Tokens /\ owner[req[c].tok] # None
  BY <1>1, <1>2, <1>6 DEF LookedUp, Served, NamesOf
<1>12. \A u \in Users : FoundActive(c, u)' => FoundActive(c, u)
  BY <1>2, <1>4, <1>6 DEF FoundActive, Served, Is, Managing
<1>13. \A t \in Tokens : Revokes(c, t)' => ShutToken(t)'
  BY <1>1, <1>2, <1>9 DEF Revokes, TokenOf, ShutToken
<1>14. ASSUME NEW u \in Users, Disables(c, u)'
       PROVE  Exists(u)' /\ (Active(u)' => Reactivated(c, u)')
  <2>1. Exists(u) /\ (Active(u) => Reactivated(c, u))
    BY <1>1, <1>2, <1>9, <1>14 DEF UserOf, Disables
  <2>2. \A e \in Calls : Activates(e, u) => Activates(e, u)'
    BY <1>2, <1>6 DEF Activates, Is, MemoryStore, StepBy, Same
  <2> QED
    BY <1>2, <1>6, <2>1, <2>2 DEF Exists, Active, Reactivated
<1>15. pc'[c] # "create"
  BY <1>6
<1>16. \A t \in Sessions : owner'[t] # None => expires'[t] # None
  BY <1>1, <1>2 DEF SharedInv
<1> QED
  BY <1>2, <1>6, <1>7, <1>8, <1>9, <1>10, <1>11, <1>12, <1>13, <1>14, <1>15, <1>16, OwnStep

-----------------------------------------------------------------------------
(* The invariant holds for every number of requests, users and tokens *)

(* The clock shuts tokens, and nothing else hangs on it *)
LEMMA TickKeepsInv ==
  ASSUME Inv, Tick
  PROVE  Inv'
<1>1. /\ TypeOK /\ SharedInv /\ now' = now + 1 /\ now \in Nat
      /\ UNCHANGED <<deployment, users, password, owner, expires, revoked, used, loginLog,
                     auditLog, pc, req, reply, before, arrived>>
  BY DEF Inv, Tick, TypeOK, rows, userRows, tokenRows, logs, history
<1>2. TypeOK'
  BY <1>1 DEF TypeOK
<1>3. SharedInv'
  BY <1>1 DEF SharedInv, Bootstrap, Exists
<1>4. ASSUME NEW c \in Calls PROVE CallInv(c)'
  <2>1. StepOf(c) /\ TargetOf(c) /\ NamesOf(c) /\ TokenOf(c) /\ UserOf(c) /\ SetupOf(c)
        /\ LoginOf(c)
    BY DEF Inv, CallInv
  <2>2. StepOf(c)'
    BY <1>1, <2>1 DEF StepOf, Is, TypeOK
  <2>3. TargetOf(c)' /\ NamesOf(c)'
    BY <1>1, <2>1 DEF TargetOf, NamesOf, Is, Changed, Recorded, Exists
  <2>4. TokenOf(c)'
    <3>1. \A t \in Tokens : ShutToken(t) => ShutToken(t)'
      BY <1>1, TokenAssumption DEF ShutToken, TypeOK
    <3> QED
      BY <1>1, <2>1, <3>1 DEF TokenOf, Revokes, Changed, LookedUp, Served
  <2>5. UserOf(c)'
    BY <1>1, <2>1
    DEF UserOf, Disables, Changed, Exists, Active, Reactivated, Activates, Is, MemoryStore,
        FoundActive, Served
  <2>6. SetupOf(c)' /\ LoginOf(c)'
    BY <1>1, <2>1 DEF SetupOf, LoginOf, Changed, Bootstrap, Is, LoginRow, Faulty
  <2> QED
    BY <2>2, <2>3, <2>4, <2>5, <2>6 DEF CallInv
<1> QED
  BY <1>2, <1>3, <1>4 DEF Inv

(* A stuttering step changes nothing the invariant reads *)
LEMMA StutterKeepsInv ==
  ASSUME Inv, UNCHANGED vars
  PROVE  Inv'
<1>1. UNCHANGED <<deployment, users, password, owner, expires, revoked, used, loginLog,
                  auditLog, now, pc, req, reply, before, arrived>>
  BY DEF vars, rows, userRows, tokenRows, logs, history
<1>2. TypeOK' /\ SharedInv'
  BY <1>1 DEF Inv, TypeOK, SharedInv, Bootstrap, Exists
<1>3. ASSUME NEW c \in Calls PROVE CallInv(c)'
  <2>1. CallInv(c)
    BY DEF Inv
  <2>2. StepOf(c)' /\ TargetOf(c)' /\ NamesOf(c)'
    BY <1>1, <2>1 DEF CallInv, StepOf, TargetOf, NamesOf, Is, Changed, Recorded, Exists
  <2>3. TokenOf(c)'
    BY <1>1, <2>1 DEF CallInv, TokenOf, Revokes, Changed, LookedUp, Served, ShutToken
  <2>4. UserOf(c)'
    BY <1>1, <2>1
    DEF CallInv, UserOf, Disables, Changed, Exists, Active, Reactivated, Activates, Is,
        MemoryStore, FoundActive, Served
  <2>5. SetupOf(c)' /\ LoginOf(c)'
    BY <1>1, <2>1 DEF CallInv, SetupOf, LoginOf, Changed, Bootstrap, Is, LoginRow, Faulty
  <2> QED
    BY <2>2, <2>3, <2>4, <2>5 DEF CallInv
<1> QED
  BY <1>2, <1>3 DEF Inv

(* What the steps of the handlers rely on holds whatever the interleaving, *)
(* the store and the accesses that fail.                                   *)
THEOREM IdentityInvariant == Spec => []Inv
<1>1. Inv /\ [Next]_vars => Inv'
  <2> SUFFICES ASSUME Inv, [Next]_vars PROVE Inv'
    OBVIOUS
  <2>1. ASSUME NEW c \in Calls, Public(c) PROVE Inv'
    BY <2>1, ArrivalsKeepInv, ReadsKeepInv, CreateAdminKeepsInv, ErrorsKeepInv, LoginKeepsInv,
       RecordLoginLogKeepsInv, RevokeSessionKeepsInv DEF Public
  <2>2. ASSUME NEW c \in Calls, Authenticate(c) PROVE Inv'
    BY <2>2, ArrivalsKeepInv, ReadsKeepInv, ErrorsKeepInv DEF Authenticate
  <2>3. ASSUME NEW c \in Calls, Manage(c) PROVE Inv'
    BY <2>3, ServedKeepsInv, ErrorsKeepInv DEF Manage
  <2>4. ASSUME NEW c \in Calls, WriteAudit(c) \/ AuditFails(c) PROVE Inv'
    BY <2>4, AuditKeepsInv
  <2>5. CASE Tick
    BY <2>5, TickKeepsInv
  <2>6. CASE UNCHANGED vars
    BY <2>6, StutterKeepsInv
  <2> QED
    BY <2>1, <2>2, <2>3, <2>4, <2>5, <2>6 DEF Next
<1> QED
  BY InvInit, <1>1, PTL DEF Spec

-----------------------------------------------------------------------------
(* What clients and administrators are promised *)

(* One status per user, one row per token, whatever the requests do *)
THEOREM IdentityTypes == Spec => []TypeOK
<1>1. Inv => TypeOK
  BY DEF Inv
<1> QED
  BY <1>1, IdentityInvariant, PTL

(* The answer to a logout or a revocation is final: no request that comes  *)
(* later is served for the token, whatever was under way.                  *)
THEOREM RevocationIsFinal == Spec => []RevokedTokenRefused
<1>1. Inv => RevokedTokenRefused
  <2> SUFFICES ASSUME Inv, NEW c \in Calls, NEW d \in Calls, c \in before[d],
                      Revokes(c, req[d].tok), Served(d)
               PROVE  FALSE
    BY DEF RevokedTokenRefused
  <2> QED
    BY DEF Inv, CallInv, TokenOf, LookedUp, Served
<1> QED
  BY <1>1, IdentityInvariant, PTL

(* Nobody is served or logged in as a user after the answer that disabled  *)
(* or locked the user, but through an update that makes the user active.   *)
THEOREM DisablingIsFinal == Spec => []DisabledUserRefused
<1>1. Inv => DisabledUserRefused
  <2> SUFFICES ASSUME Inv, NEW c \in Calls, NEW d \in Calls, NEW u \in Users,
                      c \in before[d], Disables(c, u), ActsAs(d, u)
               PROVE  Reactivated(c, u)
    BY DEF DisabledUserRefused, Reactivated
  <2>1. FoundActive(d, u)
    BY DEF ActsAs, FoundActive, Served
  <2> QED
    BY <2>1 DEF Inv, CallInv, UserOf
<1> QED
  BY <1>1, IdentityInvariant, PTL

(* A token is of no use to a request that arrives once it has expired *)
THEOREM ExpiryHolds == Spec => []ServedInTime
<1>1. Inv => ServedInTime
  BY DEF Inv, CallInv, TokenOf, LookedUp, Served, ServedInTime
<1> QED
  BY <1>1, IdentityInvariant, PTL

(* No API token is in use whose creation the audit does not tell *)
THEOREM TokensAreAudited == Spec => []TokensOnRecord
<1>1. Inv => TokensOnRecord
  BY DEF Inv, CallInv, NamesOf, Served, Recorded, TokensOnRecord
<1> QED
  BY <1>1, IdentityInvariant, PTL

(* The login log tells of every login, and of no session that is not there *)
THEOREM LoginsAreLogged == Spec => []LoginsOnRecord
<1>1. Inv => LoginsOnRecord
  BY DEF Inv, CallInv, NamesOf, LoginOf, LoginsOnRecord
<1> QED
  BY <1>1, IdentityInvariant, PTL

(* Setup stays closed once it has been answered, or was never needed *)
THEOREM SetupStaysClosed == Spec => []SetupClosed
<1>1. Inv => SetupClosed
  BY DEF Inv, CallInv, SetupOf, Bootstrap, SetupClosed
<1> QED
  BY <1>1, IdentityInvariant, PTL
=============================================================================
