--------------------------- MODULE ConnectionPool ---------------------------
(***************************************************************************)
(* The connections of the MySQL store: how its calls take them from the    *)
(* bounded pool of database/sql and give them back.  Most calls hold one   *)
(* connection for a statement or a transaction.  The lists of groups,      *)
(* address books, control roles and strategies keep the connection of      *)
(* their rows while each row runs a second query on another connection, so *)
(* that requests may wait for one another.  The pool waits as long as the  *)
(* request's context lives, and no route sets a deadline: only a client    *)
(* that goes away (or the proxy, for it) ends the wait, and an error       *)
(* closes the rows it holds.                                               *)
(*                                                                         *)
(* Abstraction: whatever statements a request runs one after another, each *)
(* takes and frees one connection like the token's lookup, here the first. *)
(***************************************************************************)
EXTENDS Integers, FiniteSets

CONSTANTS
  Patient,    \* clients that wait for their answer, however long it takes
  Impatient,  \* those that may go away; each client has one request at a time
  PoolSize    \* SetMaxOpenConns

Callers == Patient \cup Impatient

(* A patient list may hold one connection and wait for another; with fewer *)
(* patient clients than connections one is always free for it in the end   *)
ASSUME PoolAssumption ==
  /\ PoolSize \in Nat \ {0}
  /\ IsFiniteSet(Callers)
  /\ Patient \cap Impatient = {}
  /\ Cardinality(Patient) < PoolSize

VARIABLES
  step,  \* what a handler does: it waits for a connection ("auth", "query",
         \* "row") or uses one ("authenticating", "statement", "rows", "in_row")
  held   \* the connections it holds

poolVars == <<step, held>>

Steps == {"auth", "authenticating", "query", "statement", "rows", "row", "in_row"}

PoolInit ==
  /\ step = [c \in Callers |-> "idle"]
  /\ held = [c \in Callers |-> 0]

(* A handler's first connection, and its second *)
Connections == {x \in Callers \X (1..2) : x[2] <= held[x[1]]}

InUse == Cardinality(Connections)

Goto(c, from, to) == step[c] = from /\ step' = [step EXCEPT ![c] = to]

Keep == UNCHANGED held
Hold(c, n) == held' = [held EXCEPT ![c] = n]

Handle(c) == Goto(c, "idle", "auth") /\ Keep

(* Variant: SetMaxOpenConns counts the connections of one handler *)
AcquireEach(c) ==
  /\ held[c] < PoolSize
  /\ \/ Goto(c, "auth", "authenticating")
     \/ Goto(c, "query", "statement")
     \/ Goto(c, "query", "rows")
     \/ Goto(c, "row", "in_row")
  /\ Hold(c, held[c] + 1)

(* DB.conn: a connection is free, or may be opened *)
Acquire(c) ==
  /\ InUse < PoolSize
  /\ \/ Goto(c, "auth", "authenticating")
     \/ Goto(c, "query", "statement")
     \/ Goto(c, "query", "rows")
     \/ Goto(c, "row", "in_row")
  /\ Hold(c, held[c] + 1)

(* AuthenticateRequest's statements are done *)
Authenticated(c) == Goto(c, "authenticating", "query") /\ Hold(c, 0)

(* The answer of a call that needs one connection *)
Finish(c) == Goto(c, "statement", "idle") /\ Hold(c, 0)

(* ListUserGroups, ListDeviceGroups, ListAddressBooks, ListControlRoles and *)
(* ListStrategies: rows.Next finds a row, whose members are a second query  *)
NextRow(c) == Goto(c, "rows", "row") /\ Keep

RowDone(c) == Goto(c, "in_row", "rows") /\ Hold(c, 1)

NoMoreRows(c) == Goto(c, "rows", "idle") /\ Hold(c, 0)

(* Variant: the second query does not take the request's context *)
GiveUpBetweenRows(c) ==
  /\ c \in Impatient
  /\ step[c] \notin {"idle", "row", "in_row"}
  /\ step' = [step EXCEPT ![c] = "idle"]
  /\ Hold(c, 0)

(* The client is gone: the statement, or the wait for a connection, fails *)
(* with the context's error, and the deferred rows.Close frees the rows   *)
GiveUp(c) ==
  /\ c \in Impatient
  /\ step[c] # "idle"
  /\ step' = [step EXCEPT ![c] = "idle"]
  /\ Hold(c, 0)

Use(c) ==
  Authenticated(c) \/ Finish(c) \/ NextRow(c) \/ RowDone(c) \/ NoMoreRows(c)

(* Every statement ends, a wait of an impatient client ends, a list has    *)
(* at most 500 rows, and of those that wait for connections freed again    *)
(* and again each gets one: the pool prefers no waiter for ever            *)
PoolFairness ==
  \A c \in Callers :
    /\ WF_poolVars(Use(c) \/ GiveUp(c))
    /\ SF_poolVars(NoMoreRows(c))
    /\ SF_poolVars(Acquire(c))

PoolTypeOK ==
  /\ step \in [Callers -> {"idle"} \cup Steps]
  /\ held \in [Callers -> 0..2]
  /\ InUse <= PoolSize

(* ListStrategies and the other nested lists: although requests hold       *)
(* connections that others wait for, the request of a patient client is    *)
(* answered, because those of impatient ones free theirs when they end.    *)
PatientAnswered == \A c \in Patient : step[c] # "idle" ~> step[c] = "idle"
=============================================================================
