---------------------------- MODULE Deployment ----------------------------
(***************************************************************************)
(* An upgrade in the order of docs/deployment/distributed.md: migrations,  *)
(* then the API, which serves requests through the rate limiter and, for   *)
(* those it admits, the connections of the MySQL store.                    *)
(***************************************************************************)
EXTENDS Migrations, RateLimiter, ConnectionPool

(* The other clients ask for the health route, which no store call answers *)
ASSUME ClientAssumption == Callers \subseteq Clients

VARIABLE serving   \* whether the API has been started

servingVars == <<limiterVars, poolVars>>
vars == <<schemaVars, servingVars, serving>>

Init == SchemaInit /\ LimiterInit /\ PoolInit /\ serving = FALSE

MigrateStep(m) == Migrate(m) /\ UNCHANGED <<servingVars, serving>>

(* The API looks for the database only: that it has been migrated is up to *)
(* the operator, who has seen `migrations applied`                         *)
Launch ==
  /\ ~serving
  /\ \A m \in Migrators : Ended(m)
  /\ \E m \in Migrators : At(m, "ok")
  /\ serving' = TRUE
  /\ run' = [m \in Migrators |-> "gone"]
  /\ UNCHANGED <<made, recorded, file, line, servingVars>>

Request(c) ==
  /\ serving
  /\ c \in Callers => step[c] = "idle"
  /\ ReadClock(c)
  /\ UNCHANGED <<schemaVars, poolVars, serving>>

Pass(c) ==
  /\ Admit(c)
  /\ IF c \in Callers THEN Handle(c) ELSE UNCHANGED poolVars
  /\ UNCHANGED <<schemaVars, serving>>

TooMany(c) == Refuse(c) /\ UNCHANGED <<schemaVars, poolVars, serving>>

StoreStep(c) ==
  /\ c \in Callers
  /\ Acquire(c) \/ Use(c) \/ GiveUp(c)
  /\ UNCHANGED <<schemaVars, limiterVars, serving>>

Time == serving /\ Tick /\ UNCHANGED <<schemaVars, poolVars, serving>>

Next ==
  \/ \E m \in Migrators : MigrateStep(m)
  \/ Launch
  \/ \E c \in Clients : Request(c) \/ Pass(c) \/ TooMany(c) \/ StoreStep(c)
  \/ Time

Spec == Init /\ [][Next]_vars

FairSpec == Spec /\ SchemaFairness /\ PoolFairness

-----------------------------------------------------------------------------
(* Properties *)

(* Types of the three components' states. *)
TypeOK == SchemaTypeOK /\ LimiterTypeOK /\ PoolTypeOK /\ serving \in BOOLEAN

(* docs/deployment/distributed.md, "Apply database migrations before       *)
(* starting a newer API service": once a migrator has reported success, no *)
(* request finds a table or column missing, whatever other migrators did.  *)
TablesThere == \A c \in Callers : step[c] # "idle" => Schema \subseteq made
=============================================================================
