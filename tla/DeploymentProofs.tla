-------------------------- MODULE DeploymentProofs --------------------------
(***************************************************************************)
(* Proofs about Deployment for any migrators, files, clients and limits:   *)
(* the API finds the schema it needs, and the rate limiter refuses nobody  *)
(* for what was not sent with the key it gives.                            *)
(***************************************************************************)
EXTENDS Deployment, FiniteSetTheorems, TLAPS

-----------------------------------------------------------------------------
(* The schema *)

RunStates ==
  {"off", "check", "exec", "record", "ok", "failed", "dead", "gone"}

Working(m) == run[m] \in {"check", "exec", "record"}

(* A version is recorded only when its file has been executed *)
RecordedMade == \A v \in recorded : Changes(v) \subseteq made

(* A migrator has passed over recorded files only, or recorded them itself *)
Reached(m) ==
  /\ Working(m) => file[m] \in Versions /\ 1..(file[m] - 1) \subseteq recorded
  /\ run[m] = "check" => line[m] = 1
  /\ run[m] = "exec" => /\ line[m] \in 1..Statements[file[m]]
                        /\ {file[m]} \X (1..(line[m] - 1)) \subseteq made
  /\ run[m] = "record" => Changes(file[m]) \subseteq made
  /\ run[m] = "ok" => Versions \subseteq recorded

SchemaInv ==
  /\ file \in [Migrators -> Nat \ {0}]
  /\ line \in [Migrators -> Nat \ {0}]
  /\ run \in [Migrators -> RunStates]
  /\ RecordedMade
  /\ \A m \in Migrators : Reached(m)

(* Migrators do not lose what was made or recorded, so that each step has  *)
(* only to establish Reached of the migrator that takes it                 *)
LEMMA StepReaches ==
  ASSUME NEW m \in Migrators, SchemaInv,
         made \subseteq made', recorded \subseteq recorded',
         file' = [file EXCEPT ![m] = file'[m]], file'[m] \in Nat \ {0},
         line' = [line EXCEPT ![m] = line'[m]], line'[m] \in Nat \ {0},
         run' = [run EXCEPT ![m] = run'[m]], run'[m] \in RunStates,
         RecordedMade', Reached(m)'
  PROVE  SchemaInv'
<1>1. /\ file' \in [Migrators -> Nat \ {0}]
      /\ line' \in [Migrators -> Nat \ {0}]
      /\ run' \in [Migrators -> RunStates]
  BY DEF SchemaInv
<1>2. ASSUME NEW n \in Migrators \ {m} PROVE Reached(n)'
  <2>1. file'[n] = file[n] /\ line'[n] = line[n] /\ run'[n] = run[n]
    BY DEF SchemaInv
  <2>2. Reached(n)
    BY DEF SchemaInv
  <2>3. Changes(file[n])' = Changes(file[n]) /\ Versions' = Versions
    BY <2>1 DEF Changes, Versions
  <2> QED
    BY <2>1, <2>2, <2>3 DEF Reached, Working
<1> QED
  BY <1>1, <1>2 DEF SchemaInv

(* On to the next file, or to the end, once the current one is recorded *)
LEMMA NextFileReaches ==
  ASSUME NEW m \in Migrators, SchemaInv, Working(m), NextFile(m),
         recorded \subseteq recorded', file[m] \in recorded'
  PROVE  /\ file' = [file EXCEPT ![m] = file'[m]] /\ file'[m] \in Nat \ {0}
         /\ line' = [line EXCEPT ![m] = line'[m]] /\ line'[m] \in Nat \ {0}
         /\ run' = [run EXCEPT ![m] = run'[m]] /\ run'[m] \in RunStates
         /\ Reached(m)'
<1>1. /\ file[m] \in Versions /\ 1..(file[m] - 1) \subseteq recorded
      /\ m \in DOMAIN file /\ m \in DOMAIN line /\ m \in DOMAIN run
  BY DEF SchemaInv, Reached
<1>2. Files \in Nat /\ file[m] \in 1..Files
  BY <1>1, MigrationAssumption DEF Versions
<1>3. 1..file[m] \subseteq recorded'
  BY <1>1, <1>2
<1>4. CASE file[m] = Files
  <2>1. file'[m] = 1 /\ line'[m] = 1 /\ run'[m] = "ok"
    BY <1>1, <1>4 DEF NextFile, End, Move, Becomes
  <2>2. Versions \subseteq recorded'
    BY <1>3, <1>4 DEF Versions
  <2> QED
    BY <1>4, <2>1, <2>2 DEF NextFile, End, Move, Becomes, Reached, Working, RunStates, Versions
<1>5. CASE file[m] # Files
  <2>1. file'[m] = file[m] + 1 /\ line'[m] = 1 /\ run'[m] = "check"
    BY <1>1, <1>5 DEF NextFile, Move, Becomes
  <2>2. file'[m] \in Versions /\ 1..(file'[m] - 1) \subseteq recorded'
    BY <1>2, <1>3, <1>5, <2>1 DEF Versions
  <2> QED
    BY <1>1, <1>2, <1>5, <2>1, <2>2 DEF NextFile, Move, Becomes, Reached, Working, RunStates, Versions
<1> QED
  BY <1>4, <1>5

(* A migrator's statement, record, failure or death keeps the invariant:   *)
(* what it makes belongs to the file it has reached, and stays             *)
LEMMA MigratorKeepsInv ==
  ASSUME NEW m \in Migrators, SchemaInv, Migrate(m)
  PROVE  SchemaInv'
<1>0. m \in DOMAIN file /\ m \in DOMAIN line /\ m \in DOMAIN run /\ Reached(m)
  BY DEF SchemaInv
<1>a. ASSUME UNCHANGED <<made, recorded>> PROVE RecordedMade'
  BY <1>a DEF SchemaInv, RecordedMade, Changes
<1>b. ASSUME NEW state \in {"failed", "dead"}, End(m, state), UNCHANGED <<made, recorded>>
      PROVE  SchemaInv'
  <2>1. file'[m] = 1 /\ line'[m] = 1 /\ run'[m] = state
    BY <1>0, <1>b DEF End, Move, Becomes
  <2>2. Reached(m)' /\ run'[m] \in RunStates
    BY <2>1 DEF Reached, Working, RunStates
  <2>3. RecordedMade'
    BY <1>a, <1>b
  <2>4. /\ file' = [file EXCEPT ![m] = file'[m]] /\ file'[m] \in Nat \ {0}
        /\ line' = [line EXCEPT ![m] = line'[m]] /\ line'[m] \in Nat \ {0}
        /\ run' = [run EXCEPT ![m] = run'[m]]
    <3>1. /\ file' = [file EXCEPT ![m] = 1] /\ line' = [line EXCEPT ![m] = 1]
          /\ run' = [run EXCEPT ![m] = state]
      BY <1>b DEF End, Move, Becomes
    <3>2. 1 \in Nat \ {0}
      OBVIOUS
    <3> QED
      BY <2>1, <3>1, <3>2, Zenon
  <2>5. made \subseteq made' /\ recorded \subseteq recorded'
    BY <1>b
  <2> QED
    BY <2>2, <2>3, <2>4, <2>5, StepReaches
<1>1. CASE Start(m)
  <2>1. file'[m] = 1 /\ line'[m] = 1 /\ run'[m] = (IF Files = 0 THEN "ok" ELSE "check")
    BY <1>0, <1>1 DEF Start, Move, Becomes
  <2>2. Reached(m)' /\ run'[m] \in RunStates
    BY <2>1, MigrationAssumption DEF Reached, Working, RunStates, Versions
  <2>3. RecordedMade'
    BY <1>a, <1>1 DEF Start
  <2>4. /\ file' = [file EXCEPT ![m] = file'[m]] /\ file'[m] \in Nat \ {0}
        /\ line' = [line EXCEPT ![m] = line'[m]] /\ line'[m] \in Nat \ {0}
        /\ run' = [run EXCEPT ![m] = run'[m]]
    <3>1. /\ file' = [file EXCEPT ![m] = 1] /\ line' = [line EXCEPT ![m] = 1]
          /\ run' = [run EXCEPT ![m] = IF Files = 0 THEN "ok" ELSE "check"]
      BY <1>1 DEF Start, Move, Becomes
    <3>2. 1 \in Nat \ {0}
      OBVIOUS
    <3> QED
      BY <2>1, <3>1, <3>2, Zenon
  <2>5. made \subseteq made' /\ recorded \subseteq recorded'
    BY <1>1 DEF Start
  <2> QED
    BY <2>2, <2>3, <2>4, <2>5, StepReaches
<1>2. CASE Skip(m)
  <2>1. Working(m) /\ NextFile(m) /\ file[m] \in recorded' /\ UNCHANGED <<made, recorded>>
    BY <1>2 DEF Skip, At, Working
  <2>2. RecordedMade'
    BY <1>a, <2>1
  <2> QED
    BY <2>1, <2>2, NextFileReaches, StepReaches
<1>3. CASE Unrecorded(m)
  <2>1. /\ run[m] = "check" /\ run'[m] = "exec" /\ UNCHANGED <<file, line, made, recorded>>
        /\ run' = [run EXCEPT ![m] = "exec"]
    BY <1>0, <1>3 DEF Unrecorded, At, Becomes, Stay
  <2>2. file[m] \in Versions /\ line[m] = 1 /\ 1..(file[m] - 1) \subseteq recorded
    BY <1>0, <2>1 DEF Reached, Working
  <2>3. Statements[file[m]] \in Nat \ {0}
    BY <2>2, MigrationAssumption
  <2>4. Reached(m)' /\ run'[m] \in RunStates
    BY <2>1, <2>2, <2>3 DEF Reached, Working, RunStates, Versions
  <2>5. RecordedMade'
    BY <1>a, <2>1
  <2>6. file'[m] \in Nat \ {0} /\ line'[m] \in Nat \ {0}
    BY <2>1 DEF SchemaInv
  <2>7. file' = [file EXCEPT ![m] = file'[m]] /\ line' = [line EXCEPT ![m] = line'[m]]
    BY <2>1 DEF SchemaInv
  <2> QED
    BY <2>1, <2>4, <2>5, <2>6, <2>7, StepReaches
<1>4. CASE ExecStatement(m)
  <2>1. /\ run[m] = "exec" /\ file'[m] = file[m] /\ line'[m] = line[m] + 1
        /\ run'[m] = (IF line[m] = Statements[file[m]] THEN "record" ELSE "exec")
        /\ made' = made \cup {<<file[m], line[m]>>} /\ recorded' = recorded
    BY <1>0, <1>4 DEF ExecStatement, At, Becomes, Move, Last, Statement
  <2>2. /\ file[m] \in Versions /\ 1..(file[m] - 1) \subseteq recorded
        /\ line[m] \in 1..Statements[file[m]]
        /\ {file[m]} \X (1..(line[m] - 1)) \subseteq made
    BY <1>0, <2>1 DEF Reached, Working
  <2>3. Statements[file[m]] \in Nat \ {0} /\ line[m] \in Nat \ {0} /\ file[m] \in Nat \ {0}
    BY <2>2, MigrationAssumption DEF SchemaInv
  <2>4. {file[m]} \X (1..line[m]) \subseteq made'
    <3>1. SUFFICES ASSUME NEW i \in 1..line[m] PROVE <<file[m], i>> \in made'
      OBVIOUS
    <3>2. CASE i = line[m]
      BY <2>1, <3>2
    <3>3. CASE i # line[m]
      <4>1. i \in 1..(line[m] - 1)
        BY <2>3, <3>3
      <4> QED
        BY <2>1, <2>2, <4>1
    <3> QED
      BY <3>2, <3>3
  <2>5. Reached(m)' /\ run'[m] \in RunStates
    <3>1. CASE line[m] = Statements[file[m]]
      <4>1. Changes(file[m]) \subseteq made'
        BY <2>4, <3>1 DEF Changes
      <4> QED
        BY <2>1, <2>2, <3>1, <4>1 DEF Reached, Working, RunStates, Versions, Changes
    <3>2. CASE line[m] # Statements[file[m]]
      <4>1. line'[m] \in 1..Statements[file'[m]] /\ line'[m] - 1 = line[m]
        BY <2>1, <2>2, <2>3, <3>2
      <4> QED
        BY <2>1, <2>2, <2>4, <3>2, <4>1 DEF Reached, Working, RunStates, Versions
    <3> QED
      BY <3>1, <3>2
  <2>6. RecordedMade'
    BY <2>1 DEF SchemaInv, RecordedMade, Changes
  <2>7. line'[m] \in Nat \ {0} /\ file'[m] \in Nat \ {0}
    BY <2>1, <2>3
  <2> QED
    BY <1>4, <2>1, <2>5, <2>6, <2>7, StepReaches DEF ExecStatement, Move, Becomes
<1>5. CASE ExecFails(m)
  BY <1>b, <1>5 DEF ExecFails
<1>6. CASE Record(m)
  <2>1. /\ run[m] = "record" /\ NextFile(m) /\ made' = made
        /\ recorded' = recorded \cup {file[m]}
    BY <1>6 DEF Record, At
  <2>2. Changes(file[m]) \subseteq made /\ Working(m)
    BY <1>0, <2>1 DEF Reached, Working
  <2>3. RecordedMade'
    BY <2>1, <2>2 DEF SchemaInv, RecordedMade, Changes
  <2> QED
    BY <2>1, <2>2, <2>3, NextFileReaches, StepReaches
<1>7. CASE RecordFails(m)
  BY <1>b, <1>7 DEF RecordFails
<1>8. CASE Die(m)
  BY <1>b, <1>8 DEF Die
<1> QED
  BY <1>1, <1>2, <1>3, <1>4, <1>5, <1>6, <1>7, <1>8 DEF Migrate

(* An upgrade starts with all the files of some earlier version applied *)
LEMMA InitSchemaInv == SchemaInit => SchemaInv
<1> SUFFICES ASSUME SchemaInit PROVE SchemaInv
  OBVIOUS
<1>1. PICK v \in 0..Files : recorded = 1..v /\ made = Upgraded(v)
  BY DEF SchemaInit
<1>2. RecordedMade
  BY <1>1 DEF RecordedMade, Upgraded
<1> QED
  BY <1>2 DEF SchemaInit, SchemaInv, Reached, Working, RunStates

-----------------------------------------------------------------------------
(* The API that is started on the schema *)

ServiceInv ==
  /\ serving => Schema \subseteq made
  /\ step \in [Callers -> {"idle"} \cup Steps]
  /\ at \in [Clients -> Nat \cup {None}]
  /\ \A c \in Callers : step[c] # "idle" => serving
  /\ \A c \in Clients : at[c] # None => serving

(* Before the API is launched it serves nobody *)
LEMMA InitServiceInv == Init => ServiceInv
BY DEF Init, PoolInit, LimiterInit, ServiceInv

(* Nothing the API does touches the schema or the migrators *)
LEMMA StepKeepsSchemaInv == SchemaInv /\ [Next]_vars => SchemaInv'
<1> SUFFICES ASSUME SchemaInv, [Next]_vars PROVE SchemaInv'
  OBVIOUS
<1>1. CASE \E m \in Migrators : MigrateStep(m)
  BY <1>1, MigratorKeepsInv DEF MigrateStep
<1>2. CASE Launch
  BY <1>2 DEF Launch, SchemaInv, Reached, Working, RecordedMade, RunStates, Changes
<1>3. ASSUME UNCHANGED schemaVars PROVE SchemaInv'
  BY <1>3 DEF schemaVars, SchemaInv, Reached, Working, RecordedMade, Changes
<1> QED
  BY <1>1, <1>2, <1>3
     DEF Next, Request, Pass, TooMany, StoreStep, Time, vars

(* Migrations make tables and columns, and none removes one *)
LEMMA MigrateAdds == ASSUME NEW m \in Migrators, Migrate(m) PROVE made \subseteq made'
BY DEF Migrate, Start, Skip, Unrecorded, ExecStatement, ExecFails, Record, RecordFails, Die

(* Only Pass gives a handler to the store; its client had read the clock *)
LEMMA StoreStepOfServed ==
  ASSUME NEW c \in Callers, step \in [Callers -> {"idle"} \cup Steps],
         Acquire(c) \/ Use(c) \/ GiveUp(c)
  PROVE  /\ step[c] # "idle"
         /\ step' \in [Callers -> {"idle"} \cup Steps]
         /\ \A x \in Callers \ {c} : step'[x] = step[x]
BY DEF Acquire, Use, GiveUp, Goto, Authenticated, Finish, NextRow, RowDone, NoMoreRows, Steps

(* The API is launched on a complete schema, and only then serves *)
LEMMA StepKeepsServiceInv ==
  ASSUME SchemaInv, ServiceInv, now \in Nat, [Next]_vars
  PROVE  ServiceInv'
<1>1. CASE \E m \in Migrators : MigrateStep(m)
  BY <1>1, MigrateAdds
     DEF MigrateStep, servingVars, limiterVars, poolVars, ServiceInv, Schema, Changes
<1>2. CASE Launch
  <2>1. PICK m \in Migrators : run[m] = "ok"
    BY <1>2 DEF Launch, At
  <2>2. \A v \in Versions : Changes(v) \subseteq made
    BY <2>1 DEF SchemaInv, Reached, RecordedMade
  <2>3. Schema \subseteq made
    BY <2>2 DEF Schema
  <2> QED
    BY <1>2, <2>3
       DEF Launch, servingVars, limiterVars, poolVars, ServiceInv, Schema, Changes
<1>3. ASSUME NEW c \in Clients, Request(c) PROVE ServiceInv'
  BY <1>3 DEF Request, ReadClock, schemaVars, poolVars, ServiceInv, Schema, Changes
<1>4. ASSUME NEW c \in Clients, Pass(c) PROVE ServiceInv'
  <2>1. /\ at[c] # None /\ serving' = serving /\ made' = made
        /\ at' \in [Clients -> Nat \cup {None}]
        /\ \A x \in Clients : at'[x] # None => at[x] # None
    BY <1>4 DEF Pass, Admit, Allow, schemaVars, ServiceInv
  <2>2. /\ step' \in [Callers -> {"idle"} \cup Steps]
        /\ \A x \in Callers : step'[x] # "idle" => step[x] # "idle" \/ x = c
    BY <1>4 DEF Pass, Handle, Goto, poolVars, ServiceInv, Steps
  <2> QED
    BY <2>1, <2>2, ClientAssumption DEF ServiceInv, Schema, Changes
<1>5. ASSUME NEW c \in Clients, TooMany(c) PROVE ServiceInv'
  BY <1>5 DEF TooMany, Refuse, Allow, schemaVars, poolVars, ServiceInv, Schema, Changes
<1>6. ASSUME NEW c \in Clients, StoreStep(c) PROVE ServiceInv'
  <2>1. c \in Callers /\ (Acquire(c) \/ Use(c) \/ GiveUp(c))
    BY <1>6 DEF StoreStep
  <2>2. /\ step[c] # "idle"
        /\ step' \in [Callers -> {"idle"} \cup Steps]
        /\ \A x \in Callers \ {c} : step'[x] = step[x]
    BY <2>1, StoreStepOfServed DEF ServiceInv
  <2>3. serving' = serving /\ made' = made /\ at' = at
    BY <1>6 DEF StoreStep, schemaVars, limiterVars
  <2> QED
    BY <2>1, <2>2, <2>3 DEF ServiceInv, Schema, Changes
<1>7. CASE Time
  BY <1>7 DEF Time, Tick, schemaVars, poolVars, ServiceInv, Schema, Changes
<1>8. CASE UNCHANGED vars
  BY <1>8 DEF vars, schemaVars, servingVars, limiterVars, poolVars, ServiceInv, Schema, Changes
<1> QED
  BY <1>1, <1>2, <1>3, <1>4, <1>5, <1>6, <1>7, <1>8 DEF Next

-----------------------------------------------------------------------------
(* The rate limiter *)

(* The admitted requests of a log that are not before a time *)
Since(log, t) == {i \in DOMAIN log : log[i].when >= t}

Least(m, n) == IF m <= n THEN m ELSE n

(* A counter stands for as many admitted requests, none of them older than *)
(* its window; a counter past the limit stands for Limit of them           *)
Backed(bucket, log) ==
  bucket # None =>
    LET start == bucket.resetAt - Window IN
    /\ bucket \in Bucket
    /\ start <= now
    /\ Cardinality(Since(log, start)) >= Least(bucket.used, Limit)

LimiterInv ==
  /\ now \in Nat
  /\ at \in [Clients -> Nat \cup {None}]
  /\ \A c \in Clients : at[c] # None => at[c] <= now
  /\ named \in [Clients -> Keys \cup {None}]
  /\ \A c \in Clients : named[c] \in (IF at[c] = None THEN {None} ELSE KeysOf[c])
  /\ DOMAIN buckets = Keys
  /\ passed \in [Keys -> Seq(Passage)]
  /\ \A k \in Keys : Backed(buckets[k], passed[k])

(* The requests since a time are finitely many, so that they can be counted *)
LEMMA SinceFinite ==
  ASSUME NEW log \in Seq(Passage), NEW t \in Int
  PROVE  IsFiniteSet(Since(log, t)) /\ Cardinality(Since(log, t)) \in Nat
<1>1. IsFiniteSet(1..Len(log))
  BY FS_Interval
<1>2. Since(log, t) \subseteq 1..Len(log)
  BY DEF Since
<1> QED
  BY <1>1, <1>2, FS_Subset, FS_CardinalityType

(* An admitted request is one more since any time that is not after it *)
LEMMA SinceAppend ==
  ASSUME NEW log \in Seq(Passage), NEW t \in Int, NEW p \in Passage, t <= p.when
  PROVE  Cardinality(Since(Append(log, p), t)) = Cardinality(Since(log, t)) + 1
<1> DEFINE n == Len(log) + 1
<1>1. /\ DOMAIN log = 1..(n - 1) /\ DOMAIN Append(log, p) = 1..n /\ n \in Nat \ {0}
      /\ Append(log, p)[n] = p
      /\ \A i \in 1..(n - 1) : Append(log, p)[i] = log[i]
  OBVIOUS
<1> HIDE DEF n
<1>2. 1..n = 1..(n - 1) \cup {n} /\ n \notin 1..(n - 1)
  BY <1>1
<1>3. Since(Append(log, p), t) = Since(log, t) \cup {n}
  BY <1>1, <1>2 DEF Since, Passage
<1>4. n \notin Since(log, t)
  BY <1>1, <1>2 DEF Since
<1> QED
  BY <1>3, <1>4, SinceFinite, FS_AddElement

(* A counter that starts again is backed by the request that started it *)
LEMMA FreshBacked ==
  ASSUME NEW log \in Seq(Passage), NEW p \in Passage, NEW t \in Nat,
         t <= p.when, p.when <= now, now \in Nat
  PROVE  Backed([resetAt |-> t + Window, used |-> 1], Append(log, p))
<1> DEFINE b == [resetAt |-> t + Window, used |-> 1]
<1>1. Limit \in Nat \ {0} /\ Window \in Nat \ {0}
  BY LimiterAssumption
<1>2. b \in Bucket /\ b.resetAt - Window = t /\ b.used = 1
  BY <1>1 DEF Bucket
<1>3. t <= now
  BY DEF Passage
<1>4. Cardinality(Since(Append(log, p), t)) >= 1
  BY SinceFinite, SinceAppend
<1> HIDE DEF b
<1>5. Backed(b, Append(log, p))
  BY <1>1, <1>2, <1>3, <1>4 DEF Backed, Least
<1> QED
  BY <1>5 DEF b

(* A counter that goes on is backed by one more request, if it is admitted *)
LEMMA CountedBacked ==
  ASSUME NEW log \in Seq(Passage), NEW p \in Passage, p.when = now, now \in Nat,
         NEW b, b # None, Backed(b, log),
         NEW more, more \in Seq(Passage),
         IF b.used + 1 <= Limit THEN more = Append(log, p) ELSE more = log
  PROVE  Backed([b EXCEPT !.used = @ + 1], more)
<1> DEFINE c == [b EXCEPT !.used = @ + 1]
<1>1. Limit \in Nat \ {0} /\ Window \in Nat \ {0}
  BY LimiterAssumption
<1>2. /\ b \in Bucket /\ b.resetAt - Window <= now
      /\ Cardinality(Since(log, b.resetAt - Window)) >= Least(b.used, Limit)
  BY DEF Backed
<1>3. /\ c \in Bucket /\ c.resetAt = b.resetAt /\ c.used = b.used + 1
      /\ b.used \in Nat /\ b.resetAt - Window \in Int
  BY <1>1, <1>2 DEF Bucket
<1>4. Cardinality(Since(log, b.resetAt - Window)) \in Nat
  BY <1>3, SinceFinite
<1> HIDE DEF c
<1>5. Cardinality(Since(more, b.resetAt - Window)) >= Least(c.used, Limit)
  <2>1. CASE b.used + 1 <= Limit
    <3>1. Cardinality(Since(more, b.resetAt - Window))
             = Cardinality(Since(log, b.resetAt - Window)) + 1
      BY <1>2, <1>3, <2>1, SinceAppend
    <3> QED
      BY <1>1, <1>2, <1>3, <1>4, <2>1, <3>1 DEF Least
  <2>2. CASE ~(b.used + 1 <= Limit)
    BY <1>1, <1>2, <1>3, <1>4, <2>2 DEF Least
  <2> QED
    BY <2>1, <2>2
<1>6. Backed(c, more)
  BY <1>2, <1>3, <1>5 DEF Backed
<1> QED
  BY <1>6 DEF c

(* Whether or not the clean-up runs, it changes no counter but to remove it, *)
(* and it removes none that is still running                                 *)
LEMMA TidiedKeeps ==
  ASSUME NEW bs, NEW t, DOMAIN bs = Keys
  PROVE  /\ DOMAIN Tidied(bs, t) = Keys
         /\ \A k \in Keys : \/ Tidied(bs, t)[k] = bs[k]
                            \/ Tidied(bs, t)[k] = None /\ Over(bs[k], t)
BY DEF Tidied, Cleaned

(* The middleware's decision keeps every counter backed: one that starts  *)
(* again starts at the time the request has read, and one that goes on     *)
(* counts the request among those admitted, or stays past the limit        *)
LEMMA AllowKeepsInv ==
  ASSUME LimiterInv, NEW c \in Clients, NEW admitted \in BOOLEAN, Allow(c, admitted)
  PROVE  LimiterInv'
<1> DEFINE key == named[c]
           new == Counted(buckets[key], at[c])
           given == [buckets EXCEPT ![key] = new]
           p == [client |-> c, when |-> now]
<1>1. /\ key \in Keys /\ at[c] \in Nat /\ at[c] <= now /\ now \in Nat /\ now' = now
      /\ at' = [at EXCEPT ![c] = None] /\ named' = [named EXCEPT ![c] = None]
      /\ buckets' = Tidied(given, at[c])
      /\ admitted <=> new.used <= Limit
      /\ passed' = IF admitted THEN [passed EXCEPT ![key] = Append(@, p)] ELSE passed
  BY DEF LimiterInv, Allow, Keys
<1>2. /\ DOMAIN given = Keys /\ given[key] = new
      /\ \A k \in Keys \ {key} : given[k] = buckets[k]
  BY <1>1 DEF LimiterInv
<1>3. p \in Passage /\ p.when = now
  BY <1>1 DEF Passage
<1>4. /\ passed[key] \in Seq(Passage) /\ passed \in [Keys -> Seq(Passage)]
      /\ Backed(buckets[key], passed[key])
  BY <1>1 DEF LimiterInv
<1>5. /\ Over(buckets[key], at[c]) => new = [resetAt |-> at[c] + Window, used |-> 1]
      /\ ~Over(buckets[key], at[c]) =>
            buckets[key] # None /\ new = [buckets[key] EXCEPT !.used = @ + 1]
  BY DEF Counted, Over
<1> HIDE DEF key, new, given, p
<1>6. /\ DOMAIN buckets' = Keys
      /\ \A k \in Keys : buckets'[k] = given[k] \/ buckets'[k] = None
  BY <1>1, <1>2, TidiedKeeps
<1>7. /\ passed' \in [Keys -> Seq(Passage)]
      /\ \A k \in Keys \ {key} : passed'[k] = passed[k]
      /\ passed'[key] = IF admitted THEN Append(passed[key], p) ELSE passed[key]
  BY <1>1, <1>3, <1>4
<1>8. Backed(new, passed'[key])
  <2>1. CASE Over(buckets[key], at[c])
    <3>1. admitted
      BY <1>1, <1>5, <2>1, LimiterAssumption
    <3> QED
      BY <1>1, <1>3, <1>4, <1>5, <1>7, <2>1, <3>1, FreshBacked
  <2>2. CASE ~Over(buckets[key], at[c])
    <3>1. passed'[key] \in Seq(Passage)
      BY <1>1, <1>7
    <3>2. buckets[key] # None /\ new = [buckets[key] EXCEPT !.used = @ + 1]
      BY <1>5, <2>2
    <3>3. new.used = buckets[key].used + 1
      BY <1>4, <3>2 DEF Backed, Bucket
    <3>4. IF buckets[key].used + 1 <= Limit
          THEN passed'[key] = Append(passed[key], p) ELSE passed'[key] = passed[key]
      BY <1>1, <1>7, <3>3
    <3> QED
      BY <1>1, <1>3, <1>4, <3>1, <3>2, <3>4, CountedBacked
  <2> QED
    BY <2>1, <2>2
<1>9. ASSUME NEW k \in Keys PROVE Backed(buckets'[k], passed'[k])
  <2>1. CASE k = key
    BY <1>2, <1>6, <1>8, <2>1 DEF Backed
  <2>2. CASE k # key
    BY <1>2, <1>6, <1>7, <2>2 DEF LimiterInv, Backed
  <2> QED
    BY <2>1, <2>2
<1>10. ASSUME NEW k \in Keys PROVE Backed(buckets[k], passed[k])'
  BY <1>1, <1>9 DEF Backed
<1>11. /\ at' \in [Clients -> Nat \cup {None}]
       /\ \A x \in Clients : at'[x] # None => at'[x] <= now'
       /\ named' \in [Clients -> Keys \cup {None}]
       /\ \A x \in Clients : named'[x] \in (IF at'[x] = None THEN {None} ELSE KeysOf[x])
  BY <1>1 DEF LimiterInv
<1> QED
  BY <1>1, <1>6, <1>7, <1>10, <1>11 DEF LimiterInv

(* No counter exists when the API starts *)
LEMMA InitLimiterInv == Init => LimiterInv
BY DEF Init, LimiterInit, LimiterInv, Backed, Passage

(* Only the clock and the middleware touch what the counters count *)
LEMMA StepKeepsLimiterInv == LimiterInv /\ [Next]_vars => LimiterInv'
<1> SUFFICES ASSUME LimiterInv, [Next]_vars PROVE LimiterInv'
  OBVIOUS
<1>1. CASE UNCHANGED limiterVars
  BY <1>1 DEF limiterVars, LimiterInv, Backed
<1>2. ASSUME NEW m \in Migrators, MigrateStep(m) PROVE LimiterInv'
  BY <1>1, <1>2 DEF MigrateStep, servingVars
<1>3. CASE Launch
  BY <1>1, <1>3 DEF Launch, servingVars
<1>4. ASSUME NEW c \in Clients, Request(c) PROVE LimiterInv'
  <2>1. at' = [at EXCEPT ![c] = now] /\ now' = now /\ buckets' = buckets /\ passed' = passed
    BY <1>4 DEF Request, ReadClock
  <2>2. PICK k \in KeysOf[c] : named' = [named EXCEPT ![c] = k]
    BY <1>4 DEF Request, ReadClock
  <2>3. k \in Keys /\ now # None
    BY LimiterAssumption DEF Keys, LimiterInv
  <2>4. /\ at' \in [Clients -> Nat \cup {None}]
        /\ \A x \in Clients : at'[x] # None => at'[x] <= now'
        /\ named' \in [Clients -> Keys \cup {None}]
        /\ \A x \in Clients : named'[x] \in (IF at'[x] = None THEN {None} ELSE KeysOf[x])
    BY <2>1, <2>2, <2>3 DEF LimiterInv
  <2> QED
    BY <2>1, <2>4 DEF LimiterInv, Backed
<1>5. ASSUME NEW c \in Clients, Pass(c) PROVE LimiterInv'
  BY <1>5, AllowKeepsInv DEF Pass, Admit
<1>6. ASSUME NEW c \in Clients, TooMany(c) PROVE LimiterInv'
  BY <1>6, AllowKeepsInv DEF TooMany, Refuse
<1>7. ASSUME NEW c \in Clients, StoreStep(c) PROVE LimiterInv'
  BY <1>1, <1>7 DEF StoreStep
<1>8. CASE Time
  <2>1. /\ now' = now + 1 /\ at' = at /\ named' = named
        /\ buckets' = buckets /\ passed' = passed
    BY <1>8 DEF Time, Tick
  <2>2. ASSUME NEW k \in Keys PROVE Backed(buckets[k], passed[k])'
    BY <2>1, LimiterAssumption DEF LimiterInv, Backed, Bucket
  <2> QED
    BY <2>1, <2>2 DEF LimiterInv
<1>9. CASE UNCHANGED vars
  BY <1>1, <1>9 DEF vars, servingVars
<1> QED
  BY <1>2, <1>3, <1>4, <1>5, <1>6, <1>7, <1>8, <1>9 DEF Next

-----------------------------------------------------------------------------
(* How far apart the admitted requests of a key are *)

(* The admitted requests that a counter has counted *)
Admitted(b) == IF b = None THEN 0 ELSE Least(b.used, Limit)

(* At the time n: those before the counter's window were admitted before it *)
(* began, those before the counter that preceded it a window ago            *)
Apart(b, log, n) ==
  /\ Admitted(b) <= Len(log)
  /\ b # None => \A i \in 1..(Len(log) - Admitted(b)) : log[i].when <= b.resetAt - Window
  /\ \A i \in 1..(Len(log) - Admitted(b) - Limit) : log[i].when + Window <= n
  /\ \A i, j \in DOMAIN log : j = i + 2 * Limit => log[j].when - log[i].when >= Window

(* The only client that gives a key reads the clock after its last answer *)
SpacedInv ==
  \A k \in Keys : Alone(k) =>
    /\ Apart(buckets[k], passed[k], now)
    /\ \A c \in Clients, i \in DOMAIN passed[k] :
         k \in KeysOf[c] => /\ passed[k][i].when <= now
                            /\ at[c] # None => passed[k][i].when <= at[c]

(* The log of a key counts times from the start *)
LEMMA LogTypes ==
  ASSUME NEW log \in Seq(Passage)
  PROVE  /\ Len(log) \in Nat /\ DOMAIN log = 1..Len(log)
         /\ \A i \in 1..Len(log) : log[i].when \in Nat
<1>1. \A i \in 1..Len(log) : log[i] \in Passage
  OBVIOUS
<1>2. \A x \in Passage : x.when \in Nat
  BY DEF Passage
<1> QED
  BY <1>1, <1>2

(* A log with one more request *)
LEMMA Appended ==
  ASSUME NEW log \in Seq(Passage), NEW p \in Passage
  PROVE  /\ Append(log, p) \in Seq(Passage) /\ Len(Append(log, p)) = Len(log) + 1
         /\ Len(log) \in Nat /\ DOMAIN log = 1..Len(log)
         /\ DOMAIN Append(log, p) = 1..(Len(log) + 1)
         /\ Append(log, p)[Len(log) + 1] = p
         /\ \A i \in 1..Len(log) : Append(log, p)[i] = log[i] /\ log[i].when \in Nat
BY LogTypes

(* A counter that has counted fewer than its limit has admitted them all *)
LEMMA AdmittedBounds ==
  ASSUME NEW b \in Bucket \cup {None}
  PROVE  /\ Admitted(b) \in Nat /\ Admitted(b) <= Limit
         /\ b # None => b \in Bucket /\ b.used \in Nat /\ b.resetAt \in Nat
<1>1. Limit \in Nat \ {0}
  BY LimiterAssumption
<1>2. b # None => b \in Bucket /\ b.used \in Nat /\ b.resetAt \in Nat
  BY DEF Bucket
<1> QED
  BY <1>1, <1>2 DEF Admitted, Least

(* A counter that starts again: its predecessor's window is over, and what  *)
(* that one admitted is before the time the request has read                *)
LEMMA StartApart ==
  ASSUME NEW log \in Seq(Passage), NEW b \in Bucket \cup {None}, NEW n \in Nat, NEW t \in Nat,
         t <= n, Apart(b, log, n), Over(b, t), NEW p \in Passage, p.when = n,
         \A i \in 1..Len(log) : log[i].when <= t
  PROVE  Apart([resetAt |-> t + Window, used |-> 1], Append(log, p), n)
<1> DEFINE new == [resetAt |-> t + Window, used |-> 1]
           more == Append(log, p)
<1>1. Limit \in Nat \ {0} /\ Window \in Nat \ {0}
  BY LimiterAssumption
<1>2. /\ Admitted(b) \in Nat /\ Admitted(b) <= Limit
      /\ b # None => b.resetAt \in Nat /\ t >= b.resetAt
  BY AdmittedBounds DEF Over
<1>3. /\ Len(more) = Len(log) + 1 /\ Len(log) \in Nat /\ DOMAIN more = 1..(Len(log) + 1)
      /\ DOMAIN log = 1..Len(log) /\ more[Len(log) + 1].when = n
      /\ \A i \in 1..Len(log) : more[i] = log[i] /\ log[i].when \in Nat
  BY Appended
<1>4. new \in Bucket /\ new.resetAt = t + Window /\ new.used = 1
  BY <1>1 DEF Bucket
<1>5. Admitted(new) = 1
  BY <1>1, <1>4, LimiterAssumption DEF Admitted, Least
<1> HIDE DEF new, more
<1>6. \A i \in 1..(Len(log) - Limit) : log[i].when + Window <= n
  <2> SUFFICES ASSUME NEW i \in 1..(Len(log) - Limit) PROVE log[i].when + Window <= n
    OBVIOUS
  <2>1. CASE b = None
    BY <1>1, <1>2, <1>3, <2>1 DEF Apart, Admitted
  <2>2. CASE b # None
    <3>1. i \in 1..(Len(log) - Admitted(b)) /\ i \in 1..Len(log)
      BY <1>1, <1>2, <1>3
    <3>2. log[i].when <= b.resetAt - Window /\ log[i].when \in Nat
      BY <1>3, <2>2, <3>1 DEF Apart
    <3> QED
      BY <1>1, <1>2, <2>2, <3>2
  <2> QED
    BY <2>1, <2>2
<1>7. \A i \in 1..(Len(more) - Admitted(new)) : more[i].when <= new.resetAt - Window
  BY <1>1, <1>3, <1>4, <1>5
<1>8. \A i \in 1..(Len(more) - Admitted(new) - Limit) : more[i].when + Window <= n
  BY <1>1, <1>3, <1>5, <1>6
<1>9. \A i, j \in DOMAIN more : j = i + 2 * Limit => more[j].when - more[i].when >= Window
  <2> SUFFICES ASSUME NEW i \in DOMAIN more, NEW j \in DOMAIN more, j = i + 2 * Limit
               PROVE  more[j].when - more[i].when >= Window
    OBVIOUS
  <2>1. CASE j = Len(log) + 1
    <3>1. i \in 1..(Len(log) - Limit) /\ i \in 1..Len(log)
      BY <1>1, <1>3, <2>1
    <3>2. log[i].when + Window <= n /\ log[i].when \in Nat /\ more[i] = log[i]
      BY <1>3, <1>6, <3>1
    <3>3. more[j].when = n
      BY <1>3, <2>1
    <3> QED
      BY <1>1, <3>2, <3>3
  <2>2. CASE j # Len(log) + 1
    <3>1. i \in 1..Len(log) /\ j \in 1..Len(log)
      BY <1>1, <1>3, <2>2
    <3> QED
      BY <1>3, <3>1 DEF Apart
  <2> QED
    BY <2>1, <2>2
<1>10. Apart(new, more, n)
  BY <1>3, <1>5, <1>7, <1>8, <1>9 DEF Apart
<1> QED
  BY <1>10 DEF new, more

(* A counter that goes on and admits: the request is the next of its own, and *)
(* so many before it lie those that were admitted a window ago                *)
LEMMA CountApart ==
  ASSUME NEW log \in Seq(Passage), NEW b \in Bucket, NEW n \in Nat,
         Apart(b, log, n), b.used + 1 <= Limit, NEW p \in Passage, p.when = n
  PROVE  Apart([b EXCEPT !.used = @ + 1], Append(log, p), n)
<1> DEFINE new == [b EXCEPT !.used = @ + 1]
           more == Append(log, p)
<1>1. /\ Limit \in Nat \ {0} /\ Window \in Nat \ {0}
      /\ b.used \in Nat /\ b.resetAt \in Nat /\ b # None
  BY LimiterAssumption DEF Bucket
<1>2. /\ Len(more) = Len(log) + 1 /\ Len(log) \in Nat /\ DOMAIN more = 1..(Len(log) + 1)
      /\ DOMAIN log = 1..Len(log) /\ more[Len(log) + 1].when = n
      /\ \A i \in 1..Len(log) : more[i] = log[i] /\ log[i].when \in Nat
  BY Appended
<1>3. new \in Bucket /\ new.used = b.used + 1 /\ new.resetAt = b.resetAt
  BY DEF Bucket
<1> HIDE DEF new, more
<1>4. Admitted(b) = b.used /\ Admitted(new) = b.used + 1
  BY <1>1, <1>3, LimiterAssumption DEF Admitted, Least
<1>5. Admitted(new) <= Len(more)
  BY <1>1, <1>2, <1>4 DEF Apart
<1>6. \A i \in 1..(Len(more) - Admitted(new)) : more[i].when <= new.resetAt - Window
  <2>1. \A i \in 1..(Len(log) - Admitted(b)) : log[i].when <= b.resetAt - Window
    BY <1>1 DEF Apart
  <2>2. Len(more) - Admitted(new) = Len(log) - b.used /\ Len(log) - b.used <= Len(log)
    BY <1>1, <1>2, <1>4
  <2> QED
    BY <1>1, <1>2, <1>3, <1>4, <2>1, <2>2
<1>7. \A i \in 1..(Len(more) - Admitted(new) - Limit) : more[i].when + Window <= n
  <2>1. \A i \in 1..(Len(log) - Admitted(b) - Limit) : log[i].when + Window <= n
    BY DEF Apart
  <2>2. /\ Len(more) - Admitted(new) - Limit = Len(log) - b.used - Limit
        /\ Len(log) - b.used - Limit \in Int /\ Len(log) - b.used - Limit <= Len(log)
    BY <1>1, <1>2, <1>4
  <2>3. ASSUME NEW i \in 1..(Len(log) - b.used - Limit) PROVE more[i].when + Window <= n
    BY <1>2, <1>4, <2>1, <2>2, <2>3
  <2> QED
    BY <2>2, <2>3
<1>8. \A i, j \in DOMAIN more : j = i + 2 * Limit => more[j].when - more[i].when >= Window
  <2> SUFFICES ASSUME NEW i \in DOMAIN more, NEW j \in DOMAIN more, j = i + 2 * Limit
               PROVE  more[j].when - more[i].when >= Window
    OBVIOUS
  <2>1. CASE j = Len(log) + 1
    <3>1. i \in 1..(Len(log) - b.used - Limit) /\ i \in 1..Len(log)
      BY <1>1, <1>2, <2>1
    <3>2. log[i].when + Window <= n /\ log[i].when \in Nat /\ more[i] = log[i]
      BY <1>2, <1>4, <3>1 DEF Apart
    <3>3. more[j].when = n
      BY <1>2, <2>1
    <3> QED
      BY <1>1, <3>2, <3>3
  <2>2. CASE j # Len(log) + 1
    <3>1. i \in 1..Len(log) /\ j \in 1..Len(log)
      BY <1>1, <1>2, <2>2
    <3> QED
      BY <1>2, <3>1 DEF Apart
  <2> QED
    BY <2>1, <2>2
<1>9. Apart(new, more, n)
  BY <1>5, <1>6, <1>7, <1>8 DEF Apart
<1> QED
  BY <1>9 DEF new, more

(* A counter that refuses has admitted all it may *)
LEMMA RefuseApart ==
  ASSUME NEW log \in Seq(Passage), NEW b \in Bucket, NEW n \in Nat,
         Apart(b, log, n), ~(b.used + 1 <= Limit)
  PROVE  Apart([b EXCEPT !.used = @ + 1], log, n)
<1> DEFINE new == [b EXCEPT !.used = @ + 1]
<1>1. Limit \in Nat \ {0} /\ b.used \in Nat /\ b # None
  BY LimiterAssumption DEF Bucket
<1>2. new \in Bucket /\ new.used = b.used + 1 /\ new.resetAt = b.resetAt
  BY DEF Bucket
<1> HIDE DEF new
<1>3. Admitted(b) = Limit /\ Admitted(new) = Limit
  BY <1>1, <1>2, LimiterAssumption DEF Admitted, Least
<1>4. Apart(new, log, n)
  BY <1>1, <1>2, <1>3 DEF Apart
<1> QED
  BY <1>4 DEF new

(* A counter that is removed is over: the requests that the next one does *)
(* not count lie where those of the counter before this one lay           *)
LEMMA RemoveApart ==
  ASSUME NEW log \in Seq(Passage), NEW b \in Bucket \cup {None}, NEW n \in Nat, NEW t \in Nat,
         t <= n, Apart(b, log, n), Over(b, t)
  PROVE  Apart(None, log, n)
<1>1. Limit \in Nat \ {0} /\ Window \in Nat \ {0}
  BY LimiterAssumption
<1>2. CASE b = None
  BY <1>2
<1>3. CASE b # None
  <2>1. /\ Admitted(b) \in Nat /\ Admitted(b) <= Limit /\ Len(log) \in Nat
        /\ DOMAIN log = 1..Len(log) /\ b.resetAt \in Nat /\ t >= b.resetAt
        /\ \A i \in 1..Len(log) : log[i].when \in Nat
    BY <1>3, AdmittedBounds, LogTypes DEF Over
  <2>2. \A i \in 1..(Len(log) - Limit) : log[i].when + Window <= n
    <3> SUFFICES ASSUME NEW i \in 1..(Len(log) - Limit) PROVE log[i].when + Window <= n
      OBVIOUS
    <3>1. i \in 1..(Len(log) - Admitted(b)) /\ i \in 1..Len(log)
      BY <1>1, <2>1
    <3>2. log[i].when <= b.resetAt - Window
      BY <1>3, <3>1 DEF Apart
    <3> QED
      BY <1>1, <2>1, <3>1, <3>2
  <2>3. Admitted(None) = 0
    BY DEF Admitted
  <2> QED
    BY <1>1, <2>1, <2>2, <2>3 DEF Apart
<1> QED
  BY <1>2, <1>3

(* Time only adds to what separates a log from the next request *)
LEMMA LaterApart ==
  ASSUME NEW log \in Seq(Passage), NEW b \in Bucket \cup {None}, NEW n \in Nat,
         Apart(b, log, n)
  PROVE  Apart(b, log, n + 1)
<1>1. Limit \in Nat \ {0} /\ Window \in Nat \ {0} /\ Admitted(b) \in Nat /\ Len(log) \in Nat
  BY LimiterAssumption, AdmittedBounds
<1>2. \A i \in 1..Len(log) : log[i].when \in Nat
  BY LogTypes
<1>3. ASSUME NEW i \in 1..(Len(log) - Admitted(b) - Limit)
      PROVE  log[i].when + Window <= n + 1
  <2>1. i \in 1..Len(log) /\ log[i].when + Window <= n
    BY <1>1 DEF Apart
  <2> QED
    BY <1>1, <1>2, <2>1
<1> QED
  BY <1>3 DEF Apart

(* What the only client of a key has sent with it is before what it sends *)
(* next, so that a counter that starts again, goes on, refuses or is       *)
(* removed keeps the requests apart                                        *)
LEMMA AllowKeepsSpaced ==
  ASSUME LimiterInv, SpacedInv, NEW c \in Clients, NEW admitted \in BOOLEAN,
         Allow(c, admitted)
  PROVE  SpacedInv'
<1> DEFINE key == named[c]
           old == buckets[key]
           new == Counted(old, at[c])
           given == [buckets EXCEPT ![key] = new]
           p == [client |-> c, when |-> now]
<1>1. /\ key \in Keys /\ at[c] # None /\ at[c] \in Nat /\ at[c] <= now
      /\ now \in Nat /\ now' = now
      /\ at' = [at EXCEPT ![c] = None] /\ at \in [Clients -> Nat \cup {None}]
      /\ buckets' = Tidied(given, at[c])
      /\ admitted <=> new.used <= Limit
      /\ passed' = IF admitted THEN [passed EXCEPT ![key] = Append(@, p)] ELSE passed
  BY DEF LimiterInv, Allow, Keys
<1>2. /\ DOMAIN given = Keys /\ given[key] = new
      /\ \A k \in Keys \ {key} : given[k] = buckets[k]
  BY <1>1 DEF LimiterInv
<1>3. p \in Passage /\ p.when = now
  BY <1>1 DEF Passage
<1>4. /\ passed \in [Keys -> Seq(Passage)]
      /\ \A k \in Keys : buckets[k] \in Bucket \cup {None}
  BY DEF LimiterInv, Backed
<1>5. /\ Over(old, at[c]) => new = [resetAt |-> at[c] + Window, used |-> 1]
      /\ ~Over(old, at[c]) => old # None /\ new = [old EXCEPT !.used = @ + 1]
  BY DEF Counted, Over
<1>6. key \in KeysOf[c] /\ old = buckets[key]
  BY <1>1 DEF LimiterInv
<1> HIDE DEF key, old, new, given, p
<1>7. /\ passed' \in [Keys -> Seq(Passage)]
      /\ \A k \in Keys \ {key} : passed'[k] = passed[k]
      /\ passed'[key] = IF admitted THEN Append(passed[key], p) ELSE passed[key]
  BY <1>1, <1>3, <1>4
<1>8. \A k \in Keys : \/ buckets'[k] = given[k]
                      \/ buckets'[k] = None /\ Over(given[k], at[c])
  BY <1>1, <1>2, TidiedKeeps
<1>9. /\ Limit \in Nat \ {0} /\ Window \in Nat \ {0}
      /\ old \in Bucket \cup {None} /\ passed[key] \in Seq(Passage)
  BY <1>1, <1>4, <1>6, LimiterAssumption
<1>10. new \in Bucket
  <2>1. CASE Over(old, at[c])
    BY <1>1, <1>5, <1>9, <2>1 DEF Bucket
  <2>2. CASE ~Over(old, at[c])
    BY <1>5, <1>9, <2>2 DEF Bucket
  <2> QED
    BY <2>1, <2>2
<1>11. ASSUME Alone(key) PROVE Apart(new, passed'[key], now)
  <2>1. /\ Apart(old, passed[key], now)
        /\ \A i \in 1..Len(passed[key]) : passed[key][i].when <= at[c]
    BY <1>1, <1>6, <1>9, <1>11, LogTypes DEF SpacedInv
  <2>2. CASE Over(old, at[c])
    <3>1. /\ admitted /\ new = [resetAt |-> at[c] + Window, used |-> 1]
          /\ passed'[key] = Append(passed[key], p)
      BY <1>1, <1>5, <1>7, <1>9, <2>2
    <3>2. Apart([resetAt |-> at[c] + Window, used |-> 1], Append(passed[key], p), now)
      BY <1>1, <1>3, <1>9, <2>1, <2>2, StartApart
    <3> QED
      BY <3>1, <3>2
  <2>3. CASE ~Over(old, at[c])
    <3>1. old \in Bucket /\ new = [old EXCEPT !.used = @ + 1]
      BY <1>5, <1>9, <2>3
    <3>2. new.used = old.used + 1
      BY <3>1 DEF Bucket
    <3>3. CASE admitted
      BY <1>1, <1>3, <1>7, <1>9, <2>1, <3>1, <3>2, <3>3, CountApart
    <3>4. CASE ~admitted
      BY <1>1, <1>7, <1>9, <2>1, <3>1, <3>2, <3>4, RefuseApart
    <3> QED
      BY <3>3, <3>4
  <2> QED
    BY <2>2, <2>3
<1>12. ASSUME NEW k \in Keys, Alone(k) PROVE Apart(buckets'[k], passed'[k], now)
  <2>1. /\ given[k] \in Bucket \cup {None} /\ passed'[k] \in Seq(Passage)
        /\ Apart(given[k], passed'[k], now)
    <3>1. CASE k = key
      BY <1>1, <1>2, <1>7, <1>10, <1>11, <1>12, <3>1
    <3>2. CASE k # key
      BY <1>2, <1>4, <1>7, <1>12, <3>2 DEF SpacedInv
    <3> QED
      BY <3>1, <3>2
  <2> QED
    BY <1>1, <1>8, <2>1, RemoveApart
<1>13. ASSUME NEW k \in Keys, Alone(k), NEW d \in Clients, NEW i \in DOMAIN passed'[k],
              k \in KeysOf[d]
       PROVE  passed'[k][i].when <= now /\ (at'[d] # None => passed'[k][i].when <= at'[d])
  <2>1. CASE k = key
    <3>1. d = c
      BY <1>6, <1>13, <2>1 DEF Alone
    <3>2. at'[d] = None
      BY <1>1, <3>1
    <3>3. CASE i \in DOMAIN passed[key] /\ passed'[k][i] = passed[key][i]
      BY <1>1, <1>6, <1>13, <2>1, <3>2, <3>3 DEF SpacedInv
    <3>4. CASE passed'[k][i] = p
      BY <1>1, <1>3, <3>2, <3>4
    <3>5. passed'[k] = passed[key] \/ passed'[k] = Append(passed[key], p)
      BY <1>7, <2>1
    <3> QED
      BY <1>3, <1>9, <1>13, <3>3, <3>4, <3>5, Appended
  <2>2. CASE k # key
    <3>1. passed'[k] = passed[k]
      BY <1>7, <1>13, <2>2
    <3>2. at'[d] = None \/ at'[d] = at[d]
      BY <1>1
    <3> QED
      BY <1>13, <3>1, <3>2 DEF SpacedInv
  <2> QED
    BY <2>1, <2>2
<1>14. ASSUME NEW k \in Keys PROVE Alone(k)' <=> Alone(k)
  BY DEF Alone
<1>15. ASSUME NEW k \in Keys, Alone(k) PROVE Apart(buckets[k], passed[k], now)'
  BY <1>1, <1>12, <1>15 DEF Apart, Admitted
<1> QED
  BY <1>1, <1>13, <1>14, <1>15 DEF SpacedInv, Keys

(* No request has been admitted when the API starts *)
LEMMA InitSpacedInv == Init => SpacedInv
<1> SUFFICES ASSUME Init PROVE SpacedInv
  OBVIOUS
<1>1. \A k \in Keys : buckets[k] = None /\ passed[k] = <<>>
  BY DEF Init, LimiterInit
<1>2. Limit \in Nat \ {0}
  BY LimiterAssumption
<1>3. Apart(None, <<>>, now)
  BY <1>2 DEF Apart, Admitted
<1> QED
  BY <1>1, <1>3 DEF SpacedInv

(* A client reads the clock after what has been admitted of its keys *)
LEMMA StepKeepsSpacedInv ==
  ASSUME LimiterInv, SpacedInv, [Next]_vars
  PROVE  SpacedInv'
<1>0. /\ now \in Nat /\ at \in [Clients -> Nat \cup {None}]
      /\ \A k \in Keys : passed[k] \in Seq(Passage) /\ buckets[k] \in Bucket \cup {None}
  BY DEF LimiterInv, Backed
<1>1. CASE UNCHANGED limiterVars
  BY <1>1 DEF limiterVars, SpacedInv, Apart, Admitted, Alone, Keys
<1>2. ASSUME NEW m \in Migrators, MigrateStep(m) PROVE SpacedInv'
  BY <1>1, <1>2 DEF MigrateStep, servingVars
<1>3. CASE Launch
  BY <1>1, <1>3 DEF Launch, servingVars
<1>4. ASSUME NEW c \in Clients, Request(c) PROVE SpacedInv'
  <2>1. at' = [at EXCEPT ![c] = now] /\ now' = now /\ buckets' = buckets /\ passed' = passed
    BY <1>4 DEF Request, ReadClock
  <2>2. \A d \in Clients : at'[d] = now \/ at'[d] = at[d]
    BY <1>0, <2>1
  <2> QED
    BY <2>1, <2>2 DEF SpacedInv, Apart, Admitted, Alone, Keys
<1>5. ASSUME NEW c \in Clients, Pass(c) PROVE SpacedInv'
  BY <1>5, AllowKeepsSpaced DEF Pass, Admit
<1>6. ASSUME NEW c \in Clients, TooMany(c) PROVE SpacedInv'
  BY <1>6, AllowKeepsSpaced DEF TooMany, Refuse
<1>7. ASSUME NEW c \in Clients, StoreStep(c) PROVE SpacedInv'
  BY <1>1, <1>7 DEF StoreStep
<1>8. CASE Time
  <2>1. now' = now + 1 /\ at' = at /\ buckets' = buckets /\ passed' = passed
    BY <1>8 DEF Time, Tick
  <2>2. ASSUME NEW k \in Keys, Alone(k) PROVE Apart(buckets[k], passed[k], now)'
    <3>1. Apart(buckets[k], passed[k], now + 1)
      BY <1>0, <2>2, LaterApart DEF SpacedInv
    <3> QED
      BY <2>1, <3>1 DEF Apart, Admitted
  <2>3. ASSUME NEW k \in Keys, Alone(k), NEW d \in Clients, NEW i \in DOMAIN passed[k],
               k \in KeysOf[d]
        PROVE  passed[k][i].when <= now + 1
    <3>1. passed[k][i].when <= now /\ passed[k][i].when \in Nat
      BY <1>0, <2>3, LogTypes DEF SpacedInv
    <3> QED
      BY <1>0, <3>1
  <2> QED
    BY <2>1, <2>2, <2>3 DEF SpacedInv, Alone, Keys
<1>9. CASE UNCHANGED vars
  BY <1>1, <1>9 DEF vars, servingVars
<1> QED
  BY <1>2, <1>3, <1>4, <1>5, <1>6, <1>7, <1>8, <1>9 DEF Next

-----------------------------------------------------------------------------
(* The types of the three components *)

(* The statements of the files are all that is ever made, and their versions *)
(* all that is ever recorded                                                 *)
FilesInv == made \subseteq Schema /\ recorded \subseteq Versions

(* An upgrade starts with what the files of an earlier version made *)
LEMMA InitFilesInv == SchemaInit => FilesInv
BY MigrationAssumption DEF SchemaInit, FilesInv, Upgraded, Schema, Versions

(* A migrator executes and records files it has found *)
LEMMA StepKeepsFilesInv ==
  ASSUME SchemaInv, FilesInv, [Next]_vars
  PROVE  FilesInv'
<1>1. ASSUME NEW m \in Migrators, ExecStatement(m) PROVE FilesInv'
  <2>1. file[m] \in Versions /\ line[m] \in 1..Statements[file[m]]
    BY <1>1 DEF SchemaInv, Reached, Working, ExecStatement, At
  <2>2. Statement(m) \in Schema
    BY <2>1 DEF Statement, Schema, Changes
  <2> QED
    BY <1>1, <2>2 DEF ExecStatement, FilesInv, Schema, Changes
<1>2. ASSUME NEW m \in Migrators, Record(m) PROVE FilesInv'
  <2>1. file[m] \in Versions
    BY <1>2 DEF SchemaInv, Reached, Working, Record, At
  <2> QED
    BY <1>2, <2>1 DEF Record, FilesInv, Schema, Changes
<1>3. ASSUME UNCHANGED <<made, recorded>> PROVE FilesInv'
  BY <1>3 DEF FilesInv, Schema, Changes
<1>4. ASSUME NEW m \in Migrators, Migrate(m) PROVE FilesInv'
  BY <1>1, <1>2, <1>3, <1>4
     DEF Migrate, Start, Skip, Unrecorded, ExecFails, RecordFails, Die
<1> QED
  BY <1>3, <1>4
     DEF Next, MigrateStep, Launch, Request, Pass, TooMany, StoreStep, Time, vars, schemaVars

(* Counters are counters, and clients count their requests *)
CountersInv == buckets \in [Keys -> Bucket \cup {None}] /\ sent \in [Clients -> Nat]

(* The clean-up leaves counters *)
LEMMA TidiedTypes ==
  ASSUME NEW bs \in [Keys -> Bucket \cup {None}], NEW t
  PROVE  Tidied(bs, t) \in [Keys -> Bucket \cup {None}]
BY DEF Tidied, Cleaned

(* A request makes a new counter or one more of an old one *)
LEMMA CountedTypes ==
  ASSUME NEW b \in Bucket \cup {None}, NEW t \in Nat
  PROVE  Counted(b, t) \in Bucket
<1>1. CASE Over(b, t)
  BY <1>1, LimiterAssumption DEF Counted, Bucket
<1>2. CASE ~Over(b, t)
  <2>1. b \in Bucket
    BY <1>2 DEF Over
  <2> QED
    BY <1>2, <2>1 DEF Counted, Bucket
<1> QED
  BY <1>1, <1>2

(* The decision of the middleware keeps counters counters *)
LEMMA AllowKeepsCounters ==
  ASSUME LimiterInv, CountersInv, NEW c \in Clients, NEW admitted \in BOOLEAN,
         Allow(c, admitted)
  PROVE  CountersInv'
<1> DEFINE key == named[c]
           new == Counted(buckets[key], at[c])
<1>1. key \in Keys /\ at[c] \in Nat /\ sent' = sent
  BY DEF LimiterInv, Allow, Keys
<1>2. buckets' = Tidied([buckets EXCEPT ![key] = new], at[c])
  BY DEF Allow
<1>3. new \in Bucket
  BY <1>1, CountedTypes DEF CountersInv
<1> HIDE DEF key, new
<1>4. [buckets EXCEPT ![key] = new] \in [Keys -> Bucket \cup {None}]
  BY <1>3 DEF CountersInv
<1> QED
  BY <1>1, <1>2, <1>4, TidiedTypes DEF CountersInv, Keys

(* There is no counter, and no request, when the API starts *)
LEMMA InitCountersInv == Init => CountersInv
BY DEF Init, LimiterInit, CountersInv

(* Nothing but the middleware makes a counter *)
LEMMA StepKeepsCountersInv ==
  ASSUME LimiterInv, CountersInv, [Next]_vars
  PROVE  CountersInv'
<1>1. CASE UNCHANGED <<buckets, sent>>
  BY <1>1 DEF CountersInv, Keys
<1>2. ASSUME NEW c \in Clients, Request(c) PROVE CountersInv'
  BY <1>2 DEF Request, ReadClock, CountersInv, Keys
<1>3. ASSUME NEW c \in Clients, Pass(c) \/ TooMany(c) PROVE CountersInv'
  BY <1>3, AllowKeepsCounters DEF Pass, TooMany, Admit, Refuse
<1> QED
  BY <1>1, <1>2, <1>3
     DEF Next, MigrateStep, Launch, StoreStep, Time, Tick, vars, servingVars, limiterVars

(* How many connections a handler holds follows from what it does, and all *)
(* of them together are no more than the pool has                          *)
Needs(s) ==
  IF s \in {"idle", "auth", "query"} THEN 0 ELSE IF s = "in_row" THEN 2 ELSE 1

Holding(c) == held[c] = Needs(step[c])

PoolInv ==
  /\ step \in [Callers -> {"idle"} \cup Steps]
  /\ held \in [Callers -> 0..2]
  /\ \A c \in Callers : Holding(c)
  /\ InUse <= PoolSize

(* So many handlers, with two connections each, can be counted *)
LEMMA ConnectionsFinite == IsFiniteSet(Connections) /\ InUse \in Nat
<1>1. IsFiniteSet(1..2)
  BY FS_Interval, 1 \in Int, 2 \in Int
<1>2. IsFiniteSet(Callers \X (1..2))
  BY <1>1, FS_Product, PoolAssumption
<1>3. Connections \subseteq Callers \X (1..2)
  BY DEF Connections
<1> QED
  BY <1>2, <1>3, FS_Subset, FS_CardinalityType DEF InUse

(* A connection that is freed, or kept, is not one more in use *)
LEMMA FreedInUse ==
  ASSUME held \in [Callers -> 0..2], NEW c \in Callers, NEW n \in 0..2,
         n <= held[c], held' = [held EXCEPT ![c] = n]
  PROVE  InUse' <= InUse
<1>1. \A x \in Callers : held'[x] <= held[x] /\ held[x] \in 0..2 /\ held'[x] \in 0..2
  OBVIOUS
<1>2. Connections' \subseteq Connections
  BY <1>1 DEF Connections
<1> QED
  BY <1>2, ConnectionsFinite, FS_Subset DEF InUse

(* A connection that is taken is one more *)
LEMMA TakenInUse ==
  ASSUME held \in [Callers -> 0..2], NEW c \in Callers, held[c] \in 0..1,
         held' = [held EXCEPT ![c] = held[c] + 1]
  PROVE  InUse' = InUse + 1
<1> DEFINE x == <<c, held[c] + 1>>
<1>1. /\ held'[c] = held[c] + 1 /\ \A d \in Callers \ {c} : held'[d] = held[d]
      /\ \A d \in Callers : held[d] \in 0..2
  OBVIOUS
<1>2. x \in Callers \X (1..2) /\ x \notin Connections
  BY DEF Connections
<1>3. ASSUME NEW d \in Callers, NEW i \in 1..2
      PROVE  i <= held'[d] <=> i <= held[d] \/ <<d, i>> = x
  BY <1>1
<1> HIDE DEF x
<1>4. Connections' = Connections \cup {x}
  <2>1. /\ \A d \in Callers, i \in 1..2 : <<d, i>> \in Connections' <=> i <= held'[d]
        /\ \A d \in Callers, i \in 1..2 : <<d, i>> \in Connections <=> i <= held[d]
        /\ Connections' \subseteq Callers \X (1..2) /\ Connections \subseteq Callers \X (1..2)
    BY DEF Connections
  <2>2. \A d \in Callers, i \in 1..2 :
           <<d, i>> \in Connections' <=> <<d, i>> \in Connections \cup {x}
    BY <1>3, <2>1
  <2>3. \A y \in Callers \X (1..2) : \E d \in Callers, i \in 1..2 : y = <<d, i>>
    OBVIOUS
  <2>4. ASSUME NEW y \in Callers \X (1..2)
        PROVE  y \in Connections' <=> y \in Connections \cup {x}
    <3>1. PICK d \in Callers, i \in 1..2 : y = <<d, i>>
      BY <2>3
    <3> QED
      BY <2>2, <3>1, Zenon
  <2> QED
    BY <1>2, <2>1, <2>4, Zenon
<1> QED
  BY <1>2, <1>4, ConnectionsFinite, FS_AddElement DEF InUse

(* No handler runs when the API starts *)
LEMMA InitPoolInv == Init => PoolInv
<1> SUFFICES ASSUME Init PROVE PoolInv
  OBVIOUS
<1>1. step = [c \in Callers |-> "idle"] /\ held = [c \in Callers |-> 0]
  BY DEF Init, PoolInit
<1>2. Connections = {}
  BY <1>1 DEF Connections
<1>3. InUse = 0
  BY <1>2, FS_EmptySet DEF InUse
<1> QED
  BY <1>1, <1>3, PoolAssumption DEF PoolInv, Holding, Needs

(* What one handler does changes nothing that others do or hold *)
LEMMA OneHandler ==
  ASSUME PoolInv, NEW c \in Callers, NEW n \in 0..2, NEW to \in {"idle"} \cup Steps,
         step' = [step EXCEPT ![c] = to], held' = [held EXCEPT ![c] = n],
         Holding(c)', InUse' <= PoolSize
  PROVE  PoolInv'
<1>1. /\ step' \in [Callers -> {"idle"} \cup Steps]
      /\ held' \in [Callers -> 0..2]
  BY DEF PoolInv
<1>2. ASSUME NEW d \in Callers \ {c} PROVE Holding(d)'
  <2>1. step'[d] = step[d] /\ held'[d] = held[d] /\ Holding(d)
    BY DEF PoolInv
  <2> QED
    BY <2>1 DEF Holding
<1> QED
  BY <1>1, <1>2 DEF PoolInv

(* A handler that goes on with the connections it needs, and no more *)
LEMMA HandlerFrees ==
  ASSUME PoolInv, NEW c \in Callers, NEW to \in {"idle"} \cup Steps,
         Needs(to) <= Needs(step[c]),
         step' = [step EXCEPT ![c] = to], held' = [held EXCEPT ![c] = Needs(to)]
  PROVE  PoolInv'
<1>1. Needs(to) \in 0..2 /\ Needs(to) <= held[c] /\ held \in [Callers -> 0..2]
  BY DEF PoolInv, Holding, Needs
<1>2. InUse' <= InUse /\ InUse \in Nat /\ InUse <= PoolSize /\ PoolSize \in Nat
  BY <1>1, FreedInUse, ConnectionsFinite, PoolAssumption DEF PoolInv
<1>3. InUse' \in Nat
  <2>1. Connections' \subseteq Connections
    <3>1. \A x \in Callers : held'[x] = held[x] \/ (held'[x] = Needs(to) /\ x = c)
      BY <1>1
    <3>2. \A x \in Callers : held'[x] <= held[x] /\ held[x] \in 0..2 /\ held'[x] \in 0..2
      BY <1>1, <3>1
    <3> QED
      BY <3>2 DEF Connections
  <2> QED
    BY <2>1, ConnectionsFinite, FS_Subset, FS_CardinalityType DEF InUse
<1>4. step'[c] = to /\ held'[c] = Needs(to)
  BY DEF PoolInv
<1>5. Holding(c)'
  BY <1>4 DEF Holding, Needs
<1>6. InUse' <= PoolSize
  BY <1>2, <1>3
<1> QED
  BY <1>1, <1>5, <1>6, OneHandler

(* The pool gives a connection only while fewer than all are in use *)
LEMMA AcquireKeepsPool ==
  ASSUME PoolInv, NEW c \in Callers, Acquire(c)
  PROVE  PoolInv'
<1>1. PICK to \in {"authenticating", "statement", "rows", "in_row"} :
        step' = [step EXCEPT ![c] = to] /\ (to = "in_row" <=> step[c] = "row")
                /\ step[c] \in {"auth", "query", "row"}
  BY DEF Acquire, Goto
<1>2. /\ held' = [held EXCEPT ![c] = held[c] + 1] /\ InUse < PoolSize
      /\ held[c] = Needs(step[c]) /\ held \in [Callers -> 0..2]
  BY DEF Acquire, Hold, PoolInv, Holding
<1>3. held[c] \in 0..1 /\ held[c] + 1 = Needs(to)
  BY <1>1, <1>2 DEF Needs
<1>4. InUse' = InUse + 1
  BY <1>2, <1>3, TakenInUse
<1>5. InUse' <= PoolSize
  BY <1>2, <1>4, ConnectionsFinite, PoolAssumption
<1>6. step'[c] = to /\ held'[c] = held[c] + 1
  BY <1>1, <1>2 DEF PoolInv
<1>7. Holding(c)'
  BY <1>3, <1>6 DEF Holding, Needs
<1>8. to \in {"idle"} \cup Steps /\ held[c] + 1 \in 0..2
  BY <1>1, <1>3 DEF Steps
<1> QED
  BY <1>1, <1>2, <1>5, <1>7, <1>8, OneHandler

(* A handler's other steps free what it no longer needs *)
LEMMA UseKeepsPool ==
  ASSUME PoolInv, NEW c \in Callers, Use(c) \/ GiveUp(c)
  PROVE  PoolInv'
<1>1. /\ held = [held EXCEPT ![c] = held[c]] /\ held[c] = Needs(step[c])
      /\ step[c] \in {"idle"} \cup Steps
  BY DEF PoolInv, Holding
<1> SUFFICES \E to \in {"idle"} \cup Steps :
               /\ Needs(to) <= Needs(step[c])
               /\ step' = [step EXCEPT ![c] = to]
               /\ held' = [held EXCEPT ![c] = Needs(to)]
  BY HandlerFrees
<1>2. CASE Authenticated(c)
  <2>1. Needs("query") = 0 /\ Needs("query") <= Needs(step[c]) /\ "query" \in Steps
    BY DEF Needs, Steps
  <2> QED
    BY <1>2, <2>1 DEF Authenticated, Goto, Hold
<1>3. CASE Finish(c) \/ NoMoreRows(c) \/ GiveUp(c)
  <2>1. Needs("idle") = 0 /\ Needs("idle") <= Needs(step[c])
    BY DEF Needs
  <2> QED
    BY <1>3, <2>1 DEF Finish, NoMoreRows, GiveUp, Goto, Hold
<1>4. CASE NextRow(c)
  <2>1. step[c] = "rows" /\ step' = [step EXCEPT ![c] = "row"] /\ held' = held
    BY <1>4 DEF NextRow, Goto, Keep
  <2>2. Needs("row") = Needs("rows") /\ Needs("row") <= Needs("rows") /\ "row" \in Steps
    BY DEF Needs, Steps
  <2> QED
    BY <1>1, <2>1, <2>2
<1>5. CASE RowDone(c)
  <2>1. /\ step[c] = "in_row" /\ step' = [step EXCEPT ![c] = "rows"]
        /\ held' = [held EXCEPT ![c] = 1]
    BY <1>5 DEF RowDone, Goto, Hold
  <2>2. Needs("rows") = 1 /\ Needs("rows") <= Needs("in_row") /\ "rows" \in Steps
    BY DEF Needs, Steps
  <2> QED
    BY <2>1, <2>2
<1> QED
  BY <1>2, <1>3, <1>4, <1>5 DEF Use

(* A handler begins without a connection, as it waited for its request *)
LEMMA HandleKeepsPool ==
  ASSUME PoolInv, NEW c \in Callers, Handle(c)
  PROVE  PoolInv'
<1>1. step[c] = "idle" /\ step' = [step EXCEPT ![c] = "auth"] /\ held' = held
  BY DEF Handle, Goto, Keep
<1>2. held = [held EXCEPT ![c] = held[c]] /\ held[c] = Needs("idle")
  BY <1>1 DEF PoolInv, Holding
<1>3. Needs("auth") = Needs("idle") /\ Needs("auth") <= Needs("idle") /\ "auth" \in Steps
  BY DEF Needs, Steps
<1> QED
  BY <1>1, <1>2, <1>3, HandlerFrees

(* Nothing but the handlers takes or frees a connection *)
LEMMA StepKeepsPoolInv ==
  ASSUME PoolInv, [Next]_vars
  PROVE  PoolInv'
<1>1. CASE UNCHANGED poolVars
  BY <1>1 DEF poolVars, PoolInv, Holding, InUse, Connections
<1>2. ASSUME NEW c \in Callers, Handle(c) PROVE PoolInv'
  BY <1>2, HandleKeepsPool
<1>3. ASSUME NEW c \in Clients, StoreStep(c) PROVE PoolInv'
  BY <1>3, AcquireKeepsPool, UseKeepsPool DEF StoreStep
<1> QED
  BY <1>1, <1>2, <1>3
     DEF Next, MigrateStep, Launch, Request, Pass, TooMany, Time, vars, servingVars, poolVars

-----------------------------------------------------------------------------
(* What follows for the deployment *)

DeploymentInv ==
  /\ SchemaInv /\ FilesInv
  /\ ServiceInv /\ serving \in BOOLEAN
  /\ LimiterInv /\ CountersInv /\ SpacedInv
  /\ PoolInv

(* All that the theorems rest on holds in every state of an upgrade *)
THEOREM DeploymentInvariant == Spec => []DeploymentInv
<1>1. Init => DeploymentInv
  BY InitSchemaInv, InitFilesInv, InitServiceInv, InitLimiterInv, InitCountersInv,
     InitSpacedInv, InitPoolInv DEF DeploymentInv, Init
<1>2. DeploymentInv /\ [Next]_vars => DeploymentInv'
  <2>1. LimiterInv => now \in Nat
    BY DEF LimiterInv
  <2>2. serving \in BOOLEAN /\ [Next]_vars => serving' \in BOOLEAN
    BY DEF Next, MigrateStep, Launch, Request, Pass, TooMany, StoreStep, Time, vars
  <2> QED
    BY <2>1, <2>2, StepKeepsSchemaInv, StepKeepsFilesInv, StepKeepsServiceInv,
       StepKeepsLimiterInv, StepKeepsCountersInv, StepKeepsSpacedInv, StepKeepsPoolInv
       DEF DeploymentInv
<1> QED
  BY <1>1, <1>2, PTL DEF Spec

(* TypeOK: besides the types, only statements and versions of the files are *)
(* ever made and recorded, and whatever requests hold and wait for at once, *)
(* the store never has more connections open than SetMaxOpenConns allows.   *)
THEOREM DeploymentTypes == Spec => []TypeOK
<1>1. DeploymentInv => TypeOK
  <2> SUFFICES ASSUME DeploymentInv PROVE TypeOK
    OBVIOUS
  <2>1. SchemaTypeOK
    BY DEF DeploymentInv, SchemaInv, FilesInv, RunStates, SchemaTypeOK
  <2>2. LimiterTypeOK
    <3>1. \A k \in Keys : passed[k] \in Seq(Passage)
      BY DEF DeploymentInv, LimiterInv
    <3>2. \A k \in Keys : \A i \in DOMAIN passed[k] : passed[k][i] \in Passage
      BY <3>1
    <3> QED
      BY <3>2 DEF DeploymentInv, LimiterInv, CountersInv, LimiterTypeOK
  <2>3. PoolTypeOK
    BY DEF DeploymentInv, PoolInv, PoolTypeOK
  <2> QED
    BY <2>1, <2>2, <2>3 DEF DeploymentInv, TypeOK
<1> QED
  BY <1>1, DeploymentInvariant, PTL

(* TwicePerWindow: a key that one client alone gives, a client that waits  *)
(* for its answers, never has more than twice Limit requests admitted in   *)
(* less than a window, wherever those requests wait for the mutex, which   *)
(* other keys the client gives, and whichever clean-up takes the counter.  *)
THEOREM TwicePerWindowHolds == Spec => []TwicePerWindow
<1>1. DeploymentInv => TwicePerWindow
  BY DEF DeploymentInv, SpacedInv, Apart, TwicePerWindow
<1> QED
  BY <1>1, DeploymentInvariant, PTL

(* TablesThere: whichever migrators ran, raced, failed or died between two *)
(* statements, a request never finds a table or column missing once the    *)
(* API has been launched on a migrator's success.                          *)
THEOREM TablesThereHolds == Spec => []TablesThere
<1>1. DeploymentInv => TablesThere
  BY DEF DeploymentInv, ServiceInv, TablesThere
<1> QED
  BY <1>1, DeploymentInvariant, PTL

(* RefusalJustified, of one step: a counter that refuses is running and    *)
(* past the limit, so that Limit requests were admitted since its window   *)
(* began, which is less than a window before the request read the clock.   *)
LEMMA RefusalBacked ==
  ASSUME LimiterInv, NEW c \in Clients, Refuse(c)
  PROVE  LET log == passed[named[c]] IN
         Cardinality({i \in DOMAIN log : log[i].when > at[c] - Window}) >= Limit
<1> DEFINE key == named[c]
           b == buckets[key]
           log == passed[key]
           recent == {i \in DOMAIN log : log[i].when > at[c] - Window}
<1>1. Limit \in Nat \ {0} /\ Window \in Nat \ {0}
  BY LimiterAssumption
<1>2. key \in Keys /\ at[c] \in Nat /\ ~(Counted(b, at[c]).used <= Limit)
  BY DEF LimiterInv, Refuse, Allow, Keys
<1>3. log \in Seq(Passage) /\ Backed(b, log)
  BY <1>2 DEF LimiterInv
<1>4. ~Over(b, at[c])
  BY <1>1, <1>2 DEF Counted
<1>5. /\ b \in Bucket /\ at[c] < b.resetAt /\ b.used >= Limit
      /\ Cardinality(Since(log, b.resetAt - Window)) >= Least(b.used, Limit)
  <2>1. b # None /\ ~(at[c] >= b.resetAt)
    BY <1>4 DEF Over
  <2>2. b \in Bucket /\ Cardinality(Since(log, b.resetAt - Window)) >= Least(b.used, Limit)
    BY <1>3, <2>1 DEF Backed
  <2>3. Counted(b, at[c]).used = b.used + 1
    BY <1>4, <2>2 DEF Counted, Bucket
  <2> HIDE DEF b
  <2> QED
    BY <1>1, <1>2, <2>1, <2>2, <2>3 DEF Bucket
<1> HIDE DEF b, log, key
<1>6. Cardinality(Since(log, b.resetAt - Window)) >= Limit
  BY <1>1, <1>5 DEF Least, Bucket
<1>7. Since(log, b.resetAt - Window) \subseteq recent
  <2> SUFFICES ASSUME NEW i \in DOMAIN log, log[i].when >= b.resetAt - Window
               PROVE  log[i].when > at[c] - Window
    BY DEF Since
  <2>1. log[i].when \in Nat
    <3>1. \A e \in Passage : e.when \in Nat
      BY DEF Passage
    <3>2. log[i] \in Passage
      BY <1>3
    <3> QED
      BY <3>1, <3>2
  <2>2. b.resetAt \in Nat
    BY <1>5 DEF Bucket
  <2> QED
    BY <1>1, <1>2, <1>5, <2>1, <2>2
<1>8. IsFiniteSet(recent)
  <2>1. recent \subseteq 1..Len(log)
    BY <1>3
  <2> QED
    BY <1>3, <2>1, FS_Interval, FS_Subset
<1>9. Cardinality(recent) \in Nat /\ Cardinality(Since(log, b.resetAt - Window)) \in Nat
      /\ Cardinality(Since(log, b.resetAt - Window)) <= Cardinality(recent)
  BY <1>7, <1>8, FS_Subset, FS_CardinalityType
<1>10. Cardinality(recent) >= Limit
  BY <1>1, <1>6, <1>9
<1> QED
  BY <1>10 DEF log, key

(* RefusalJustified: however requests wait between the clock and the mutex, *)
(* whichever keys clients give and whenever the clean-up runs, no request   *)
(* is refused but for what was admitted with the key it has given itself.   *)
THEOREM RefusalsJustified == Spec => RefusalJustified
<1>1. LimiterInv /\ [Next]_vars =>
        [\A c \in Clients : Refuse(c) =>
           LET log == passed[named[c]] IN
           Cardinality({i \in DOMAIN log : log[i].when > at[c] - Window}) >= Limit]_limiterVars
  BY RefusalBacked
<1>2. DeploymentInv => LimiterInv
  BY DEF DeploymentInv
<1> QED
  BY <1>1, <1>2, DeploymentInvariant, PTL DEF Spec, RefusalJustified
=============================================================================
