--------------------------- MODULE PoliciesProofs ---------------------------
(***************************************************************************)
(* Proofs about Policies: what an effective strategy is put together from, *)
(* for any number of readers and of changes that fall between their        *)
(* statements, and what an access evaluation decides, for any rules.       *)
(***************************************************************************)
EXTENDS Policies, FiniteOrders

-----------------------------------------------------------------------------
(* Lists *)

(* ListDeviceGroups, ListStrategies: a list that is no longer than the     *)
(* LIMIT of its statement is read as a whole.                              *)
LEMMA WholeList ==
  ASSUME NEW set \in SUBSET Int, IsFiniteSet(set), Cardinality(set) <= ListLimit
  PROVE  Newest(set) = set
<1> SUFFICES ASSUME NEW x \in set PROVE Cardinality({y \in set : y > x}) < ListLimit
  BY DEF Newest
<1> DEFINE newer == {y \in set : y > x}
<1>1. newer \in SUBSET set /\ newer # set
  <2>1. x \notin newer
    OBVIOUS
  <2> QED BY <2>1
<1>2. Cardinality(newer) <= Cardinality(set) /\ Cardinality(newer) # Cardinality(set)
  <2> HIDE DEF newer
  <2> QED BY <1>1, FS_Subset
<1>3. IsFiniteSet(newer)
  <2> HIDE DEF newer
  <2> QED BY <1>1, FS_Subset
<1>4. Cardinality(newer) \in Nat /\ Cardinality(set) \in Nat /\ ListLimit \in Nat
  <2> HIDE DEF newer
  <2> QED BY <1>3, FS_CardinalityType, BoundAssumption
<1> QED BY <1>2, <1>4

(* The list loops of EffectiveStrategy take rows of a finite list *)
LEMMA HighestIn ==
  ASSUME NEW set \in SUBSET Int, IsFiniteSet(set), set # {}
  PROVE  Highest(set) \in set
<1>1. PICK x \in set : \A y \in set : y <= x
  BY GreatestExists
<1> QED BY <1>1 DEF Highest

(* Every list is of ids in a fixed range *)
LEMMA RangesAreFinite ==
  /\ DeviceGroups \in SUBSET Int /\ IsFiniteSet(DeviceGroups)
  /\ StrategyIds \in SUBSET Int /\ IsFiniteSet(StrategyIds)
  /\ RuleIds \in SUBSET Int /\ IsFiniteSet(RuleIds)
BY BoundAssumption, FS_Interval DEF DeviceGroups, StrategyIds, RuleIds

-----------------------------------------------------------------------------
(* The inductive invariant *)

Tables == {{}} \cup UNION {[ids -> Strategies] : ids \in SUBSET StrategyIds}
Tasks == [device : Devices, user : Owners, todo : SUBSET Nat,
          in : SUBSET DeviceGroups, rows : Tables, got : SUBSET Assignments]

(* The strategies have been listed, and what was got belongs to them *)
Listed(t) ==
  /\ t.rows \in [DOMAIN t.rows -> Strategies] /\ DOMAIN t.rows \subseteq StrategyIds
  /\ t.todo \subseteq DOMAIN t.rows
  /\ \A x \in t.got : x.strategy \in DOMAIN t.rows

StepOf(c) ==
  /\ pc[c] # "idle" => task[c] \in Tasks
  /\ pc[c] \in {"groups", "members"} => task[c].got = {}
  /\ pc[c] = "members" => task[c].todo \subseteq DeviceGroups
  /\ pc[c] \in {"assignments", "done"} => Listed(task[c])
  /\ pc[c] = "done" => task[c].todo = {} /\ reply[c] = Resolve(task[c])

(* Whatever was read, the store offered *)
OfferedOf(c) == pc[c] # "idle" =>
  /\ [target |-> task[c].device] \in offered[c]
  /\ task[c].user # None => [target |-> task[c].user] \in offered[c]
  /\ \A g \in task[c].in : [target |-> g] \in offered[c]
  /\ task[c].got \subseteq offered[c]
  /\ pc[c] \in {"assignments", "done"} =>
       \A s \in DOMAIN task[c].rows : task[c].rows[s].enabled =>
         [strategy |-> s, terminal |-> task[c].rows[s].terminal] \in offered[c]

(* The history is of the present too *)
CurrentOf(c) == Reading(c) =>
  always[c] \subseteq InForce(task[c]) /\ Offers(task[c]) \subseteq offered[c]

(* Only groups that exist have members *)
GroupsUsed == \A g \in DeviceGroups : members[g] # {} => g <= groups

HistoryTypes ==
  /\ task \in [Calls -> Tasks \cup {None}]
  /\ always \in [Calls -> SUBSET [strategy : StrategyIds, target : Targets, terminal : Settings]]
  /\ offered = [c \in Calls |-> offered[c]]

Inv ==
  /\ TypeOK /\ GroupsUsed /\ HistoryTypes
  /\ \A c \in Calls : StepOf(c) /\ OfferedOf(c) /\ CurrentOf(c)

(* No list is longer than the LIMIT of its statement *)
WithinLimits ==
  /\ groups <= ListLimit
  /\ Cardinality({s \in StrategyIds : strategies[s] # None}) <= ListLimit

(* What was in force all the while is not missed: its group is still to be *)
(* asked or was found, its strategy was listed as it is, and its assignment*)
(* is still to be read or was.                                             *)
KeptOf(c) == \A x \in always[c] :
  /\ pc[c] = "members" =>
       x.target \in {task[c].device, task[c].user} \cup task[c].in \cup task[c].todo
  /\ pc[c] \in {"assignments", "done"} =>
       /\ assignmentMatches(x, task[c])
       /\ x.strategy \in DOMAIN task[c].rows
       /\ task[c].rows[x.strategy].enabled
       /\ task[c].rows[x.strategy].terminal = x.terminal /\ x.terminal # None
       /\ \/ x.strategy \in task[c].todo
          \/ [strategy |-> x.strategy, target |-> x.target] \in task[c].got

Kept == \A c \in Calls : KeptOf(c)

-----------------------------------------------------------------------------
(* What Resolve answers *)

(* What is merged was read, assigned and enabled, and sets the key *)
LEMMA MergedIs ==
  ASSUME NEW t \in Tasks, Listed(t), NEW x \in Merged(t)
  PROVE  /\ x \in t.got /\ x \in Assignments /\ assignmentMatches(x, t)
         /\ x.strategy \in DOMAIN t.rows /\ t.rows[x.strategy].enabled
         /\ t.rows[x.strategy].terminal \in {"Y", "N"}
BY DEF Merged, Listed, Tasks, Strategies, Settings

(* Resolver.Resolve: when a strategy is merged that sets the key, the      *)
(* answer is what the last one merged set.                                 *)
LEMMA LastMerged ==
  ASSUME NEW t \in Tasks, Listed(t), Merged(t) # {}
  PROVE  \E last \in Merged(t) :
           /\ \A y \in Merged(t) : ~MergedAfter(y, last)
           /\ Resolve(t) = t.rows[last.strategy].terminal
<1> DEFINE levels == {Level(x.target) : x \in Merged(t)}
<1>1. levels \in SUBSET (1 .. 3) /\ levels # {}
  BY DEF Level
<1>2. PICK top \in levels : \A l \in levels : l <= top
  <2>1. levels \in SUBSET Int /\ IsFiniteSet(levels)
    <3> HIDE DEF levels
    <3>1. IsFiniteSet(1 .. 3)
      <4>1. 1 \in Int /\ 3 \in Int
        OBVIOUS
      <4> QED BY <4>1, FS_Interval, Zenon
    <3>2. 1 .. 3 \in SUBSET Int
      OBVIOUS
    <3> QED BY <1>1, <3>1, <3>2, FS_Subset, Zenon
  <2> HIDE DEF levels
  <2> QED BY <1>1, <2>1, GreatestExists
<1> DEFINE ids == {x.strategy : x \in {y \in Merged(t) : Level(y.target) = top}}
<1>3. ids \in SUBSET StrategyIds /\ ids # {}
  BY DEF Merged, Listed
<1>4. PICK id \in ids : \A i \in ids : id <= i
  <2>1. ids \in SUBSET Int /\ IsFiniteSet(ids)
    <3> HIDE DEF ids
    <3> QED BY <1>3, RangesAreFinite, FS_Subset
  <2> HIDE DEF ids
  <2> QED BY <1>3, <2>1, LeastExists
<1>5. PICK x \in Merged(t) : Level(x.target) = top /\ x.strategy = id
  BY <1>4
<1>6. ASSUME NEW y \in Merged(t) PROVE ~MergedAfter(y, x)
  <2>1. Level(y.target) <= top /\ (Level(y.target) = top => id <= y.strategy)
    BY <1>2, <1>4
  <2>2. Level(y.target) \in Int /\ Level(x.target) \in Int
    BY DEF Level
  <2>3. y.strategy \in Int /\ x.strategy \in Int
    BY MergedIs, RangesAreFinite DEF Listed
  <2> HIDE DEF levels, ids
  <2>4. Level(y.target) <= Level(x.target)
        /\ (Level(y.target) = Level(x.target) => x.strategy <= y.strategy)
    BY <1>5, <2>1, Zenon
  <2>5. \A k, l, i, j \in Int : k <= l /\ (k = l => j <= i) => ~(k > l \/ (k = l /\ i < j))
    OBVIOUS
  <2> QED BY <2>2, <2>3, <2>4, <2>5, Zenon DEF MergedAfter
<1> DEFINE last == CHOOSE z \in Merged(t) : \A y \in Merged(t) : ~MergedAfter(y, z)
<1>7. last \in Merged(t) /\ \A y \in Merged(t) : ~MergedAfter(y, last)
  BY <1>6
<1>8. Resolve(t) = t.rows[last.strategy].terminal
  BY DEF Resolve
<1> HIDE DEF last
<1> QED BY <1>7, <1>8

(* Nothing but a setting comes out of Resolve *)
LEMMA ResolveType ==
  ASSUME NEW t \in Tasks, Listed(t)
  PROVE  Resolve(t) \in {"Y", "N"}
<1>1. CASE Merged(t) = {}
  BY <1>1 DEF Resolve
<1>2. CASE Merged(t) # {}
  BY <1>2, LastMerged, MergedIs
<1> QED BY <1>1, <1>2

-----------------------------------------------------------------------------
(* Types *)

DeviceTypes ==
  /\ device \in [Devices -> Owners \cup {"absent"}]
  /\ groups \in 0 .. MaxGroups
  /\ members \in [DeviceGroups -> SUBSET {d \in Devices : Exists(d)}]

RuleTypes ==
  /\ rules \in [RuleIds -> RuleBodies \cup {None}]
  /\ nextRule \in 1 .. MaxRules + 1

StrategyTypes ==
  /\ strategies \in [StrategyIds -> Strategies \cup {None}]
  /\ nextStrategy \in 1 .. MaxStrategies + 1
  /\ assignments \in [1 .. MaxAssignments -> Assignments \cup {None}]
  /\ \A a \in AssignmentRows : strategies[assignments[a].strategy] # None
  /\ nextAssignment \in 1 .. MaxAssignments + 1

RequestTypes ==
  /\ changes \in 0 .. MaxChanges
  /\ pc \in [Calls -> {"idle", "groups", "members", "assignments", "done"}]
  /\ reply \in [Calls -> {"Y", "N", None}]

(* A change of one kind of row leaves the types of the others *)
LEMMA OtherTypes ==
  /\ TypeOK <=> DeviceTypes /\ RuleTypes /\ StrategyTypes /\ RequestTypes
  /\ TypeOK' <=> DeviceTypes' /\ RuleTypes' /\ StrategyTypes' /\ RequestTypes'
  /\ DeviceTypes /\ UNCHANGED deviceRows => DeviceTypes'
  /\ RuleTypes /\ UNCHANGED ruleRows => RuleTypes'
  /\ StrategyTypes /\ UNCHANGED strategyRows => StrategyTypes'
  /\ RequestTypes /\ Change => RequestTypes'
<1>1. TypeOK <=> DeviceTypes /\ RuleTypes /\ StrategyTypes /\ RequestTypes
  BY DEF TypeOK, DeviceTypes, RuleTypes, StrategyTypes, RequestTypes
<1>2. TypeOK' <=> DeviceTypes' /\ RuleTypes' /\ StrategyTypes' /\ RequestTypes'
  BY DEF TypeOK, DeviceTypes, RuleTypes, StrategyTypes, RequestTypes
<1>3. DeviceTypes /\ UNCHANGED deviceRows => DeviceTypes'
  BY DEF DeviceTypes, deviceRows, Exists
<1>4. RuleTypes /\ UNCHANGED ruleRows => RuleTypes'
  BY DEF RuleTypes, ruleRows
<1>5. StrategyTypes /\ UNCHANGED strategyRows => StrategyTypes'
  BY DEF StrategyTypes, strategyRows, AssignmentRows
<1>6. RequestTypes /\ Change => RequestTypes'
  BY BoundAssumption DEF RequestTypes, Change, requests
<1> QED BY <1>1, <1>2, <1>3, <1>4, <1>5, <1>6

(* Nothing is read or set at the start *)
LEMMA InvInit == Init => Inv
<1> SUFFICES ASSUME Init PROVE Inv
  OBVIOUS
<1>1. TypeOK
  <2>1. /\ device \in [Devices -> Owners \cup {"absent"}]
        /\ members \in [DeviceGroups -> SUBSET {d \in Devices : Exists(d)}]
    BY DEF Init
  <2>2. groups \in 0 .. MaxGroups
    BY BoundAssumption DEF Init
  <2> QED BY <2>1, <2>2, BoundAssumption DEF Init, TypeOK, AssignmentRows
<1>2. GroupsUsed
  BY RangesAreFinite DEF Init, GroupsUsed
<1>3. HistoryTypes
  BY DEF Init, HistoryTypes
<1> QED BY <1>1, <1>2, <1>3 DEF Init, Inv, StepOf, OfferedOf, CurrentOf, Reading

(* POST, PUT /devices and the device groups: a device that exists goes on  *)
(* existing, so the members of the groups stay devices.                    *)
LEMMA DeviceChangeTypes ==
  ASSUME TypeOK, GroupsUsed, DeviceChange
  PROVE  TypeOK' /\ GroupsUsed'
<1> USE DEF TypeOK, GroupsUsed
<1>1. ASSUME NEW d \in Devices, CreateDevice(d) \/ UpdateDevice(d)
      PROVE  TypeOK' /\ GroupsUsed'
  <2>1. PICK owner \in Owners : ChangeDevice(d, owner)
    BY <1>1 DEF CreateDevice, UpdateDevice
  <2>2. device' \in [Devices -> Owners \cup {"absent"}]
    BY <2>1 DEF ChangeDevice
  <2>3. \A x \in Devices : Exists(x) => Exists(x)'
    BY <2>1, NameAssumption DEF ChangeDevice, Exists, Owners
  <2>4. members' \in [DeviceGroups -> SUBSET {x \in Devices : Exists(x)}]'
    BY <2>1, <2>3 DEF ChangeDevice, DeviceGroups
  <2>5. DeviceTypes' /\ GroupsUsed'
    BY <2>1, <2>2, <2>4 DEF ChangeDevice, DeviceTypes
  <2> QED BY <2>1, <2>5, OtherTypes DEF ChangeDevice
<1>2. ASSUME NEW g \in DeviceGroups, NEW set, set \subseteq {x \in Devices : Exists(x)},
             ChangeMembers(g, set), groups' \in 0 .. MaxGroups, groups' >= groups, g <= groups'
      PROVE  TypeOK' /\ GroupsUsed'
  <2>1. members' \in [DeviceGroups -> SUBSET {x \in Devices : Exists(x)}]'
    BY <1>2 DEF ChangeMembers, Exists, DeviceGroups
  <2>2. GroupsUsed'
    BY <1>2, BoundAssumption DEF ChangeMembers, DeviceGroups
  <2>3. DeviceTypes'
    BY <1>2, <2>1 DEF ChangeMembers, DeviceTypes
  <2> QED BY <1>2, <2>2, <2>3, OtherTypes DEF ChangeMembers
<1>3. CASE CreateDeviceGroup
  <2>1. PICK set \in SUBSET Devices :
          /\ groups < MaxGroups
          /\ groups' = groups + 1
          /\ ChangeMembers(groups + 1, Known(set))
    BY <1>3 DEF CreateDeviceGroup
  <2>2. groups + 1 \in DeviceGroups /\ groups' \in 0 .. MaxGroups /\ groups' >= groups
        /\ groups + 1 <= groups'
    BY <2>1, BoundAssumption DEF DeviceGroups
  <2>3. Known(set) \subseteq {x \in Devices : Exists(x)}
    BY <2>1 DEF Known
  <2> QED BY <1>2, <2>1, <2>2, <2>3
<1>4. ASSUME NEW d \in Devices, NEW g \in 1 .. groups, UNCHANGED groups,
             NEW set, set \subseteq members[g] \cup Known({d}), ChangeMembers(g, set)
      PROVE  TypeOK' /\ GroupsUsed'
  <2>1. g \in DeviceGroups /\ groups' \in 0 .. MaxGroups /\ groups' >= groups /\ g <= groups'
    BY <1>4, BoundAssumption DEF DeviceGroups
  <2>2. set \subseteq {x \in Devices : Exists(x)}
    BY <1>4, <2>1 DEF Known
  <2> QED BY <1>2, <1>4, <2>1, <2>2
<1>5. ASSUME NEW d \in Devices, AddDeviceGroupMember(d) PROVE TypeOK' /\ GroupsUsed'
  BY <1>4, <1>5 DEF AddDeviceGroupMember
<1>6. ASSUME NEW d \in Devices, RemoveDeviceGroupMember(d) PROVE TypeOK' /\ GroupsUsed'
  <2>1. PICK g \in 1 .. groups : ChangeMembers(g, members[g] \ {d}) /\ UNCHANGED groups
    BY <1>6 DEF RemoveDeviceGroupMember
  <2>2. members[g] \ {d} \subseteq members[g] \cup Known({d})
    OBVIOUS
  <2> QED BY <1>4, <2>1, <2>2
<1> QED BY <1>1, <1>3, <1>5, <1>6 DEF DeviceChange

(* POST, PUT, DELETE /access-rules: a row holds a body *)
LEMMA RuleChangeTypes ==
  ASSUME TypeOK, RuleChange
  PROVE  TypeOK' /\ UNCHANGED <<members, groups>>
<1>1. ASSUME NEW i \in RuleIds, NEW body \in RuleBodies \cup {None}, ChangeRule(i, body),
             nextRule' \in 1 .. MaxRules + 1
      PROVE  TypeOK' /\ UNCHANGED <<members, groups>>
  <2>1. RuleTypes'
    BY <1>1 DEF TypeOK, RuleTypes, ChangeRule
  <2> QED BY <1>1, <2>1, OtherTypes DEF ChangeRule, deviceRows
<1>2. CASE CreateAccessRule
  <2>1. PICK body \in RuleBodies :
          nextRule \in RuleIds /\ nextRule' = nextRule + 1 /\ ChangeRule(nextRule, body)
    BY <1>2 DEF CreateAccessRule
  <2>2. nextRule' \in 1 .. MaxRules + 1
    BY <2>1, BoundAssumption DEF RuleIds
  <2> QED BY <1>1, <2>1, <2>2
<1>3. CASE \E i \in RuleIds : UpdateAccessRule(i) \/ DeleteAccessRule(i)
  <2>1. PICK i \in RuleIds : UpdateAccessRule(i) \/ DeleteAccessRule(i)
    BY <1>3
  <2>2. PICK body \in RuleBodies \cup {None} : ChangeRule(i, body) /\ UNCHANGED nextRule
    BY <2>1 DEF UpdateAccessRule, DeleteAccessRule
  <2> QED BY <1>1, <2>2 DEF TypeOK
<1> QED BY <1>2, <1>3 DEF RuleChange

(* Store.replaceStrategyAssignments: the new rows belong to the strategy,  *)
(* and its old ones are gone.                                              *)
LEMMA Replaced ==
  ASSUME StrategyTypes, NEW s \in StrategyIds, NEW targets \in Seq(Targets),
         ReplaceAssignments(s, targets)
  PROVE  /\ assignments' \in [1 .. MaxAssignments -> Assignments \cup {None}]
         /\ nextAssignment' \in 1 .. MaxAssignments + 1
         /\ \A a \in DOMAIN assignments' : assignments'[a] # None =>
              \/ assignments'[a].strategy = s /\ Len(targets) > 0
              \/ a \in AssignmentRows /\ assignments'[a] = assignments[a]
                 /\ assignments[a].strategy # s
<1> DEFINE fresh == nextAssignment .. nextAssignment + Len(targets) - 1
<1>1. fresh \subseteq 1 .. MaxAssignments /\ nextAssignment \in 1 .. MaxAssignments + 1
      /\ Len(targets) \in Nat
  BY DEF ReplaceAssignments, StrategyTypes
<1>2. \A a \in fresh : targets[a - nextAssignment + 1] \in Targets /\ Len(targets) > 0
  <2> SUFFICES ASSUME NEW a \in fresh
               PROVE  targets[a - nextAssignment + 1] \in Targets /\ Len(targets) > 0
    OBVIOUS
  <2>1. a - nextAssignment + 1 \in 1 .. Len(targets) /\ Len(targets) > 0
    BY <1>1
  <2> QED BY <2>1
<1>3. assignments' = [a \in 1 .. MaxAssignments |->
        IF a \in fresh THEN [strategy |-> s, target |-> targets[a - nextAssignment + 1]]
        ELSE IF assignments[a] # None /\ assignments[a].strategy = s THEN None
        ELSE assignments[a]]
  BY DEF ReplaceAssignments, StrategyTypes
<1>4. nextAssignment' \in 1 .. MaxAssignments + 1
  <2>1. nextAssignment' = nextAssignment + Len(targets)
    BY DEF ReplaceAssignments
  <2>2. CASE Len(targets) = 0
    BY <1>1, <2>1, <2>2
  <2>3. CASE Len(targets) > 0
    <3>1. nextAssignment + Len(targets) - 1 \in fresh
      BY <1>1, <2>3
    <3>2. nextAssignment + Len(targets) - 1 \in 1 .. MaxAssignments
      BY <1>1, <3>1
    <3> HIDE DEF fresh
    <3> QED BY <1>1, <2>1, <3>2, BoundAssumption
  <2> HIDE DEF fresh
  <2> QED BY <1>1, <2>2, <2>3
<1>5. ASSUME NEW a \in 1 .. MaxAssignments
      PROVE  /\ assignments'[a] \in Assignments \cup {None}
             /\ assignments'[a] # None =>
                  \/ assignments'[a].strategy = s /\ Len(targets) > 0
                  \/ a \in AssignmentRows /\ assignments'[a] = assignments[a]
                     /\ assignments[a].strategy # s
  <2> HIDE DEF fresh
  <2>1. CASE a \in fresh
    BY <1>2, <1>3, <2>1 DEF Assignments
  <2>2. CASE a \notin fresh
    BY <1>3, <2>2 DEF StrategyTypes, AssignmentRows
  <2> QED BY <2>1, <2>2
<1>6. assignments' \in [1 .. MaxAssignments -> Assignments \cup {None}]
  <2> HIDE DEF fresh
  <2> QED BY <1>3, <1>5
<1>7. DOMAIN assignments' = 1 .. MaxAssignments
  BY <1>6
<1> HIDE DEF fresh
<1> QED BY <1>4, <1>5, <1>6, <1>7

(* POST, PUT, DELETE /strategies and their assignments: an assignment      *)
(* belongs to a strategy that exists.                                      *)
LEMMA StrategyChangeTypes ==
  ASSUME TypeOK, StrategyChange
  PROVE  TypeOK' /\ UNCHANGED <<members, groups>>
<1> SUFFICES StrategyTypes' /\ ChangeStrategy
  <2>1. ChangeStrategy => UNCHANGED <<members, groups>>
    BY DEF ChangeStrategy, deviceRows
  <2> QED BY <2>1, OtherTypes DEF ChangeStrategy
<1>0. StrategyTypes
  BY OtherTypes
<1>1. ASSUME NEW s \in StrategyIds, NEW row \in Strategies \cup {None},
             NEW targets \in Seq(Targets), ReplaceAssignments(s, targets),
             strategies' = [strategies EXCEPT ![s] = row],
             row = None => Len(targets) = 0,
             nextStrategy' \in 1 .. MaxStrategies + 1
      PROVE  StrategyTypes'
  <2>1. strategies' \in [StrategyIds -> Strategies \cup {None}]
    BY <1>0, <1>1 DEF StrategyTypes
  <2>2. \A a \in AssignmentRows' : strategies'[assignments'[a].strategy] # None
    <3> SUFFICES ASSUME NEW a \in AssignmentRows'
                 PROVE  strategies'[assignments'[a].strategy] # None
      OBVIOUS
    <3>1. a \in DOMAIN assignments' /\ assignments'[a] # None
      BY DEF AssignmentRows
    <3>2. CASE assignments'[a].strategy = s /\ Len(targets) > 0
      BY <1>0, <1>1, <3>2 DEF StrategyTypes
    <3>3. CASE a \in AssignmentRows /\ assignments'[a] = assignments[a]
               /\ assignments[a].strategy # s
      <4>1. strategies[assignments[a].strategy] # None /\ assignments[a] \in Assignments
        BY <1>0, <3>3 DEF StrategyTypes, AssignmentRows
      <4> QED BY <1>0, <1>1, <3>3, <4>1 DEF StrategyTypes, Assignments
    <3> QED BY <1>0, <1>1, <3>1, <3>2, <3>3, Replaced
  <2> QED BY <1>0, <1>1, <2>1, <2>2, Replaced DEF StrategyTypes
<1>2. \A b \in StrategyBodies :
        /\ [enabled |-> b.enabled, terminal |-> b.terminal] \in Strategies
        /\ [enabled |-> b.enabled, terminal |-> b.terminal] # None
        /\ b.targets \in Seq(Targets)
  BY BodyAssumption, NameAssumption DEF Strategies
<1>3. CASE CreateStrategy
  <2>1. PICK body \in StrategyBodies :
          /\ nextStrategy \in StrategyIds
          /\ nextStrategy' = nextStrategy + 1
          /\ SetStrategy(nextStrategy, body)
          /\ ReplaceAssignments(nextStrategy, body.targets)
          /\ ChangeStrategy
    BY <1>3 DEF CreateStrategy
  <2>2. nextStrategy' \in 1 .. MaxStrategies + 1
    BY <2>1, BoundAssumption DEF StrategyIds
  <2> QED BY <1>1, <1>2, <2>1, <2>2 DEF SetStrategy
<1>4. ASSUME NEW s \in StrategyIds, UpdateStrategy(s) PROVE StrategyTypes' /\ ChangeStrategy
  <2>1. PICK body \in StrategyBodies :
          /\ SetStrategy(s, body)
          /\ ReplaceAssignments(s, body.targets)
          /\ ChangeStrategy
          /\ UNCHANGED nextStrategy
    BY <1>4 DEF UpdateStrategy
  <2>2. nextStrategy' \in 1 .. MaxStrategies + 1
    BY <1>0, <2>1 DEF StrategyTypes
  <2> QED BY <1>1, <1>2, <2>1, <2>2 DEF SetStrategy
<1>5. ASSUME NEW s \in StrategyIds, DeleteStrategy(s) PROVE StrategyTypes' /\ ChangeStrategy
  <2>1. <<>> \in Seq(Targets) /\ Len(<<>>) = 0
    OBVIOUS
  <2>2. nextStrategy' \in 1 .. MaxStrategies + 1
    BY <1>0, <1>5 DEF StrategyTypes, DeleteStrategy
  <2> QED BY <1>1, <1>5, <2>1, <2>2 DEF DeleteStrategy
<1>6. ASSUME NEW s \in StrategyIds, AddStrategyAssignment(s)
      PROVE  StrategyTypes' /\ ChangeStrategy
  <2>1. PICK x \in Targets :
          /\ strategies[s] # None
          /\ nextAssignment \in DOMAIN assignments
          /\ assignments' = [assignments EXCEPT ![nextAssignment] = [strategy |-> s, target |-> x]]
          /\ nextAssignment' = nextAssignment + 1
          /\ UNCHANGED <<strategies, nextStrategy>>
    BY <1>6 DEF AddStrategyAssignment
  <2>2. [strategy |-> s, target |-> x] \in Assignments
    BY DEF Assignments
  <2>3. nextAssignment' \in 1 .. MaxAssignments + 1
    BY <1>0, <2>1, BoundAssumption DEF StrategyTypes
  <2>4. assignments' \in [1 .. MaxAssignments -> Assignments \cup {None}]
    BY <1>0, <2>1, <2>2 DEF StrategyTypes
  <2>5. \A a \in AssignmentRows' : strategies'[assignments'[a].strategy] # None
    BY <1>0, <2>1 DEF StrategyTypes, AssignmentRows
  <2> QED BY <1>0, <1>6, <2>1, <2>3, <2>4, <2>5 DEF StrategyTypes, AddStrategyAssignment
<1>7. ASSUME NEW a \in DOMAIN assignments, RemoveStrategyAssignment(a)
      PROVE  StrategyTypes' /\ ChangeStrategy
  BY <1>0, <1>7 DEF StrategyTypes, RemoveStrategyAssignment, AssignmentRows
<1> QED BY <1>3, <1>4, <1>5, <1>6, <1>7 DEF StrategyChange

-----------------------------------------------------------------------------
(* Changes fall between the statements of the readers *)

(* A reader has seen what the store offered, and a change only adds to     *)
(* what it may have seen.                                                  *)
LEMMA ChangeKeepsInv ==
  ASSUME Inv, DeviceChange \/ RuleChange \/ StrategyChange, Track
  PROVE  Inv'
<1> USE DEF Inv
<1>1. Change
  BY DEF DeviceChange, RuleChange, StrategyChange, CreateDeviceGroup, CreateDevice, UpdateDevice,
         AddDeviceGroupMember, RemoveDeviceGroupMember, ChangeDevice, ChangeMembers,
         CreateAccessRule, UpdateAccessRule, DeleteAccessRule, ChangeRule, CreateStrategy,
         UpdateStrategy, DeleteStrategy, AddStrategyAssignment, RemoveStrategyAssignment,
         ChangeStrategy
<1>2. TypeOK' /\ GroupsUsed'
  <2>1. UNCHANGED <<members, groups>> => GroupsUsed'
    BY DEF GroupsUsed
  <2> QED BY <2>1, DeviceChangeTypes, RuleChangeTypes, StrategyChangeTypes
<1>3. UNCHANGED <<pc, task, reply>>
  BY <1>1 DEF Change, requests
<1>4. HistoryTypes'
  BY <1>3 DEF HistoryTypes, Track
<1>5. ASSUME NEW c \in Calls PROVE StepOf(c)' /\ OfferedOf(c)' /\ CurrentOf(c)'
  <2>1. StepOf(c)'
    BY <1>3 DEF StepOf
  <2>2. offered[c] \subseteq offered'[c]
    BY DEF Track
  <2>3. OfferedOf(c)'
    BY <1>3, <2>2 DEF OfferedOf
  <2>4. CurrentOf(c)'
    BY <1>3 DEF CurrentOf, Track, Reading
  <2> QED BY <2>1, <2>3, <2>4
<1> QED BY <1>2, <1>4, <1>5

(* A statement of one reader is nothing to the others *)
LEMMA OthersKept ==
  ASSUME Inv, NEW c \in Calls, UNCHANGED <<deviceRows, strategyRows>>,
         NEW k \in Calls, pc'[k] = pc[k], task'[k] = task[k], reply'[k] = reply[k],
         always'[k] = always[k], offered'[k] = offered[k]
  PROVE  StepOf(k)' /\ OfferedOf(k)' /\ CurrentOf(k)'
<1>1. StepOf(k)'
  BY DEF Inv, StepOf
<1>2. OfferedOf(k)'
  BY DEF Inv, OfferedOf
<1>3. CurrentOf(k)'
  BY DEF Inv, CurrentOf, Reading, InForce, Offers, Matches, AssignmentRows, deviceRows,
         strategyRows
<1> QED BY <1>1, <1>2, <1>3

(* What is in force is of an assignment that exists and its strategy *)
LEMMA InForceType ==
  ASSUME TypeOK, NEW t, NEW x \in InForce(t)
  PROVE  /\ x \in [strategy : StrategyIds, target : Targets, terminal : {"Y", "N"}]
         /\ strategies[x.strategy] \in Strategies /\ strategies[x.strategy] # None
         /\ strategies[x.strategy].enabled /\ strategies[x.strategy].terminal = x.terminal
         /\ x.terminal # None /\ Matches(x.target, t)
         /\ \E a \in AssignmentRows : assignments[a].strategy = x.strategy
                                      /\ assignments[a].target = x.target
<1>1. PICK a \in AssignmentRows :
        /\ x = [strategy |-> assignments[a].strategy, target |-> assignments[a].target,
                terminal |-> strategies[assignments[a].strategy].terminal]
        /\ Matches(assignments[a].target, t)
        /\ strategies[assignments[a].strategy].enabled
        /\ strategies[assignments[a].strategy].terminal # None
  BY DEF InForce
<1>2. assignments[a] \in Assignments /\ strategies[assignments[a].strategy] # None
  BY DEF TypeOK, AssignmentRows
<1>3. strategies[assignments[a].strategy] \in Strategies
  BY <1>2 DEF TypeOK, Assignments
<1>4. strategies[assignments[a].strategy].terminal \in {"Y", "N"}
  BY <1>1, <1>3 DEF Strategies, Settings
<1> QED BY <1>1, <1>2, <1>3, <1>4 DEF Assignments

(* A statement of EffectiveStrategy keeps the types *)
LEMMA AskTypes ==
  ASSUME Inv, NEW c \in Calls, UNCHANGED <<deviceRows, ruleRows, strategyRows, changes>>,
         NEW to \in {"idle", "groups", "members", "assignments", "done"},
         pc' = [pc EXCEPT ![c] = to],
         NEW answer \in {"Y", "N", None}, reply' = [reply EXCEPT ![c] = answer]
  PROVE  TypeOK' /\ GroupsUsed'
<1>1. DeviceTypes' /\ RuleTypes' /\ StrategyTypes'
  BY OtherTypes DEF Inv
<1>2. RequestTypes'
  BY OtherTypes DEF Inv, RequestTypes
<1>3. GroupsUsed'
  BY DEF Inv, GroupsUsed, deviceRows
<1> QED BY <1>1, <1>2, <1>3, OtherTypes

(* A statement of one reader keeps the invariant if it does for itself *)
LEMMA OwnStep ==
  ASSUME Inv, NEW c \in Calls, UNCHANGED <<deviceRows, ruleRows, strategyRows, changes>>,
         NEW to \in {"idle", "groups", "members", "assignments", "done"},
         pc' = [pc EXCEPT ![c] = to],
         NEW answer \in {"Y", "N", None}, reply' = [reply EXCEPT ![c] = answer],
         NEW u \in Tasks, task' = [task EXCEPT ![c] = u],
         NEW in \in SUBSET [strategy : StrategyIds, target : Targets, terminal : Settings],
         always' = [always EXCEPT ![c] = in],
         NEW out, offered' = [offered EXCEPT ![c] = out],
         StepOf(c)', OfferedOf(c)', CurrentOf(c)'
  PROVE  Inv'
<1>1. TypeOK' /\ GroupsUsed'
  BY AskTypes
<1>2. HistoryTypes'
  BY DEF Inv, HistoryTypes
<1>3. ASSUME NEW k \in Calls, k # c PROVE StepOf(k)' /\ OfferedOf(k)' /\ CurrentOf(k)'
  <2>1. /\ pc'[k] = pc[k] /\ task'[k] = task[k] /\ reply'[k] = reply[k]
        /\ always'[k] = always[k] /\ offered'[k] = offered[k]
    BY <1>3 DEF Inv, TypeOK, HistoryTypes
  <2> QED BY <2>1, OthersKept
<1> QED BY <1>1, <1>2, <1>3 DEF Inv

(* The history goes on as it is *)
LEMMA SameHistory ==
  ASSUME HistoryTypes, NEW c \in Calls
  PROVE  /\ always[c] \in SUBSET [strategy : StrategyIds, target : Targets, terminal : Settings]
         /\ always = [always EXCEPT ![c] = always[c]]
         /\ offered = [offered EXCEPT ![c] = offered[c]]
BY DEF HistoryTypes

(* What a reader is told is current as long as nothing changes *)
LEMMA StillCurrent ==
  ASSUME NEW c \in Calls, CurrentOf(c), Reading(c), UNCHANGED <<deviceRows, strategyRows, history>>,
         task'[c].device = task[c].device, task'[c].user = task[c].user
  PROVE  CurrentOf(c)'
BY DEF CurrentOf, Reading, InForce, Offers, Matches, AssignmentRows, deviceRows, strategyRows,
       history

(* FindDevice: the device and its owner are there, and the history starts  *)
(* with what is in force.                                                  *)
LEMMA FindDeviceKeepsInv ==
  ASSUME Inv, NEW c \in Calls, FindDevice(c)
  PROVE  Inv'
<1>1. PICK d \in Devices, named \in Users \cup {None} :
        /\ Exists(d)
        /\ Goto(c, "idle", "groups")
        /\ task' = [task EXCEPT ![c] =
             [device |-> d, user |-> IF named # None THEN named ELSE device[d],
              todo |-> {}, in |-> {}, rows |-> {}, got |-> {}]]
        /\ always' = [always EXCEPT ![c] = InForce(
             [device |-> d, user |-> IF named # None THEN named ELSE device[d],
              todo |-> {}, in |-> {}, rows |-> {}, got |-> {}])]
        /\ offered' = [offered EXCEPT ![c] = Offers(
             [device |-> d, user |-> IF named # None THEN named ELSE device[d],
              todo |-> {}, in |-> {}, rows |-> {}, got |-> {}])]
        /\ UNCHANGED reply
  BY DEF FindDevice
<1>2. PICK user \in Owners : user = IF named # None THEN named ELSE device[d]
  BY <1>1 DEF Inv, TypeOK, Exists, Owners
<1> DEFINE t == [device |-> d, user |-> user, todo |-> {}, in |-> {}, rows |-> {}, got |-> {}]
<1>3. t \in Tasks
  BY DEF Tasks, Tables
<1>4. UNCHANGED <<deviceRows, ruleRows, strategyRows, changes>> /\ pc' = [pc EXCEPT ![c] = "groups"]
  BY <1>1 DEF Goto
<1>5. task' = [task EXCEPT ![c] = t] /\ always' = [always EXCEPT ![c] = InForce(t)]
      /\ offered' = [offered EXCEPT ![c] = Offers(t)]
  BY <1>1, <1>2
<1>6. reply' = [reply EXCEPT ![c] = reply[c]] /\ reply[c] \in {"Y", "N", None}
  BY <1>1 DEF Inv, TypeOK
<1>7. InForce(t) \in SUBSET [strategy : StrategyIds, target : Targets, terminal : Settings]
  <2> HIDE DEF t
  <2> QED BY InForceType DEF Inv, Settings
<1>8. pc'[c] = "groups" /\ task'[c] = t /\ always'[c] = InForce(t) /\ offered'[c] = Offers(t)
  BY <1>4, <1>5 DEF Inv, TypeOK, HistoryTypes
<1>9. StepOf(c)'
  BY <1>3, <1>8 DEF StepOf
<1>10. OfferedOf(c)'
  <2>1. [target |-> d] \in Offers(t)
    BY DEF Offers, Matches, Targets
  <2>2. user # None => [target |-> user] \in Offers(t)
    BY DEF Offers, Matches, Targets, Owners
  <2> QED BY <1>8, <2>1, <2>2 DEF OfferedOf
<1>11. CurrentOf(c)'
  <2> HIDE DEF t
  <2> QED
    BY <1>4, <1>8
    DEF CurrentOf, InForce, Offers, Matches, AssignmentRows, deviceRows, strategyRows
<1> HIDE DEF t
<1>12. PICK in, out : in = InForce(t) /\ out = Offers(t)
  OBVIOUS
<1> QED BY <1>3, <1>4, <1>5, <1>6, <1>7, <1>9, <1>10, <1>11, <1>12, OwnStep

(* Two fields of a task are set at a time *)
LEMMA TwoFields ==
  ASSUME HistoryTypes, NEW c \in Calls, NEW x, NEW y
  PROVE  /\ [task EXCEPT ![c].todo = x, ![c].in = y]
              = [task EXCEPT ![c] = [task[c] EXCEPT !.todo = x, !.in = y]]
         /\ [task EXCEPT ![c].todo = x, ![c].rows = y]
              = [task EXCEPT ![c] = [task[c] EXCEPT !.todo = x, !.rows = y]]
         /\ [task EXCEPT ![c].todo = x, ![c].got = y]
              = [task EXCEPT ![c] = [task[c] EXCEPT !.todo = x, !.got = y]]
BY DEF HistoryTypes

(* A group has been asked *)
LEMMA SetIn ==
  ASSUME NEW t \in Tasks, NEW x, NEW y
  PROVE  [t EXCEPT !.todo = x, !.in = y]
           = [device |-> t.device, user |-> t.user, todo |-> x, in |-> y, rows |-> t.rows,
              got |-> t.got]
<1>1. PICK z : z = [device |-> t.device, user |-> t.user, todo |-> x, in |-> t.in,
                    rows |-> t.rows, got |-> t.got]
  OBVIOUS
<1>2. [t EXCEPT !.todo = x] = z
  BY <1>1 DEF Tasks
<1>3. [z EXCEPT !.in = y]
           = [device |-> t.device, user |-> t.user, todo |-> x, in |-> y, rows |-> t.rows,
              got |-> t.got]
  BY <1>1
<1> QED BY <1>2, <1>3, Zenon

(* The strategies have been listed *)
LEMMA SetRows ==
  ASSUME NEW t \in Tasks, NEW x, NEW y
  PROVE  [t EXCEPT !.todo = x, !.rows = y]
           = [device |-> t.device, user |-> t.user, todo |-> x, in |-> t.in, rows |-> y,
              got |-> t.got]
<1>1. PICK z : z = [device |-> t.device, user |-> t.user, todo |-> x, in |-> t.in,
                    rows |-> t.rows, got |-> t.got]
  OBVIOUS
<1>2. [t EXCEPT !.todo = x] = z
  BY <1>1 DEF Tasks
<1>3. [z EXCEPT !.rows = y]
           = [device |-> t.device, user |-> t.user, todo |-> x, in |-> t.in, rows |-> y,
              got |-> t.got]
  BY <1>1
<1> QED BY <1>2, <1>3, Zenon

(* The assignments of a strategy have been read *)
LEMMA SetGot ==
  ASSUME NEW t \in Tasks, NEW x, NEW y
  PROVE  [t EXCEPT !.todo = x, !.got = y]
           = [device |-> t.device, user |-> t.user, todo |-> x, in |-> t.in, rows |-> t.rows,
              got |-> y]
<1>1. PICK z : z = [device |-> t.device, user |-> t.user, todo |-> x, in |-> t.in,
                    rows |-> t.rows, got |-> t.got]
  OBVIOUS
<1>2. [t EXCEPT !.todo = x] = z
  BY <1>1 DEF Tasks
<1>3. [z EXCEPT !.got = y]
           = [device |-> t.device, user |-> t.user, todo |-> x, in |-> t.in, rows |-> t.rows,
              got |-> y]
  BY <1>1
<1> QED BY <1>2, <1>3, Zenon

(* ListDeviceGroups: the newest groups are the ones to ask *)
LEMMA ListDeviceGroupsKeepsInv ==
  ASSUME Inv, NEW c \in Calls, ListDeviceGroups(c)
  PROVE  Inv'
<1>1. PICK t \in Tasks : t = task[c]
  BY DEF Inv, StepOf, ListDeviceGroups, Goto
<1> DEFINE u == [device |-> t.device, user |-> t.user, todo |-> Newest(1 .. groups), in |-> t.in,
               rows |-> t.rows, got |-> t.got]
<1>2. pc[c] = "groups" /\ Reading(c) /\ pc' = [pc EXCEPT ![c] = "members"]
      /\ UNCHANGED <<deviceRows, ruleRows, strategyRows, changes>>
  BY DEF ListDeviceGroups, Goto, Reading
<1>3. task' = [task EXCEPT ![c] = u] /\ UNCHANGED <<reply, history>>
  <2>1. task' = [task EXCEPT ![c] = [t EXCEPT !.todo = Newest(1 .. groups)]]
    BY <1>1 DEF ListDeviceGroups
  <2>2. [t EXCEPT !.todo = Newest(1 .. groups)] = u
    BY DEF Tasks
  <2> QED BY <2>1, <2>2 DEF ListDeviceGroups
<1>4. u \in Tasks
  BY <1>1 DEF Tasks, Newest
<1>5. pc'[c] = "members" /\ task'[c] = u /\ u.device = t.device /\ u.user = t.user
      /\ offered'[c] = offered[c] /\ task'[c].device = task[c].device
      /\ task'[c].user = task[c].user
  BY <1>1, <1>2, <1>3 DEF Inv, TypeOK, HistoryTypes, history
<1>6. StepOf(c)'
  <2>1. Newest(1 .. groups) \subseteq DeviceGroups
    BY BoundAssumption DEF Newest, DeviceGroups, Inv, TypeOK
  <2> QED BY <1>1, <1>2, <1>4, <1>5, <2>1 DEF Inv, StepOf
<1>7. OfferedOf(c)'
  BY <1>1, <1>2, <1>5 DEF Inv, OfferedOf
<1>20. reply' = [reply EXCEPT ![c] = reply[c]] /\ reply[c] \in {"Y", "N", None}
  BY <1>3 DEF Inv, TypeOK
<1>21. CurrentOf(c)'
  BY <1>2, <1>3, <1>5, StillCurrent DEF Inv
<1>22. always' = [always EXCEPT ![c] = always[c]] /\ offered' = [offered EXCEPT ![c] = offered[c]]
  BY <1>3, SameHistory DEF Inv, history
<1> HIDE DEF u
<1> QED
  BY <1>2, <1>3, <1>4, <1>6, <1>7, <1>20, <1>21, <1>22, SameHistory, OwnStep DEF Inv

(* ListDeviceGroupMembers: a group is found to have the device only while  *)
(* it has it.                                                              *)
LEMMA ListDeviceGroupMembersKeepsInv ==
  ASSUME Inv, NEW c \in Calls, ListDeviceGroupMembers(c)
  PROVE  Inv'
<1>1. PICK t \in Tasks : t = task[c]
  BY DEF Inv, StepOf, ListDeviceGroupMembers, Goto
<1> DEFINE g == Highest(t.todo)
           found == IF t.device \in members[g] THEN t.in \cup {g} ELSE t.in
<1> DEFINE u == [device |-> t.device, user |-> t.user, todo |-> t.todo \ {g}, in |-> found,
               rows |-> t.rows, got |-> t.got]
<1>2. pc[c] = "members" /\ Reading(c) /\ pc' = [pc EXCEPT ![c] = "members"]
      /\ UNCHANGED <<deviceRows, ruleRows, strategyRows, changes>>
  BY DEF ListDeviceGroupMembers, Goto, Reading
<1>3. task' = [task EXCEPT ![c] = u] /\ UNCHANGED <<reply, history>>
  <2>1. task' = [task EXCEPT ![c].todo = t.todo \ {g}, ![c].in = found]
    BY <1>1 DEF ListDeviceGroupMembers, Inv, HistoryTypes
  <2> HIDE DEF g, found
  <2>2. [task EXCEPT ![c].todo = t.todo \ {g}, ![c].in = found] = [task EXCEPT ![c] = u]
    <3>1. PICK x, y : x = t.todo \ {g} /\ y = found
      OBVIOUS
    <3>2. HistoryTypes
      BY DEF Inv
    <3>3. [task EXCEPT ![c].todo = x, ![c].in = y]
            = [task EXCEPT ![c] = [t EXCEPT !.todo = x, !.in = y]]
      BY <1>1, <3>2, TwoFields
    <3>4. [t EXCEPT !.todo = x, !.in = y]
            = [device |-> t.device, user |-> t.user, todo |-> x, in |-> y,
               rows |-> t.rows, got |-> t.got]
      BY SetIn
    <3> QED BY <3>1, <3>3, <3>4
  <2> QED BY <2>1, <2>2 DEF ListDeviceGroupMembers
<1>8. g \in t.todo /\ t.todo \subseteq DeviceGroups
  <2>1. t.todo \subseteq DeviceGroups /\ t.todo # {}
    BY <1>1, <1>2 DEF Inv, StepOf, ListDeviceGroupMembers
  <2>2. t.todo \in SUBSET Int /\ IsFiniteSet(t.todo)
    BY <2>1, RangesAreFinite, FS_Subset
  <2> QED BY <2>1, <2>2, HighestIn
<1>4. u \in Tasks
  <2> HIDE DEF g
  <2> QED BY <1>8 DEF Tasks
<1>5. pc'[c] = "members" /\ task'[c] = u /\ u.device = t.device /\ u.user = t.user
      /\ offered'[c] = offered[c] /\ task'[c].device = task[c].device
      /\ task'[c].user = task[c].user
  BY <1>1, <1>2, <1>3 DEF Inv, TypeOK, HistoryTypes, history
<1>6. StepOf(c)'
  <2> HIDE DEF g
  <2> QED BY <1>1, <1>2, <1>4, <1>5, <1>8 DEF Inv, StepOf
<1>7. OfferedOf(c)'
  <2>1. t.device \in members[g] => [target |-> g] \in Offers(t)
    BY <1>8 DEF Offers, Matches, Targets
  <2>2. Offers(t) \subseteq offered[c]
    BY <1>1, <1>2 DEF Inv, CurrentOf
  <2> HIDE DEF g
  <2> QED BY <1>1, <1>2, <1>5, <2>1, <2>2 DEF Inv, OfferedOf
<1>20. reply' = [reply EXCEPT ![c] = reply[c]] /\ reply[c] \in {"Y", "N", None}
  BY <1>3 DEF Inv, TypeOK
<1>21. CurrentOf(c)'
  BY <1>2, <1>3, <1>5, StillCurrent DEF Inv
<1>22. always' = [always EXCEPT ![c] = always[c]] /\ offered' = [offered EXCEPT ![c] = offered[c]]
  BY <1>3, SameHistory DEF Inv, history
<1> HIDE DEF u
<1> QED
  BY <1>2, <1>3, <1>4, <1>6, <1>7, <1>20, <1>21, <1>22, SameHistory, OwnStep DEF Inv

(* ListStrategies: the rows are what the store offers at that moment *)
LEMMA ListStrategiesKeepsInv ==
  ASSUME Inv, NEW c \in Calls, ListStrategies(c)
  PROVE  Inv'
<1>1. PICK t \in Tasks : t = task[c]
  BY DEF Inv, StepOf, ListStrategies, Goto
<1> DEFINE listed == Newest({s \in StrategyIds : strategies[s] # None})
           table == [s \in listed |-> strategies[s]]
<1> DEFINE u == [device |-> t.device, user |-> t.user, todo |-> listed, in |-> t.in,
               rows |-> table, got |-> t.got]
<1>2. pc[c] = "members" /\ Reading(c) /\ pc' = [pc EXCEPT ![c] = "assignments"]
      /\ UNCHANGED <<deviceRows, ruleRows, strategyRows, changes>>
  BY DEF ListStrategies, Goto, Reading
<1>3. task' = [task EXCEPT ![c] = u] /\ UNCHANGED <<reply, history>>
  <2>1. task' = [task EXCEPT ![c].todo = listed, ![c].rows = table]
    BY DEF ListStrategies
  <2>2. UNCHANGED <<reply, history>>
    BY DEF ListStrategies
  <2> HIDE DEF listed, table
  <2>3. [task EXCEPT ![c].todo = listed, ![c].rows = table] = [task EXCEPT ![c] = u]
    <3>1. PICK x, y : x = listed /\ y = table
      OBVIOUS
    <3>2. HistoryTypes
      BY DEF Inv
    <3>3. [task EXCEPT ![c].todo = x, ![c].rows = y]
            = [task EXCEPT ![c] = [t EXCEPT !.todo = x, !.rows = y]]
      BY <1>1, <3>2, TwoFields
    <3>4. [t EXCEPT !.todo = x, !.rows = y]
            = [device |-> t.device, user |-> t.user, todo |-> x, in |-> t.in,
               rows |-> y, got |-> t.got]
      BY SetRows
    <3> QED BY <3>1, <3>3, <3>4
  <2> QED BY <2>1, <2>2, <2>3
<1>8. /\ listed \subseteq {s \in StrategyIds : strategies[s] # None}
      /\ table \in [listed -> Strategies] /\ DOMAIN table = listed
      /\ table \in [DOMAIN table -> Strategies]
  <2>1. listed \subseteq {s \in StrategyIds : strategies[s] # None}
    BY DEF Newest
  <2>2. \A s \in listed : strategies[s] \in Strategies
    BY <2>1 DEF Inv, TypeOK
  <2> HIDE DEF listed
  <2> QED BY <2>1, <2>2
<1>4. u \in Tasks
  <2>1. table \in Tables
    <3> HIDE DEF listed, table
    <3> QED BY <1>8 DEF Tables
  <2>2. listed \subseteq Nat
    <3>1. StrategyIds \subseteq Nat
      BY BoundAssumption DEF StrategyIds
    <3> HIDE DEF listed
    <3> QED BY <1>8, <3>1
  <2> HIDE DEF listed, table
  <2> QED BY <2>1, <2>2 DEF Tasks
<1>5. pc'[c] = "assignments" /\ task'[c] = u /\ u.device = t.device /\ u.user = t.user
      /\ offered'[c] = offered[c] /\ task'[c].device = task[c].device
      /\ task'[c].user = task[c].user
  BY <1>1, <1>2, <1>3 DEF Inv, TypeOK, HistoryTypes, history
<1>9. t.got = {}
  BY <1>1, <1>2 DEF Inv, StepOf
<1>6. StepOf(c)'
  <2>1. Listed(u)
    <3> HIDE DEF listed, table
    <3> QED BY <1>8, <1>9 DEF Listed
  <2> QED BY <1>4, <1>5, <2>1 DEF StepOf
<1>7. OfferedOf(c)'
  <2>1. Offers(t) \subseteq offered[c]
    BY <1>1, <1>2 DEF Inv, CurrentOf
  <2>2. \A s \in listed : table[s].enabled =>
          [strategy |-> s, terminal |-> table[s].terminal] \in Offers(t)
    BY <1>8 DEF Offers
  <2> HIDE DEF listed, table
  <2> QED BY <1>1, <1>2, <1>5, <1>8, <1>9, <2>1, <2>2 DEF Inv, OfferedOf
<1>20. reply' = [reply EXCEPT ![c] = reply[c]] /\ reply[c] \in {"Y", "N", None}
  BY <1>3 DEF Inv, TypeOK
<1>21. CurrentOf(c)'
  BY <1>2, <1>3, <1>5, StillCurrent DEF Inv
<1>22. always' = [always EXCEPT ![c] = always[c]] /\ offered' = [offered EXCEPT ![c] = offered[c]]
  BY <1>3, SameHistory DEF Inv, history
<1> HIDE DEF u
<1> QED
  BY <1>2, <1>3, <1>4, <1>6, <1>7, <1>20, <1>21, <1>22, SameHistory, OwnStep DEF Inv

(* ListStrategyAssignments: the assignments of a listed strategy *)
LEMMA ListStrategyAssignmentsKeepsInv ==
  ASSUME Inv, NEW c \in Calls, ListStrategyAssignments(c)
  PROVE  Inv'
<1>1. PICK t \in Tasks : t = task[c]
  BY DEF Inv, StepOf, ListStrategyAssignments, Goto
<1> DEFINE s == Highest(t.todo)
           read == {assignments[a] : a \in {b \in AssignmentRows : assignments[b].strategy = s}}
<1> DEFINE u == [device |-> t.device, user |-> t.user, todo |-> t.todo \ {s}, in |-> t.in,
               rows |-> t.rows, got |-> t.got \cup read]
<1>2. pc[c] = "assignments" /\ Reading(c) /\ pc' = [pc EXCEPT ![c] = "assignments"]
      /\ UNCHANGED <<deviceRows, ruleRows, strategyRows, changes>>
  BY DEF ListStrategyAssignments, Goto, Reading
<1>3. task' = [task EXCEPT ![c] = u] /\ UNCHANGED <<reply, history>>
  <2>1. task' = [task EXCEPT ![c].todo = t.todo \ {s}, ![c].got = t.got \cup read]
    BY <1>1 DEF ListStrategyAssignments, Inv, HistoryTypes
  <2>2. UNCHANGED <<reply, history>>
    BY DEF ListStrategyAssignments
  <2> HIDE DEF s, read
  <2>3. [task EXCEPT ![c].todo = t.todo \ {s}, ![c].got = t.got \cup read]
          = [task EXCEPT ![c] = u]
    <3>1. PICK x, y : x = t.todo \ {s} /\ y = t.got \cup read
      OBVIOUS
    <3>2. HistoryTypes
      BY DEF Inv
    <3>3. [task EXCEPT ![c].todo = x, ![c].got = y]
            = [task EXCEPT ![c] = [t EXCEPT !.todo = x, !.got = y]]
      BY <1>1, <3>2, TwoFields
    <3>4. [t EXCEPT !.todo = x, !.got = y]
            = [device |-> t.device, user |-> t.user, todo |-> x, in |-> t.in,
               rows |-> t.rows, got |-> y]
      BY SetGot
    <3> QED BY <3>1, <3>3, <3>4
  <2> QED BY <2>1, <2>2, <2>3
<1>8. s \in t.todo /\ Listed(t)
  <2>1. Listed(t) /\ t.todo # {}
    BY <1>1, <1>2 DEF Inv, StepOf, ListStrategyAssignments
  <2>2. t.todo \in SUBSET Int /\ IsFiniteSet(t.todo)
    <3>1. t.todo \subseteq StrategyIds
      BY <2>1 DEF Listed
    <3> QED BY <3>1, RangesAreFinite, FS_Subset
  <2> QED BY <2>1, <2>2, HighestIn
<1>9. read \subseteq Assignments /\ \A x \in read : x.strategy = s
  <2> HIDE DEF s
  <2> QED BY DEF Inv, TypeOK, AssignmentRows
<1>4. u \in Tasks
  <2> HIDE DEF s, read
  <2> QED BY <1>9 DEF Tasks
<1>5. pc'[c] = "assignments" /\ task'[c] = u /\ u.device = t.device /\ u.user = t.user
      /\ offered'[c] = offered[c] /\ task'[c].device = task[c].device
      /\ task'[c].user = task[c].user
  BY <1>1, <1>2, <1>3 DEF Inv, TypeOK, HistoryTypes, history
<1>6. StepOf(c)'
  <2>1. Listed(u)
    <3> HIDE DEF s, read
    <3> QED BY <1>8, <1>9 DEF Listed
  <2> QED BY <1>4, <1>5, <2>1 DEF StepOf
<1>7. OfferedOf(c)'
  <2>1. Offers(t) \subseteq offered[c]
    BY <1>1, <1>2 DEF Inv, CurrentOf
  <2>2. read \subseteq Offers(t)
    BY DEF Offers
  <2> HIDE DEF s, read
  <2> QED BY <1>1, <1>2, <1>5, <2>1, <2>2 DEF Inv, OfferedOf
<1>20. reply' = [reply EXCEPT ![c] = reply[c]] /\ reply[c] \in {"Y", "N", None}
  BY <1>3 DEF Inv, TypeOK
<1>21. CurrentOf(c)'
  BY <1>2, <1>3, <1>5, StillCurrent DEF Inv
<1>22. always' = [always EXCEPT ![c] = always[c]] /\ offered' = [offered EXCEPT ![c] = offered[c]]
  BY <1>3, SameHistory DEF Inv, history
<1> HIDE DEF u
<1> QED
  BY <1>2, <1>3, <1>4, <1>6, <1>7, <1>20, <1>21, <1>22, SameHistory, OwnStep DEF Inv

(* EffectiveStrategy answers with what Resolve makes of it *)
LEMMA EffectiveStrategyKeepsInv ==
  ASSUME Inv, NEW c \in Calls, EffectiveStrategy(c)
  PROVE  Inv'
<1>1. PICK t \in Tasks : t = task[c]
  BY DEF Inv, StepOf, EffectiveStrategy, Goto
<1>2. pc[c] = "assignments" /\ pc' = [pc EXCEPT ![c] = "done"]
      /\ UNCHANGED <<deviceRows, ruleRows, strategyRows, changes>>
  BY DEF EffectiveStrategy, Goto
<1>3. Listed(t) /\ t.todo = {}
  BY <1>1, <1>2 DEF Inv, StepOf, EffectiveStrategy
<1>4. PICK answer \in {"Y", "N"} : answer = Resolve(t)
  BY <1>3, ResolveType
<1>5. reply' = [reply EXCEPT ![c] = answer] /\ UNCHANGED <<task, history>>
  BY <1>1, <1>4 DEF EffectiveStrategy
<1>6. task' = [task EXCEPT ![c] = t] /\ always' = [always EXCEPT ![c] = always[c]]
      /\ offered' = [offered EXCEPT ![c] = offered[c]]
  BY <1>1, <1>5, SameHistory DEF Inv, HistoryTypes, history
<1>7. pc'[c] = "done" /\ reply'[c] = answer /\ task'[c] = t /\ offered'[c] = offered[c]
  BY <1>1, <1>2, <1>5 DEF Inv, TypeOK, history
<1>8. StepOf(c)'
  BY <1>3, <1>4, <1>7 DEF StepOf
<1>9. OfferedOf(c)'
  BY <1>1, <1>2, <1>7 DEF Inv, OfferedOf
<1>10. CurrentOf(c)'
  BY <1>7 DEF CurrentOf, Reading
<1> QED
  BY <1>2, <1>5, <1>6, <1>8, <1>9, <1>10, SameHistory, OwnStep DEF Inv

(* A step that changes nothing *)
LEMMA StutterKeepsInv == Inv /\ UNCHANGED vars => Inv'
<1> SUFFICES ASSUME Inv, UNCHANGED vars PROVE Inv'
  OBVIOUS
<1>1. UNCHANGED <<deviceRows, ruleRows, strategyRows, changes, pc, task, reply, always, offered>>
  BY DEF vars, requests, history
<1>2. TypeOK' /\ GroupsUsed'
  <2>1. RequestTypes'
    BY <1>1, OtherTypes DEF Inv, RequestTypes
  <2> QED BY <1>1, <2>1, OtherTypes DEF Inv, GroupsUsed, deviceRows
<1>3. HistoryTypes'
  BY <1>1 DEF Inv, HistoryTypes
<1> QED BY <1>1, <1>2, <1>3, OthersKept DEF Inv

(* The inductive invariant: every reader has what the store offered and,   *)
(* while it reads, knows what is in force.                                 *)
THEOREM PoliciesInvariant == Spec => []Inv
<1>1. Inv /\ [Next]_vars => Inv'
  BY ChangeKeepsInv, FindDeviceKeepsInv, ListDeviceGroupsKeepsInv, ListDeviceGroupMembersKeepsInv,
     ListStrategiesKeepsInv, ListStrategyAssignmentsKeepsInv, EffectiveStrategyKeepsInv,
     StutterKeepsInv
  DEF Next, Ask
<1> QED BY InvInit, <1>1, PTL DEF Spec

(* Types of the state: an assignment belongs to a strategy that exists, a  *)
(* member of a group is a device that exists, and Resolve answers with a   *)
(* setting.                                                                *)
THEOREM PoliciesTypes == Spec => []TypeOK
<1>1. Inv => TypeOK
  BY DEF Inv
<1> QED BY <1>1, PoliciesInvariant, PTL

(* What the last strategy merged was assigned to was offered, and matched *)
LEMMA AnswerOffered ==
  ASSUME Inv, NEW c \in Calls, pc[c] = "done", NEW last \in Merged(task[c]),
         reply[c] = task[c].rows[last.strategy].terminal
  PROVE  last.target \in Targets /\ Offered(c, last.target)
<1>1. PICK t \in Tasks : t = task[c]
  BY DEF Inv, StepOf
<1>2. Listed(t) /\ last \in Merged(t)
  BY <1>1 DEF Inv, StepOf
<1>3. /\ last \in t.got /\ last \in Assignments /\ assignmentMatches(last, t)
      /\ last.strategy \in DOMAIN t.rows /\ t.rows[last.strategy].enabled
  BY <1>2, MergedIs
<1>4. last = [strategy |-> last.strategy, target |-> last.target]
      /\ last.strategy \in StrategyIds /\ last.target \in Targets
  BY <1>3 DEF Assignments
<1>5. [strategy |-> last.strategy, terminal |-> reply[c]] \in offered[c]
  BY <1>1, <1>3 DEF Inv, OfferedOf
<1>6. [strategy |-> last.strategy, target |-> last.target] \in offered[c]
  BY <1>1, <1>3, <1>4 DEF Inv, OfferedOf
<1>7. [target |-> last.target] \in offered[c]
  <2>1. CASE last.target = t.device
    BY <1>1, <2>1 DEF Inv, OfferedOf
  <2>2. CASE last.target = t.user /\ last.target # None
    BY <1>1, <2>2 DEF Inv, OfferedOf
  <2>3. CASE last.target \in t.in
    BY <1>1, <2>3 DEF Inv, OfferedOf
  <2> QED BY <1>3, <2>1, <2>2, <2>3 DEF assignmentMatches
<1> QED BY <1>4, <1>5, <1>6, <1>7 DEF Offered

(* docs/strategy.md, the secure fallback, whatever the limits of the lists:*)
(* an answer other than "N" was set by an enabled strategy that was        *)
(* assigned to the device, its user or a group of it.                      *)
THEOREM TerminalIsGranted == Spec => []SecureFallback
<1>1. ASSUME Inv, NEW c \in Calls, pc[c] = "done", reply[c] # "N"
      PROVE  \E y \in Targets : Offered(c, y)
  <2>1. PICK t \in Tasks : t = task[c]
    BY <1>1 DEF Inv, StepOf
  <2>2. Listed(t) /\ reply[c] = Resolve(t) /\ Merged(t) # {}
    BY <1>1, <2>1 DEF Inv, StepOf, Resolve
  <2>3. PICK last \in Merged(t) : Resolve(t) = t.rows[last.strategy].terminal
    BY <2>2, LastMerged
  <2> QED BY <1>1, <2>1, <2>2, <2>3, AnswerOffered
<1>2. Inv => SecureFallback
  BY <1>1 DEF SecureFallback
<1> QED BY <1>2, PoliciesInvariant, PTL

-----------------------------------------------------------------------------
(* Nothing that is in force all the while is missed *)

(* A change takes something out of force, or leaves a reader with what it  *)
(* has not missed.                                                         *)
LEMMA ChangeKeepsKept ==
  ASSUME Inv, Kept, Track, UNCHANGED requests
  PROVE  Kept'
<1> SUFFICES ASSUME NEW c \in Calls PROVE KeptOf(c)'
  BY DEF Kept
<1>1. always'[c] \subseteq always[c]
  BY DEF Track
<1>2. KeptOf(c)
  BY DEF Kept
<1> QED BY <1>1, <1>2 DEF KeptOf, requests

(* What is in force of a device names it, its user or a group of its *)
LEMMA InForceMatches ==
  ASSUME Inv, NEW c \in Calls, Reading(c), NEW x \in always[c]
  PROVE  /\ x \in [strategy : StrategyIds, target : Targets, terminal : {"Y", "N"}]
         /\ strategies[x.strategy] \in Strategies /\ strategies[x.strategy] # None
         /\ strategies[x.strategy].enabled /\ strategies[x.strategy].terminal = x.terminal
         /\ x.terminal # None /\ x.target # None
         /\ x.target \notin {task[c].device, task[c].user} =>
              x.target \in 1 .. groups /\ task[c].device \in members[x.target]
         /\ \E a \in AssignmentRows : assignments[a].strategy = x.strategy
                                      /\ assignments[a].target = x.target
<1>1. x \in InForce(task[c])
  BY DEF Inv, CurrentOf
<1>2. TypeOK
  BY DEF Inv
<1>3. x.target # None
  BY <1>1, <1>2, InForceType, NameAssumption
<1>4. x.target \notin {task[c].device, task[c].user} =>
        x.target \in 1 .. groups /\ task[c].device \in members[x.target]
  <2> SUFFICES ASSUME x.target \notin {task[c].device, task[c].user}
               PROVE  x.target \in 1 .. groups /\ task[c].device \in members[x.target]
    OBVIOUS
  <2>1. x.target \in DeviceGroups /\ task[c].device \in members[x.target]
    BY <1>1, <1>2, InForceType DEF Matches
  <2>2. x.target <= groups
    BY <2>1 DEF Inv, GroupsUsed
  <2> QED BY <1>2, <2>1, <2>2 DEF DeviceGroups, TypeOK
<1>5. /\ x \in [strategy : StrategyIds, target : Targets, terminal : {"Y", "N"}]
      /\ strategies[x.strategy] \in Strategies /\ strategies[x.strategy] # None
      /\ strategies[x.strategy].enabled /\ strategies[x.strategy].terminal = x.terminal
      /\ x.terminal # None
      /\ \E a \in AssignmentRows : assignments[a].strategy = x.strategy
                                   /\ assignments[a].target = x.target
  BY <1>1, <1>2, InForceType
<1> QED BY <1>3, <1>4, <1>5

(* A statement of one reader leaves the others with what they have *)
LEMMA OthersMissNothing ==
  ASSUME Inv, Kept, NEW c \in Calls, Ask(c), KeptOf(c)'
  PROVE  Kept'
<1>1. ASSUME NEW k \in Calls, k # c PROVE KeptOf(k)'
  <2>1. pc'[k] = pc[k] /\ task'[k] = task[k] /\ always'[k] = always[k]
    BY <1>1
    DEF Ask, FindDevice, ListDeviceGroups, ListDeviceGroupMembers, ListStrategies,
        ListStrategyAssignments, EffectiveStrategy, Goto, history, Inv, TypeOK, HistoryTypes
  <2>2. PICK p, t, a : p = pc[k] /\ t = task[k] /\ a = always[k]
    OBVIOUS
  <2>3. KeptOf(k)
    BY DEF Kept
  <2>4. p = pc'[k] /\ t = task'[k] /\ a = always'[k]
    BY <2>1, <2>2
  <2> QED BY <2>2, <2>3, <2>4, Zenon DEF KeptOf, assignmentMatches
<1> QED BY <1>1 DEF Kept

(* EffectiveStrategy misses nothing while its lists are within their limit *)
LEMMA AskKeepsKept ==
  ASSUME Inv, Inv', Kept, WithinLimits, NEW c \in Calls, Ask(c)
  PROVE  Kept'
<1> SUFFICES ASSUME NEW x \in always'[c]
             PROVE  /\ pc'[c] = "members" =>
                         x.target \in {task'[c].device, task'[c].user} \cup task'[c].in
                                        \cup task'[c].todo
                    /\ pc'[c] \in {"assignments", "done"} =>
                         /\ assignmentMatches(x, task'[c])
                         /\ x.strategy \in DOMAIN task'[c].rows
                         /\ task'[c].rows[x.strategy].enabled
                         /\ task'[c].rows[x.strategy].terminal = x.terminal /\ x.terminal # None
                         /\ \/ x.strategy \in task'[c].todo
                            \/ [strategy |-> x.strategy, target |-> x.target] \in task'[c].got
  BY OthersMissNothing DEF KeptOf, assignmentMatches
<1>1. CASE FindDevice(c)
  <2>1. pc'[c] = "groups"
    BY <1>1 DEF FindDevice, Goto, Inv, TypeOK
  <2> QED BY <2>1
<1> SUFFICES ASSUME ~FindDevice(c), UNCHANGED history
             PROVE  /\ pc'[c] = "members" =>
                         x.target \in {task'[c].device, task'[c].user} \cup task'[c].in
                                        \cup task'[c].todo
                    /\ pc'[c] \in {"assignments", "done"} =>
                         /\ assignmentMatches(x, task'[c])
                         /\ x.strategy \in DOMAIN task'[c].rows
                         /\ task'[c].rows[x.strategy].enabled
                         /\ task'[c].rows[x.strategy].terminal = x.terminal /\ x.terminal # None
                         /\ \/ x.strategy \in task'[c].todo
                            \/ [strategy |-> x.strategy, target |-> x.target] \in task'[c].got
  BY <1>1 DEF Ask, ListDeviceGroups, ListDeviceGroupMembers, ListStrategies,
              ListStrategyAssignments, EffectiveStrategy
<1>2. x \in always[c] /\ KeptOf(c) /\ Reading(c)
  BY DEF history, Kept, Ask, ListDeviceGroups, ListDeviceGroupMembers, ListStrategies,
         ListStrategyAssignments, EffectiveStrategy, Reading, Goto
<1>3. PICK t \in Tasks : t = task[c]
  BY <1>2 DEF Inv, StepOf, Reading
<1>4. CASE ListDeviceGroups(c)
  <2>1. pc'[c] = "members"
    BY <1>4 DEF ListDeviceGroups, Goto, Inv, TypeOK
  <2>2. Newest(1 .. groups) = 1 .. groups
    <3>1. groups \in Nat
      BY DEF Inv, TypeOK
    <3>2. 1 .. groups \in SUBSET Int /\ IsFiniteSet(1 .. groups)
          /\ Cardinality(1 .. groups) <= ListLimit
      BY <3>1, FS_Interval DEF WithinLimits
    <3> QED BY <3>2, WholeList
  <2>3. task'[c] = [t EXCEPT !.todo = 1 .. groups]
    BY <1>3, <1>4, <2>2 DEF ListDeviceGroups, Inv, HistoryTypes
  <2>4. task'[c].device = t.device /\ task'[c].user = t.user /\ task'[c].todo = 1 .. groups
    BY <2>3 DEF Tasks
  <2> QED BY <1>2, <1>3, <2>1, <2>4, InForceMatches
<1>5. CASE ListDeviceGroupMembers(c)
  <2> DEFINE g == Highest(t.todo)
  <2>1. pc[c] = "members" /\ pc'[c] = "members"
    BY <1>5 DEF ListDeviceGroupMembers, Goto, Inv, TypeOK
  <2>2. /\ task'[c].device = t.device /\ task'[c].user = t.user
        /\ task'[c].todo = t.todo \ {g}
        /\ task'[c].in = IF t.device \in members[g] THEN t.in \cup {g} ELSE t.in
    BY <1>3, <1>5 DEF ListDeviceGroupMembers, Inv, HistoryTypes, Tasks
  <2>3. x.target \in {t.device, t.user} \cup t.in \cup t.todo
    BY <1>2, <1>3, <2>1 DEF KeptOf
  <2>4. x.target \notin {t.device, t.user} => t.device \in members[x.target]
    BY <1>2, <1>3, InForceMatches
  <2> HIDE DEF g
  <2> QED BY <2>1, <2>2, <2>3, <2>4
<1>6. CASE ListStrategies(c)
  <2> DEFINE stored == {s \in StrategyIds : strategies[s] # None}
             table == [s \in stored |-> strategies[s]]
  <2>1. pc[c] = "members" /\ pc'[c] = "assignments" /\ t.todo = {}
    BY <1>3, <1>6 DEF ListStrategies, Goto, Inv, TypeOK
  <2>2. Newest(stored) = stored
    <3>1. stored \in SUBSET StrategyIds /\ Cardinality(stored) <= ListLimit
      BY DEF WithinLimits
    <3> HIDE DEF stored
    <3>2. stored \in SUBSET Int /\ IsFiniteSet(stored)
      BY <3>1, RangesAreFinite, FS_Subset
    <3> QED BY <3>1, <3>2, WholeList
  <2>3. /\ task'[c].device = t.device /\ task'[c].user = t.user /\ task'[c].in = t.in
        /\ task'[c].todo = stored /\ task'[c].rows = table
    <3>1. task' = [task EXCEPT ![c].todo = stored, ![c].rows = table]
      BY <1>6, <2>2 DEF ListStrategies
    <3> HIDE DEF stored, table
    <3> QED BY <1>3, <3>1 DEF Inv, HistoryTypes, Tasks
  <2>4. x.target \in {t.device, t.user} \cup t.in
    BY <1>2, <1>3, <2>1 DEF KeptOf
  <2>5. x.strategy \in stored /\ x.target # None
    BY <1>2, InForceMatches
  <2>6. table[x.strategy].enabled /\ table[x.strategy].terminal = x.terminal
        /\ x.terminal # None /\ x.strategy \in DOMAIN table
    BY <1>2, <2>5, InForceMatches
  <2> HIDE DEF stored, table
  <2> QED BY <2>1, <2>3, <2>4, <2>5, <2>6 DEF assignmentMatches
<1>7. CASE ListStrategyAssignments(c)
  <2> DEFINE s == Highest(t.todo)
             read == {assignments[a] : a \in {b \in AssignmentRows : assignments[b].strategy = s}}
  <2>1. pc[c] = "assignments" /\ pc'[c] = "assignments"
    BY <1>7 DEF ListStrategyAssignments, Goto, Inv, TypeOK
  <2>2. /\ task'[c].device = t.device /\ task'[c].user = t.user /\ task'[c].in = t.in
        /\ task'[c].rows = t.rows /\ task'[c].todo = t.todo \ {s}
        /\ task'[c].got = t.got \cup read
    <3>1. task' = [task EXCEPT ![c].todo = t.todo \ {s}, ![c].got = t.got \cup read]
      BY <1>3, <1>7 DEF ListStrategyAssignments, Inv, HistoryTypes
    <3> HIDE DEF s, read
    <3>2. PICK left, got : left = t.todo \ {s} /\ got = t.got \cup read
      OBVIOUS
    <3>3. task' = [task EXCEPT ![c] = [t EXCEPT !.todo = left, !.got = got]]
      <4>1. HistoryTypes
        BY DEF Inv
      <4>2. [task EXCEPT ![c].todo = left, ![c].got = got]
              = [task EXCEPT ![c] = [task[c] EXCEPT !.todo = left, !.got = got]]
        BY <4>1, TwoFields
      <4> QED BY <1>3, <3>1, <3>2, <4>2
    <3>4. task'[c] = [t EXCEPT !.todo = left, !.got = got]
      BY <3>3 DEF Inv, HistoryTypes
    <3> QED BY <3>2, <3>4, SetGot
  <2>3. x.strategy = s => [strategy |-> x.strategy, target |-> x.target] \in read
    <3>1. PICK a \in AssignmentRows : assignments[a].strategy = x.strategy
                                      /\ assignments[a].target = x.target
      BY <1>2, InForceMatches
    <3>2. assignments[a] = [strategy |-> x.strategy, target |-> x.target]
      <4>1. assignments[a] \in Assignments
        BY DEF Inv, TypeOK, AssignmentRows
      <4> QED BY <3>1, <4>1 DEF Assignments
    <3> HIDE DEF s
    <3> QED BY <3>1, <3>2
  <2>4. /\ assignmentMatches(x, t) /\ x.strategy \in DOMAIN t.rows /\ t.rows[x.strategy].enabled
        /\ t.rows[x.strategy].terminal = x.terminal /\ x.terminal # None
        /\ \/ x.strategy \in t.todo
           \/ [strategy |-> x.strategy, target |-> x.target] \in t.got
    BY <1>2, <1>3, <2>1 DEF KeptOf
  <2> HIDE DEF s, read
  <2> QED BY <2>1, <2>2, <2>3, <2>4 DEF assignmentMatches
<1>8. CASE EffectiveStrategy(c)
  <2>1. pc[c] = "assignments" /\ pc'[c] = "done" /\ task' = task
    BY <1>8 DEF EffectiveStrategy, Goto, Inv, TypeOK
  <2> QED BY <1>2, <2>1 DEF KeptOf
<1> QED BY <1>4, <1>5, <1>6, <1>7, <1>8 DEF Ask

(* An answer is never of a lower level than what was in force all along *)
LEMMA KeptPrevails ==
  ASSUME Inv, Kept
  PROVE  InForcePrevails
<1> SUFFICES ASSUME NEW c \in Calls, pc[c] = "done", NEW x \in always[c]
             PROVE  \E y \in Targets : Level(y) >= Level(x.target) /\ Offered(c, y)
  BY DEF InForcePrevails
<1>1. PICK t \in Tasks : t = task[c]
  BY DEF Inv, StepOf
<1>2. Listed(t) /\ t.todo = {} /\ reply[c] = Resolve(t)
  BY <1>1 DEF Inv, StepOf
<1> DEFINE kept == [strategy |-> x.strategy, target |-> x.target]
<1>3. kept \in Merged(t)
  BY <1>1, <1>2 DEF Kept, KeptOf, Merged, assignmentMatches
<1>4. PICK last \in Merged(t) : /\ \A y \in Merged(t) : ~MergedAfter(y, last)
                                /\ Resolve(t) = t.rows[last.strategy].terminal
  BY <1>2, <1>3, LastMerged
<1>5. Level(last.target) >= Level(x.target)
  <2>1. ~MergedAfter(kept, last)
    BY <1>3, <1>4
  <2>2. Level(last.target) \in Int /\ Level(x.target) \in Int
    BY DEF Level
  <2>3. ~(Level(x.target) > Level(last.target))
    BY <2>1 DEF MergedAfter
  <2> QED BY <2>2, <2>3
<1>6. last.target \in Targets /\ Offered(c, last.target)
  BY <1>1, <1>2, <1>4, AnswerOffered
<1> QED BY <1>5, <1>6

(* docs/strategy.md, Priority: as long as no list is longer than the LIMIT *)
(* of its statement, a setting that was in force for a device all the while*)
(* its effective strategy was read is in the answer, unless a strategy     *)
(* assigned at the same level or above replaces it.                        *)
THEOREM InForceIsNotMissed == Spec /\ []WithinLimits => []InForcePrevails
<1>1. Init => Kept
  BY DEF Init, Kept, KeptOf
<1>2. Inv /\ Inv' /\ Kept /\ WithinLimits /\ [Next]_vars => Kept'
  <2> SUFFICES ASSUME Inv, Inv', Kept, WithinLimits, [Next]_vars PROVE Kept'
    OBVIOUS
  <2>1. CASE (DeviceChange \/ RuleChange \/ StrategyChange) /\ Track
    <3>1. UNCHANGED requests
      BY <2>1
      DEF DeviceChange, RuleChange, StrategyChange, CreateDeviceGroup, CreateDevice, UpdateDevice,
          AddDeviceGroupMember, RemoveDeviceGroupMember, ChangeDevice, ChangeMembers,
          CreateAccessRule, UpdateAccessRule, DeleteAccessRule, ChangeRule, CreateStrategy,
          UpdateStrategy, DeleteStrategy, AddStrategyAssignment, RemoveStrategyAssignment,
          ChangeStrategy, Change
    <3> QED BY <2>1, <3>1, ChangeKeepsKept
  <2>2. CASE \E c \in Calls : Ask(c)
    BY <2>2, AskKeepsKept
  <2>3. CASE UNCHANGED vars
    BY <2>3 DEF vars, requests, history, Kept, KeptOf, assignmentMatches
  <2> QED BY <2>1, <2>2, <2>3 DEF Next
<1>3. Inv /\ Kept => InForcePrevails
  BY KeptPrevails
<1> QED BY <1>1, <1>2, <1>3, PoliciesInvariant, PTL DEF Spec

-----------------------------------------------------------------------------
(* POST /access/evaluate *)

(* No more rules than the LIMIT of the list statement *)
RulesWithinLimit == Cardinality(RuleRows) <= ListLimit

LEMMA RowTypes ==
  ASSUME RuleTypes
  PROVE  /\ RuleRows \in SUBSET RuleIds /\ IsFiniteSet(RuleRows)
         /\ \A i \in RuleRows : rules[i] \in Rules
         /\ \A i \in RuleRows : i \in Int /\ rules[i].priority \in Int
<1>1. RuleRows \in SUBSET RuleIds
  BY DEF RuleRows
<1>2. IsFiniteSet(RuleRows)
  BY <1>1, RangesAreFinite, FS_Subset
<1>3. \A i \in RuleRows : rules[i] \in Rules
  BY BodyAssumption DEF RuleRows, RuleTypes
<1>4. \A i \in RuleRows : i \in Int /\ rules[i].priority \in Int
  BY <1>1, <1>3, RangesAreFinite DEF Rules
<1> QED BY <1>1, <1>2, <1>3, <1>4

(* ListAccessRules: the evaluator sees every rule *)
LEMMA EveryRuleListed ==
  ASSUME RuleTypes, RulesWithinLimit
  PROVE  ListAccessRules = RuleRows
<1> SUFFICES ASSUME NEW i \in RuleRows
             PROVE  Cardinality({j \in RuleRows : ListedBefore(j, i)}) < ListLimit
  BY DEF ListAccessRules
<1> DEFINE earlier == {j \in RuleRows : ListedBefore(j, i)}
<1>1. i \notin earlier
  BY RowTypes DEF ListedBefore
<1>2. earlier \in SUBSET RuleRows /\ earlier # RuleRows
  BY <1>1
<1> HIDE DEF earlier
<1>3. IsFiniteSet(earlier) /\ Cardinality(earlier) <= Cardinality(RuleRows)
      /\ Cardinality(earlier) # Cardinality(RuleRows)
  BY <1>2, RowTypes, FS_Subset
<1>4. Cardinality(earlier) \in Nat /\ Cardinality(RuleRows) \in Nat /\ ListLimit \in Nat
  BY <1>3, RowTypes, FS_CardinalityType, BoundAssumption
<1>5. Cardinality(earlier) < ListLimit
  BY <1>3, <1>4 DEF RulesWithinLimit
<1> QED BY <1>5 DEF earlier

(* Evaluator.Evaluate, the less function of its sort: a strict total order *)
(* on the rules.                                                           *)
LEMMA WinsIsOrder ==
  ASSUME RuleTypes
  PROVE  /\ \A i \in RuleRows : ~Wins(i, i)
         /\ \A i, j \in RuleRows : i # j => Wins(i, j) \/ Wins(j, i)
         /\ \A i, j, k \in RuleRows : Wins(i, j) /\ Wins(j, k) => Wins(i, k)
<1>1. \A i \in RuleRows : rank(rules[i]) \in Int /\ rules[i].effect \in {"allow", "deny"}
  BY RowTypes DEF rank, Rules
<1>2. \A i \in RuleRows : ~Wins(i, i)
  BY <1>1, RowTypes DEF Wins, ListedBefore
<1>3. \A i, j \in RuleRows : i # j => Wins(i, j) \/ Wins(j, i)
  BY <1>1, RowTypes DEF Wins, ListedBefore
<1>4. \A i, j, k \in RuleRows : Wins(i, j) /\ Wins(j, k) => Wins(i, k)
  <2> SUFFICES ASSUME NEW i \in RuleRows, NEW j \in RuleRows, NEW k \in RuleRows,
                      Wins(i, j), Wins(j, k)
               PROVE  Wins(i, k)
    OBVIOUS
  <2>1. /\ i \in Int /\ j \in Int /\ k \in Int
        /\ rules[i].priority \in Int /\ rules[j].priority \in Int /\ rules[k].priority \in Int
    BY RowTypes
  <2> QED BY <1>1, <2>1 DEF Wins, ListedBefore
<1> QED BY <1>2, <1>3, <1>4

(* The decision on a user and a device that are not shut out: the default  *)
(* or that of the rule that wins over every other that applies.            *)
LEMMA Decided ==
  ASSUME RuleTypes, RulesWithinLimit, NEW r \in AccessRequests,
         r.userStatus \notin {"disabled", "locked"}, r.deviceStatus # "disabled"
  PROVE  \/ Applicable(r) = {} /\ Evaluate(r) = Decision(FALSE, "default_deny", None)
         \/ \E i \in Applicable(r) :
              /\ \A j \in Applicable(r) \ {i} : Wins(i, j)
              /\ Evaluate(r) = IF rules[i].effect = "allow"
                               THEN Decision(TRUE, "matched_allow_rule", i)
                               ELSE Decision(FALSE, "matched_deny_rule", i)
<1> DEFINE matches == {i \in ListAccessRules : rules[i].enabled /\ ruleMatches(rules[i], r)}
           first == CHOOSE i \in matches : \A j \in matches \ {i} : Wins(i, j)
<1>1. matches = Applicable(r)
  BY EveryRuleListed DEF Applicable
<1>2. CASE matches = {}
  BY <1>1, <1>2 DEF Evaluate
<1>3. CASE matches # {}
  <2>1. matches \in SUBSET RuleRows /\ IsFiniteSet(matches)
    <3>1. matches \in SUBSET RuleRows
      BY <1>1 DEF Applicable
    <3> HIDE DEF matches
    <3> QED BY <3>1, RowTypes, FS_Subset
  <2> DEFINE R == {p \in matches \X matches : Wins(p[1], p[2])}
  <2>2. \A x \in matches : <<x, x>> \notin R
    BY <2>1, WinsIsOrder
  <2>3. \A x, y, z \in matches : <<x, y>> \in R /\ <<y, z>> \in R => <<x, z>> \in R
    <3> HIDE DEF matches
    <3> QED BY <2>1, WinsIsOrder
  <2>4. PICK i \in matches : \A j \in matches : <<j, i>> \notin R
    <3> HIDE DEF R, matches
    <3> QED BY <1>3, <2>1, <2>2, <2>3, FirstExists
  <2>5. \A j \in matches \ {i} : Wins(i, j)
    <3> HIDE DEF matches
    <3> QED BY <2>1, <2>4, WinsIsOrder
  <2>6. first \in matches /\ \A j \in matches \ {first} : Wins(first, j)
    <3> HIDE DEF matches
    <3> QED BY <2>4, <2>5
  <2>7. Evaluate(r) = IF rules[first].effect = "allow"
                      THEN Decision(TRUE, "matched_allow_rule", first)
                      ELSE Decision(FALSE, "matched_deny_rule", first)
    BY <1>3 DEF Evaluate
  <2> HIDE DEF first, matches
  <2> QED BY <1>1, <2>6, <2>7
<1> QED BY <1>2, <1>3

(* A user or a device that is shut out is refused for that reason *)
LEMMA ShutOut ==
  ASSUME NEW r \in AccessRequests,
         r.userStatus \in {"disabled", "locked"} \/ r.deviceStatus = "disabled"
  PROVE  ~Evaluate(r).allowed /\ Evaluate(r).rule = None
BY DEF Evaluate, Decision

(* Among rules that apply the denying ones come first *)
LEMMA DenyFirst ==
  ASSUME RuleTypes, NEW r \in AccessRequests, NEW i \in Applicable(r),
         \A j \in Applicable(r) \ {i} : Wins(i, j), rules[i].effect = "allow"
  PROVE  \A j \in Applicable(r) : rules[j].effect = "allow"
BY DEF Wins

(* docs/access-control.md, Rules 1, 2, 3 and 9, for any rules as long as   *)
(* the list statement returns them all: a decision allows exactly when user*)
(* and device are not shut out, some rule allows and none denies.          *)
THEOREM DecisionIsDocumented == Spec => [](RulesWithinLimit => DecisionAsDocumented)
<1>1. ASSUME RuleTypes, RulesWithinLimit, NEW r \in AccessRequests
      PROVE  Evaluate(r).allowed <=>
               /\ r.userStatus \notin {"disabled", "locked"}
               /\ r.deviceStatus # "disabled"
               /\ Applicable(r) # {}
               /\ \A i \in Applicable(r) : rules[i].effect = "allow"
  <2>1. CASE r.userStatus \in {"disabled", "locked"} \/ r.deviceStatus = "disabled"
    BY <2>1, ShutOut
  <2>2. CASE r.userStatus \notin {"disabled", "locked"} /\ r.deviceStatus # "disabled"
    <3>1. CASE Applicable(r) = {} /\ Evaluate(r) = Decision(FALSE, "default_deny", None)
      BY <3>1 DEF Decision
    <3>2. ASSUME NEW i \in Applicable(r), \A j \in Applicable(r) \ {i} : Wins(i, j),
                 Evaluate(r) = IF rules[i].effect = "allow"
                               THEN Decision(TRUE, "matched_allow_rule", i)
                               ELSE Decision(FALSE, "matched_deny_rule", i)
          PROVE  Evaluate(r).allowed <=>
                   Applicable(r) # {} /\ \A j \in Applicable(r) : rules[j].effect = "allow"
      <4>1. CASE rules[i].effect = "allow"
        BY <1>1, <3>2, <4>1, DenyFirst DEF Decision
      <4>2. CASE rules[i].effect # "allow"
        BY <3>2, <4>2 DEF Decision
      <4> QED BY <4>1, <4>2
    <3> QED BY <1>1, <2>2, <3>1, <3>2, Decided
  <2> QED BY <2>1, <2>2
<1>2. Inv => (RulesWithinLimit => DecisionAsDocumented)
  BY <1>1, OtherTypes DEF Inv, DecisionAsDocumented
<1> QED BY <1>2, PoliciesInvariant, PTL

(* The rank the evaluator sorts by is the order of the categories *)
LEMMA CategoryIsRank ==
  ASSUME NEW rule \in Rules
  PROVE  Category(rule) = 5 - rank(rule)
<1>1. rule.subject \in Users \cup UserGroups /\ rule.target \in Devices \cup DeviceGroups
  BY DEF Rules
<1>2. CASE rule.subject \in Users /\ rule.target \in Devices
  BY <1>2, NameAssumption DEF Category, rank
<1>3. CASE rule.subject \in UserGroups /\ rule.target \in Devices
  BY <1>3, NameAssumption DEF Category, rank
<1>4. CASE rule.subject \in Users /\ rule.target \in DeviceGroups
  BY <1>4, NameAssumption DEF Category, rank
<1>5. CASE rule.subject \in UserGroups /\ rule.target \in DeviceGroups
  BY <1>5, NameAssumption DEF Category, rank
<1> QED BY <1>1, <1>2, <1>3, <1>4, <1>5

(* docs/access-control.md, Rules 4 to 8, for any rules as long as the list *)
(* statement returns them all: the rule a decision names applies, and no   *)
(* rule of its effect is of a stronger category, or of a higher priority   *)
(* in its category.                                                        *)
THEOREM StrongestIsNamed == Spec => [](RulesWithinLimit => StrongestRuleNamed)
<1>1. ASSUME RuleTypes, RulesWithinLimit, NEW r \in AccessRequests, Evaluate(r).rule # None
      PROVE  LET i == Evaluate(r).rule IN
               /\ i \in Applicable(r)
               /\ \A j \in Applicable(r) : rules[j].effect = rules[i].effect =>
                    \/ Category(rules[j]) > Category(rules[i])
                    \/ /\ Category(rules[j]) = Category(rules[i])
                       /\ rules[j].priority <= rules[i].priority
  <2>1. r.userStatus \notin {"disabled", "locked"} /\ r.deviceStatus # "disabled"
    BY <1>1, ShutOut
  <2>2. PICK i \in Applicable(r) : /\ \A j \in Applicable(r) \ {i} : Wins(i, j)
                                   /\ Evaluate(r).rule = i
    BY <1>1, <2>1, Decided DEF Decision
  <2>3. ASSUME NEW j \in Applicable(r), rules[j].effect = rules[i].effect
        PROVE  \/ Category(rules[j]) > Category(rules[i])
               \/ /\ Category(rules[j]) = Category(rules[i])
                  /\ rules[j].priority <= rules[i].priority
    <3>1. /\ i \in RuleRows /\ j \in RuleRows /\ rules[i] \in Rules /\ rules[j] \in Rules
          /\ rules[i].priority \in Int /\ rules[j].priority \in Int
      BY <1>1, RowTypes DEF Applicable
    <3>2. rank(rules[i]) \in Int /\ rank(rules[j]) \in Int
      BY DEF rank
    <3>3. j # i => Wins(i, j)
      BY <2>2
    <3>4. j # i => ~(rules[i].effect = "deny" /\ rules[j].effect = "allow")
      BY <2>3
    <3>5. j # i => \/ rank(rules[i]) > rank(rules[j])
                   \/ /\ rank(rules[i]) = rank(rules[j])
                      /\ rules[j].priority <= rules[i].priority
      BY <3>1, <3>3, <3>4 DEF Wins, ListedBefore
    <3>6. Category(rules[i]) = 5 - rank(rules[i]) /\ Category(rules[j]) = 5 - rank(rules[j])
      BY <3>1, CategoryIsRank
    <3> QED BY <3>1, <3>2, <3>5, <3>6
  <2> QED BY <2>2, <2>3
<1>2. Inv => (RulesWithinLimit => StrongestRuleNamed)
  BY <1>1, OtherTypes DEF Inv, StrongestRuleNamed
<1> QED BY <1>2, PoliciesInvariant, PTL

(* docs/access-control.md:15, "Explicit deny wins over allow": that holds  *)
(* as long as the list statement returns every rule.                       *)
THEOREM DenyWinsWithinLimit == Spec => [](RulesWithinLimit => DenyWins)
<1>1. DecisionAsDocumented => DenyWins
  BY DEF DecisionAsDocumented, DenyWins
<1> QED BY <1>1, DecisionIsDocumented, PTL
=============================================================================
