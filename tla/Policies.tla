------------------------------ MODULE Policies ------------------------------
(***************************************************************************)
(* Access rules, strategies and the devices and groups they refer to:      *)
(* administrators change them while requests ask which strategy a device   *)
(* is under (GET /devices/{id}/effective-strategy) and who may connect     *)
(* (POST /access/evaluate).                                                *)
(*                                                                         *)
(* The store is MySQL.  A change is one statement or one transaction and   *)
(* one action.  The audit event that follows it is left out: no request    *)
(* here reads the log, and a change stays when its event cannot be         *)
(* written.  Changes that are refused change nothing and are left out.     *)
(* The effective strategy is read in many statements without a             *)
(* transaction: the device, the groups, the members of each group, the     *)
(* strategies, and the assignments of each strategy; changes fall between  *)
(* them.  An access evaluation reads the rules in one statement and keeps  *)
(* nothing: its answer is the operator Evaluate of the state.              *)
(*                                                                         *)
(* Abstractions.  One setting, "terminal", stands for every key, None for  *)
(* a strategy that does not set it.  The target of an assignment or a rule *)
(* is a device, a user or a group: its id tells the type.  The body of an  *)
(* access evaluation, not the store, tells statuses and memberships, so    *)
(* the status of a device, which no other request here reads, is left out. *)
(***************************************************************************)
EXTENDS Integers, FiniteSets, Sequences

CONSTANTS
  Calls,           \* effective-strategy requests
  Devices,         \* device ids
  Users,           \* user ids
  UserGroups,      \* user group ids
  None,            \* a null pointer, an absent row, an absent key
  RuleBodies,      \* bodies of POST and PUT /access-rules
  StrategyBodies,  \* bodies of POST and PUT /strategies
  AccessRequests,  \* bodies of POST /access/evaluate
  ListLimit,       \* LIMIT of the list statements, 500
  MaxGroups,       \* bounds on the rows ever inserted
  MaxRules,
  MaxStrategies,
  MaxAssignments,
  MaxChanges       \* bound on the changes made

DeviceGroups == 1 .. MaxGroups
RuleIds == 1 .. MaxRules
StrategyIds == 1 .. MaxStrategies
Targets == Devices \cup Users \cup DeviceGroups
Rules == [subject : Users \cup UserGroups, target : Devices \cup DeviceGroups,
          effect : {"allow", "deny"}, priority : Nat, enabled : BOOLEAN]
Settings == {"Y", "N", None}

ASSUME BodyAssumption ==
  /\ RuleBodies \subseteq Rules
  /\ \A b \in StrategyBodies :
       b.enabled \in BOOLEAN /\ b.terminal \in Settings /\ b.targets \in Seq(Targets)
  /\ \A r \in AccessRequests :
       r.user \in Users /\ r.device \in Devices
       /\ r.userGroups \subseteq UserGroups /\ r.deviceGroups \subseteq DeviceGroups
(* An id tells its type; no row and no user is taken for an absent one *)
ASSUME NameAssumption ==
  /\ Users \cap UserGroups = {} /\ Devices \cap DeviceGroups = {}
  /\ None \notin Targets \cup [enabled : BOOLEAN, terminal : Settings]
  /\ "absent" \notin Users \cup {None}
ASSUME BoundAssumption ==
  /\ {ListLimit, MaxGroups, MaxRules, MaxStrategies, MaxAssignments, MaxChanges} \subseteq Nat
  /\ MaxGroups > 0

VARIABLES
  device,       \* devices.owner_user_id, "absent" before the row exists
  members,      \* device_group_members of each group
  groups,       \* the number of device_groups rows
  rules,        \* access_rules, None before the row exists and after its deletion
  nextRule,
  strategies,   \* strategies: enabled and settings_json
  nextStrategy,
  assignments,  \* strategy_assignments: the strategy and the target of each
  nextAssignment,
  changes,      \* how many changes were made
  pc,           \* a request's next statement
  task,         \* what it has read so far
  reply,        \* its answer
  always,       \* history: what was in force since it read the device
  offered       \* history: what the store offered at some time since then

deviceRows == <<device, members, groups>>
ruleRows == <<rules, nextRule>>
strategyRows == <<strategies, nextStrategy, assignments, nextAssignment>>
requests == <<pc, task, reply>>
history == <<always, offered>>
vars == <<deviceRows, ruleRows, strategyRows, changes, requests, history>>

Owners == Users \cup {None}
Exists(d) == device[d] # "absent"

Init ==
  /\ device \in [Devices -> Owners \cup {"absent"}]
  /\ groups = MaxGroups - 1
  /\ members \in [DeviceGroups -> SUBSET {d \in Devices : Exists(d)}]
  /\ \A g \in DeviceGroups : g > groups => members[g] = {}
  /\ rules = [i \in RuleIds |-> None]
  /\ nextRule = 1
  /\ strategies = [s \in StrategyIds |-> None]
  /\ nextStrategy = 1
  /\ assignments = [a \in 1 .. MaxAssignments |-> None]
  /\ nextAssignment = 1
  /\ changes = 0
  /\ pc = [c \in Calls |-> "idle"]
  /\ task = [c \in Calls |-> None]
  /\ reply = [c \in Calls |-> None]
  /\ always = [c \in Calls |-> {}]
  /\ offered = [c \in Calls |-> {}]

-----------------------------------------------------------------------------
(* What the store says about the device and the user of a request *)

Level(x) == IF x \in Devices THEN 3 ELSE IF x \in Users THEN 2 ELSE 1

Matches(x, t) ==
  x = t.device \/ x = t.user \/ x \in {g \in DeviceGroups : t.device \in members[g]}

AssignmentRows == {a \in DOMAIN assignments : assignments[a] # None}

(* The assignments a request is under, and what the strategy sets *)
InForce(t) ==
  {[strategy |-> assignments[a].strategy, target |-> assignments[a].target,
    terminal |-> strategies[assignments[a].strategy].terminal] :
     a \in {b \in AssignmentRows :
             /\ Matches(assignments[b].target, t)
             /\ strategies[assignments[b].strategy].enabled
             /\ strategies[assignments[b].strategy].terminal # None}}

(* What an answer may be put together from: rows of enabled strategies, *)
(* assignments, and the groups of the device                            *)
Offers(t) ==
  {[strategy |-> s, terminal |-> strategies[s].terminal] :
     s \in {x \in StrategyIds : strategies[x] # None /\ strategies[x].enabled}}
  \cup {assignments[a] : a \in AssignmentRows}
  \cup {[target |-> x] : x \in {y \in Targets : Matches(y, t)}}

Reading(c) == pc[c] \in {"groups", "members", "assignments"}

Track ==
  /\ always' = [c \in Calls |-> IF Reading(c) THEN always[c] \cap InForce(task[c])'
                            ELSE always[c]]
  /\ offered' = [c \in Calls |-> IF Reading(c) THEN offered[c] \cup Offers(task[c])'
                             ELSE offered[c]]

-----------------------------------------------------------------------------
(* Changes *)

Change ==
  /\ changes < MaxChanges
  /\ changes' = changes + 1
  /\ UNCHANGED requests

ChangeDevice(d, owner) ==
  /\ device' = [device EXCEPT ![d] = owner]
  /\ Change
  /\ UNCHANGED <<members, groups, ruleRows, strategyRows>>

(* POST /devices and POST /devices/register *)
CreateDevice(d) == \E owner \in Owners : ~Exists(d) /\ ChangeDevice(d, owner)

(* Every field is replaced *)
UpdateDevice(d) == \E owner \in Owners : Exists(d) /\ ChangeDevice(d, owner)

ChangeMembers(g, set) ==
  /\ members' = [members EXCEPT ![g] = set]
  /\ Change
  /\ UNCHANGED <<device, ruleRows, strategyRows>>

(* INSERT IGNORE passes over a device that does not exist *)
Known(set) == {d \in set : Exists(d)}

CreateDeviceGroup ==
  \E set \in SUBSET Devices :
    /\ groups < MaxGroups
    /\ groups' = groups + 1
    /\ ChangeMembers(groups + 1, Known(set))

AddDeviceGroupMember(d) ==
  \E g \in 1 .. groups :
    /\ ChangeMembers(g, members[g] \cup Known({d}))
    /\ UNCHANGED groups

RemoveDeviceGroupMember(d) ==
  \E g \in 1 .. groups :
    /\ ChangeMembers(g, members[g] \ {d})
    /\ UNCHANGED groups

ChangeRule(i, body) ==
  /\ rules' = [rules EXCEPT ![i] = body]
  /\ Change
  /\ UNCHANGED <<deviceRows, strategyRows>>

CreateAccessRule ==
  \E body \in RuleBodies :
    /\ nextRule \in RuleIds
    /\ nextRule' = nextRule + 1
    /\ ChangeRule(nextRule, body)

UpdateAccessRule(i) ==
  \E body \in RuleBodies :
    /\ rules[i] # None
    /\ ChangeRule(i, body)
    /\ UNCHANGED nextRule

DeleteAccessRule(i) ==
  /\ rules[i] # None
  /\ ChangeRule(i, None)
  /\ UNCHANGED nextRule

ChangeStrategy ==
  /\ Change
  /\ UNCHANGED <<deviceRows, ruleRows>>

SetStrategy(s, body) ==
  strategies' = [strategies EXCEPT ![s] = [enabled |-> body.enabled,
                                           terminal |-> body.terminal]]

(* Variant: the old assignments stay *)
InsertAssignments(s, targets) ==
  LET fresh == nextAssignment .. nextAssignment + Len(targets) - 1
  IN /\ fresh \subseteq DOMAIN assignments
     /\ nextAssignment' = nextAssignment + Len(targets)
     /\ assignments' = [a \in DOMAIN assignments |->
          IF a \in fresh THEN [strategy |-> s, target |-> targets[a - nextAssignment + 1]]
          ELSE assignments[a]]

(* The assignments of a strategy are deleted and new ones inserted, with *)
(* new ids, in one transaction with the change of its row.               *)
ReplaceAssignments(s, targets) ==
  LET fresh == nextAssignment .. nextAssignment + Len(targets) - 1
  IN /\ fresh \subseteq DOMAIN assignments
     /\ nextAssignment' = nextAssignment + Len(targets)
     /\ assignments' = [a \in DOMAIN assignments |->
          IF a \in fresh
          THEN [strategy |-> s, target |-> targets[a - nextAssignment + 1]]
          ELSE IF assignments[a] # None /\ assignments[a].strategy = s THEN None
          ELSE assignments[a]]

CreateStrategy ==
  \E body \in StrategyBodies :
    /\ nextStrategy \in StrategyIds
    /\ nextStrategy' = nextStrategy + 1
    /\ SetStrategy(nextStrategy, body)
    /\ ReplaceAssignments(nextStrategy, body.targets)
    /\ ChangeStrategy

UpdateStrategy(s) ==
  \E body \in StrategyBodies :
    /\ strategies[s] # None
    /\ SetStrategy(s, body)
    /\ ReplaceAssignments(s, body.targets)
    /\ ChangeStrategy
    /\ UNCHANGED nextStrategy

DeleteStrategy(s) ==
  /\ strategies[s] # None
  /\ strategies' = [strategies EXCEPT ![s] = None]
  /\ ReplaceAssignments(s, <<>>)
  /\ ChangeStrategy
  /\ UNCHANGED nextStrategy

AddStrategyAssignment(s) ==
  \E x \in Targets :
    /\ strategies[s] # None
    /\ nextAssignment \in DOMAIN assignments
    /\ assignments' = [assignments EXCEPT ![nextAssignment] = [strategy |-> s, target |-> x]]
    /\ nextAssignment' = nextAssignment + 1
    /\ ChangeStrategy
    /\ UNCHANGED <<strategies, nextStrategy>>

RemoveStrategyAssignment(a) ==
  /\ assignments[a] # None
  /\ assignments' = [assignments EXCEPT ![a] = None]
  /\ ChangeStrategy
  /\ UNCHANGED <<strategies, nextStrategy, nextAssignment>>

-----------------------------------------------------------------------------
(* GET /devices/{id}/effective-strategy *)

Highest(set) == CHOOSE x \in set : \A y \in set : y <= x

(* The rows a list statement returns: the ListLimit newest *)
Newest(set) == {x \in set : Cardinality({y \in set : y > x}) < ListLimit}

Goto(c, from, to) ==
  /\ pc[c] = from
  /\ pc' = [pc EXCEPT ![c] = to]
  /\ UNCHANGED <<deviceRows, ruleRows, strategyRows, changes>>

(* The owner is the user unless the query names one *)
FindDevice(c) ==
  \E d \in Devices, named \in Users \cup {None} :
    LET t == [device |-> d, user |-> IF named # None THEN named ELSE device[d],
              todo |-> {}, in |-> {}, rows |-> {}, got |-> {}]
    IN /\ Exists(d)
       /\ Goto(c, "idle", "groups")
       /\ task' = [task EXCEPT ![c] = t]
       /\ always' = [always EXCEPT ![c] = InForce(t)]
       /\ offered' = [offered EXCEPT ![c] = Offers(t)]
       /\ UNCHANGED reply

ListDeviceGroups(c) ==
  /\ Goto(c, "groups", "members")
  /\ task' = [task EXCEPT ![c].todo = Newest(1 .. groups)]
  /\ UNCHANGED <<reply, history>>

(* One group after the other, the newest first *)
ListDeviceGroupMembers(c) ==
  LET g == Highest(task[c].todo) IN
  /\ Goto(c, "members", "members")
  /\ task[c].todo # {}
  /\ task' = [task EXCEPT ![c].todo = @ \ {g},
                          ![c].in = IF task[c].device \in members[g] THEN @ \cup {g} ELSE @]
  /\ UNCHANGED <<reply, history>>

ListStrategies(c) ==
  LET listed == Newest({s \in StrategyIds : strategies[s] # None}) IN
  /\ Goto(c, "members", "assignments")
  /\ task[c].todo = {}
  /\ task' = [task EXCEPT ![c].todo = listed,
                          ![c].rows = [s \in listed |-> strategies[s]]]
  /\ UNCHANGED <<reply, history>>

(* Read when the row of the strategy has been read: it may have changed since *)
ListStrategyAssignments(c) ==
  LET s == Highest(task[c].todo) IN
  /\ Goto(c, "assignments", "assignments")
  /\ task[c].todo # {}
  /\ task' = [task EXCEPT ![c].todo = @ \ {s},
       ![c].got = @ \cup {assignments[a] :
                            a \in {b \in AssignmentRows : assignments[b].strategy = s}}]
  /\ UNCHANGED <<reply, history>>

assignmentMatches(x, t) ==
  x.target = t.device \/ (x.target # None /\ x.target = t.user) \/ x.target \in t.in

(* Variant: a disabled strategy is merged like the others *)
MergedAny(t) ==
  {x \in t.got : assignmentMatches(x, t) /\ t.rows[x.strategy].terminal # None}

(* The assignments whose strategy Resolve merges and that set the key *)
Merged(t) ==
  {x \in t.got : /\ assignmentMatches(x, t)
                 /\ t.rows[x.strategy].enabled
                 /\ t.rows[x.strategy].terminal # None}

(* Variant: the levels are merged in the order in which the types are declared *)
GroupLast(x, y) ==
  \/ Level(x.target) < Level(y.target)
  \/ Level(x.target) = Level(y.target) /\ x.strategy < y.strategy

(* x is merged after y: device after user after group, and within a level *)
(* in the order of the list, strategies newest first.                     *)
MergedAfter(x, y) ==
  \/ Level(x.target) > Level(y.target)
  \/ Level(x.target) = Level(y.target) /\ x.strategy < y.strategy

(* The last strategy merged replaces what came before, the default first *)
Resolve(t) ==
  IF Merged(t) = {} THEN "N"
  ELSE LET last == CHOOSE x \in Merged(t) : \A y \in Merged(t) : ~MergedAfter(y, x)
       IN t.rows[last.strategy].terminal

EffectiveStrategy(c) ==
  /\ Goto(c, "assignments", "done")
  /\ task[c].todo = {}
  /\ reply' = [reply EXCEPT ![c] = Resolve(task[c])]
  /\ UNCHANGED <<task, history>>

-----------------------------------------------------------------------------
(* POST /access/evaluate *)

(* The list is ordered by priority, then by id, the highest first *)
ListedBefore(i, j) ==
  \/ rules[i].priority > rules[j].priority
  \/ rules[i].priority = rules[j].priority /\ i > j

RuleRows == {i \in RuleIds : rules[i] # None}

ListAccessRules ==
  {i \in RuleRows : Cardinality({j \in RuleRows : ListedBefore(j, i)}) < ListLimit}

ruleMatches(rule, r) ==
  /\ rule.subject = r.user \/ rule.subject \in r.userGroups
  /\ rule.target = r.device \/ rule.target \in r.deviceGroups

(* Variant: the subject counts more than the target *)
SubjectFirst(rule) ==
  1 + (IF rule.subject \in Users THEN 2 ELSE 0) + (IF rule.target \in Devices THEN 1 ELSE 0)

rank(rule) ==
  1 + (IF rule.subject \in Users THEN 1 ELSE 0) + (IF rule.target \in Devices THEN 2 ELSE 0)

(* Variant: the stronger category wins whatever its effect *)
RankFirst(i, j) ==
  \/ rank(rules[i]) > rank(rules[j])
  \/ rank(rules[i]) = rank(rules[j]) /\ ListedBefore(i, j)

Wins(i, j) ==
  \/ rules[i].effect = "deny" /\ rules[j].effect = "allow"
  \/ /\ rules[i].effect = rules[j].effect
     /\ \/ rank(rules[i]) > rank(rules[j])
        \/ rank(rules[i]) = rank(rules[j]) /\ ListedBefore(i, j)

Decision(allowed, reason, i) == [allowed |-> allowed, reason |-> reason, rule |-> i]

Evaluate(r) ==
  LET matches == {i \in ListAccessRules : rules[i].enabled /\ ruleMatches(rules[i], r)}
      first == CHOOSE i \in matches : \A j \in matches \ {i} : Wins(i, j)
  IN IF r.userStatus \in {"disabled", "locked"} THEN Decision(FALSE, "user_not_active", None)
     ELSE IF r.deviceStatus = "disabled" THEN Decision(FALSE, "target_device_disabled", None)
     ELSE IF matches = {} THEN Decision(FALSE, "default_deny", None)
     ELSE IF rules[first].effect = "allow" THEN Decision(TRUE, "matched_allow_rule", first)
     ELSE Decision(FALSE, "matched_deny_rule", first)

-----------------------------------------------------------------------------

DeviceChange ==
  \/ CreateDeviceGroup
  \/ \E d \in Devices : CreateDevice(d) \/ UpdateDevice(d)
                         \/ AddDeviceGroupMember(d) \/ RemoveDeviceGroupMember(d)

RuleChange ==
  CreateAccessRule \/ \E i \in RuleIds : UpdateAccessRule(i) \/ DeleteAccessRule(i)

StrategyChange ==
  \/ CreateStrategy
  \/ \E s \in StrategyIds :
       UpdateStrategy(s) \/ DeleteStrategy(s) \/ AddStrategyAssignment(s)
  \/ \E a \in DOMAIN assignments : RemoveStrategyAssignment(a)

Ask(c) ==
  FindDevice(c) \/ ListDeviceGroups(c) \/ ListDeviceGroupMembers(c)
  \/ ListStrategies(c) \/ ListStrategyAssignments(c) \/ EffectiveStrategy(c)

Next ==
  \/ (DeviceChange \/ RuleChange \/ StrategyChange) /\ Track
  \/ \E c \in Calls : Ask(c)

Spec == Init /\ [][Next]_vars

-----------------------------------------------------------------------------
(* Properties *)

Assignments == [strategy : StrategyIds, target : Targets]
Strategies == [enabled : BOOLEAN, terminal : Settings]

(* Types of the state: an assignment belongs to a strategy that exists, a  *)
(* member of a group is a device that exists.                              *)
TypeOK ==
  /\ device \in [Devices -> Owners \cup {"absent"}]
  /\ groups \in 0 .. MaxGroups
  /\ members \in [DeviceGroups -> SUBSET {d \in Devices : Exists(d)}]
  /\ rules \in [RuleIds -> RuleBodies \cup {None}]
  /\ nextRule \in 1 .. MaxRules + 1
  /\ strategies \in [StrategyIds -> Strategies \cup {None}]
  /\ nextStrategy \in 1 .. MaxStrategies + 1
  /\ assignments \in [1 .. MaxAssignments -> Assignments \cup {None}]
  /\ \A a \in AssignmentRows : strategies[assignments[a].strategy] # None
  /\ nextAssignment \in 1 .. MaxAssignments + 1
  /\ changes \in 0 .. MaxChanges
  /\ pc \in [Calls -> {"idle", "groups", "members", "assignments", "done"}]
  /\ reply \in [Calls -> {"Y", "N", None}]

(* The answer may be what a strategy set that was assigned to target: the  *)
(* row, the assignment and the match may each have held at its own time.   *)
Offered(c, target) ==
  \E s \in StrategyIds :
    {[strategy |-> s, terminal |-> reply[c]],
     [strategy |-> s, target |-> target], [target |-> target]} \subseteq offered[c]

(* docs/strategy.md, Priority: device before user before device group      *)
(* before default.  A setting that was in force for a device all the while *)
(* its effective strategy was read is in the answer, unless a strategy     *)
(* assigned at the same level or above replaces it.                        *)
InForcePrevails ==
  \A c \in Calls : pc[c] = "done" =>
    \A x \in always[c] :
      \E y \in Targets : Level(y) >= Level(x.target) /\ Offered(c, y)

(* docs/strategy.md: "a default secure fallback that disables terminal":   *)
(* terminal is on only if an enabled strategy turned it on that was        *)
(* assigned to the device, its user or a group of it.                      *)
SecureFallback ==
  \A c \in Calls : pc[c] = "done" /\ reply[c] # "N" => \E y \in Targets : Offered(c, y)

Applicable(r) == {i \in RuleRows : rules[i].enabled /\ ruleMatches(rules[i], r)}

(* docs/access-control.md, Rules 1, 2, 3 and 9: a decision allows exactly  *)
(* when user and device are not shut out, some rule allows and none denies.*)
DecisionAsDocumented ==
  \A r \in AccessRequests :
    Evaluate(r).allowed <=>
      /\ r.userStatus \notin {"disabled", "locked"}
      /\ r.deviceStatus # "disabled"
      /\ Applicable(r) # {}
      /\ \A i \in Applicable(r) : rules[i].effect = "allow"

(* Rules 4 to 7: user to device, group to device, user to group, and last *)
(* group to group                                                         *)
Category(rule) ==
  CASE rule.subject \in Users /\ rule.target \in Devices -> 1
    [] rule.subject \in UserGroups /\ rule.target \in Devices -> 2
    [] rule.subject \in Users /\ rule.target \in DeviceGroups -> 3
    [] rule.subject \in UserGroups /\ rule.target \in DeviceGroups -> 4

(* docs/access-control.md, Rules 4 to 8: the rule a decision names applies,*)
(* and no rule of its effect is of a stronger category, or of a higher     *)
(* priority in its category.                                               *)
StrongestRuleNamed ==
  \A r \in AccessRequests :
    LET i == Evaluate(r).rule IN
      i # None =>
        /\ i \in Applicable(r)
        /\ \A j \in Applicable(r) : rules[j].effect = rules[i].effect =>
             \/ Category(rules[j]) > Category(rules[i])
             \/ /\ Category(rules[j]) = Category(rules[i])
                /\ rules[j].priority <= rules[i].priority

(* docs/access-control.md:15, "Explicit deny wins over allow": no request  *)
(* is allowed that an enabled rule denies.                                 *)
DenyWins ==
  \A r \in AccessRequests :
    (\E i \in Applicable(r) : rules[i].effect = "deny") => ~Evaluate(r).allowed
=============================================================================
