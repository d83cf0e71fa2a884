----------------------------- MODULE MCPolicies -----------------------------
(* Small instances of Policies for TLC *)
EXTENDS Policies

CONSTANTS c1, d1, u1, ug

(* Rules of every category, of both effects and of two priorities *)
MCRuleBodies ==
  {b \in [subject : {u1, ug}, target : {d1, 1}, effect : {"allow", "deny"},
          priority : {0, 1}, enabled : {TRUE}] :
     b.priority = 1 => b.target = d1}
  \cup {[subject |-> u1, target |-> d1, effect |-> "deny", priority |-> 1,
          enabled |-> FALSE]}

(* Strategies for a device, its owner and its groups *)
MCStrategyBodies ==
  { [enabled |-> TRUE, terminal |-> "Y", targets |-> <<1>>],
    [enabled |-> TRUE, terminal |-> "N", targets |-> <<u1>>],
    [enabled |-> TRUE, terminal |-> "Y", targets |-> <<d1, u1>>],
    [enabled |-> FALSE, terminal |-> "Y", targets |-> <<d1>>],
    [enabled |-> TRUE, terminal |-> None, targets |-> <<d1>>] }

(* A member of the groups, and a stranger *)
MCAccessRequests ==
  [user : {u1}, device : {d1}, userStatus : {"active", "locked"},
   deviceStatus : {"online", "disabled"}, userGroups : {{}, {ug}}, deviceGroups : {{}, {1}}]
=============================================================================
