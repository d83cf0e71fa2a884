---------------------------- MODULE GrantLedger ----------------------------
(***************************************************************************)
(* What the relay grant service promises: a grant is live from its         *)
(* creation until the first validation accepts it or it is closed (revoked *)
(* or found expired); a validation can be accepted only if it looked the   *)
(* grant up while the grant was live; a grant that stopped being live      *)
(* never is again.  Validations that overlap may all be accepted, and one  *)
(* whose store write failed may leave the grant live: the service does not *)
(* promise more.                                                           *)
(***************************************************************************)
CONSTANTS
  Calls,   \* requests
  Grants,  \* grant ids
  None,    \* no grant
  Faulty   \* the requests whose store writes may fail

VARIABLES live, closed, pending, accepted

ledger == <<live, closed, pending, accepted>>

Init ==
  /\ live = {}
  /\ closed = {}
  /\ pending = [c \in Calls |-> None]
  /\ accepted = {}

Open(g) ==
  /\ g \notin live \cup closed
  /\ live' = live \cup {g}
  /\ UNCHANGED <<closed, pending, accepted>>

Lookup(c, g) ==
  /\ g \in live
  /\ pending[c] = None
  /\ pending' = [pending EXCEPT ![c] = g]
  /\ UNCHANGED <<live, closed, accepted>>

Shut(g) ==
  /\ live' = live \ {g}
  /\ closed' = closed \cup {g}

Accept(c) ==
  /\ pending[c] # None
  /\ pending' = [pending EXCEPT ![c] = None]
  /\ accepted' = accepted \cup {c}
  /\ Shut(pending[c]) \/ (c \in Faulty /\ UNCHANGED <<live, closed>>)

Refuse(c) ==
  /\ pending[c] # None
  /\ pending' = [pending EXCEPT ![c] = None]
  /\ UNCHANGED <<live, closed, accepted>>

Close(g) ==
  /\ g \in live
  /\ Shut(g)
  /\ UNCHANGED <<pending, accepted>>

Next ==
  \/ \E g \in Grants : Open(g) \/ Close(g)
  \/ \E c \in Calls : Accept(c) \/ Refuse(c) \/ \E g \in Grants : Lookup(c, g)

Spec == Init /\ [][Next]_ledger
=============================================================================
