----------------------------- MODULE MCIdentity -----------------------------
(* Small instances of Identity for TLC *)
EXTENDS Identity, TLC

CONSTANTS u1, u2, s1, k1, c1, c2, c3, c4, c5

(* A login, a request that creates a token, one that closes, one that may *)
(* open again and one that only uses                                      *)
MCKinds ==
  c1 :> {"login"} @@ c2 :> {"create_api_token"}
  @@ c3 :> {"logout", "revoke_api_token", "disable_user"}
  @@ c4 :> {"update_user"} @@ c5 :> {"read"}

(* First-run setup, and what its administrator does next *)
MCKindsSetup ==
  c1 :> {"login"} @@ c2 :> {"create_api_token"} @@ c3 :> {"setup"}
  @@ c4 :> {"setup", "logout"} @@ c5 :> {"read", "create_user"}

(* What is closed, by a request that may fail, with MySQL; and everything *)
(* failing in a first run with the memory store                           *)
MCDeployments ==
  {[memory |-> FALSE, faulty |-> {c3}, kinds |-> MCKinds, accounts |-> {u}, until |-> 1] :
     u \in Users}
  \cup {[memory |-> TRUE, faulty |-> Calls, kinds |-> MCKindsSetup, accounts |-> Users,
         until |-> 0]}

MCSetup ==
  {[memory |-> TRUE, faulty |-> {}, until |-> 0, accounts |-> Users,
    kinds |-> [c \in Calls |-> IF c \in {c3, c4} THEN {"setup"} ELSE {}]]}

MCSymmetry == Permutations(Users)
=============================================================================
