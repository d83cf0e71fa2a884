---------------------------- MODULE MCRelayGrant ----------------------------
(* Small instances of RelayGrant for TLC *)
EXTENDS RelayGrant

CONSTANTS d1, r1, r2, x, y, i1, v1, v2, k1

(* A grant body, and one the service must reject: a time to live above *)
(* five minutes.                                                       *)
MCIssueRequests ==
  { [device |-> None, rustdesk |-> r1, relays |-> {x}, ttl |-> 0],
    [device |-> d1, rustdesk |-> r1, relays |-> {x}, ttl |-> 6] }

(* What hbbr sends, from a relay the grant allows and from one it does not *)
MCValidateRequests ==
  { [device |-> None, rustdesk |-> r1, relay |-> x],
    [device |-> None, rustdesk |-> r1, relay |-> y] }

(* One request to issue, two to validate, one to revoke *)
MCRoute == [c \in Calls |-> IF c = i1 THEN "issue" ELSE IF c = k1 THEN "revoke" ELSE "validate"]
=============================================================================
