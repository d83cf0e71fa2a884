---------------------------- MODULE RateLimiter ----------------------------
(***************************************************************************)
(* The in-memory fixed-window limiter that stands before every route.  It  *)
(* counts the requests of a key and admits Limit of them before the        *)
(* counter's reset time.  The key is the address a request says it was     *)
(* forwarded for, X-Forwarded-For or X-Real-IP, before the one it comes    *)
(* from: a client may give each request another, or one that others use.   *)
(* The middleware reads the clock first and takes the limiter's mutex      *)
(* afterwards, so a request may be counted by a time that has passed,      *)
(* after requests that read the clock later, or after the clean-up that a  *)
(* request with another key has run.                                       *)
(***************************************************************************)
EXTENDS Integers, Sequences, FiniteSets

CONSTANTS
  Clients,   \* senders; each waits for the answer before it sends again
  KeysOf,    \* the keys each client may give its requests
  Limit,     \* RateLimitConfig.Requests
  Window,    \* RateLimitConfig.Window
  MaxKeys,   \* counters kept without a clean-up, 4096 in the code
  Budget,    \* bound on the requests of each client
  MaxTime,   \* bound on the clock
  None

Keys == UNION {KeysOf[c] : c \in Clients}

Bucket == [resetAt : Nat, used : Nat]

(* RateLimit lets every request pass when the limit or window is not positive *)
ASSUME LimiterAssumption ==
  /\ Limit \in Nat \ {0} /\ Window \in Nat \ {0}
  /\ MaxKeys \in Nat /\ MaxTime \in Nat
  /\ Budget \in [Clients -> Nat]
  /\ None \notin Nat /\ None \notin Bucket /\ None \notin Keys

VARIABLES
  now,      \* time.Now()
  buckets,  \* memoryRateLimiter.requests, None for a key without a counter
  at,       \* the time a request has read, None outside the middleware
  named,    \* the key it has given, None outside the middleware
  sent,     \* the requests of each client so far
  passed    \* history: the requests admitted for each key, in their order

limiterVars == <<now, buckets, at, named, sent, passed>>

Passage == [client : Clients, when : Nat]

LimiterInit ==
  /\ now = 0
  /\ buckets = [k \in Keys |-> None]
  /\ at = [c \in Clients |-> None]
  /\ named = [c \in Clients |-> None]
  /\ sent = [c \in Clients |-> 0]
  /\ passed = [k \in Keys |-> <<>>]

Tick ==
  /\ now < MaxTime
  /\ now' = now + 1
  /\ UNCHANGED <<buckets, at, named, sent, passed>>

(* A request arrives with a key, and the middleware reads the clock *)
ReadClock(c) ==
  /\ at[c] = None
  /\ sent[c] < Budget[c]
  /\ at' = [at EXCEPT ![c] = now]
  /\ \E k \in KeysOf[c] : named' = [named EXCEPT ![c] = k]
  /\ sent' = [sent EXCEPT ![c] = @ + 1]
  /\ UNCHANGED <<now, buckets, passed>>

-----------------------------------------------------------------------------
(* memoryRateLimiter.allow, under its mutex *)

(* Variant: the reset time itself still belongs to the window *)
OverAfter(bucket, t) == bucket = None \/ t > bucket.resetAt

Over(bucket, t) == bucket = None \/ t >= bucket.resetAt

Counted(bucket, t) ==
  IF Over(bucket, t) THEN [resetAt |-> t + Window, used |-> 1]
  ELSE [bucket EXCEPT !.used = @ + 1]

(* Variant: the clean-up drops the counters that are still running *)
CleanedAll(bs, t) == [k \in Keys |-> None]

Cleaned(bs, t) == [k \in Keys |-> IF Over(bs[k], t) THEN None ELSE bs[k]]

Tidied(bs, t) ==
  IF Cardinality({k \in Keys : bs[k] # None}) > MaxKeys THEN Cleaned(bs, t) ELSE bs

Allow(c, admitted) ==
  LET key == named[c]
      bucket == Counted(buckets[key], at[c]) IN
  /\ at[c] # None
  /\ admitted <=> bucket.used <= Limit
  /\ buckets' = Tidied([buckets EXCEPT ![key] = bucket], at[c])
  /\ at' = [at EXCEPT ![c] = None]
  /\ named' = [named EXCEPT ![c] = None]
  /\ passed' = IF admitted
               THEN [passed EXCEPT ![key] =
                       Append(@, [client |-> c, when |-> now])]
               ELSE passed
  /\ UNCHANGED <<now, sent>>

Admit(c) == Allow(c, TRUE)

(* 429, with the time left until the reset in Retry-After *)
Refuse(c) == Allow(c, FALSE)

-----------------------------------------------------------------------------
(* Properties *)

LimiterTypeOK ==
  /\ now \in Nat
  /\ buckets \in [Keys -> Bucket \cup {None}]
  /\ at \in [Clients -> Nat \cup {None}]
  /\ \A c \in Clients : named[c] \in (IF at[c] = None THEN {None} ELSE KeysOf[c])
  /\ sent \in [Clients -> Nat]
  /\ \A k \in Keys : \A i \in DOMAIN passed[k] : passed[k][i] \in Passage

(* memoryRateLimiter.allow: a request is refused only if Limit requests of *)
(* the key it has given were admitted less than a window before the time   *)
(* it has read; what is sent with other keys, and the clean-up it causes,  *)
(* costs it nothing, and the window is over at the reset time.  Another    *)
(* client that gives the same key does use up its limit.                   *)
RefusalJustified ==
  [][\A c \in Clients : Refuse(c) =>
       LET log == passed[named[c]] IN
       Cardinality({i \in DOMAIN log : log[i].when > at[c] - Window}) >= Limit]_limiterVars

(* Only one client gives this key, and that client waits for its answers *)
Alone(k) == \A c, d \in Clients : k \in KeysOf[c] /\ k \in KeysOf[d] => c = d

(* memoryRateLimiter.allow and cleanup: in no interval as long as a window *)
(* are more than twice Limit requests admitted of a key that one client    *)
(* gives, to a request after the answer to the one before, however long a  *)
(* request waits between the clock and the mutex and whenever the clean-up *)
(* removes a counter.  The limit is the key's and not the client's: one    *)
(* that gives its requests many keys has it once with each.                *)
TwicePerWindow ==
  \A k \in Keys : Alone(k) =>
    \A i, j \in DOMAIN passed[k] :
      j = i + 2 * Limit => passed[k][j].when - passed[k][i].when >= Window
=============================================================================
