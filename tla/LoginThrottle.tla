---------------------------- MODULE LoginThrottle ----------------------------
(***************************************************************************)
(* LoginThrottleService (src/src/security/services): two counters in       *)
(* Redis, of refused logins from an address and of refused logins with a   *)
(* user name, each of which expires a window after its first count.        *)
(*                                                                         *)
(* The commands of one call are handed to the one connection of the        *)
(* process in one go, so nothing comes between them.  The address whose    *)
(* counter matters here and one user name are enough: names share nothing. *)
(***************************************************************************)
EXTENDS Naturals

CONSTANTS
  Ip,         \* addresses logins come from
  UserMax,    \* LOGIN_USER_MAX
  IpMax,      \* LOGIN_IP_MAX
  Window,     \* LOGIN_WINDOW_SEC
  MaxUnread   \* bound on the logins a key lets through because it is not read

UserKey == "user"

ASSUME LoginThrottleAssumption ==
  /\ UserKey \notin Ip
  /\ UserMax \in Nat
  /\ IpMax \in Nat
  /\ Window \in Nat \ {0}
  /\ MaxUnread \in Nat

VARIABLES
  now,        \* the clock
  counter     \* by key, its count and when it expires; 0 when there is no key

Key == Ip \cup {UserKey}

\* "unread" is history: the logins that have begun although the count was
\* beyond its limit, because Redis did not tell it.
Counter == [n : Nat, until : Nat, unread : Nat]

NoCount == [n |-> 0, until |-> 0, unread |-> 0]

Limit(k) == IF k = UserKey THEN UserMax ELSE IpMax

Exceeded(k) == counter[k].n > Limit(k)

\* What isLocked tells: getCount takes a count it cannot read for 0.
IsLocked(ip, unread) == \E k \in {ip, UserKey} \ unread : Exceeded(k)

\* A login begins; where a count has been read nothing is noted.
LetIn(unread) ==
  /\ \A k \in unread : counter[k].unread < MaxUnread
  /\ counter' = [k \in Key |-> IF k \in unread /\ Exceeded(k)
                              THEN [counter[k] EXCEPT !.unread = @ + 1] ELSE counter[k]]

\* INCR, and EXPIRE NX: a key that has a time to live keeps it.
Bump(c) ==
  IF c.n = 0 THEN [NoCount EXCEPT !.n = 1, !.until = now + Window] ELSE [c EXCEPT !.n = @ + 1]

CountFailure(keys) ==
  counter' = [k \in Key |-> IF k \in keys THEN Bump(counter[k]) ELSE counter[k]]

Forget(keys) == counter' = [k \in Key |-> IF k \in keys THEN NoCount ELSE counter[k]]

\* An administrator unlocks the user name; addresses stay counted.
clearForUsername == Forget({UserKey})

\* Redis drops the keys whose time has come.
Expire(t) == counter' = [k \in Key |-> IF counter[k].until <= t THEN NoCount ELSE counter[k]]

=============================================================================
