------------------------------- MODULE ShipPool -------------------------------
(***************************************************************************)
(* What a pool of connections to a backend promises, whatever the protocol *)
(* spoken on them: a request is given one connection, idle or new, unless  *)
(* Limit of them exist; no connection is given to two requests at a time;    *)
(* one that is being closed is not given to anybody.                       *)
(***************************************************************************)
EXTENDS Naturals, FiniteSets

CONSTANTS Requests, Ships, Limit, Nobody

VARIABLES asked,   \* the requests that have asked for a connection
          idle,    \* the connections that are kept for the next request
          lent,    \* the connection each request has
          leaving  \* the connections that are being closed

vars == <<asked, idle, lent, leaving>>

Lent == {lent[r] : r \in Requests} \ {Nobody}
Pool == idle \cup Lent \cup leaving
Limited == 0 < Limit /\ Limit <= Cardinality(Pool)

Init ==
  /\ asked = {} /\ idle = {} /\ leaving = {}
  /\ lent = [r \in Requests |-> Nobody]

Refuse(r) ==
  /\ r \notin asked /\ Limited
  /\ asked' = asked \cup {r}
  /\ UNCHANGED <<idle, lent, leaving>>

(* A new connection only when none is idle.                                *)
Lend(r, s) ==
  /\ r \notin asked /\ ~Limited
  /\ IF idle = {} THEN s \notin Pool ELSE s \in idle
  /\ asked' = asked \cup {r}
  /\ idle' = idle \ {s}
  /\ lent' = [lent EXCEPT ![r] = s]
  /\ UNCHANGED leaving

GiveBack(r) ==
  /\ lent[r] # Nobody
  /\ lent' = [lent EXCEPT ![r] = Nobody]
  /\ idle' = idle \cup {lent[r]}
  /\ UNCHANGED <<asked, leaving>>

Leave(r) ==
  /\ lent[r] # Nobody
  /\ lent' = [lent EXCEPT ![r] = Nobody]
  /\ leaving' = leaving \cup {lent[r]}
  /\ UNCHANGED <<asked, idle>>

Expire(s) ==
  /\ s \in idle
  /\ idle' = idle \ {s} /\ leaving' = leaving \cup {s}
  /\ UNCHANGED <<asked, lent>>

Discard(s) ==
  /\ s \in leaving
  /\ leaving' = leaving \ {s}
  /\ UNCHANGED <<asked, idle, lent>>

Next ==
  \/ \E r \in Requests : \/ Refuse(r) \/ GiveBack(r) \/ Leave(r)
                         \/ \E s \in Ships : Lend(r, s)
  \/ \E s \in Ships : Expire(s) \/ Discard(s)

Spec == Init /\ [][Next]_vars
=============================================================================
