----------------------------- MODULE PointerToken -----------------------------
(***************************************************************************)
(* What two connected hosts promise about the pointer.  "away" are the     *)
(* hosts whose pointer is on the other one.  It leaves a host by one       *)
(* commit, which waits in "carried" for the host it is addressed to, and   *)
(* no other commit is under way then; a host may always take its own       *)
(* pointer back.                                                           *)
(***************************************************************************)
EXTENDS TLAPS

CONSTANT Hosts

VARIABLES away, carried, up

token == <<away, carried, up>>

Init == away = {} /\ carried = {} /\ up = FALSE

\* No session starts while a pointer is away.
Connect ==
    /\ ~up /\ away = {} /\ carried = {}
    /\ up' = TRUE
    /\ UNCHANGED <<away, carried>>

\* The operation that ends the session may have queued one last commit.
Disconnect ==
    /\ up' = FALSE
    /\ \E h \in Hosts : away' \subseteq away \union {h}
    /\ carried' \subseteq Hosts

\* The commit of a host that has not noticed the end of the session is lost.
Give(h) ==
    /\ h \notin away
    /\ away' = away \union {h}
    /\ IF up THEN carried = {} /\ carried' = Hosts \ {h} ELSE carried' = carried
    /\ up' = up

Take(h) ==
    /\ h \in carried
    /\ carried' = carried \ {h}
    /\ away' = away \ {h}
    /\ up' = up

Reclaim(h) ==
    /\ away' = away \ {h}
    /\ UNCHANGED <<carried, up>>

Next == Connect \/ Disconnect \/ \E h \in Hosts : Give(h) \/ Take(h) \/ Reclaim(h)

Spec == Init /\ [][Next]_token

\* While the session is up the pointer is on some host or on its way to one.
NeverLost == up /\ away = Hosts => carried # {}

\* With at least two hosts every step keeps the pointer: only a commit takes it
\* from the last host that has one, and that commit is then under way.
THEOREM PointerNeverLost ==
    ASSUME \A h \in Hosts : Hosts \ {h} # {}, Hosts # {}
    PROVE  Spec => []NeverLost
<1>1. Init => NeverLost
  BY DEF Init, NeverLost
<1>2. NeverLost /\ [Next]_token => NeverLost'
  <2>1. SUFFICES ASSUME NeverLost, Next \/ UNCHANGED token PROVE NeverLost'
    OBVIOUS
  <2>2. CASE Connect
    BY <2>2 DEF Connect, NeverLost
  <2>3. CASE Disconnect
    BY <2>3 DEF Disconnect, NeverLost
  <2>4. ASSUME NEW h \in Hosts, Give(h) PROVE NeverLost'
    BY <2>4 DEF Give, NeverLost
  <2>5. ASSUME NEW h \in Hosts, Take(h) PROVE NeverLost'
    BY <2>5 DEF Take, NeverLost
  <2>6. ASSUME NEW h \in Hosts, Reclaim(h) PROVE NeverLost'
    BY <2>6 DEF Reclaim, NeverLost
  <2>7. CASE UNCHANGED token
    BY <2>1, <2>7 DEF token, NeverLost
  <2>8. QED
    BY <2>1, <2>2, <2>3, <2>4, <2>5, <2>6, <2>7 DEF Next
<1>3. QED
  BY <1>1, <1>2, PTL DEF Spec

=============================================================================
