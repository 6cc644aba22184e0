----------------------------- MODULE RouteTable -----------------------------
(***************************************************************************)
(* What McpServerManager promises about one server name, without saying    *)
(* how attempts are arbitrated: at most one connection is the route, a     *)
(* usable route is given up only by close() or for a connection it was     *)
(* reported stale for, a connection is published at most once, and nothing *)
(* is published once closeAll() has begun.  ServerRoutes implements it.    *)
(***************************************************************************)
CONSTANTS Conn, None

VARIABLES
  route,      \* the connection calls are sent to
  published,  \* every connection that has been the route
  usable,     \* the published connections that can carry a call
  suspects,   \* the connections some caller reported as stale
  ended       \* closeAll() has begun

rtVars == <<route, published, usable, suspects, ended>>

Init ==
  /\ route = None
  /\ published = {} /\ usable = {} /\ suspects = {}
  /\ ended = FALSE

\* A connection may arrive unusable: it needs authorization, or died on the way.
Admit(c) ==
  /\ ~ended /\ c \in Conn \ published
  /\ route' = c
  /\ published' = published \cup {c}
  /\ UNCHANGED <<suspects, ended>>

Publish(c) ==
  /\ route \notin usable
  /\ Admit(c)
  /\ usable' \in {usable, usable \cup {c}}

Replace(c) ==
  /\ route \in suspects
  /\ Admit(c)
  /\ usable' \in {usable \ {route}, (usable \ {route}) \cup {c}}

Suspect(c) ==
  /\ c \in published
  /\ suspects' = suspects \cup {c}
  /\ UNCHANGED <<route, published, usable, ended>>

\* The server goes away; the dead route stays until something replaces it.
Expire(c) ==
  /\ usable' = usable \ {c}
  /\ UNCHANGED <<route, published, suspects, ended>>

Close ==
  /\ route # None
  /\ route' = None
  /\ usable' = usable \ {route}
  /\ UNCHANGED <<published, suspects, ended>>

End ==
  /\ ended' = TRUE
  /\ UNCHANGED <<route, published, usable, suspects>>

Next ==
  \/ \E c \in Conn : Publish(c) \/ Replace(c) \/ Suspect(c) \/ Expire(c)
  \/ Close \/ End

Spec == Init /\ [][Next]_rtVars
=============================================================================
