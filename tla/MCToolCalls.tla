---------------------------- MODULE MCToolCalls ----------------------------
(***************************************************************************)
(* Instances of ToolCalls and ProxyCalls for TLC.  A behaviour follows one *)
(* of them (`focus`): calls over the connections of one server, or what    *)
(* the `mcp` tool does with a name on several.                             *)
(***************************************************************************)
EXTENDS ToolCalls, TLC

CONSTANTS p1, p2, Server, Caller

VARIABLES focus, server, calls, watch

NoCalls    == {}
FirstCall  == {p1}
SecondCall == {p2}
TwoCalls   == {p1, p2}

proxy == <<server, calls, watch>>

Proxy == INSTANCE ProxyCalls

MCInit == Init /\ Proxy!Init /\ focus \in {"calls", "proxy"}

Calling == focus = "calls" /\ Next /\ UNCHANGED <<focus, proxy>>

MCNext ==
  \/ Calling
  \/ focus = "proxy" /\ Proxy!Next /\ UNCHANGED <<focus, vars>>

\* The fairness of ToolCalls, for the behaviours that follow it.
MCSpec ==
  /\ MCInit /\ [][MCNext]_<<focus, vars, proxy>>
  /\ WF_vars(focus = "calls" /\ Settles)
  /\ \A p \in Call : WF_vars(focus = "calls" /\ (Runs(p) \/ Request(p)))

CallsOnly == MCInit /\ focus = "calls" /\ [][Calling]_<<focus, vars, proxy>>

-----------------------------------------------------------------------------
(* The properties of ProxyCalls, under the names they have there. *)

\* Calls through the `mcp` tool run the tool their name means, describe and search agree
\* with them, and each asks to sign in once at most, keeps the back-off and leaves what
\* others connected.
ProxyIsTrue ==
  /\ [](focus = "proxy" => /\ Proxy!ProxyInv /\ Proxy!DescribedIsCalled
                           /\ Proxy!OfferedIsCallable /\ Proxy!OneSignIn
                           /\ Proxy!SignedInIsUsable)
  /\ Proxy!RunsTheToolNamed /\ Proxy!BackoffIsKept /\ Proxy!RecoveryClosesNothing
=============================================================================
