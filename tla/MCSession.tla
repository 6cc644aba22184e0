------------------------------- MODULE MCSession -------------------------------
(***************************************************************************)
(* Instances of SessionRuntime and ServerRegistry for TLC.  A behaviour    *)
(* follows one of them (`focus`); what ServerRegistry sees of a session is *)
(* that its context is recorded, that its state is published at any time   *)
(* and that it is taken down.                                              *)
(***************************************************************************)
EXTENDS SessionRuntime, ServerRegistry

VARIABLE focus

MCInit == \/ focus = "sessions" /\ Init /\ Starts(FALSE)
          \/ focus = "registry" /\ Init /\ RegistryInit

MCNext ==
  \/ focus = "sessions" /\ Next /\ UNCHANGED <<focus, registryVars>>
  \/ focus = "registry" /\ RegistryNext /\ UNCHANGED <<focus, vars>>

MCSpec == MCInit /\ [][MCNext]_<<focus, vars, registryVars>> /\ Fairness

-----------------------------------------------------------------------------
\* What the runtimes, the registrations and the installations know of each other is
\* consistent: the inductive invariants of both components.
SessionTypeOK == IInv /\ RegistryInv

\* session_start ends, and a runtime that is not the session's lets go of everything.
SessionsGoOn == LeftoversClose /\ SessionStartReturns
=============================================================================
