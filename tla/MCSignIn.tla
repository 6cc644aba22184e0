------------------------------- MODULE MCSignIn -------------------------------
(***************************************************************************)
(* Instances of SignIn and CredentialStore for TLC.  A behaviour follows   *)
(* one of the two (`focus`): their only shared state is what saveTokens()  *)
(* and the logout write, which SignIn keeps as one bit.                    *)
(***************************************************************************)
EXTENDS SignIn, CredentialStore

VARIABLE focus

\* A store nobody uses.
StoreRests ==
  /\ backend = "plain" /\ main = NoRecord /\ chunks = {} /\ legacy = Null
  /\ cache = Unknown /\ op = Idle /\ rotation = 0
  /\ faulted = FALSE /\ damaged = FALSE /\ foreign = FALSE /\ forgotten = FALSE

MCInit == \/ focus = "sign-in" /\ Init /\ StoreRests
          \/ focus = "store" /\ StoreInit /\ Starts({})

MCNext ==
  \/ focus = "sign-in" /\ Next /\ UNCHANGED <<focus, storeVars>>
  \/ focus = "store" /\ StoreNext /\ UNCHANGED <<focus, vars>>

MCSpec == MCInit /\ [][MCNext]_<<focus, vars, storeVars>> /\ Fairness

-----------------------------------------------------------------------------
\* The flows, the callback server, the record and the cache stay well typed, and the
\* inductive invariants of both components hold.
SignInTypeOK == IF focus = "store" THEN StoreInv ELSE IInv

\* Every sign-in and every logout ends.
SignInsEnd == SignInEnds /\ LogoutReturns
=============================================================================
