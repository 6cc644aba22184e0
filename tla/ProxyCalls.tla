----------------------------- MODULE ProxyCalls -----------------------------
(***************************************************************************)
(* What the `mcp` tool does with the name of a tool (proxy-modes.ts): the  *)
(* servers it looks it up on, the connections and sign-ins it makes on the *)
(* way, and the background sign-in of auth-start.  All calls ask for one   *)
(* name.  A server's listing says how many of its tools it matches, and    *)
(* how: the name they are displayed with, their original name, either one  *)
(* but for dashes, or another form a prefix can give.  Script tools,       *)
(* Executor's catalog and the nested run of a tool registered in Pi are    *)
(* left out.                                                               *)
(***************************************************************************)
EXTENDS Naturals, FiniteSets

CONSTANTS Server, Caller, None

VARIABLES
  server,   \* the servers: configuration, listings, connection, back-off, sign-in
  calls,    \* the calls, and where each is suspended
  watch     \* the background watcher of a sign-in

vars == <<server, calls, watch>>

-----------------------------------------------------------------------------
(* Names *)

Kinds    == {"displayed", "original", "spelt", "alias"}
Listing  == [Kinds -> 0..2]
Nothing  == [k \in Kinds |-> 0]
Only(k)  == [Nothing EXCEPT ![k] = 1]

Tools    == [server : Server, kind : Kinds, nth : 1..2]
NoTool   == [server |-> None, kind |-> "alias", nth |-> 1]

Enabled  == {s \in Server : server[s].on}
Unique(tools) == Cardinality(tools) = 1
The(tools)    == CHOOSE t \in tools : TRUE

\* The tools that servers are known to have and that match in one of these ways
Matches(servers, kinds, known) ==
  UNION {[server : {s}, kind : {k}, nth : 1..known[s][k]] : s \in servers, k \in kinds}

Known == [s \in Server |-> server[s].known]

\* getCandidateToolMatch()
OnServer(s, known) ==
  LET exact == Matches({s}, {"displayed"}, known) IN
  IF exact # {} THEN exact ELSE Matches({s}, Kinds, known)

\* getPrefixedServerScope()
Prefixed == {s \in Enabled : server[s].prefix > 0}
Longest(servers) == {s \in servers : \A o \in servers : server[o].prefix <= server[s].prefix}
PrefixScope == IF Unique(Longest(Prefixed)) THEN The(Longest(Prefixed)) ELSE None

\* MUTANT of Lookup: a prefix is looked at before original names.
LookupByPrefix ==
  LET exact == Matches(Enabled, {"displayed"}, Known) IN
  IF exact # {} THEN exact
  ELSE IF PrefixScope # None THEN OnServer(PrefixScope, Known)
  ELSE Matches(Enabled, Kinds, Known)

\* The tools a call that names no server has to choose from
Lookup ==
  LET exact == Matches(Enabled, {"displayed"}, Known)
      original == Matches(Enabled, {"original"}, Known) IN
  IF exact # {} THEN exact
  ELSE IF original # {} THEN original
  ELSE IF PrefixScope # None THEN OnServer(PrefixScope, Known)
  ELSE Matches(Enabled, {"spelt", "alias"}, Known)

\* isServerInActiveFailureBackoff()
InBackoff(s) == server[s].status = "none" /\ server[s].failed

\* The servers whose tools search, list, describe and instructions show
Offered == {s \in Enabled : ~InBackoff(s)}

\* resolveDescribeTarget() without a server
Described ==
  LET By(kind) == Matches(Offered, {kind}, Known) IN
  IF By("displayed") # {} THEN By("displayed")
  ELSE IF By("original") # {} THEN By("original") ELSE By("spelt")

-----------------------------------------------------------------------------
(* Calls *)

\* `next` is what a connection or a sign-in is for: the server in the call's scope, the
\* servers tried by their prefix, the tool chosen, a call that must be sent again, or
\* mcp({ connect }).
Free == [at |-> "free", next |-> "direct", scope |-> None, server |-> None, tool |-> NoTool,
         attempted |-> FALSE, signIns |-> 0, todo |-> {}, exact |-> {}, other |-> {},
         retried |-> FALSE, rivals |-> {}]

Servers == [real : Listing, known : Listing, prefix : 0..2, on : BOOLEAN,
            status : {"none", "connected", "needs-auth"}, failed : BOOLEAN,
            token : BOOLEAN, busy : BOOLEAN]
Calls   == [at : {"free", "loop", "connecting", "auth", "signedIn", "dialog", "running"},
            next : {"scoped", "loop", "direct", "again", "connect"},
            scope : Server \cup {None}, server : Server \cup {None}, tool : Tools \cup {NoTool},
            attempted : BOOLEAN, signIns : Nat, todo : SUBSET Server, exact : SUBSET Tools,
            other : SUBSET Tools, retried : BOOLEAN, rivals : SUBSET Server]

TypeOK ==
  /\ server \in [Server -> Servers] /\ calls \in [Caller -> Calls]
  /\ watch \in [Server -> {"new", "no", "waiting", "closing", "checking"}]

Shown == CHOOSE s \in Server : TRUE
Unset == [real |-> Nothing, known |-> Nothing, prefix |-> 0, on |-> TRUE, status |-> "none",
          failed |-> FALSE, token |-> TRUE, busy |-> FALSE]

Init ==
  /\ server = [s \in Server |-> Unset]
  /\ calls = [c \in Caller |-> Free]
  /\ watch = [s \in Server |-> "new"]

\* Where a session starts: any names on servers that are not connected, of which one may
\* be disabled or have failed; or one server in any state, on which calls overlap (`busy`)
\* and whose token changes.
Names ==
  {n \in [real : {Nothing, [Nothing EXCEPT !.original = 2], [Only("displayed") EXCEPT !.alias = 1]}
                   \cup {Only(k) : k \in Kinds},
          known : {Nothing}, prefix : 0..2, on : BOOLEAN, status : {"none"}, failed : BOOLEAN,
          token : {TRUE}, busy : {FALSE}] : n.on \/ ~n.failed}
States ==
  {n \in [real : {Only("displayed"), Only("alias")}, known : {Nothing, Only("displayed")},
          prefix : {1}, on : {TRUE}, status : {"none", "needs-auth", "connected"},
          failed : BOOLEAN, token : BOOLEAN, busy : {TRUE}] :
     /\ n.status = "needs-auth" => ~n.token /\ ~n.failed
     /\ n.status = "connected" => n.token /\ ~n.failed /\ n.known = n.real}
Absent == [Unset EXCEPT !.on = FALSE]

New == \A s \in Server : watch[s] = "new"

Begin(shown, other) ==
  /\ server' = [s \in Server |-> IF s = Shown THEN shown ELSE other]
  /\ watch' = [s \in Server |-> "no"] /\ UNCHANGED calls

Listed(n) == {n, [n EXCEPT !.known = n.real]}

BeginNames ==
  /\ New
  /\ \E shown \in Names, other \in {n \in Names : n.on /\ ~n.failed} :
       /\ shown.prefix = 2 => other.prefix = 1
       /\ other.prefix = 2 => shown.prefix = 1
       /\ \E one \in Listed(shown), two \in Listed(other) : Begin(one, two)
BeginStates == New /\ \E shown \in States : Begin(shown, Absent)

Becomes(c, r) == calls' = [calls EXCEPT ![c] = r]

\* A call that cannot go on with a server: it tries the next one by prefix, or returns.
GivesUp(r) == IF r.next = "loop" THEN [r EXCEPT !.at = "loop"] ELSE Free

\* MUTANT of SignsIn: every connection that needs it asks the user to sign in.
SignsInAgain(r) == [r EXCEPT !.at = "auth", !.attempted = TRUE]

\* autoAuthAttempted
SignsIn(r) == IF r.attempted THEN GivesUp(r) ELSE [r EXCEPT !.at = "auth", !.attempted = TRUE]

\* MUTANT of Lazily: a failure is forgotten.
LazilyAnyway(r, s) ==
  IF s.status = "needs-auth" THEN SignsIn(r)
  ELSE IF s.on THEN [r EXCEPT !.at = "connecting"] ELSE GivesUp(r)

\* lazyConnect() as far as it does not wait; s is the server's record.
Lazily(r, s) ==
  IF s.status = "needs-auth" THEN SignsIn(r)
  ELSE IF s.status = "connected" \/ (~s.failed /\ s.on) THEN [r EXCEPT !.at = "connecting"]
  ELSE GivesUp(r)

\* A call whose tool is chosen asks for approval once its server is connected.
Directly(r, s) ==
  IF s.status = "connected" THEN [r EXCEPT !.at = "dialog"]
  ELSE Lazily([r EXCEPT !.next = "direct"], s)

Chosen(r, t) == [r EXCEPT !.tool = t, !.server = t.server]

\* executeCall(): no server is named, or `scope` is.
Execute(c, scope) ==
  LET found == IF scope = None THEN Lookup ELSE OnServer(scope, Known)
      owner == IF scope = None THEN PrefixScope ELSE scope
      start == [Free EXCEPT !.scope = scope,
                  !.rivals = {t.server : t \in Matches(Enabled, {"displayed"}, Known)}]
      off   == Matches(Server \ Enabled, Kinds, Known) IN
  /\ calls[c].at = "free" /\ ~New
  /\ server[Shown].busy \/ c = CHOOSE o \in Caller : TRUE   \* bound
  /\ scope # None => server[scope].on
  /\ Cardinality(found) <= 1
  /\ scope = None /\ found = {} => ~Unique(off)
  /\ Becomes(c, IF found # {} THEN Directly(Chosen(start, The(found)), server[The(found).server])
                ELSE IF owner # None
                THEN Lazily([start EXCEPT !.next = "scoped", !.server = owner], server[owner])
                ELSE [start EXCEPT !.at = "loop", !.todo = Prefixed])
  /\ UNCHANGED <<server, watch>>

\* executeConnect(): no failure stops it.
Connect(c, s) ==
  /\ calls[c].at = "free" /\ server[s].on /\ server[s].busy
  /\ Becomes(c, [Free EXCEPT !.at = "connecting", !.next = "connect", !.server = s])
  /\ UNCHANGED <<server, watch>>

\* One server of those whose prefix the name starts with, the longest first
TriesNext(c) ==
  /\ calls[c].at = "loop" /\ calls[c].todo # {}
  /\ \E s \in Longest(calls[c].todo) :
       LET r == [calls[c] EXCEPT !.todo = @ \ {s}, !.server = s, !.next = "loop"] IN
       Becomes(c, IF server[s].failed /\ server[s].status # "needs-auth" THEN r
                  ELSE Lazily(r, server[s]))
  /\ UNCHANGED <<server, watch>>

Decides(c) ==
  LET found == IF calls[c].exact # {} THEN calls[c].exact ELSE calls[c].other IN
  /\ calls[c].at = "loop" /\ calls[c].todo = {}
  /\ Becomes(c, IF Unique(found)
                THEN Directly(Chosen(calls[c], The(found)), server[The(found).server])
                ELSE Free)
  /\ UNCHANGED <<server, watch>>

\* What a call does on a connection that is there, with what it now lists
Reached(r, known) ==
  LET s == r.server
      found == OnServer(s, known) IN
  CASE r.next = "connect" -> Free
    [] r.next = "again" -> [r EXCEPT !.at = "running", !.retried = TRUE]
    [] r.next = "loop" ->
         IF ~Unique(found) THEN IF found = {} THEN [r EXCEPT !.at = "loop"] ELSE Free
         ELSE IF The(found).kind = "displayed" THEN [r EXCEPT !.at = "loop", !.exact = @ \cup found]
         ELSE [r EXCEPT !.at = "loop", !.other = @ \cup found]
    [] OTHER -> IF Unique(found) THEN [Chosen(r, The(found)) EXCEPT !.at = "dialog"] ELSE Free

Connects(c) ==
  LET s == calls[c].server IN
  /\ calls[c].at = "connecting" /\ (server[s].token \/ server[s].status = "connected")
  /\ server' = [server EXCEPT ![s].status = "connected", ![s].known = server[s].real,
                              ![s].failed = FALSE]
  /\ Becomes(c, Reached(calls[c], [Known EXCEPT ![s] = server[s].real]))
  /\ UNCHANGED watch

ConnectUnauthorized(c) ==
  LET s == calls[c].server IN
  /\ calls[c].at = "connecting" /\ ~server[s].token /\ server[s].status # "connected"
  /\ server' = [server EXCEPT ![s].status = "needs-auth"]
  /\ Becomes(c, SignsIn(calls[c])) /\ UNCHANGED watch

\* recordFailure(); a call that is sent again only reports the error.
ConnectFails(c) ==
  LET s == calls[c].server IN
  /\ calls[c].at = "connecting" /\ server[s].status # "connected"
  /\ server' = [server EXCEPT ![s].failed = @ \/ calls[c].next # "again"]
  /\ Becomes(c, GivesUp(calls[c])) /\ UNCHANGED watch

-----------------------------------------------------------------------------
(* attemptAutoAuth() *)

SignInSucceeds(c) ==
  LET s == calls[c].server IN
  /\ calls[c].at = "auth"
  /\ server' = [server EXCEPT ![s].token = TRUE]
  /\ Becomes(c, [calls[c] EXCEPT !.at = "signedIn", !.signIns = @ + 1]) /\ UNCHANGED watch

\* It is refused, or there is nobody to ask.
SignInFails(c) == calls[c].at = "auth" /\ Becomes(c, Free) /\ UNCHANGED <<server, watch>>

\* autoAuth is off, or the server has no sign-in.
SignInSkipped(c) ==
  /\ calls[c].at = "auth" /\ Becomes(c, GivesUp(calls[c])) /\ UNCHANGED <<server, watch>>

\* MUTANT of Closing: a call that is sent again goes on without closing.
ClosingNothing(r, s) == IF r.next = "again" THEN s ELSE [s EXCEPT !.status = "none", !.failed = FALSE]

\* The connection that was refused is closed, so that a new one uses the token; a call
\* that is sent again leaves one that is connected since (recoverAuthConnection()).
Closing(r, s) ==
  IF r.next = "again" /\ s.status = "connected" THEN s
  ELSE [s EXCEPT !.status = "none", !.failed = FALSE]

GoesOn(c) ==
  LET s == calls[c].server
      now == Closing(calls[c], server[s]) IN
  /\ calls[c].at = "signedIn"
  /\ server' = [server EXCEPT ![s] = now]
  /\ Becomes(c, IF now.status = "connected" THEN Reached(calls[c], Known)
                ELSE [calls[c] EXCEPT !.at = "connecting"])
  /\ UNCHANGED watch

-----------------------------------------------------------------------------
(* The call itself *)

Denied(c) == calls[c].at = "dialog" /\ Becomes(c, Free) /\ UNCHANGED <<server, watch>>

Approved(c) ==
  /\ calls[c].at = "dialog"
  /\ Becomes(c, IF server[calls[c].server].status = "connected" 
                THEN [calls[c] EXCEPT !.at = "running", !.tool = NoTool, !.rivals = {}, !.exact = {},
                                      !.other = {}, !.next = "direct", !.scope = None]
                ELSE Free)
  /\ UNCHANGED <<server, watch>>

Returns(c) == calls[c].at = "running" /\ Becomes(c, Free) /\ UNCHANGED <<server, watch>>

\* withSessionRecovery(): the session is gone, or the token was refused; the reconnect
\* connects, fails, or asks for a sign-in.
SessionEnds(c, reconnected) ==
  LET s == calls[c].server IN
  /\ calls[c].at = "running" /\ ~calls[c].retried /\ server[s].status = "connected"
  /\ reconnected = "yes" => server[s].token
  /\ reconnected = "refused" => ~server[s].token
  /\ server' = [server EXCEPT ![s].status = CASE reconnected = "yes" -> "connected"
                                            [] reconnected = "refused" -> "needs-auth"
                                            [] OTHER -> "none"]
  /\ Becomes(c, CASE reconnected = "yes" -> [calls[c] EXCEPT !.retried = TRUE]
                  [] reconnected = "refused" -> SignsIn([calls[c] EXCEPT !.next = "again"])
                  [] OTHER -> Free)
  /\ UNCHANGED watch

-----------------------------------------------------------------------------
(* auth-start and auth-complete, and the rest of the world *)

\* executeAuthStart() for a callback on this machine; one watcher per server.
AuthStart(s) ==
  /\ server[s].on /\ server[s].busy /\ watch[s] = "no"
  /\ watch' = [watch EXCEPT ![s] = "waiting"] /\ UNCHANGED <<server, calls>>

\* The watcher's sign-in ends; then it closes the connection and says so.
WatchedSignIn(s) ==
  /\ watch[s] = "waiting"
  /\ server' = [server EXCEPT ![s].token = TRUE]
  /\ watch' = [watch EXCEPT ![s] = "closing"] /\ UNCHANGED calls

\* MUTANT of Announce: it says so before.
AnnounceFirst(s) ==
  /\ watch[s] = "closing" /\ watch' = [watch EXCEPT ![s] = "no"] /\ UNCHANGED <<server, calls>>

Announce(s) ==
  /\ watch[s] = "closing"
  /\ server' = [server EXCEPT ![s].status = "none", ![s].failed = FALSE]
  /\ watch' = [watch EXCEPT ![s] = "no"] /\ UNCHANGED calls

\* executeAuthComplete(): the watcher's own wait is cancelled.
AuthComplete(s) ==
  /\ watch[s] = "waiting"
  /\ server' = [server EXCEPT ![s].token = TRUE, ![s].status = "none", ![s].failed = FALSE]
  /\ watch' = [watch EXCEPT ![s] = "checking"] /\ UNCHANGED calls

WatchedFails(s) ==
  /\ watch[s] = "waiting" /\ watch' = [watch EXCEPT ![s] = "checking"]
  /\ UNCHANGED <<server, calls>>

\* The watcher's catch: it reports a failure unless the server is signed in.
Checks(s) ==
  /\ watch[s] = "checking" /\ watch' = [watch EXCEPT ![s] = "no"]
  /\ UNCHANGED <<server, calls>>

\* A token expires or is removed; a connection goes on with the session it has.
TokenEnds(s) ==
  /\ server[s].token /\ server[s].busy
  /\ server' = [server EXCEPT ![s].token = FALSE] /\ UNCHANGED <<calls, watch>>

\* Back-off ends, another part of the session connects or disconnects the server.
BackoffEnds(s) ==
  /\ server[s].failed /\ server[s].busy
  /\ server' = [server EXCEPT ![s].failed = FALSE] /\ UNCHANGED <<calls, watch>>
OthersConnect(s) ==
  /\ server[s].status = "none" /\ server[s].on /\ server[s].token /\ watch[s] # "new"
  /\ server' = [server EXCEPT ![s].status = "connected", ![s].failed = FALSE,
                              ![s].known = server[s].real]
  /\ UNCHANGED <<calls, watch>>
OthersClose(s) ==
  /\ server[s].status = "connected" /\ server[s].busy
  /\ server' = [server EXCEPT ![s].status = "none"] /\ UNCHANGED <<calls, watch>>

Next ==
  \/ BeginNames \/ BeginStates
  \/ \E c \in Caller :
       \/ \E scope \in Server \cup {None} : Execute(c, scope)
       \/ \E s \in Server : Connect(c, s)
       \/ TriesNext(c) \/ Decides(c)
       \/ Connects(c) \/ ConnectUnauthorized(c) \/ ConnectFails(c)
       \/ SignInSucceeds(c) \/ SignInFails(c) \/ SignInSkipped(c) \/ GoesOn(c)
       \/ Denied(c) \/ Approved(c) \/ Returns(c)
       \/ \E reconnected \in {"yes", "refused", "no"} : SessionEnds(c, reconnected)
  \/ \E s \in Server :
       \/ AuthStart(s) \/ WatchedSignIn(s) \/ Announce(s) \/ AuthComplete(s)
       \/ WatchedFails(s) \/ Checks(s) \/ TokenEnds(s) \/ BackoffEnds(s)
       \/ OthersConnect(s) \/ OthersClose(s)

-----------------------------------------------------------------------------
(* Properties *)

\* The tool a call settles on is one its name means: on the server it names; otherwise no
\* other server displayed a tool of that name when the call was made; and another form of
\* the name only where the server displays none, as it lists them then.
RunsTheToolNamed ==
  [][\A c \in Caller :
       calls'[c].at = "dialog" /\ calls[c].at # "dialog" =>
         LET t == calls'[c].tool IN
         /\ server[t.server].on /\ t.server = calls'[c].server
         /\ IF calls'[c].scope # None THEN t.server = calls'[c].scope
            ELSE calls'[c].rivals \subseteq {t.server}
         /\ t.kind # "displayed" => server'[t.server].known["displayed"] = 0]_vars

\* What describe shows for a name is what a call of that name reaches, unless the call
\* finds it ambiguous or reaches a server that only describe leaves out.  Names that
\* differ in dashes go to the server whose prefix they start with.
DescribedIsCalled ==
  Unique(Described) =>
    \/ Lookup = Described \/ Cardinality(Lookup) > 1
    \/ \E t \in Lookup : InBackoff(t.server)
    \/ The(Described).kind = "spelt" /\ PrefixScope # None

\* A tool that search, list and describe offer can be called: the call asks, connects or
\* signs in, and is not refused for a failure.
OfferedIsCallable ==
  \A s \in Offered :
    Directly([Free EXCEPT !.server = s], server[s]).at \in {"dialog", "connecting", "auth"}

\* A call asks the user to sign in once at most, whatever it connects on the way.
OneSignIn == \A c \in Caller : calls[c].signIns <= 1

\* A server that just failed is not connected by a call, except after a sign-in.
BackoffIsKept ==
  [][\A c \in Caller :
       calls'[c].at = "connecting" /\ calls[c].at \notin {"connecting", "signedIn"} =>
         LET s == server[calls'[c].server] IN
         s.status = "connected" \/ ~s.failed \/ calls'[c].next = "connect"]_vars

\* Once a server is signed in, the connection that was refused does not stay: every call
\* would be told to sign in.
SignedInIsUsable ==
  \A s \in Server :
    server[s].token /\ server[s].status = "needs-auth" =>
      \/ watch[s] = "closing"
      \/ \E c \in Caller : calls[c].at = "signedIn" /\ calls[c].server = s

\* A call that is sent again after a sign-in closes no connection others made meanwhile.
RecoveryClosesNothing ==
  [][\A c \in Caller : GoesOn(c) /\ calls[c].next = "again" =>
       (server[calls[c].server].status = "connected" => UNCHANGED server)]_vars

-----------------------------------------------------------------------------
(* The inductive invariant.  `known` is what the servers are known as. *)

\* What a call has found while it tries servers: their tools, as they are listed now.
Finds(r, known) ==
  /\ r.scope = None /\ r.rivals = {} /\ \A s \in r.todo : known[s].on
  /\ \A t \in r.exact \cup r.other : known[t.server].on
  /\ \A t \in r.exact : t.kind = "displayed"
  /\ \A t \in r.other : known[t.server].known = known[t.server].real
                        /\ known[t.server].real["displayed"] = 0

\* The server a call connects or signs in to is the one that is meant.
Means(r, known) ==
  /\ r.server \in Server
  /\ r.next \in {"scoped", "direct", "loop"} => known[r.server].on
  /\ r.next \in {"scoped", "direct"} =>
       IF r.scope = None THEN r.rivals \subseteq {r.server} ELSE r.server = r.scope
  /\ r.next = "loop" => Finds(r, known)

\* A call signs in once, and keeps to what it was asked for.
CallHolds(r, known) ==
  /\ (r.attempted => r.signIns <= 1) /\ (~r.attempted => r.signIns = 0)
  /\ r.at = "auth" => r.attempted /\ r.signIns = 0
  /\ r.at \in {"connecting", "auth", "signedIn"} => Means(r, known)
  /\ r.at \in {"dialog", "running"} => r.server \in Server
  /\ r.at = "loop" => Finds(r, known)

\* Nothing has happened before the session starts, on any of the servers.
BeginsUnset ==
  /\ New \/ \A s \in Server : watch[s] # "new"
  /\ New => server = [s \in Server |-> Unset] /\ calls = [c \in Caller |-> Free]

ProxyInv == TypeOK /\ BeginsUnset /\ SignedInIsUsable /\ \A c \in Caller : CallHolds(calls[c], server)
=============================================================================
