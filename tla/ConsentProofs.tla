---------------------------- MODULE ConsentProofs ----------------------------
(***************************************************************************)
(* Theorems about what needs the user's consent (property UserDecides of   *)
(* MCSurface) and about the panels in which the user sets what a session   *)
(* will do (PanelsAreTrue), for any callers, branches, processes,          *)
(* projects, requests, definitions and tools:                              *)
(*                                                                         *)
(*   Approvals     a dialog is about the definition and the branch that    *)
(*                 are live, or its answer no longer makes a grant         *)
(*   ProjectTrust  a pass knows, writes and lets through what was accepted *)
(*   Sampling      a request runs with the model it was shown with         *)
(*   ConfigMerge   an entry that a project touched is known to be          *)
(*   Elicitation   labels differ, so a choice is read as it was meant      *)
(*   McpPanel      the panel shows what the session's layers say and what  *)
(*                 was turned since; a server that was off lists nothing   *)
(*   SetupPanel    what the panel is about to say of the files is so       *)
(*                                                                         *)
(* Elicitation rests on what a recursive function computes: that labels    *)
(* made one after the other differ is shown for lists of any length, by    *)
(* induction on the numbers (Induction), and the pigeonhole principle      *)
(* (FS_PigeonHole) gives each label the dots it needs (DotsAreFound).      *)
(***************************************************************************)
EXTENDS MCSurface, Sequences, FiniteSetTheorems, WellFoundedInduction, TLAPS

-----------------------------------------------------------------------------
(* Approvals *)

\* There is a branch to begin on, and no tool call is taken for a page's consent.
Branches == Branch # {} /\ "consent" \notin Key

\* Nothing is decided before the first call.
LEMMA ApprovalsBegin == Branches /\ Gate!Init => Gate!ApprovalsInv
<1> SUFFICES ASSUME Branches, Gate!Init PROVE Gate!ApprovalsInv
  OBVIOUS
<1> USE DEF Gate!Init, Gate!Quiet, Gate!Nothing
<1>1. position \in Branch
  BY DEF Branches
<1>2. entries \in [Branch -> [keys : SUBSET Key, consent : {"unset", "allow", "deny"}]]
  OBVIOUS
<1>3. Gate!TypeOK
  BY <1>1, <1>2 DEF Gate!TypeOK
<1>4. Gate!GrantsAreAsked
  BY DEF Gate!GrantsAreAsked
<1>5. Gate!DecisionsFollowBranch
  BY <1>1 DEF Gate!DecisionsFollowBranch
<1>6. QED
  BY <1>3, <1>4, <1>5 DEF Gate!ApprovalsInv

\* What a call remembers is on the branch of now, or known not to be written.
LEMMA Remembered ==
  ASSUME Gate!ApprovalsInv, NEW k \in Key, Gate!Remember(k), UNCHANGED <<position, consent>>
  PROVE  /\ approved' \subseteq Key /\ unsaved' \subseteq Key \cup {"consent"}
         /\ entries' \in [Branch -> [keys : SUBSET Key, consent : {"unset", "allow", "deny"}]]
         /\ Gate!DecisionsFollowBranch'
<1> DEFINE Entry == [keys : SUBSET Key, consent : {"unset", "allow", "deny"}]
           with == [entries EXCEPT ![position].keys = @ \cup {k}]
<1>1. /\ position \in Branch /\ entries \in [Branch -> Entry] /\ approved \subseteq Key
      /\ unsaved \subseteq Key \cup {"consent"} /\ Gate!DecisionsFollowBranch
  BY DEF Gate!ApprovalsInv, Gate!TypeOK
<1>2. /\ with \in [Branch -> Entry] /\ with[position].keys = entries[position].keys \cup {k}
      /\ with[position].consent = entries[position].consent
  BY <1>1
<1> HIDE DEF with, Entry
<1>3. \/ k \in approved /\ UNCHANGED <<entries, unsaved, approved>>
      \/ entries' = with /\ unsaved' = unsaved /\ approved' = approved \cup {k}
      \/ entries' = entries /\ unsaved' = unsaved \cup {k} /\ approved' = approved \cup {k}
  BY DEF Gate!Remember, with
<1>4. entries' \in [Branch -> Entry]
  BY <1>1, <1>2, <1>3
<1>5. Gate!DecisionsFollowBranch'
  BY <1>1, <1>2, <1>3 DEF Gate!DecisionsFollowBranch
<1>6. QED
  BY <1>1, <1>3, <1>4, <1>5 DEF Entry

\* A call that is decided is at rest.
LEMMA DecidedRests ==
  ASSUME Gate!TypeOK, NEW c \in Caller, Gate!Decided(c)
  PROVE  /\ request' \in [Caller -> [pc : {"idle", "broker", "dialog"}, key : Key \cup {None},
                                     sameMap : BOOLEAN, sameServer : BOOLEAN, asked : BOOLEAN]]
         /\ request'[c].pc = "idle" /\ \A d \in Caller : d # c => request'[d] = request[d]
BY DEF Gate!TypeOK, Gate!Decided, Gate!Quiet

\* A call begins: it remembers the map and the server it was asked about.
LEMMA BeginKeeps ==
  ASSUME Gate!ApprovalsInv, NEW c \in Caller, NEW k \in Key, Gate!Begin(c, k)
  PROVE  Gate!ApprovalsInv'
<1> USE DEF Gate!Begin, Gate!ApprovalsInv
<1>1. /\ request' \in [Caller -> [pc : {"idle", "broker", "dialog"}, key : Key \cup {None},
                                  sameMap : BOOLEAN, sameServer : BOOLEAN, asked : BOOLEAN]]
      /\ request'[c].pc = "broker" /\ \A d \in Caller : d # c => request'[d] = request[d]
  BY DEF Gate!TypeOK, Gate!Quiet
<1>2. Gate!TypeOK'
  BY <1>1 DEF Gate!TypeOK
<1>3. Gate!GrantsAreAsked'
  BY <1>1 DEF Gate!GrantsAreAsked
<1>4. Gate!DecisionsFollowBranch'
  BY DEF Gate!DecisionsFollowBranch
<1>5. QED
  BY <1>2, <1>3, <1>4

\* Allowed for the session: recorded on the branch that is active.
LEMMA ForSessionKeeps ==
  ASSUME Gate!ApprovalsInv, NEW c \in Caller, request[c].pc \in {"broker", "dialog"},
         request[c].key \in Key, Gate!Decided(c), Gate!Remember(request[c].key),
         UNCHANGED <<position, grant, consent, chosen>>
  PROVE  Gate!ApprovalsInv'
<1>1. Gate!TypeOK /\ Gate!GrantsAreAsked
  BY DEF Gate!ApprovalsInv
<1>2. Gate!TypeOK'
  BY <1>1, Remembered, DecidedRests DEF Gate!TypeOK
<1>3. Gate!GrantsAreAsked'
  BY <1>1, DecidedRests DEF Gate!GrantsAreAsked
<1>4. QED
  BY <1>2, <1>3, Remembered DEF Gate!ApprovalsInv

\* Allowed once, or denied: nothing is recorded.
LEMMA PlainDecisionKeeps ==
  ASSUME Gate!ApprovalsInv, NEW c \in Caller, Gate!Decided(c),
         UNCHANGED <<position, entries, grant, approved, consent, chosen, unsaved>>
  PROVE  Gate!ApprovalsInv'
<1> USE DEF Gate!ApprovalsInv
<1>1. Gate!TypeOK'
  BY DecidedRests DEF Gate!TypeOK
<1>2. Gate!GrantsAreAsked'
  BY DecidedRests DEF Gate!GrantsAreAsked
<1>3. Gate!DecisionsFollowBranch'
  BY DEF Gate!DecisionsFollowBranch
<1>4. QED
  BY <1>1, <1>2, <1>3

\* What is remembered decides, or a dialog is opened for the user.
LEMMA AbstainingKeeps ==
  ASSUME Gate!ApprovalsInv, NEW c \in Caller, NEW needed \in BOOLEAN, NEW hasUi \in BOOLEAN,
         Gate!BrokerAbstains(c, needed, hasUi)
  PROVE  Gate!ApprovalsInv'
<1> USE DEF Gate!ApprovalsInv
<1>1. /\ request' \in [Caller -> [pc : {"idle", "broker", "dialog"}, key : Key \cup {None},
                                  sameMap : BOOLEAN, sameServer : BOOLEAN, asked : BOOLEAN]]
      /\ request'[c].pc = "idle" \/ (request'[c].asked /\ request'[c].key = request[c].key)
      /\ \A d \in Caller : d # c => request'[d] = request[d]
  <2>1. CASE Gate!Decided(c)
    BY <2>1, DecidedRests
  <2>2. CASE request' = [request EXCEPT ![c].pc = "dialog", ![c].asked = TRUE]
    <3> DEFINE row == [[request[c] EXCEPT !.pc = "dialog"] EXCEPT !.asked = TRUE]
    <3>1. request' = [request EXCEPT ![c] = row]
      BY <2>2 DEF Gate!TypeOK
    <3>2. row \in [pc : {"idle", "broker", "dialog"}, key : Key \cup {None},
                   sameMap : BOOLEAN, sameServer : BOOLEAN, asked : BOOLEAN]
          /\ row.asked /\ row.key = request[c].key
      BY DEF Gate!TypeOK
    <3> HIDE DEF row
    <3>3. QED
      BY <3>1, <3>2 DEF Gate!TypeOK
  <2>3. QED
    BY <2>1, <2>2 DEF Gate!BrokerAbstains
<1>2. grant' \in {"none", grant}
  BY DEF Gate!BrokerAbstains
<1>3. UNCHANGED <<position, entries, approved, consent, chosen, unsaved>>
  BY DEF Gate!BrokerAbstains
<1>4. Gate!TypeOK'
  BY <1>1, <1>2, <1>3 DEF Gate!TypeOK
<1>5. Gate!GrantsAreAsked'
  <2>1. request[c].pc = "broker"
    BY DEF Gate!BrokerAbstains
  <2>2. QED
    BY <1>1, <1>2, <1>3, <2>1 DEF Gate!GrantsAreAsked
<1>6. Gate!DecisionsFollowBranch'
  BY <1>3 DEF Gate!DecisionsFollowBranch
<1>7. QED
  BY <1>4, <1>5, <1>6

\* The whole server is allowed: the grant is the user's choice if nothing changed meanwhile.
LEMMA AllowingServerKeeps ==
  ASSUME Gate!ApprovalsInv, NEW c \in Caller, Gate!UserAllowsServer(c)
  PROVE  Gate!ApprovalsInv'
<1> USE DEF Gate!ApprovalsInv, Gate!UserAllowsServer
<1>1. Gate!TypeOK'
  BY DecidedRests DEF Gate!TypeOK
<1>2. grant' = "live" => chosen'
  BY DEF Gate!GrantsAreAsked, Gate!TypeOK
<1>3. Gate!GrantsAreAsked'
  BY <1>2, DecidedRests DEF Gate!GrantsAreAsked
<1>4. Gate!DecisionsFollowBranch'
  BY DEF Gate!DecisionsFollowBranch
<1>5. QED
  BY <1>1, <1>3, <1>4

\* A page's consent, recorded on the branch that is active.
LEMMA PageDecidesKeeps ==
  ASSUME Branches, Gate!ApprovalsInv, NEW decision \in {"allow", "deny"}, Gate!PageDecides(decision)
  PROVE  Gate!ApprovalsInv'
<1> USE DEF Gate!ApprovalsInv, Gate!PageDecides
<1> DEFINE Entry == [keys : SUBSET Key, consent : {"unset", "allow", "deny"}]
           with == [entries EXCEPT ![position].consent = decision]
<1>1. /\ with \in [Branch -> Entry] /\ with[position].keys = entries[position].keys
      /\ with[position].consent = decision
  BY DEF Gate!TypeOK
<1>2. \/ entries' = with /\ unsaved' = unsaved \ {"consent"}
      \/ entries' = entries /\ unsaved' = unsaved \cup {"consent"}
  OBVIOUS
<1> HIDE DEF with
<1>3. Gate!TypeOK'
  BY <1>1, <1>2 DEF Gate!TypeOK
<1>4. Gate!GrantsAreAsked'
  BY DEF Gate!GrantsAreAsked
<1>5. Gate!DecisionsFollowBranch'
  <2>1. approved \subseteq Key /\ "consent" \notin Key
    BY DEF Gate!TypeOK, Branches
  <2>2. QED
    BY <1>1, <1>2, <2>1 DEF Gate!DecisionsFollowBranch
<1>6. QED
  BY <1>3, <1>4, <1>5

\* Once the branch and what it records are right, restoring makes the rest follow.
LEMMA RestoreKeeps ==
  ASSUME Gate!ApprovalsInv, NEW b \in Branch, Gate!Restore(b), position' = b,
         entries' \in [Branch -> [keys : SUBSET Key, consent : {"unset", "allow", "deny"}]]
  PROVE  Gate!ApprovalsInv'
<1> USE DEF Gate!ApprovalsInv, Gate!Restore
<1>1. /\ request' \in [Caller -> [pc : {"idle", "broker", "dialog"}, key : Key \cup {None},
                                  sameMap : BOOLEAN, sameServer : BOOLEAN, asked : BOOLEAN]]
      /\ \A c \in Caller : /\ request'[c].pc = request[c].pc /\ request'[c].key = request[c].key
                             /\ ~request'[c].sameMap
  <2> DEFINE row(c) == [[request[c] EXCEPT !.sameMap = FALSE] EXCEPT !.asked = FALSE]
  <2>1. request' = [c \in Caller |-> row(c)]
    OBVIOUS
  <2>2. ASSUME NEW c \in Caller
        PROVE  row(c) \in [pc : {"idle", "broker", "dialog"}, key : Key \cup {None},
                           sameMap : BOOLEAN, sameServer : BOOLEAN, asked : BOOLEAN]
            /\ row(c).pc = request[c].pc /\ row(c).key = request[c].key /\ ~row(c).sameMap
    BY DEF Gate!TypeOK
  <2> HIDE DEF row, Gate!Restore, Gate!ApprovalsInv
  <2>3. \A c \in Caller : request'[c] = row(c)
    BY <2>1
  <2>4. request' \in [Caller -> [pc : {"idle", "broker", "dialog"}, key : Key \cup {None},
                                 sameMap : BOOLEAN, sameServer : BOOLEAN, asked : BOOLEAN]]
    BY <2>1, <2>2, Zenon
  <2>5. QED
    BY <2>2, <2>3, <2>4
<1>2. entries'[b].keys \subseteq Key /\ entries'[b].consent \in {"unset", "allow", "deny"}
  OBVIOUS
<1>3. Gate!TypeOK'
  BY <1>1, <1>2 DEF Gate!TypeOK
<1>4. Gate!GrantsAreAsked'
  BY <1>1 DEF Gate!GrantsAreAsked
<1>5. Gate!DecisionsFollowBranch'
  BY DEF Gate!DecisionsFollowBranch
<1>6. QED
  BY <1>3, <1>4, <1>5

\* A branch is forked: it has what its parent records.
LEMMA ForkKeeps ==
  ASSUME Gate!ApprovalsInv, NEW b \in Branch, NEW ks \in SUBSET Key, Gate!Fork(b, ks)
  PROVE  Gate!ApprovalsInv'
<1>1. entries[position].consent \in {"unset", "allow", "deny"}
  BY DEF Gate!ApprovalsInv, Gate!TypeOK
<1>2. entries' \in [Branch -> [keys : SUBSET Key, consent : {"unset", "allow", "deny"}]]
  BY <1>1 DEF Gate!ApprovalsInv, Gate!TypeOK, Gate!Fork
<1>3. QED
  BY <1>2, RestoreKeeps DEF Gate!Fork

\* The session, or its definitions, are replaced: dialogs that are open are about the old ones.
LEMMA ReplaceKeeps ==
  ASSUME Gate!ApprovalsInv, Gate!Replace
  PROVE  Gate!ApprovalsInv'
<1> USE DEF Gate!ApprovalsInv, Gate!Replace
<1>1. /\ request' \in [Caller -> [pc : {"idle", "broker", "dialog"}, key : Key \cup {None},
                                  sameMap : BOOLEAN, sameServer : BOOLEAN, asked : BOOLEAN]]
      /\ \A c \in Caller : /\ request'[c].pc = request[c].pc /\ request'[c].key = request[c].key
                             /\ ~request'[c].sameServer
  <2> DEFINE row(c) == [[request[c] EXCEPT !.sameServer = FALSE] EXCEPT !.asked = FALSE]
  <2>1. request' = [c \in Caller |-> row(c)]
    OBVIOUS
  <2>2. ASSUME NEW c \in Caller
        PROVE  row(c) \in [pc : {"idle", "broker", "dialog"}, key : Key \cup {None},
                           sameMap : BOOLEAN, sameServer : BOOLEAN, asked : BOOLEAN]
            /\ row(c).pc = request[c].pc /\ row(c).key = request[c].key /\ ~row(c).sameServer
    BY DEF Gate!TypeOK
  <2> HIDE DEF row
  <2>3. \A c \in Caller : request'[c] = row(c)
    BY <2>1
  <2>4. request' \in [Caller -> [pc : {"idle", "broker", "dialog"}, key : Key \cup {None},
                                 sameMap : BOOLEAN, sameServer : BOOLEAN, asked : BOOLEAN]]
    BY <2>1, <2>2, Zenon
  <2>5. QED
    BY <2>2, <2>3, <2>4
<1>2. Gate!TypeOK'
  BY <1>1 DEF Gate!TypeOK
<1>3. Gate!GrantsAreAsked'
  BY <1>1 DEF Gate!GrantsAreAsked
<1>4. Gate!DecisionsFollowBranch'
  BY DEF Gate!DecisionsFollowBranch
<1>5. QED
  BY <1>2, <1>3, <1>4

\* So every step keeps ApprovalsInv.
LEMMA ApprovalsKeep ==
  ASSUME Branches, Gate!ApprovalsInv, Gate!Next
  PROVE  Gate!ApprovalsInv'
<1>1. ASSUME NEW c \in Caller, NEW k \in Key, Gate!Begin(c, k) \/ Gate!PageBegins(c, k)
      PROVE  Gate!ApprovalsInv'
  BY <1>1, BeginKeeps DEF Gate!PageBegins
<1>2. ASSUME NEW c \in Caller, Gate!BrokerDecides(c) \/ Gate!UserDecides(c) PROVE Gate!ApprovalsInv'
  BY <1>2, PlainDecisionKeeps DEF Gate!BrokerDecides, Gate!UserDecides
<1>3. ASSUME NEW c \in Caller, Gate!BrokerAllowsForSession(c) \/ Gate!UserAllowsForSession(c)
      PROVE  Gate!ApprovalsInv'
  <2>1. request[c].key \in Key
    BY <1>3 DEF Gate!BrokerAllowsForSession, Gate!UserAllowsForSession, Gate!ApprovalsInv, Gate!GrantsAreAsked
  <2>2. QED
    BY <1>3, <2>1, ForSessionKeeps DEF Gate!BrokerAllowsForSession, Gate!UserAllowsForSession
<1>4. ASSUME NEW c \in Caller, Gate!UserAllowsServer(c) PROVE Gate!ApprovalsInv'
  BY <1>4, AllowingServerKeeps
<1>5. ASSUME NEW c \in Caller, NEW needed \in BOOLEAN, NEW hasUi \in BOOLEAN,
             Gate!BrokerAbstains(c, needed, hasUi)
      PROVE  Gate!ApprovalsInv'
  BY <1>5, AbstainingKeeps
<1>6. ASSUME NEW decision \in {"allow", "deny"}, Gate!PageDecides(decision) PROVE Gate!ApprovalsInv'
  BY <1>6, PageDecidesKeeps
<1>7. ASSUME NEW b \in Branch, Gate!Navigate(b) PROVE Gate!ApprovalsInv'
  BY <1>7, RestoreKeeps DEF Gate!Navigate, Gate!ApprovalsInv, Gate!TypeOK
<1>8. ASSUME NEW b \in Branch, NEW ks \in SUBSET Key, Gate!Fork(b, ks) PROVE Gate!ApprovalsInv'
  BY <1>8, ForkKeeps
<1>9. ASSUME Gate!Replace PROVE Gate!ApprovalsInv'
  BY <1>9, ReplaceKeeps
<1>10. QED
  BY <1>1, <1>2, <1>3, <1>4, <1>5, <1>6, <1>7, <1>8, <1>9 DEF Gate!Next

-----------------------------------------------------------------------------
(* ProjectTrust *)

\* A definition is a record, so it is never the one value that stands for no definition.
NoneIsNone == \A d \in Trust!Definition : d # None

\* What was accepted stays accepted.
LEMMA HonestGrows ==
  ASSUME NEW g, NEW given, NEW more, given \subseteq more, Trust!PassIsHonest(g, given)
  PROVE  Trust!PassIsHonest(g, more)
BY DEF Trust!PassIsHonest

\* A step of one process: the others' passes stay as they are.
LEMMA OnePassMoves ==
  ASSUME Trust!TrustInv, NEW p \in Process, NEW g \in Trust!Gates, Trust!Becomes(p, g),
         Trust!PassIsHonest(g, accepted'), accepted \subseteq accepted', accepted' \subseteq Project \X What,
         defined' = defined, approvals' \subseteq Trust!Approval, Trust!ApprovalsWereGiven'
  PROVE  Trust!TrustInv'
<1>1. gate' \in [Process -> Trust!Gates] /\ gate'[p] = g /\ \A q \in Process : q # p => gate'[q] = gate[q]
  BY DEF Trust!TrustInv, Trust!TypeOK, Trust!Becomes
<1>2. Trust!TypeOK'
  BY <1>1 DEF Trust!TrustInv, Trust!TypeOK
<1>3. ASSUME NEW q \in Process PROVE Trust!PassIsHonest(gate'[q], accepted')
  BY <1>1, HonestGrows DEF Trust!TrustInv
<1>4. QED
  BY <1>2, <1>3 DEF Trust!TrustInv

\* A step that writes the files only.
LEMMA NoPassMoves ==
  ASSUME Trust!TrustInv, UNCHANGED gate, accepted \subseteq accepted', accepted' \subseteq Project \X What,
         defined' \in [Project -> Trust!Definition \cup {None}], approvals' \subseteq Trust!Approval,
         Trust!ApprovalsWereGiven'
  PROVE  Trust!TrustInv'
<1>1. Trust!TypeOK'
  BY DEF Trust!TrustInv, Trust!TypeOK
<1>2. \A q \in Process : Trust!PassIsHonest(gate'[q], accepted')
  BY HonestGrows DEF Trust!TrustInv
<1>3. QED
  BY <1>1, <1>2 DEF Trust!TrustInv

\* The server that is decided next.
LEMMA UpcomingIsPlanned ==
  ASSUME Trust!TrustInv, NEW p \in Process, gate[p].todo # {}
  PROVE  /\ gate[p] \in Trust!Gates /\ Trust!PassIsHonest(gate[p], accepted)
         /\ Trust!Upcoming(p) \in gate[p].todo /\ Trust!Upcoming(p) \in Project
         /\ gate[p].plan[Trust!Upcoming(p)] \in Trust!Definition
<1>1. gate[p] \in Trust!Gates /\ Trust!PassIsHonest(gate[p], accepted)
  BY DEF Trust!TrustInv, Trust!TypeOK
<1>2. Trust!Upcoming(p) \in gate[p].todo
  BY DEF Trust!Upcoming
<1>3. gate[p].todo \subseteq Project /\ gate[p].plan \in [Project -> Trust!Definition \cup {None}]
  BY <1>1 DEF Trust!Gates
<1>4. QED
  BY <1>1, <1>2, <1>3 DEF Trust!PassIsHonest

\* What is let through was accepted, or the user's settings let it through.
LEMMA PassedIsHonest ==
  ASSUME NEW g \in Trust!Gates, NEW given, Trust!PassIsHonest(g, given), NEW s \in Project,
         g.mode = "allow" \/ <<s, g.plan[s].what>> \in given
  PROVE  Trust!Passed(g, s) \in Trust!Gates /\ Trust!PassIsHonest(Trust!Passed(g, s), given)
<1> DEFINE h == Trust!Passed(g, s)
<1>1. /\ h \in Trust!Gates /\ h.pc = "gating" /\ h.mode = g.mode /\ h.plan = g.plan
      /\ h.todo = g.todo \ {s} /\ h.known = g.known \ {s} /\ h.draft = {}
  BY DEF Trust!Gates, Trust!Passed
<1> HIDE DEF h
<1>2. Trust!PassIsHonest(h, given)
  BY <1>1 DEF Trust!PassIsHonest
<1>3. QED
  BY <1>1, <1>2 DEF h

\* What is blocked is planned no more.
LEMMA BlockedIsHonest ==
  ASSUME NEW g \in Trust!Gates, NEW given, Trust!PassIsHonest(g, given), NEW s \in Project
  PROVE  Trust!Blocked(g, s) \in Trust!Gates /\ Trust!PassIsHonest(Trust!Blocked(g, s), given)
<1> DEFINE m == Trust!Passed(g, s)
           h == Trust!Blocked(g, s)
<1>1. /\ m \in Trust!Gates /\ m.pc = "gating" /\ m.mode = g.mode /\ m.plan = g.plan
      /\ m.todo = g.todo \ {s} /\ m.known = g.known \ {s} /\ m.draft = {}
  BY DEF Trust!Gates, Trust!Passed
<1>2. h = [m EXCEPT !.plan[s] = None, !.blocked = @ \cup {s}]
  BY DEF Trust!Blocked
<1> HIDE DEF m, h
<1>3. m.plan \in [Project -> Trust!Definition \cup {None}]
  BY <1>1 DEF Trust!Gates
<1>4. /\ h.pc = "gating" /\ h.mode = g.mode /\ h.plan = [m.plan EXCEPT ![s] = None]
      /\ h.todo = m.todo /\ h.known = m.known /\ h.draft = {}
      /\ h \in Trust!Gates
  BY <1>1, <1>2, <1>3 DEF Trust!Gates
<1>5. h.plan[s] = None /\ \A t \in Project : t # s => h.plan[t] = g.plan[t]
  BY <1>1, <1>3, <1>4
<1>6. g.todo \subseteq Project /\ g.known \subseteq Project
  BY DEF Trust!Gates
<1>7. Trust!PassIsHonest(h, given)
  BY <1>1, <1>4, <1>5, <1>6 DEF Trust!PassIsHonest
<1>8. QED
  BY <1>4, <1>7 DEF h

\* A pass begins: what is approved or let through by the settings needs no answer.
LEMMA LoadKeeps ==
  ASSUME NoneIsNone, Trust!TrustInv, NEW p \in Process, NEW mode \in Trust!Mode, Trust!Load(p, mode)
  PROVE  Trust!TrustInv'
<1> DEFINE todo == {s \in Project : defined[s] # None}
           known == {s \in Project : Trust!IsApproved(s, defined[s])}
           g == [Trust!Idle EXCEPT !.pc = "gating", !.mode = mode, !.plan = defined, !.todo = todo, !.known = known]
<1>1. Trust!TypeOK /\ Trust!ApprovalsWereGiven
  BY DEF Trust!TrustInv
<1>2. /\ g.pc = "gating" /\ g.mode = mode /\ g.plan = defined /\ g.todo = todo /\ g.known = known
      /\ g.draft = {} /\ g \in Trust!Gates
  BY <1>1 DEF Trust!TypeOK, Trust!Gates, Trust!Idle
<1>3. ASSUME NEW s \in known PROVE <<s, defined[s].what>> \in accepted
  <2>1. [server |-> s, def |-> defined[s]] \in approvals
    BY DEF Trust!IsApproved
  <2>2. QED
    BY <1>1, <2>1 DEF Trust!ApprovalsWereGiven
<1>4. Trust!Becomes(p, g) /\ UNCHANGED <<defined, approvals, accepted>>
  BY DEF Trust!Load
<1>5. ASSUME NEW s \in Project, s \notin todo PROVE defined[s] = None
  BY <1>5
<1>6. ASSUME NEW s \in todo PROVE defined[s] # None
  OBVIOUS
<1> HIDE DEF g, todo, known
<1>7. Trust!PassIsHonest(g, accepted')
  BY <1>2, <1>3, <1>4, <1>5, <1>6 DEF Trust!PassIsHonest
<1>8. QED
  BY <1>1, <1>2, <1>4, <1>7, OnePassMoves DEF Trust!TypeOK, Trust!ApprovalsWereGiven

\* The gate decides the next server, or asks.
LEMMA GateKeeps ==
  ASSUME Trust!TrustInv, NEW p \in Process, Trust!Gate(p)
  PROVE  Trust!TrustInv'
<1> DEFINE s == Trust!Upcoming(p)
           g == gate[p]
<1>1. gate[p].pc = "gating" /\ gate[p].todo # {} /\ UNCHANGED <<defined, approvals, accepted>>
  BY DEF Trust!Gate
<1>2. g \in Trust!Gates /\ Trust!PassIsHonest(g, accepted) /\ s \in Project
  BY <1>1, UpcomingIsPlanned
<1>3. /\ accepted' \subseteq Project \X What /\ approvals' \subseteq Trust!Approval /\ Trust!ApprovalsWereGiven'
      /\ accepted \subseteq accepted' /\ accepted' = accepted
  BY <1>1 DEF Trust!TrustInv, Trust!TypeOK, Trust!ApprovalsWereGiven
<1>4. \/ (s \in g.known \/ g.mode = "allow") /\ Trust!Becomes(p, Trust!Passed(g, s))
      \/ Trust!Becomes(p, [g EXCEPT !.pc = "asking"])
      \/ Trust!Becomes(p, Trust!Blocked(g, s))
  BY DEF Trust!Gate
<1> HIDE DEF g, s
<1>5. CASE (s \in g.known \/ g.mode = "allow") /\ Trust!Becomes(p, Trust!Passed(g, s))
  <2>1. g.mode = "allow" \/ <<s, g.plan[s].what>> \in accepted
    BY <1>2, <1>5 DEF Trust!PassIsHonest
  <2>2. QED
    BY <1>1, <1>2, <1>3, <1>5, <2>1, PassedIsHonest, OnePassMoves
<1>6. CASE Trust!Becomes(p, Trust!Blocked(g, s))
  BY <1>1, <1>2, <1>3, <1>6, BlockedIsHonest, OnePassMoves
<1>7. CASE Trust!Becomes(p, [g EXCEPT !.pc = "asking"])
  <2> DEFINE h == [g EXCEPT !.pc = "asking"]
  <2>1. /\ h \in Trust!Gates /\ h.pc = "asking" /\ h.mode = g.mode /\ h.plan = g.plan /\ h.todo = g.todo
        /\ h.known = g.known /\ h.draft = g.draft
    BY <1>2 DEF Trust!Gates
  <2> HIDE DEF h
  <2>2. g.todo # {}
    BY <1>1 DEF g
  <2>3. Trust!PassIsHonest(h, accepted')
    BY <1>2, <1>3, <2>1, <2>2 DEF Trust!PassIsHonest
  <2>4. Trust!Becomes(p, h)
    BY <1>7 DEF h
  <2>5. QED
    BY <1>1, <1>3, <2>1, <2>3, <2>4, OnePassMoves
<1>8. QED
  BY <1>4, <1>5, <1>6, <1>7

\* An approval that is written is about what was accepted.
LEMMA SavedIsGiven ==
  ASSUME Trust!TrustInv, NEW s \in Project, NEW d \in Trust!Definition, NEW given,
         accepted \subseteq given, <<s, d.what>> \in given
  PROVE  /\ Trust!Saved(s, d) \subseteq Trust!Approval
         /\ \A a \in Trust!Saved(s, d) : <<a.server, a.def.what>> \in given
<1> DEFINE row == [server |-> s, def |-> d]
<1>1. row \in Trust!Approval /\ row.server = s /\ row.def = d
  BY DEF Trust!Approval
<1>2. approvals \subseteq Trust!Approval /\ \A a \in approvals : <<a.server, a.def.what>> \in given
  BY DEF Trust!TrustInv, Trust!TypeOK, Trust!ApprovalsWereGiven
<1>3. Trust!Saved(s, d) \subseteq approvals \cup {row}
  BY DEF Trust!Saved
<1> HIDE DEF row
<1>4. QED
  BY <1>1, <1>2, <1>3

\* The user accepts what the dialog shows.
LEMMA AllowKeeps ==
  ASSUME Trust!TrustInv, NEW p \in Process, Trust!Allow(p)
  PROVE  Trust!TrustInv'
<1> DEFINE s == Trust!Upcoming(p)
           g == gate[p]
           d == g.plan[s]
           more == Trust!Saved(s, d)
           h == [g EXCEPT !.pc = "saving", !.draft = more]
<1>1. g.pc = "asking" /\ Trust!Becomes(p, h) /\ accepted' = accepted \cup {<<s, d.what>>}
      /\ UNCHANGED <<defined, approvals>>
  BY DEF Trust!Allow
<1>2. g.todo # {}
  BY <1>1 DEF Trust!TrustInv, Trust!PassIsHonest
<1>3. g \in Trust!Gates /\ Trust!PassIsHonest(g, accepted) /\ s \in Project /\ d \in Trust!Definition
  BY <1>2, UpcomingIsPlanned
<1>4. more \subseteq Trust!Approval /\ \A a \in more : <<a.server, a.def.what>> \in accepted'
  <2>1. accepted \subseteq accepted' /\ <<s, d.what>> \in accepted'
    BY <1>1
  <2> HIDE DEF s, d
  <2>2. QED
    BY <1>3, <2>1, SavedIsGiven
<1>5. s = CHOOSE t \in g.todo : TRUE
  BY DEF Trust!Upcoming
<1>6. /\ h \in Trust!Gates /\ h.pc = "saving" /\ h.mode = g.mode /\ h.plan = g.plan /\ h.todo = g.todo
      /\ h.known = g.known /\ h.draft = more
  BY <1>3, <1>4 DEF Trust!Gates
<1>7. d.what \in What
  BY <1>3 DEF Trust!Definition
<1> HIDE DEF s, g, h, more
<1>8. Trust!PassIsHonest(h, accepted')
  BY <1>1, <1>2, <1>3, <1>4, <1>5, <1>6 DEF Trust!PassIsHonest
<1>9. /\ accepted' \subseteq Project \X What /\ accepted \subseteq accepted'
      /\ approvals' \subseteq Trust!Approval /\ Trust!ApprovalsWereGiven'
  BY <1>1, <1>3, <1>7 DEF Trust!TrustInv, Trust!TypeOK, Trust!ApprovalsWereGiven
<1>10. QED
  BY <1>1, <1>6, <1>8, <1>9, OnePassMoves

\* The approvals are written: what waited to be written was accepted.
LEMMA RenamesKeeps ==
  ASSUME Trust!TrustInv, NEW p \in Process, Trust!Renames(p)
  PROVE  Trust!TrustInv'
<1> DEFINE s == Trust!Upcoming(p)
           g == gate[p]
<1>1. g.pc = "saving" /\ approvals' = g.draft /\ Trust!Becomes(p, Trust!Passed(g, s))
      /\ UNCHANGED <<defined, accepted>>
  BY DEF Trust!Renames
<1>2. g.todo # {}
  BY <1>1 DEF Trust!TrustInv, Trust!PassIsHonest
<1>3. g \in Trust!Gates /\ Trust!PassIsHonest(g, accepted) /\ s \in Project
  BY <1>2, UpcomingIsPlanned
<1>4. s = CHOOSE t \in g.todo : TRUE
  BY DEF Trust!Upcoming
<1>5. g.draft \subseteq Trust!Approval
  BY <1>3 DEF Trust!Gates
<1> HIDE DEF s, g
<1>6. <<s, g.plan[s].what>> \in accepted /\ \A a \in g.draft : <<a.server, a.def.what>> \in accepted
  BY <1>1, <1>3, <1>4 DEF Trust!PassIsHonest
<1>7. Trust!Passed(g, s) \in Trust!Gates /\ Trust!PassIsHonest(Trust!Passed(g, s), accepted')
  BY <1>1, <1>3, <1>6, PassedIsHonest
<1>8. accepted' \subseteq Project \X What /\ approvals' \subseteq Trust!Approval /\ Trust!ApprovalsWereGiven'
  BY <1>1, <1>5, <1>6 DEF Trust!TrustInv, Trust!TypeOK, Trust!ApprovalsWereGiven
<1>9. QED
  BY <1>1, <1>7, <1>8, OnePassMoves

\* The user denies the server that is shown.
LEMMA DenyKeeps ==
  ASSUME Trust!TrustInv, NEW p \in Process, Trust!Deny(p)
  PROVE  Trust!TrustInv'
<1> DEFINE s == Trust!Upcoming(p)
           g == gate[p]
<1>1. g.pc = "asking" /\ Trust!Becomes(p, Trust!Blocked(g, s)) /\ UNCHANGED <<defined, approvals, accepted>>
  BY DEF Trust!Deny
<1>2. g.todo # {}
  BY <1>1 DEF Trust!TrustInv, Trust!PassIsHonest
<1>3. g \in Trust!Gates /\ Trust!PassIsHonest(g, accepted) /\ s \in Project
  BY <1>2, UpcomingIsPlanned
<1> HIDE DEF s, g
<1>4. Trust!Blocked(g, s) \in Trust!Gates /\ Trust!PassIsHonest(Trust!Blocked(g, s), accepted')
  BY <1>1, <1>3, BlockedIsHonest
<1>5. accepted' \subseteq Project \X What /\ approvals' \subseteq Trust!Approval /\ Trust!ApprovalsWereGiven'
  BY <1>1 DEF Trust!TrustInv, Trust!TypeOK, Trust!ApprovalsWereGiven
<1>6. QED
  BY <1>1, <1>4, <1>5, OnePassMoves

\* The session runs with what was let through, or ends.
LEMMA RunOrQuitKeeps ==
  ASSUME Trust!TrustInv, NEW p \in Process, Trust!Run(p) \/ Trust!Quit(p)
  PROVE  Trust!TrustInv'
<1> DEFINE g == gate[p]
           h == [g EXCEPT !.pc = "running"]
<1>1. g \in Trust!Gates /\ Trust!PassIsHonest(g, accepted)
  BY DEF Trust!TrustInv, Trust!TypeOK
<1>2. /\ accepted' = accepted /\ defined' = defined
      /\ accepted' \subseteq Project \X What /\ approvals' \subseteq Trust!Approval /\ Trust!ApprovalsWereGiven'
  BY DEF Trust!Run, Trust!Quit, Trust!TrustInv, Trust!TypeOK, Trust!ApprovalsWereGiven
<1>3. CASE Trust!Run(p)
  <2>1. /\ h \in Trust!Gates /\ h.pc = "running" /\ h.mode = g.mode /\ h.plan = g.plan /\ h.todo = g.todo
        /\ h.known = g.known /\ h.draft = g.draft
    BY <1>1 DEF Trust!Gates
  <2>2. Trust!Becomes(p, h) /\ g.todo = {}
    BY <1>3 DEF Trust!Run
  <2> HIDE DEF g, h
  <2>3. Trust!PassIsHonest(h, accepted')
    BY <1>1, <1>2, <2>1, <2>2 DEF Trust!PassIsHonest
  <2>4. QED
    BY <1>2, <2>1, <2>2, <2>3, OnePassMoves
<1>4. CASE Trust!Quit(p)
  <2>1. Trust!Idle \in Trust!Gates /\ Trust!PassIsHonest(Trust!Idle, accepted')
    BY DEF Trust!Idle, Trust!Gates, Trust!Mode, Trust!PassIsHonest
  <2>2. Trust!Becomes(p, Trust!Idle)
    BY <1>4 DEF Trust!Quit
  <2>3. QED
    BY <1>2, <2>1, <2>2, OnePassMoves
<1>5. QED
  BY <1>3, <1>4

\* A project edits its definition: no pass and no approval changes.
LEMMA EditKeeps ==
  ASSUME Trust!TrustInv, NEW s \in Project, NEW d \in Trust!Definition \cup {None}, Trust!Edit(s, d)
  PROVE  Trust!TrustInv'
<1>1. defined' \in [Project -> Trust!Definition \cup {None}] /\ UNCHANGED <<approvals, gate, accepted>>
  BY DEF Trust!Edit, Trust!TrustInv, Trust!TypeOK
<1>2. QED
  BY <1>1, NoPassMoves DEF Trust!TrustInv, Trust!TypeOK, Trust!ApprovalsWereGiven

\* The panel saves a definition, and renews the approval of one that is approved.
LEMMA PanelSavesKeeps ==
  ASSUME NoneIsNone, Trust!TrustInv, NEW p \in Process, NEW s \in Project, NEW direct \in BOOLEAN, NEW w \in What,
         Trust!PanelSaves(p, s, direct, w)
  PROVE  Trust!TrustInv'
<1> DEFINE after == [what |-> w, direct |-> direct]
<1>1. after \in Trust!Definition /\ after.what = w
  BY DEF Trust!Definition
<1>2. /\ defined' = [defined EXCEPT ![s] = after] /\ UNCHANGED <<gate, accepted>>
      /\ approvals' = approvals
         \/ (approvals' = Trust!Saved(s, after) /\ Trust!IsApproved(s, defined[s]) /\ defined[s].what = w)
  BY DEF Trust!PanelSaves, Trust!Keeps
<1> HIDE DEF after
<1>3. defined' \in [Project -> Trust!Definition \cup {None}]
  BY <1>1, <1>2 DEF Trust!TrustInv, Trust!TypeOK
<1>4. approvals' \subseteq Trust!Approval /\ \A a \in approvals' : <<a.server, a.def.what>> \in accepted
  <2>1. CASE approvals' = approvals
    BY <2>1 DEF Trust!TrustInv, Trust!TypeOK, Trust!ApprovalsWereGiven
  <2>2. CASE approvals' = Trust!Saved(s, after) /\ Trust!IsApproved(s, defined[s]) /\ defined[s].what = w
    <3>1. [server |-> s, def |-> defined[s]] \in approvals
      BY <2>2 DEF Trust!IsApproved
    <3>2. <<s, defined[s].what>> \in accepted
      BY <3>1 DEF Trust!TrustInv, Trust!ApprovalsWereGiven
    <3>3. QED
      BY <1>1, <2>2, <3>2, SavedIsGiven
  <2>3. QED
    BY <1>2, <2>1, <2>2
<1>5. Trust!ApprovalsWereGiven'
  BY <1>2, <1>4 DEF Trust!ApprovalsWereGiven
<1>6. accepted' \subseteq Project \X What
  BY <1>2 DEF Trust!TrustInv, Trust!TypeOK
<1>7. QED
  BY <1>2, <1>3, <1>4, <1>5, <1>6, NoPassMoves

\* The panel installs a server the user chose: it is accepted as it is written.
LEMMA InstallKeeps ==
  ASSUME Trust!TrustInv, NEW p \in Process, NEW s \in Project, NEW w \in What, Trust!Install(p, s, w)
  PROVE  Trust!TrustInv'
<1> DEFINE d == [what |-> w, direct |-> FALSE]
<1>1. d \in Trust!Definition /\ d.what = w
  BY DEF Trust!Definition
<1>2. /\ defined' = [defined EXCEPT ![s] = d] /\ approvals' = Trust!Saved(s, d)
      /\ accepted' = accepted \cup {<<s, w>>} /\ UNCHANGED gate
  BY DEF Trust!Install
<1> HIDE DEF d
<1>3. defined' \in [Project -> Trust!Definition \cup {None}] /\ accepted' \subseteq Project \X What
  BY <1>1, <1>2 DEF Trust!TrustInv, Trust!TypeOK
<1>4. approvals' \subseteq Trust!Approval /\ \A a \in approvals' : <<a.server, a.def.what>> \in accepted'
  <2>1. accepted \subseteq accepted' /\ <<s, d.what>> \in accepted'
    BY <1>1, <1>2
  <2>2. QED
    BY <1>1, <1>2, <2>1, SavedIsGiven
<1>5. QED
  BY <1>2, <1>3, <1>4, NoPassMoves DEF Trust!ApprovalsWereGiven

\* No pass has begun and nothing is approved.
LEMMA TrustBegins == Trust!Init => Trust!TrustInv
<1> SUFFICES ASSUME Trust!Init PROVE Trust!TrustInv
  OBVIOUS
<1>1. Trust!Idle \in Trust!Gates /\ Trust!PassIsHonest(Trust!Idle, accepted)
  BY DEF Trust!Idle, Trust!Gates, Trust!Mode, Trust!PassIsHonest
<1>2. \A p \in Process : gate[p] = Trust!Idle
  BY DEF Trust!Init
<1>3. \A p \in Process : Trust!PassIsHonest(gate[p], accepted)
  BY <1>1, <1>2
<1>4. Trust!TypeOK /\ Trust!ApprovalsWereGiven
  BY <1>1 DEF Trust!Init, Trust!TypeOK, Trust!ApprovalsWereGiven
<1>5. QED
  BY <1>3, <1>4 DEF Trust!TrustInv

\* So every step keeps TrustInv.
LEMMA TrustKeeps ==
  ASSUME NoneIsNone, Trust!TrustInv, Trust!Next
  PROVE  Trust!TrustInv'
BY LoadKeeps, GateKeeps, AllowKeeps, RenamesKeeps, DenyKeeps, RunOrQuitKeeps, EditKeeps, PanelSavesKeeps,
   InstallKeeps DEF Trust!Next

-----------------------------------------------------------------------------
(* Sampling *)

\* The value that stands for no turn, no model and nothing received is none of them.
NoneIsNoModel == None \notin {1, 2} \cup Sample!Models

\* resolveSamplingModel() finds one.
LEMMA CandidateIsModel ==
  ASSUME Sample!TypeOK, NEW hint
  PROVE  Sample!Candidate(hint) \in Sample!Models
<1> DEFINE fitting == {i \in 1..3 : Sample!Fits(hint, Sample!Available[i])}
<1>1. DOMAIN Sample!Available = 1..3 /\ \A i \in 1..3 : Sample!Available[i] \in Sample!Models
  BY DEF Sample!Available, Sample!Models, Sample!Range
<1>2. ASSUME fitting # {}
      PROVE  \E i \in fitting : \A j \in fitting : i <= j
  BY <1>2
<1>3. favoured \in Sample!Models \cup {None}
  BY DEF Sample!TypeOK
<1>4. fitting \subseteq 1..3
  OBVIOUS
<1>5. Sample!Candidate(hint) = IF fitting # {} THEN Sample!Available[CHOOSE i \in fitting : \A j \in fitting : i <= j]
                               ELSE IF favoured # None THEN favoured ELSE Sample!Available[1]
  BY <1>1 DEF Sample!Candidate
<1> HIDE DEF fitting
<1>6. CASE fitting # {}
  <2>1. (CHOOSE i \in fitting : \A j \in fitting : i <= j) \in 1..3
    BY <1>2, <1>4, <1>6
  <2>2. QED
    BY <1>1, <1>5, <1>6, <2>1
<1>7. CASE fitting = {}
  BY <1>1, <1>3, <1>5, <1>7
<1>8. QED
  BY <1>6, <1>7

\* The request of a step, and what it ran.
Row == [pc : {"idle", "asking", "running", "showing"}, signal : {1, 2, None},
        model : Sample!Models \cup {None}, shown : Sample!Models \cup {None}, said : Sample!Said]
Run == [model : Sample!Models \cup {None}, approved : Sample!Models \cup {None}, late : BOOLEAN]
Sound(row, run, got) ==
  /\ run.model = run.approved /\ ~run.late
  /\ got # "none" => got = "text" /\ run.model # None
  /\ row.pc # "idle" => row.model \in Sample!Models /\ row.shown = row.model
  /\ row.pc \in {"running", "showing"} => run.model # None
  /\ row.pc = "showing" => row.said = "text"

\* A step of one request: the others' rows stay as they are.
LEMMA OneRequestMoves ==
  ASSUME Sample!SamplesInv, NEW r \in Request, NEW row \in Row, NEW run \in Run, NEW got \in Sample!Said,
         sampling' = [sampling EXCEPT ![r] = row], ran' = [ran EXCEPT ![r] = run],
         received' = [received EXCEPT ![r] = got], Sound(row, run, got),
         UNCHANGED <<turn, aborted, favoured>>
  PROVE  Sample!SamplesInv'
<1>1. /\ sampling' \in [Request -> Row] /\ ran' \in [Request -> Run] /\ received' \in [Request -> Sample!Said]
      /\ sampling'[r] = row /\ ran'[r] = run /\ received'[r] = got
      /\ \A q \in Request : q # r =>
           sampling'[q] = sampling[q] /\ ran'[q] = ran[q] /\ received'[q] = received[q]
  BY DEF Sample!SamplesInv, Sample!TypeOK, Row, Run
<1>2. \A q \in Request : Sound(sampling[q], ran[q], received[q])
  BY DEF Sample!SamplesInv, Sample!SamplesWereApproved, Sample!RunIsShown, Sound
<1>3. \A q \in Request : Sound(sampling'[q], ran'[q], received'[q])
  BY <1>1, <1>2
<1>4. Sample!TypeOK'
  BY <1>1 DEF Sample!SamplesInv, Sample!TypeOK, Row, Run
<1>5. Sample!SamplesWereApproved' /\ Sample!RunIsShown'
  BY <1>3 DEF Sample!SamplesWereApproved, Sample!RunIsShown, Sound
<1>6. QED
  BY <1>4, <1>5 DEF Sample!SamplesInv

\* What a request of an invariant state is.
LEMMA RequestIsSound ==
  ASSUME Sample!SamplesInv, NEW r \in Request
  PROVE  /\ sampling[r] \in Row /\ ran[r] \in Run /\ received[r] \in Sample!Said
         /\ Sound(sampling[r], ran[r], received[r])
         /\ sampling = [sampling EXCEPT ![r] = sampling[r]] /\ ran = [ran EXCEPT ![r] = ran[r]]
         /\ received = [received EXCEPT ![r] = received[r]]
BY DEF Sample!SamplesInv, Sample!TypeOK, Sample!SamplesWereApproved, Sample!RunIsShown, Row, Run, Sound

\* A request that is not there is idle.
LEMMA NoSamplingIsRow == Sample!NoSampling \in Row /\ Sample!NoSampling.pc = "idle"
BY DEF Row, Sample!NoSampling, Sample!Said

\* A request is dropped without an answer.
LEMMA DropsKeeps ==
  ASSUME Sample!SamplesInv, NEW r \in Request, Sample!Drops(r), UNCHANGED <<ran, turn, aborted, favoured>>,
         NEW got \in Sample!Said, received' = [received EXCEPT ![r] = got],
         got # "none" => got = "text" /\ ran[r].model # None
  PROVE  Sample!SamplesInv'
<1>1. ran' = [ran EXCEPT ![r] = ran[r]] /\ sampling' = [sampling EXCEPT ![r] = Sample!NoSampling]
  BY RequestIsSound DEF Sample!Drops
<1>2. Sound(Sample!NoSampling, ran[r], got)
  BY RequestIsSound, NoSamplingIsRow DEF Sound
<1>3. QED
  BY <1>1, <1>2, RequestIsSound, NoSamplingIsRow, OneRequestMoves

\* A request comes in, and is shown with the model it would run on.
LEMMA ReceiveKeeps ==
  ASSUME NoneIsNoModel, Sample!SamplesInv, NEW r \in Request, NEW hint, Sample!Receive(r, hint)
  PROVE  Sample!SamplesInv'
<1> DEFINE m == Sample!Candidate(hint)
           row == [Sample!NoSampling EXCEPT !.pc = "asking", !.signal = turn, !.model = m, !.shown = m]
           run == [model |-> None, approved |-> None, late |-> FALSE]
<1>1. m \in Sample!Models /\ turn \in {1, 2, None}
  BY CandidateIsModel DEF Sample!SamplesInv, Sample!TypeOK
<1>2. /\ ran' = [ran EXCEPT ![r] = run] /\ received' = [received EXCEPT ![r] = "none"]
      /\ UNCHANGED <<turn, aborted, favoured>> /\ sampling[r].pc = "idle"
      /\ UNCHANGED sampling \/ sampling' = [sampling EXCEPT ![r] = row]
  BY DEF Sample!Receive
<1>3. run \in Run /\ run.model = run.approved /\ ~run.late /\ "none" \in Sample!Said
  BY DEF Run, Sample!Said
<1> HIDE DEF m
<1>4. row \in Row /\ row.pc = "asking" /\ row.model = m /\ row.shown = m
  BY <1>1 DEF Sample!NoSampling, Row, Sample!Said
<1> HIDE DEF row, run
<1>5. CASE UNCHANGED sampling
  <2>1. sampling' = [sampling EXCEPT ![r] = sampling[r]] /\ sampling[r] \in Row
    BY <1>5, RequestIsSound
  <2>2. Sound(sampling[r], run, "none")
    BY <1>2, <1>3 DEF Sound
  <2>3. QED
    BY <1>2, <1>3, <2>1, <2>2, OneRequestMoves
<1>6. CASE sampling' = [sampling EXCEPT ![r] = row]
  <2>1. Sound(row, run, "none")
    BY <1>1, <1>3, <1>4 DEF Sound
  <2>2. QED
    BY <1>2, <1>3, <1>4, <1>6, <2>1, OneRequestMoves
<1>7. QED
  BY <1>2, <1>5, <1>6

\* The user approves: the model that runs is the one that was shown, in a turn that is not aborted.
LEMMA ApproveKeeps ==
  ASSUME NoneIsNoModel, Sample!SamplesInv, NEW r \in Request, Sample!Approve(r)
  PROVE  Sample!SamplesInv'
<1> DEFINE was == sampling[r]
           row == [was EXCEPT !.pc = "running"]
           run == [model |-> was.model, approved |-> was.shown, late |-> Sample!Aborted(was.signal)]
<1>1. was \in Row /\ was.pc = "asking" /\ was.model \in Sample!Models /\ was.shown = was.model
  BY RequestIsSound DEF Sample!Approve, Sound
<1>2. UNCHANGED <<turn, aborted, favoured, received>> /\ received' = [received EXCEPT ![r] = received[r]]
  BY RequestIsSound DEF Sample!Approve
<1>3. CASE Sample!Drops(r) /\ UNCHANGED ran
  BY <1>2, <1>3, RequestIsSound, DropsKeeps DEF Sound
<1>4. CASE /\ ~Sample!Aborted(was.signal)
           /\ sampling' = [sampling EXCEPT ![r] = row] /\ ran' = [ran EXCEPT ![r] = run]
  <2>1. row \in Row /\ row.pc = "running" /\ row.model = was.model /\ row.shown = was.shown
    BY <1>1 DEF Row
  <2>2. run \in Run /\ run.model = was.model /\ run.approved = was.shown /\ ~run.late
    <3> DEFINE overdue == Sample!Aborted(was.signal)
    <3>1. overdue = FALSE
      BY <1>4 DEF Sample!Aborted
    <3>2. was.model \in Sample!Models \cup {None} /\ was.shown \in Sample!Models \cup {None}
      BY <1>1 DEF Row
    <3>3. run = [model |-> was.model, approved |-> was.shown, late |-> overdue]
      OBVIOUS
    <3> HIDE DEF was, run, overdue
    <3>4. QED
      BY <3>1, <3>2, <3>3 DEF Run
  <2>3. was.model # None
    BY <1>1 DEF NoneIsNoModel
  <2> HIDE DEF was, row, run
  <2>4. Sound(row, run, received[r])
    BY <1>1, <2>1, <2>2, <2>3, RequestIsSound DEF Sound
  <2>5. QED
    BY <1>2, <1>4, <2>1, <2>2, <2>4, RequestIsSound, OneRequestMoves
<1>5. QED
  <2>1. sampling[r] \in Row
    BY <1>1
  <2>2. Sample!Aborted(was.signal) => Sample!Drops(r) /\ UNCHANGED ran
    BY DEF Sample!Approve
  <2>3. ~Sample!Aborted(was.signal) =>
          sampling' = [sampling EXCEPT ![r] = row] /\ ran' = [ran EXCEPT ![r] = run]
    BY DEF Sample!Approve
  <2>4. QED
    BY <1>3, <1>4, <2>2, <2>3

\* A run ends: text is shown, anything else is dropped.
LEMMA EndsKeeps ==
  ASSUME Sample!SamplesInv, NEW r \in Request, NEW said \in Sample!Said, Sample!Ends(r, said)
  PROVE  Sample!SamplesInv'
<1> DEFINE was == sampling[r]
           row == [[was EXCEPT !.pc = "showing"] EXCEPT !.said = said]
<1>1. was \in Row /\ was.pc = "running" /\ Sound(was, ran[r], received[r])
  BY RequestIsSound DEF Sample!Ends
<1>2. /\ UNCHANGED <<turn, aborted, favoured, ran, received>>
      /\ received' = [received EXCEPT ![r] = received[r]] /\ ran' = [ran EXCEPT ![r] = ran[r]]
  BY RequestIsSound DEF Sample!Ends
<1>3. CASE Sample!Drops(r)
  BY <1>2, <1>3, RequestIsSound, DropsKeeps DEF Sound
<1>4. CASE said = "text" /\ sampling' = [sampling EXCEPT ![r] = row]
  <2>1. row \in Row /\ row.pc = "showing" /\ row.model = was.model /\ row.shown = was.shown /\ row.said = said
    BY <1>1 DEF Row
  <2> HIDE DEF was, row
  <2>2. Sound(row, ran[r], received[r])
    BY <1>1, <1>4, <2>1 DEF Sound
  <2>3. QED
    BY <1>2, <1>4, <2>1, <2>2, RequestIsSound, OneRequestMoves
<1>5. QED
  BY <1>3, <1>4, RequestIsSound DEF Sample!Ends, Row, Sample!SamplesInv, Sample!TypeOK

\* The user refuses the request.
LEMMA RefuseKeeps ==
  ASSUME Sample!SamplesInv, NEW r \in Request, Sample!Refuse(r)
  PROVE  Sample!SamplesInv'
<1>1. received' = [received EXCEPT ![r] = received[r]] /\ Sample!Drops(r) /\ UNCHANGED <<ran, turn, aborted, favoured>>
  BY RequestIsSound DEF Sample!Refuse
<1>2. QED
  BY <1>1, RequestIsSound, DropsKeeps DEF Sound

\* The answer goes to the server: it is the text of the run.
LEMMA ReturnKeeps ==
  ASSUME Sample!SamplesInv, NEW r \in Request, Sample!Return(r)
  PROVE  Sample!SamplesInv'
<1>1. sampling[r].said = "text" /\ ran[r].model # None /\ "text" \in Sample!Said
  BY RequestIsSound DEF Sample!Return, Sound, Sample!Said
<1>2. /\ received' = [received EXCEPT ![r] = "text"] /\ Sample!Drops(r)
      /\ UNCHANGED <<ran, turn, aborted, favoured>>
  BY <1>1 DEF Sample!Return
<1>3. QED
  BY <1>1, <1>2, DropsKeeps

\* No request is there at first.
LEMMA SamplesBegin == Sample!Init => Sample!SamplesInv
BY DEF Sample!Init, Sample!NoSampling, Sample!Said, Sample!SamplesInv, Sample!TypeOK,
   Sample!SamplesWereApproved, Sample!RunIsShown

\* So every step keeps SamplesInv.
LEMMA SamplesKeep ==
  ASSUME NoneIsNoModel, Sample!SamplesInv, Sample!Next
  PROVE  Sample!SamplesInv'
<1>1. ASSUME UNCHANGED <<sampling, ran, received>>, turn' \in {1, 2, None}, aborted' \subseteq 1..2,
             favoured' \in Sample!Models \cup {None}
      PROVE  Sample!SamplesInv'
  BY <1>1 DEF Sample!SamplesInv, Sample!TypeOK, Sample!SamplesWereApproved, Sample!RunIsShown
<1>2. CASE Sample!Turn
  BY <1>1, <1>2 DEF Sample!Turn, Sample!SamplesInv, Sample!TypeOK
<1>3. CASE Sample!Abort
  BY <1>1, <1>3 DEF Sample!Abort, Sample!SamplesInv, Sample!TypeOK
<1>4. ASSUME NEW m \in Sample!Models, Sample!Choose(m) PROVE Sample!SamplesInv'
  BY <1>1, <1>4 DEF Sample!Choose, Sample!SamplesInv, Sample!TypeOK
<1>5. QED
  BY <1>2, <1>3, <1>4, ReceiveKeeps, ApproveKeeps, RefuseKeeps, ReturnKeeps, EndsKeeps DEF Sample!Next

-----------------------------------------------------------------------------
(* ConfigMerge *)

\* Of an entry that is put together, who touched it.
LEMMA MergeTouches ==
  ASSUME NEW base, NEW next, NEW scopes, Merge!Merge(base, next) # None,
         base # None => base.touched \subseteq scopes, next # None => next.touched \subseteq scopes
  PROVE  Merge!Merge(base, next).touched \subseteq scopes
<1>1. CASE base # None /\ next # None
  <2> DEFINE part(c) == IF next[c] # None THEN next[c]
                         ELSE IF c \in Merge!Dropped(base, next) THEN None ELSE base[c]
             e == [where |-> IF next.where = None THEN base.where ELSE next.where,
                   headers |-> part("headers"), provider |-> part("provider"), oauth |-> part("oauth"),
                   touched |-> base.touched \cup next.touched]
  <2>1. Merge!Merge(base, next) = Merge!Bound(e)
    BY <1>1 DEF Merge!Merge
  <2>2. Merge!Bound(e).touched = base.touched \cup next.touched
    BY DEF Merge!Bound
  <2> HIDE DEF e
  <2>3. QED
    BY <1>1, <2>1, <2>2
<1>2. CASE base = None \/ next = None
  BY <1>2 DEF Merge!Merge
<1>3. QED
  BY <1>1, <1>2

\* What a file says is its scope's, and no more than none.
LEMMA SaidTouches ==
  ASSUME NEW scope \in Merge!Scope, NEW e \in {None} \cup Merge!Said(scope), e # None
  PROVE  e.touched = {scope}
BY DEF Merge!Said

\* So is what it says for short.
LEMMA BriefTouches ==
  ASSUME NEW scope \in Merge!Scope, NEW e \in Merge!Brief(scope), e # None
  PROVE  e.touched = {scope}
BY DEF Merge!Brief, Merge!Said

\* What hosts say is read, with who said it.
LEMMA DiscoverKeeps ==
  ASSUME Merge!MergeInv, NEW s \in Merge!Scope, NEW t \in Merge!Scope,
         NEW e \in Merge!Brief(s), NEW f \in Merge!Brief(t), Merge!Discover(e, f)
  PROVE  Merge!MergeInv'
<1> DEFINE scopes == (IF e = None THEN {} ELSE e.touched) \cup (IF f = None THEN {} ELSE f.touched)
<1>1. /\ at = 1 /\ at' = 2 /\ merged' = Merge!Merge(e, f)
      /\ gated' = (\E g \in {e, f} : g # None /\ "project" \in g.touched)
  BY DEF Merge!Discover
<1>2. merged' # None => merged'.touched \subseteq scopes
  <2>1. (e # None => e.touched \subseteq scopes) /\ (f # None => f.touched \subseteq scopes)
    OBVIOUS
  <2> HIDE DEF scopes
  <2>2. QED
    BY <1>1, <2>1, MergeTouches
<1>3. scopes \subseteq Merge!Scope /\ ("project" \in scopes => gated')
  BY <1>1, BriefTouches
<1> HIDE DEF scopes
<1>4. Merge!ProjectsAreNoted'
  BY <1>2, <1>3 DEF Merge!ProjectsAreNoted
<1>5. at' # Len(Merge!Sources) + 2
  BY <1>1 DEF Merge!Sources
<1>6. QED
  BY <1>4, <1>5 DEF Merge!MergeInv, Merge!ProjectsAreAskedFor

\* A file is read over what was there: an entry a project touched is gated.
LEMMA ReadKeeps ==
  ASSUME Merge!MergeInv, at \in 2..Len(Merge!Sources), NEW mine \in {None} \cup Merge!Said(Merge!Sources[at].scope),
         NEW t \in Merge!Scope, NEW imported \in Merge!Brief(t), NEW paths \in BOOLEAN,
         Merge!Read(mine, imported, paths)
  PROVE  Merge!MergeInv'
<1> DEFINE src == Merge!Sources[at]
           pi == src.of = "pi"
           said == IF pi THEN mine ELSE Merge!Merge(imported, mine)
           by == (IF mine = None THEN {} ELSE mine.touched)
                 \cup (IF pi \/ imported = None THEN {} ELSE imported.touched)
           touching == IF merged = None THEN {} ELSE merged.touched
<1>1. at \in 2..5 /\ Len(Merge!Sources) = 5 /\ src.scope \in Merge!Scope
  BY DEF Merge!Sources, Merge!Scope
<1>2. /\ at' = at + 1
      /\ merged' \in {merged, Merge!Merge(merged, said)}
      /\ gated' = (gated \/ (said # None /\ src.scope = "project")
                         \/ (~pi /\ imported # None /\ "project" \in imported.touched))
  BY DEF Merge!Read
<1>3. /\ mine # None => mine.touched = {src.scope}
      /\ imported # None => imported.touched = {t}
  BY <1>1, SaidTouches, BriefTouches
<1>4. said # None => said.touched \subseteq by
  <2>1. (mine # None => mine.touched \subseteq by) /\ (~pi /\ imported # None => imported.touched \subseteq by)
    OBVIOUS
  <2>2. CASE pi
    BY <2>1, <2>2
  <2>3. CASE ~pi
    <3>1. said = Merge!Merge(imported, mine)
      BY <2>3
    <3> HIDE DEF by, said
    <3>2. QED
      BY <2>1, <2>3, <3>1, MergeTouches
  <2>4. QED
    BY <2>2, <2>3
<1>5. by \subseteq Merge!Scope /\ ("project" \in by /\ said # None => gated')
  BY <1>1, <1>2, <1>3
<1>6. touching \subseteq Merge!Scope /\ ("project" \in touching => gated)
  BY DEF Merge!MergeInv, Merge!ProjectsAreNoted
<1>7. merged' # None => /\ merged'.touched \subseteq touching \cup (IF said = None THEN {} ELSE by)
  <2> DEFINE scopes == touching \cup (IF said = None THEN {} ELSE by)
  <2>1. (merged # None => merged.touched \subseteq scopes) /\ (said # None => said.touched \subseteq scopes)
    BY <1>4
  <2> HIDE DEF scopes, said
  <2>2. Merge!Merge(merged, said) # None => Merge!Merge(merged, said).touched \subseteq scopes
    BY <2>1, MergeTouches
  <2>3. merged' # None => merged'.touched \subseteq scopes
    BY <1>2, <2>1, <2>2
  <2>4. QED
    BY <2>3 DEF scopes
<1> HIDE DEF src, pi, said, by, touching
<1>8. Merge!ProjectsAreNoted'
  BY <1>2, <1>5, <1>6, <1>7 DEF Merge!ProjectsAreNoted
<1>9. at' # Len(Merge!Sources) + 2
  <2>1. at \in 2..5 /\ at' = at + 1
    BY <1>1, <1>2
  <2>2. at' # 7 /\ Len(Merge!Sources) + 2 = 7
    BY <2>1 DEF Merge!Sources
  <2>3. QED
    BY <2>2
<1>10. QED
  BY <1>8, <1>9 DEF Merge!MergeInv, Merge!ProjectsAreAskedFor

\* Plugins and packages fill in last; a gated entry loses its provider.
LEMMA CompleteKeeps ==
  ASSUME Merge!MergeInv, NEW s \in Merge!Scope, plugins \in Merge!Scope \cup {None}, None \notin Merge!Scope,
         NEW plugin \in Merge!Brief(IF plugins = None THEN "user" ELSE plugins),
         NEW package \in Merge!Brief(s), Merge!Complete(plugin, package)
  PROVE  Merge!MergeInv'
<1> DEFINE below == IF plugin # None THEN plugin ELSE package
           all == Merge!Merge(below, merged)
           theirs == \/ gated \/ (plugin # None /\ plugins = "project")
                     \/ (plugin = None /\ package # None /\ "project" \in package.touched)
           by == IF below = None THEN {} ELSE below.touched
           touching == IF merged = None THEN {} ELSE merged.touched
<1>1. \/ merged' = None /\ gated' = FALSE
      \/ merged' = all /\ gated' = theirs /\ (theirs /\ all # None => all.provider = None)
  BY DEF Merge!Complete
<1>2. /\ package # None => package.touched = {s}
      /\ plugin # None => plugin.touched = {IF plugins = None THEN "user" ELSE plugins}
  BY BriefTouches DEF Merge!Scope
<1>3. by \subseteq Merge!Scope /\ ("project" \in by => theirs)
  BY <1>2 DEF Merge!Scope
<1>4. touching \subseteq Merge!Scope /\ ("project" \in touching => gated)
  BY DEF Merge!MergeInv, Merge!ProjectsAreNoted
<1>5. all # None => all.touched \subseteq by \cup touching
  <2> DEFINE scopes == by \cup touching
  <2>1. (merged # None => merged.touched \subseteq scopes) /\ (below # None => below.touched \subseteq scopes)
    OBVIOUS
  <2> HIDE DEF scopes, below
  <2>2. QED
    BY <2>1, MergeTouches DEF scopes
<1>6. gated => theirs
  OBVIOUS
<1> HIDE DEF below, all, theirs, by, touching
<1>7. Merge!ProjectsAreNoted'
  BY <1>1, <1>3, <1>4, <1>5, <1>6 DEF Merge!ProjectsAreNoted
<1>8. Merge!ProjectsAreAskedFor'
  BY <1>1, <1>7 DEF Merge!ProjectsAreAskedFor, Merge!ProjectsAreNoted
<1>9. QED
  BY <1>7, <1>8 DEF Merge!MergeInv

\* Nothing is merged yet.
LEMMA MergeBegins == Merge!Init => Merge!MergeInv /\ plugins \in Merge!Scope \cup {None}
BY DEF Merge!Init, Merge!MergeInv, Merge!ProjectsAreNoted, Merge!ProjectsAreAskedFor, Merge!Sources

\* So every step keeps MergeInv.
LEMMA MergeKeeps ==
  ASSUME Merge!MergeInv, plugins \in Merge!Scope \cup {None}, None \notin Merge!Scope, Merge!Next
  PROVE  Merge!MergeInv' /\ plugins' \in Merge!Scope \cup {None}
<1>1. Merge!MergeInv'
  BY DiscoverKeeps, ReadKeeps, CompleteKeeps DEF Merge!Next
<1>2. \A i \in 1..Len(Merge!Sources) : Merge!Sources[i].scope \in Merge!Scope
  BY DEF Merge!Sources, Merge!Scope
<1>3. plugins' \in Merge!Scope \cup {None}
  <2>1. ASSUME NEW mine, NEW imported, NEW paths, Merge!Read(mine, imported, paths)
        PROVE  plugins' \in Merge!Scope \cup {None}
    <3>1. at \in 1..Len(Merge!Sources) /\ plugins' \in {plugins, Merge!Sources[at].scope}
      BY <2>1 DEF Merge!Read
    <3>2. QED
      BY <1>2, <3>1
  <2>2. CASE UNCHANGED plugins
    BY <2>2
  <2>3. QED
    BY <2>1, <2>2 DEF Merge!Next, Merge!Discover, Merge!Complete
<1>4. QED
  BY <1>1, <1>3

-----------------------------------------------------------------------------
(* Elicitation: the labels of a list *)

\* Every nonempty set of numbers has a least one.
LEMMA LeastNumber ==
  ASSUME NEW T \in SUBSET Nat, T # {}
  PROVE  \E n \in T : \A m \in T : n <= m
<1> DEFINE R == OpToRel(<, Nat)
<1>1. R = {ss \in Nat \X Nat : ss[1] < ss[2]}
  BY DEF OpToRel
<1>2. IsWellFoundedOn(R, Nat)
  BY NatLessThanWellFounded
<1> HIDE DEF R
<1>3. PICK n \in T : \A m \in T : ~(<<m, n>> \in R)
  BY <1>2, WFMin
<1>4. ASSUME NEW m \in T PROVE n <= m
  <2>1. <<m, n>> \in Nat \X Nat /\ <<m, n>>[1] = m /\ <<m, n>>[2] = n
    OBVIOUS
  <2>2. ~(m < n)
    BY <1>1, <1>3, <2>1
  <2>3. m \in Nat /\ n \in Nat
    OBVIOUS
  <2>4. QED
    BY <2>2, <2>3
<1>5. QED
  BY <1>4

\* So a set that has 0, and the successor of each of its numbers, has all of them.
LEMMA Induction ==
  ASSUME NEW T \in SUBSET Nat, 0 \in T, \A n \in T : n + 1 \in T
  PROVE  T = Nat
<1>1. SUFFICES ASSUME Nat \ T # {} PROVE FALSE
  OBVIOUS
<1>2. PICK n \in Nat \ T : \A m \in Nat \ T : n <= m
  BY <1>1, LeastNumber
<1>3. n - 1 \in Nat /\ n - 1 \notin Nat \ T
  BY <1>2
<1>4. QED
  BY <1>2, <1>3

\* A label whose text is one of those.
Label(Text) == Nat \X Text \X Nat

\* There is a label that is not used: more candidates than labels before it.
LEMMA DotsAreFound ==
  ASSUME NEW Text, NEW l \in Label(Text), NEW i \in Nat \ {0}, NEW used, NEW f,
         \A x \in used : \E j \in 1..i - 1 : x = f[j]
  PROVE  \E k \in 0..i : Form!Dotted(l, k) \notin used /\ \A j \in 0..k - 1 : Form!Dotted(l, j) \in used
<1> DEFINE free == {k \in Nat : Form!Dotted(l, k) \notin used}
<1>1. \E k \in 0..i - 1 : Form!Dotted(l, k) \notin used
  <2> SUFFICES ASSUME \A k \in 0..i - 1 : Form!Dotted(l, k) \in used PROVE FALSE
    OBVIOUS
  <2> DEFINE g == [k \in 0..i - 1 |-> CHOOSE j \in 1..i - 1 : f[j] = Form!Dotted(l, k)]
  <2>1. ASSUME NEW k \in 0..i - 1 PROVE g[k] \in 1..i - 1 /\ f[g[k]] = Form!Dotted(l, k)
    OBVIOUS
  <2>2. g \in [0..i - 1 -> 1..i - 1]
    BY <2>1
  <2> DEFINE From == 0..i - 1
             To == 1..i - 1
  <2> HIDE DEF g
  <2>3. IsFiniteSet(From) /\ Cardinality(From) = i
    <3>1. 0 \in Int /\ i - 1 \in Int /\ ~(0 > i - 1) /\ (i - 1) - 0 + 1 = i
      OBVIOUS
    <3>2. QED
      BY <3>1, FS_Interval
  <2>4. IsFiniteSet(To) /\ Cardinality(To) = i - 1
    BY FS_Interval
  <2>5. PICK k \in From, m \in From : k # m /\ g[k] = g[m]
    <3>1. g \in [From -> To]
      BY <2>2
    <3>2. i - 1 < i
      OBVIOUS
    <3> HIDE DEF From, To
    <3>3. QED
      BY <2>3, <2>4, <3>1, <3>2, FS_PigeonHole
  <2>6. Form!Dotted(l, k) = Form!Dotted(l, m)
    BY <2>1, <2>5
  <2>7. l[3] + k = l[3] + m /\ l[3] \in Nat
    BY <2>6 DEF Form!Dotted, Label
  <2>8. QED
    BY <2>5, <2>7
<1>2. PICK k \in free : \A j \in free : k <= j
  <2>1. free \in SUBSET Nat /\ free # {}
    BY <1>1
  <2> HIDE DEF free
  <2>2. QED
    BY <2>1, LeastNumber
<1>3. k \in 0..i /\ \A j \in 0..k - 1 : Form!Dotted(l, j) \in used
  BY <1>1, <1>2
<1>4. QED
  BY <1>2, <1>3

\* So Dots() makes a label that is not used.
LEMMA DotsAreNew ==
  ASSUME NEW Text, NEW l \in Label(Text), NEW i \in Nat \ {0}, NEW f
  PROVE  LET used == {f[j] : j \in 1..i - 1} IN
         /\ Form!Dots(l, used, i) \in 0..i
         /\ Form!Dotted(l, Form!Dots(l, used, i)) \notin used
<1> DEFINE used == {f[j] : j \in 1..i - 1}
<1>0. \A x \in used : \E j \in 1..i - 1 : x = f[j]
  OBVIOUS
<1> HIDE DEF used
<1>1. \E k \in 0..i : Form!Dotted(l, k) \notin used /\ \A j \in 0..k - 1 : Form!Dotted(l, j) \in used
  BY <1>0, DotsAreFound
<1>2. Form!Dots(l, used, i) \in 0..i /\ Form!Dotted(l, Form!Dots(l, used, i)) \notin used
  BY <1>1 DEF Form!Dots
<1>3. QED
  BY <1>2 DEF used

\* A list that is built label by label: each from those before it.
Labelled(labels, u, n) ==
  u = [i \in 1..n |-> Form!Dotted(labels[i], Form!Dots(labels[i], {u[j] : j \in 1..i - 1}, i))]

\* There is one for every beginning of a list.
LEMMA LabelsAreBuilt ==
  ASSUME NEW labels
  PROVE  \A n \in Nat : \E u : Labelled(labels, u, n)
<1> DEFINE T == {n \in Nat : \E u : Labelled(labels, u, n)}
<1>1. 0 \in T
  <2>1. Labelled(labels, [i \in 1..0 |-> 0], 0)
    BY DEF Labelled
  <2>2. QED
    BY <2>1
<1>2. ASSUME NEW n \in T PROVE n + 1 \in T
  <2>1. PICK u : Labelled(labels, u, n)
    OBVIOUS
  <2> DEFINE next == Form!Dotted(labels[n + 1], Form!Dots(labels[n + 1], {u[j] : j \in 1..n}, n + 1))
             v == [i \in 1..n + 1 |-> IF i = n + 1 THEN next ELSE u[i]]
             want(i) == Form!Dotted(labels[i], Form!Dots(labels[i], {v[j] : j \in 1..i - 1}, i))
  <2>2. n \in Nat
    OBVIOUS
  <2>3. ASSUME NEW i \in 1..n + 1 PROVE {v[j] : j \in 1..i - 1} = {u[j] : j \in 1..i - 1}
    <3>1. \A j \in 1..i - 1 : v[j] = u[j]
      BY <2>2
    <3> HIDE DEF v
    <3>2. QED
      BY <3>1
  <2>4. ASSUME NEW i \in 1..n + 1 PROVE v[i] = want(i)
    <3>1. CASE i = n + 1
      <4>1. v[i] = next /\ i - 1 = n
        BY <2>2, <3>1
      <4>2. want(i) = next
        BY <2>3, <3>1, <4>1
      <4>3. QED
        BY <4>1, <4>2
    <3>2. CASE i # n + 1
      <4>1. i \in 1..n
        BY <2>2, <3>2
      <4>2. v[i] = u[i]
        BY <3>2
      <4>3. u[i] = Form!Dotted(labels[i], Form!Dots(labels[i], {u[j] : j \in 1..i - 1}, i))
        BY <2>1, <4>1 DEF Labelled
      <4>4. QED
        BY <2>3, <4>2, <4>3
    <3>3. QED
      BY <3>1, <3>2
  <2>5. Labelled(labels, v, n + 1)
    <3>1. v = [i \in 1..n + 1 |-> v[i]]
      OBVIOUS
    <3> HIDE DEF v
    <3>2. v = [i \in 1..n + 1 |-> want(i)]
      BY <2>4, <3>1
    <3>3. QED
      BY <3>2 DEF Labelled
  <2>6. QED
    BY <2>2, <2>5
<1> HIDE DEF T
<1>3. T \in SUBSET Nat
  BY DEF T
<1>4. T = Nat
  BY <1>1, <1>2, <1>3, Induction
<1>5. QED
  BY <1>4 DEF T

\* uniqueLabels(): the labels it gives differ from each other.
LEMMA LabelsAreUnique ==
  ASSUME NEW N \in Nat, NEW Text, NEW labels \in [1..N -> Label(Text)]
  PROVE  /\ DOMAIN Form!UniqueLabels(labels) = 1..N
         /\ \A i, j \in 1..N : Form!UniqueLabels(labels)[i] = Form!UniqueLabels(labels)[j] => i = j
<1> DEFINE u == Form!UniqueLabels(labels)
<1>1. N \in Nat /\ DOMAIN labels = 1..N /\ \A i \in 1..N : labels[i] \in Label(Text)
  OBVIOUS
<1>2. \E w : Labelled(labels, w, N)
  BY <1>1, LabelsAreBuilt
<1>3. u = CHOOSE w : w = [i \in 1..N |-> Form!Dotted(labels[i], Form!Dots(labels[i], {w[j] : j \in 1..i - 1}, i))]
  BY <1>1 DEF Form!UniqueLabels
<1> HIDE DEF u
<1>4. u = [i \in 1..N |-> Form!Dotted(labels[i], Form!Dots(labels[i], {u[j] : j \in 1..i - 1}, i))]
  BY <1>2, <1>3 DEF Labelled
<1>5. ASSUME NEW i \in 1..N, NEW j \in 1..N, j < i PROVE u[i] # u[j]
  <2> DEFINE used == {u[h] : h \in 1..i - 1}
  <2>1. labels[i] \in Label(Text) /\ i \in Nat \ {0}
    BY <1>1
  <2>2. Form!Dotted(labels[i], Form!Dots(labels[i], used, i)) \notin used
    BY <2>1, DotsAreNew
  <2>3. u[i] = Form!Dotted(labels[i], Form!Dots(labels[i], used, i))
    BY <1>4
  <2>4. j \in 1..i - 1
    BY <1>1, <1>5
  <2>5. u[j] \in used
    BY <2>4
  <2>6. QED
    BY <2>2, <2>3, <2>5
<1>6. ASSUME NEW i \in 1..N, NEW j \in 1..N, u[i] = u[j] PROVE i = j
  <2>1. ~(i < j) /\ ~(j < i)
    BY <1>5, <1>6
  <2>2. i \in Nat /\ j \in Nat
    BY <1>1
  <2>3. QED
    BY <2>1, <2>2
<1>7. DOMAIN u = 1..N
  BY <1>4
<1>8. QED
  BY <1>6, <1>7 DEF u

-----------------------------------------------------------------------------
(* Elicitation: the form *)

\* The fields and the choices of the form.
LEMMA FieldNames ==
  /\ DOMAIN Form!Fields = 1..3 /\ Len(Form!Fields) = 3
  /\ Form!Range(Form!Fields) = {"one", "many", "number"}
  /\ Form!Fields[1] = "one" /\ Form!Fields[2] = "many" /\ Form!Fields[3] = "number"
  /\ DOMAIN Form!Options = 1..4
<1>1. DOMAIN Form!Fields = 1..3 /\ Len(Form!Fields) = 3
      /\ Form!Fields[1] = "one" /\ Form!Fields[2] = "many" /\ Form!Fields[3] = "number"
  BY DEF Form!Fields
<1>2. DOMAIN Form!Options = 1..4
  BY DEF Form!Options
<1>3. Form!Range(Form!Fields) = {Form!Fields[1], Form!Fields[2], Form!Fields[3]}
  BY <1>1 DEF Form!Range
<1>4. QED
  BY <1>1, <1>2, <1>3

\* What each field may be.
LEMMA FieldValues ==
  /\ Form!Values("one") = 1..4 /\ Form!Values("many") = SUBSET (1..4) /\ Form!Values("number") = 0..1
<1>1. QED
  BY FieldNames DEF Form!Values

\* The labels that are shown differ, so the one that is picked is read as it was meant.
LEMMA ReadAsMeant ==
  ASSUME NEW i \in DOMAIN Form!Options
  PROVE  Form!Read(i) = i
<1> DEFINE labels == [j \in DOMAIN Form!Options |->
                        IF j \in selected
                        THEN <<Form!Options[j][1] + 1, Form!Options[j][2], Form!Options[j][3]>>
                        ELSE Form!Options[j]]
<1>1. \A j \in 1..4 : Form!Options[j] \in Label({"x"})
  <2>1. Form!Options[1] = <<0, "x", 0>> /\ Form!Options[2] = <<0, "x", 0>>
        /\ Form!Options[3] = <<0, "x", 1>> /\ Form!Options[4] = <<1, "x", 0>>
    BY DEF Form!Options
  <2>2. <<0, "x", 0>> \in Label({"x"}) /\ <<0, "x", 1>> \in Label({"x"}) /\ <<1, "x", 0>> \in Label({"x"})
    <3>1. 0 \in Nat /\ 1 \in Nat
      OBVIOUS
    <3>2. "x" \in {"x"}
      OBVIOUS
    <3>3. QED
      BY <3>1, <3>2, ZenonT(20) DEF Label
  <2>3. QED
    BY <2>1, <2>2
<1>2. \A j \in 1..4 : labels[j] \in Label({"x"})
  <2> SUFFICES ASSUME NEW j \in 1..4 PROVE labels[j] \in Label({"x"})
    OBVIOUS
  <2>1. Form!Options[j] \in Nat \X {"x"} \X Nat
    BY <1>1 DEF Label
  <2>2. <<Form!Options[j][1] + 1, Form!Options[j][2], Form!Options[j][3]>> \in Nat \X {"x"} \X Nat
    <3> DEFINE o == Form!Options[j]
    <3>1. o[1] \in Nat /\ o[2] \in {"x"} /\ o[3] \in Nat
      BY <2>1
    <3> HIDE DEF o
    <3>2. QED
      BY <3>1 DEF o
  <2>3. QED
    BY <1>1, <2>2, FieldNames DEF Label
<1>3. labels \in [1..4 -> Label({"x"})]
  BY <1>2, FieldNames
<1>4. Form!Shown = Form!UniqueLabels(labels)
  BY DEF Form!Shown
<1> HIDE DEF labels
<1>5. DOMAIN Form!Shown = 1..4 /\ \A j, k \in 1..4 : Form!Shown[j] = Form!Shown[k] => j = k
  <2>1. 4 \in Nat
    OBVIOUS
  <2>2. /\ DOMAIN Form!UniqueLabels(labels) = 1..4
        /\ \A j, k \in 1..4 : Form!UniqueLabels(labels)[j] = Form!UniqueLabels(labels)[k] => j = k
    BY <1>3, <2>1, LabelsAreUnique
  <2>3. QED
    BY <1>4, <2>2
<1>6. i \in DOMAIN Form!Shown /\ \A h \in 1..i - 1 : Form!Shown[h] # Form!Shown[i]
  BY <1>5, FieldNames
<1>7. \A j \in DOMAIN Form!Shown : Form!Shown[j] = Form!Shown[i] => j = i
  BY <1>5, FieldNames
<1> QED
  BY <1>6, <1>7 DEF Form!Read

-----------------------------------------------------------------------------

\* The form is empty.
LEMMA FormBegins == Form!Init => Form!FormInv
<1>1. \A f \in {"one", "many", "number"} : None \in Form!Values(f) \cup {None}
  OBVIOUS
<1>2. SUFFICES ASSUME Form!Init PROVE Form!FormInv
  OBVIOUS
<1>3. values = [f \in {"one", "many", "number"} |-> None] /\ meant = values
  BY <1>2, FieldNames DEF Form!Init
<1>4. Form!TypeOK
  <2>1. stage = "ask" /\ field = 1 /\ editing = FALSE /\ before = None /\ selected = {} /\ reply = "none"
    BY <1>2 DEF Form!Init
  <2>2. \A f \in {"one", "many", "number"} : values[f] = None
    BY <1>3
  <2>3. values = [f \in {"one", "many", "number"} |-> values[f]]
    BY <1>3
  <2>4. \A f \in {"one", "many", "number"} : values[f] \in Form!Values(f) \cup {None}
    BY <2>2
  <2>5. Form!Range(Form!Fields) = {"one", "many", "number"} /\ 1 \in DOMAIN Form!Fields
    BY FieldNames
  <2>6. QED
    BY <1>3, <2>1, <2>3, <2>4, <2>5 DEF Form!TypeOK, Form!Answers
<1>5. Form!CollectedIsValid
  BY <1>2, FieldNames DEF Form!Init, Form!CollectedIsValid
<1>6. QED
  BY <1>3, <1>4, <1>5 DEF Form!FormInv

\* A field that is asked for.
LEMMA AskForKeeps ==
  ASSUME Form!FormInv, NEW n \in 1..3, NEW had, NEW edit \in BOOLEAN,
         Form!AskFor(n, had, edit), values' = values, meant' = meant,
         had \in Form!Values(Form!Fields[n]) \cup {None},
         \A m \in 1..3 : m < n => Form!Valid(Form!Fields[m], values[Form!Fields[m]]),
         edit => \A m \in 1..3 : Form!Valid(Form!Fields[m], values[Form!Fields[m]])
  PROVE  Form!FormInv'
<1>1. stage' = "field" /\ field' = n /\ before' = had /\ editing' = edit /\ selected' = {} /\ reply' = reply
  BY DEF Form!AskFor, Form!Show
<1>2. Form!TypeOK'
  BY <1>1, FieldNames DEF Form!TypeOK, Form!FormInv, Form!Answers, Form!Name
<1>3. Form!CollectedIsValid'
  BY <1>1, FieldNames DEF Form!CollectedIsValid, Form!FormInv
<1>4. QED
  BY <1>2, <1>3 DEF Form!FormInv

\* A field that is collected, from any of the lists.
LEMMA CollectedKeeps ==
  ASSUME Form!FormInv, NEW v \in Form!Values(Form!Name) \cup {None}, Form!Collected(v, v)
  PROVE  Form!FormInv'
<1>0. field \in 1..3 /\ editing \in BOOLEAN /\ values = meant
  BY FieldNames DEF Form!FormInv, Form!TypeOK
<1>1. CASE ~Form!Valid(Form!Name, v)
  <2>1. Form!AskFor(field, v, editing) /\ values' = values /\ meant' = meant
    BY <1>1 DEF Form!Collected
  <2>2. \A m \in 1..3 : m < field => Form!Valid(Form!Fields[m], values[Form!Fields[m]])
    BY FieldNames DEF Form!FormInv, Form!CollectedIsValid
  <2>3. editing => \A m \in 1..3 : Form!Valid(Form!Fields[m], values[Form!Fields[m]])
    BY FieldNames DEF Form!FormInv, Form!CollectedIsValid
  <2>4. QED
    BY <1>0, <2>1, <2>2, <2>3, AskForKeeps DEF Form!Name
<1>2. CASE Form!Valid(Form!Name, v)
  <2> DEFINE N == Form!Name
             w == [values EXCEPT ![N] = v]
  <2>1. values' = w /\ meant' = w
    BY <1>0, <1>2 DEF Form!Collected
  <2>2. DOMAIN values = {"one", "many", "number"} /\ N \in {"one", "many", "number"}
    BY <1>0, FieldNames DEF Form!FormInv, Form!TypeOK, Form!Name
  <2>3. w[N] = v /\ \A f \in {"one", "many", "number"} : f # N => w[f] = values[f]
    BY <2>2
  <2>4. w = [f \in {"one", "many", "number"} |-> w[f]]
    BY <2>2
  <2> HIDE DEF w
  <2>5. \A f \in {"one", "many", "number"} : w[f] \in Form!Values(f) \cup {None}
    BY <2>3, FieldNames DEF Form!FormInv, Form!TypeOK
  <2>6. \A m \in 1..3 : m < field + 1 => Form!Valid(Form!Fields[m], w[Form!Fields[m]])
    <3> SUFFICES ASSUME NEW m \in 1..3, m < field + 1
                 PROVE  Form!Valid(Form!Fields[m], w[Form!Fields[m]])
      OBVIOUS
    <3>1. m = field \/ m < field
      BY <1>0
    <3>2. CASE Form!Fields[m] = N
      BY <1>2, <2>3, <3>2
    <3>3. CASE Form!Fields[m] # N
      <4>1. m < field
        BY <3>1, <3>3 DEF Form!Name
      <4>2. Form!Valid(Form!Fields[m], values[Form!Fields[m]])
        BY <4>1, FieldNames DEF Form!FormInv, Form!CollectedIsValid
      <4>3. Form!Fields[m] \in {"one", "many", "number"}
        BY FieldNames
      <4>4. QED
        BY <2>3, <3>3, <4>2, <4>3
    <3>4. QED
      BY <3>2, <3>3
  <2>7. editing \/ reply = "accept" \/ field = 3
        => \A m \in 1..3 : Form!Valid(Form!Fields[m], w[Form!Fields[m]])
    <3>1. CASE field = 3
      BY <2>6, <3>1
    <3>2. CASE editing \/ reply = "accept"
      <4>1. \A m \in 1..3 : Form!Valid(Form!Fields[m], values[Form!Fields[m]])
        BY <3>2, FieldNames DEF Form!FormInv, Form!CollectedIsValid
      <4>2. ASSUME NEW m \in 1..3 PROVE Form!Valid(Form!Fields[m], w[Form!Fields[m]])
        <5>1. Form!Fields[m] \in {"one", "many", "number"}
          BY FieldNames
        <5>2. CASE Form!Fields[m] = N
          BY <1>2, <2>3, <5>2
        <5>3. CASE Form!Fields[m] # N
          BY <2>3, <4>1, <5>1, <5>3
        <5>4. QED
          BY <5>2, <5>3
      <4>3. QED
        BY <4>2
    <3>3. QED
      BY <3>1, <3>2
  <2>8. CASE editing \/ field = 3
    <3>1. stage' = "review" /\ reply' = reply /\ field' = field /\ editing' = editing
          /\ before' = before /\ selected' = selected
      BY <1>2, <2>8, FieldNames DEF Form!Collected, Form!Show
    <3>2. Form!TypeOK'
      BY <1>0, <2>1, <2>4, <2>5, <3>1, FieldNames DEF Form!TypeOK, Form!FormInv, Form!Answers, Form!Name
    <3>3. Form!CollectedIsValid'
      BY <1>0, <2>1, <2>7, <2>8, <3>1, FieldNames DEF Form!CollectedIsValid, Form!FormInv
    <3>4. QED
      BY <2>1, <3>2, <3>3 DEF Form!FormInv
  <2>9. CASE ~(editing \/ field = 3)
    <3>1. Form!AskFor(field + 1, None, FALSE)
      BY <1>2, <2>9, FieldNames DEF Form!Collected
    <3>2. stage' = "field" /\ field' = field + 1 /\ before' = None /\ editing' = FALSE /\ selected' = {}
          /\ reply' = reply
      BY <3>1 DEF Form!AskFor, Form!Show
    <3>3. field + 1 \in 1..3
      BY <1>0, <2>9
    <3>4. Form!TypeOK'
      BY <2>1, <2>4, <2>5, <3>2, <3>3, FieldNames DEF Form!TypeOK, Form!FormInv, Form!Answers, Form!Name
    <3>5. Form!CollectedIsValid'
      BY <1>0, <2>1, <2>6, <2>7, <3>2, FieldNames DEF Form!CollectedIsValid, Form!FormInv
    <3>6. QED
      BY <2>1, <3>4, <3>5 DEF Form!FormInv
  <2>10. QED
    BY <2>8, <2>9
<1>3. QED
  BY <1>1, <1>2

\* What leaves the form as it is, and shows something else.
LEMMA ShownKeeps ==
  ASSUME Form!FormInv, UNCHANGED <<values, meant, field, editing, before, selected, picked>>,
         stage' \in {"type", "edit", "closed"}, reply' \in Form!Answers,
         stage' = "type" => Form!Name = "number",
         stage' = "edit" => stage = "review",
         reply' = "accept" => reply = "accept" \/ stage = "review"
  PROVE  Form!FormInv'
<1>1. Form!TypeOK'
  BY FieldNames DEF Form!TypeOK, Form!FormInv, Form!Name
<1>2. Form!CollectedIsValid'
  BY FieldNames DEF Form!CollectedIsValid, Form!FormInv, Form!Name
<1>3. QED
  BY <1>1, <1>2 DEF Form!FormInv

\* So every step keeps FormInv.
LEMMA FormKeeps ==
  ASSUME Form!FormInv, Form!Next \/ UNCHANGED form
  PROVE  Form!FormInv'
<1>0. field \in 1..3 /\ editing \in BOOLEAN /\ values = meant /\ selected \subseteq 1..4
      /\ reply \in Form!Answers
  BY FieldNames DEF Form!FormInv, Form!TypeOK
<1>1. CASE Form!Continue
  <2>1. Form!AskFor(1, None, FALSE) /\ values' = values /\ meant' = meant
    BY <1>1 DEF Form!Continue, Form!form
  <2>2. \A m \in 1..3 : m < 1 => Form!Valid(Form!Fields[m], values[Form!Fields[m]])
    OBVIOUS
  <2>3. 1 \in 1..3 /\ FALSE \in BOOLEAN /\ None \in Form!Values(Form!Fields[1]) \cup {None}
    OBVIOUS
  <2>4. QED
    BY <2>1, <2>2, <2>3, AskForKeeps
<1>2. CASE Form!Decline \/ Form!Escape \/ Form!Submit \/ Form!Edit \/ Form!EnterValue
  <2>1. UNCHANGED <<values, meant, field, editing, before, selected, picked>>
    BY <1>2 DEF Form!Decline, Form!Escape, Form!Submit, Form!Edit, Form!EnterValue, Form!form, Form!asked
  <2>2. stage' \in {"type", "edit", "closed"} /\ reply' \in Form!Answers
        /\ (stage' = "type" => Form!Name = "number")
        /\ (stage' = "edit" => stage = "review")
        /\ (reply' = "accept" => reply = "accept" \/ stage = "review")
    BY <1>0, <1>2 DEF Form!Decline, Form!Escape, Form!Submit, Form!Edit, Form!EnterValue, Form!Close, Form!Show,
                      Form!Answers
  <2>3. QED
    BY <2>1, <2>2, ShownKeeps
<1>3. CASE Form!UseDefault
  <2>1. Form!Default[Form!Name] \in Form!Values(Form!Name) \cup {None}
    BY <1>0, FieldNames, FieldValues DEF Form!Default, Form!Name
  <2>2. QED
    BY <1>3, <2>1, CollectedKeeps DEF Form!UseDefault
<1>4. CASE Form!Omit
  BY <1>4, CollectedKeeps DEF Form!Omit
<1>5. ASSUME NEW i \in DOMAIN Form!Options, Form!PickOne(i) PROVE Form!FormInv'
  <2>1. Form!Name = "one" /\ Form!Collected(i, i)
    BY <1>5, ReadAsMeant DEF Form!PickOne
  <2>2. i \in Form!Values(Form!Name) \cup {None}
    BY <2>1, FieldNames, FieldValues
  <2>3. QED
    BY <2>1, <2>2, CollectedKeeps
<1>6. CASE Form!ChooseValues
  <2>1. Form!Name = "many" /\ stage' = "choose" /\ UNCHANGED <<reply, values, meant, field, editing, before>>
        /\ selected' = (IF before = None THEN {} ELSE before) /\ picked' = selected'
    BY <1>6 DEF Form!ChooseValues, Form!Show, Form!form
  <2>2. selected' \subseteq 1..4
    <3>1. before \in Form!Values(Form!Name) \cup {None}
      BY DEF Form!FormInv, Form!TypeOK
    <3>2. before # None => before \in SUBSET (1..4)
      BY <2>1, <3>1, FieldValues
    <3>3. CASE before = None
      BY <2>1, <3>3
    <3>4. CASE before # None
      <4>1. selected' = before
        BY <2>1, <3>4
      <4>2. QED
        BY <3>2, <3>4, <4>1
    <3>5. QED
      BY <3>3, <3>4
  <2>3. Form!TypeOK'
    BY <2>1, <2>2, FieldNames DEF Form!TypeOK, Form!FormInv, Form!Name
  <2>4. Form!CollectedIsValid'
    BY <2>1, FieldNames DEF Form!CollectedIsValid, Form!FormInv, Form!Name
  <2>5. QED
    BY <1>0, <2>1, <2>3, <2>4 DEF Form!FormInv
<1>7. ASSUME NEW i \in DOMAIN Form!Options, Form!Toggle(i) PROVE Form!FormInv'
  <2>1. stage = "choose" /\ UNCHANGED <<values, meant, field, editing, before, stage, reply>>
    BY <1>7 DEF Form!Toggle, Form!form
  <2>2. picked = selected /\ Form!Name = "many"
    BY <2>1 DEF Form!FormInv, Form!CollectedIsValid
  <2>3. selected' = (IF i \in selected THEN selected \ {i} ELSE selected \cup {i}) /\ picked' = selected'
    BY <1>7, <2>2, ReadAsMeant DEF Form!Toggle
  <2>4. selected' \subseteq 1..4
    BY <1>0, <2>3, FieldNames
  <2>5. Form!TypeOK'
    BY <2>1, <2>4, FieldNames DEF Form!TypeOK, Form!FormInv, Form!Name
  <2>6. Form!CollectedIsValid'
    BY <2>1, <2>3, FieldNames DEF Form!CollectedIsValid, Form!FormInv, Form!Name
  <2>7. QED
    BY <1>0, <2>1, <2>5, <2>6 DEF Form!FormInv
<1>8. CASE Form!PickDone
  <2>1. picked = selected /\ Form!Name = "many" /\ Form!Collected(selected, selected)
    BY <1>8 DEF Form!PickDone, Form!FormInv, Form!CollectedIsValid
  <2>2. selected \in Form!Values(Form!Name) \cup {None}
    BY <1>0, <2>1, FieldValues
  <2>3. QED
    BY <2>1, <2>2, CollectedKeeps
<1>9. ASSUME NEW v \in 0..1, Form!Type(v) PROVE Form!FormInv'
  <2>1. Form!Name = "number" /\ Form!Collected(v, v)
    BY <1>9 DEF Form!Type, Form!FormInv, Form!CollectedIsValid
  <2>2. v \in Form!Values(Form!Name) \cup {None}
    BY <2>1, FieldValues
  <2>3. QED
    BY <2>1, <2>2, CollectedKeeps
<1>10. ASSUME NEW n \in DOMAIN Form!Fields, Form!Reask(n) PROVE Form!FormInv'
  <2>1. stage = "edit" /\ Form!AskFor(n, values[Form!Fields[n]], TRUE) /\ values' = values /\ meant' = meant
    BY <1>10 DEF Form!Reask, Form!form
  <2>2. \A m \in 1..3 : Form!Valid(Form!Fields[m], values[Form!Fields[m]])
    BY <2>1, FieldNames DEF Form!FormInv, Form!CollectedIsValid
  <2>3. n \in 1..3 /\ values[Form!Fields[n]] \in Form!Values(Form!Fields[n]) \cup {None}
    BY FieldNames DEF Form!FormInv, Form!TypeOK
  <2>4. QED
    BY <2>1, <2>2, <2>3, AskForKeeps
<1>11. CASE UNCHANGED form
  BY <1>11 DEF form, Form!FormInv, Form!TypeOK, Form!CollectedIsValid, Form!Name
<1>12. QED
  BY <1>1, <1>2, <1>3, <1>4, <1>5, <1>6, <1>7, <1>8, <1>9, <1>10, <1>11 DEF Form!Next

\* Every answer a server gets is what was meant, and valid.
LEMMA FormIsMeant == Form!FormInv => Form!AnswerIsMeant
<1>1. SUFFICES ASSUME Form!FormInv, reply = "accept", NEW f \in {"one", "many", "number"}
               PROVE  values = meant /\ Form!Valid(f, values[f])
  BY FieldNames DEF Form!AnswerIsMeant
<1>2. \A n \in 1..3 : Form!Valid(Form!Fields[n], values[Form!Fields[n]])
  BY <1>1, FieldNames DEF Form!FormInv, Form!CollectedIsValid
<1>3. QED
  BY <1>1, <1>2, FieldNames DEF Form!FormInv

-----------------------------------------------------------------------------
(* What the user decides *)

\* None is none of what it stands in for.
NoneIsApart == NoneIsNone /\ NoneIsNoModel /\ None \notin Merge!Scope

\* What the five parts keep.
ConsentInv ==
  /\ Gate!ApprovalsInv /\ Trust!TrustInv /\ Form!FormInv /\ Sample!SamplesInv
  /\ Merge!MergeInv /\ plugins \in Merge!Scope \cup {None}

\* The five share no variable, so every step keeps them all.
LEMMA ConsentKeeps ==
  ASSUME Branches, NoneIsApart, ConsentInv, [Next]_vars
  PROVE  ConsentInv'
<1>1. Gate!ApprovalsInv'
  <2>1. Gate!Next \/ UNCHANGED approve
    BY DEF Next, vars
  <2>2. ASSUME UNCHANGED approve PROVE Gate!ApprovalsInv'
    BY <2>2 DEF approve, ConsentInv, Gate!ApprovalsInv, Gate!TypeOK, Gate!GrantsAreAsked, Gate!DecisionsFollowBranch
  <2>3. QED
    BY <2>1, <2>2, ApprovalsKeep DEF ConsentInv
<1>2. Trust!TrustInv'
  <2>1. Trust!Next \/ UNCHANGED trust
    BY DEF Next, vars
  <2>2. ASSUME UNCHANGED trust PROVE Trust!TrustInv'
    BY <2>2 DEF trust, ConsentInv, Trust!TrustInv, Trust!TypeOK, Trust!ApprovalsWereGiven
  <2>3. QED
    BY <2>1, <2>2, TrustKeeps DEF ConsentInv, NoneIsApart
<1>3. Form!FormInv'
  <2>1. Form!Next \/ UNCHANGED form
    BY DEF Next, vars
  <2>2. QED
    BY <2>1, FormKeeps DEF ConsentInv
<1>4. Sample!SamplesInv'
  <2>1. Sample!Next \/ UNCHANGED smpl
    BY DEF Next, vars
  <2>2. ASSUME UNCHANGED smpl PROVE Sample!SamplesInv'
    BY <2>2 DEF smpl, ConsentInv, Sample!SamplesInv, Sample!TypeOK, Sample!SamplesWereApproved, Sample!RunIsShown
  <2>3. QED
    BY <2>1, <2>2, SamplesKeep DEF ConsentInv, NoneIsApart
<1>5. Merge!MergeInv' /\ plugins' \in Merge!Scope \cup {None}
  <2>1. Merge!Next \/ UNCHANGED merge
    BY DEF Next, vars
  <2>2. ASSUME UNCHANGED merge PROVE Merge!MergeInv' /\ plugins' \in Merge!Scope \cup {None}
    BY <2>2 DEF merge, ConsentInv, Merge!MergeInv, Merge!ProjectsAreNoted, Merge!ProjectsAreAskedFor
  <2>3. QED
    BY <2>1, <2>2, MergeKeeps DEF ConsentInv, NoneIsApart
<1>6. QED
  BY <1>1, <1>2, <1>3, <1>4, <1>5 DEF ConsentInv

\* ConsentInv holds in every behaviour.
LEMMA ConsentInvariant ==
  ASSUME Branches, NoneIsApart
  PROVE  Spec => []ConsentInv
<1>1. Init => ConsentInv
  BY ApprovalsBegin, TrustBegins, FormBegins, SamplesBegin, MergeBegins DEF Init, ConsentInv
<1>2. ConsentInv /\ [Next]_vars => ConsentInv'
  BY ConsentKeeps
<1>3. QED
  BY <1>1, <1>2, PTL DEF Spec

\* A call runs on a grant only if the user chose it, and the decisions in force are those of the
\* active branch (tool-approval.ts); a project's server runs as it was accepted
\* (project-server-trust.ts) and is asked about however it was merged (config.ts); a model runs as
\* it was shown (sampling-handler.ts); a server's form holds what was meant (elicitation-handler.ts).
THEOREM TheUserDecides ==
  ASSUME Branches, NoneIsApart
  PROVE  Spec => []UserDecides
<1>1. ConsentInv => UserDecides
  <2> SUFFICES ASSUME ConsentInv PROVE UserDecides
    OBVIOUS
  <2>1. Gate!GrantsAreChosen /\ Gate!DecisionsFollowBranch
    BY DEF ConsentInv, Gate!ApprovalsInv, Gate!GrantsAreAsked, Gate!GrantsAreChosen, Gate!GrantHolds
  <2>2. Trust!ApprovalsWereGiven
    BY DEF ConsentInv, Trust!TrustInv
  <2>3. Trust!RunsWhatWasAllowed
    <3> SUFFICES ASSUME NEW p \in Process, NEW s \in Project, gate[p].pc = "running",
                        gate[p].plan[s] # None, gate[p].mode # "allow"
                 PROVE  <<s, gate[p].plan[s].what>> \in accepted
      BY DEF Trust!RunsWhatWasAllowed
    <3>1. Trust!PassIsHonest(gate[p], accepted)
      BY DEF ConsentInv, Trust!TrustInv
    <3>2. QED
      BY <3>1 DEF Trust!PassIsHonest
  <2>4. Merge!ProjectsAreAskedFor /\ Sample!SamplesWereApproved
    BY DEF ConsentInv, Merge!MergeInv, Sample!SamplesInv
  <2>5. Form!AnswerIsMeant
    BY FormIsMeant DEF ConsentInv
  <2>6. QED
    BY <2>1, <2>2, <2>3, <2>4, <2>5 DEF UserDecides
<1>2. QED
  BY <1>1, ConsentInvariant, PTL

-----------------------------------------------------------------------------
(* SetupPanel *)

FourLayers == {"global", "user", "project", "over"}
Disk == [global : Setup!Files, user : Setup!Files, project : Setup!Files, over : Setup!Files,
         exclusive : BOOLEAN, imports : BOOLEAN, hosts : BOOLEAN]

\* A layer of the disk is a file.
LEMMA LayerIsFile ==
  ASSUME NEW d \in Disk, NEW l \in FourLayers
  PROVE  d[l] \in Setup!Files
<1>1. d["global"] \in Setup!Files
  BY DEF Disk
<1>2. QED
  BY DEF Disk, FourLayers

\* The layers are in their order.
LEMMA Ranks ==
  /\ Setup!Rank("global") = 1 /\ Setup!Rank("user") = 2
  /\ Setup!Rank("project") = 3 /\ Setup!Rank("over") = 4
<1>1. DOMAIN Setup!Layers = 1..4 /\ Setup!Layers[1] = "global" /\ Setup!Layers[2] = "user"
      /\ Setup!Layers[3] = "project" /\ Setup!Layers[4] = "over"
  BY DEF Setup!Layers
<1>2. \A n \in 1..4 : n = 1 \/ n = 2 \/ n = 3 \/ n = 4
  OBVIOUS
<1> USE <1>1, <1>2
<1>3. Setup!Rank("global") = 1
  BY DEF Setup!Rank
<1>4. Setup!Rank("user") = 2
  BY DEF Setup!Rank
<1>5. Setup!Rank("project") = 3
  BY DEF Setup!Rank
<1>6. Setup!Rank("over") = 4
  BY DEF Setup!Rank
<1>7. QED
  BY <1>3, <1>4, <1>5, <1>6

\* Of some layers, one is the last.
LEMMA LastLayer ==
  ASSUME NEW X \in SUBSET FourLayers, X # {}
  PROVE  \E l \in X : \A m \in X : Setup!Rank(m) <= Setup!Rank(l)
<1> USE Ranks DEF FourLayers
<1>1. CASE "over" \in X
  BY <1>1
<1>2. CASE "over" \notin X /\ "project" \in X
  BY <1>2
<1>3. CASE "over" \notin X /\ "project" \notin X /\ "user" \in X
  BY <1>3
<1>4. CASE "over" \notin X /\ "project" \notin X /\ "user" \notin X
  <2>1. \A m \in X : m = "global"
    BY <1>4
  <2>2. PICK l \in X : TRUE
    OBVIOUS
  <2>3. l = "global" /\ 1 <= 1
    BY <2>1
  <2>4. \A m \in X : Setup!Rank(m) <= Setup!Rank(l)
    BY <2>1, <2>3
  <2>5. QED
    BY <2>4
<1>5. QED
  BY <1>1, <1>2, <1>3, <1>4

\* What a session makes of the files.
LEMMA EffectiveIsTyped ==
  ASSUME NEW d \in Disk
  PROVE  Setup!Effective(d) \in [fields : {"none", "ours", "other"}, off : {"unset", "yes"}, imports : BOOLEAN]
<1> DEFINE giving == {l \in Setup!Read(d) : d[l].fields # "none"}
           turning == {l \in Setup!Read(d) : d[l].off # "unset"}
           lastDefined == CHOOSE l \in Setup!Read(d) :
             /\ d[l].fields # "none"
             /\ \A m \in Setup!Read(d) : d[m].fields # "none" => Setup!Rank(m) <= Setup!Rank(l)
           lastSwitched == CHOOSE l \in Setup!Read(d) :
             /\ d[l].off # "unset"
             /\ \A m \in Setup!Read(d) : d[m].off # "unset" => Setup!Rank(m) <= Setup!Rank(l)
<1>1. Setup!Read(d) \subseteq FourLayers
  BY DEF Setup!Read, FourLayers
<1>2. giving # {} => lastDefined \in Setup!Read(d)
  <2> SUFFICES ASSUME giving # {} PROVE lastDefined \in Setup!Read(d)
    OBVIOUS
  <2>1. \E l \in giving : \A m \in giving : Setup!Rank(m) <= Setup!Rank(l)
    BY <1>1, LastLayer
  <2>2. QED
    BY <2>1
<1>3. turning # {} => lastSwitched \in Setup!Read(d)
  <2> SUFFICES ASSUME turning # {} PROVE lastSwitched \in Setup!Read(d)
    OBVIOUS
  <2>1. \E l \in turning : \A m \in turning : Setup!Rank(m) <= Setup!Rank(l)
    BY <1>1, LastLayer
  <2>2. QED
    BY <2>1
<1>4. Setup!Effective(d)
        = [fields  |-> IF \E l \in Setup!Read(d) : d[l].fields # "none" THEN d[lastDefined].fields ELSE "none",
           off     |-> IF \E l \in Setup!Read(d) : d[l].off # "unset" THEN d[lastSwitched].off ELSE "unset",
           imports |-> d.imports]
  BY DEF Setup!Effective
<1> HIDE DEF lastDefined, lastSwitched
<1>6. (\E l \in Setup!Read(d) : d[l].fields # "none") => d[lastDefined].fields \in {"none", "ours", "other"}
  BY <1>1, <1>2, LayerIsFile DEF Setup!Files
<1>7. (\E l \in Setup!Read(d) : d[l].off # "unset") => d[lastSwitched].off \in {"unset", "yes"}
  BY <1>1, <1>3, LayerIsFile DEF Setup!Files
<1>8. /\ (IF \E l \in Setup!Read(d) : d[l].fields # "none" THEN d[lastDefined].fields ELSE "none") \in {"none", "ours", "other"}
      /\ (IF \E l \in Setup!Read(d) : d[l].off # "unset" THEN d[lastSwitched].off ELSE "unset") \in {"unset", "yes"}
  BY <1>6, <1>7
<1>9. d.imports \in BOOLEAN
  BY DEF Disk
<1>10. QED
  BY <1>4, <1>8, <1>9

SetupRow == [at : {"new", "closed", "open"}, screen : {"empty", "setup", "imports", "paths"},
             imports : BOOLEAN, target : Setup!Targets, busy : {"no", "added", "ignored", "opening"},
             notice : {"none", "added", "ignored", "failed", "other"}, adopt : BOOLEAN]

\* The parts of the invariant.
LEMMA SetupParts ==
  ASSUME Setup!SetupInv
  PROVE  /\ disk \in Disk /\ setup \in SetupRow /\ changed \in BOOLEAN /\ foreign \in BOOLEAN
         /\ Setup!TypeOK /\ Setup!FilesAreRead /\ Setup!EndsAreTrue /\ Setup!LoadedIsCurrent /\ Setup!NoticeIsTrue
BY DEF Setup!SetupInv, Setup!TypeOK, Disk, SetupRow

\* The files that the model names.
LEMMA NamedFiles ==
  /\ {Setup!NoFile, Setup!Empty, Setup!Bad, Setup!Ours, Setup!Other, Setup!Switch} \subseteq Setup!Files
  /\ \A f \in {Setup!NoFile, Setup!Empty, Setup!Bad, Setup!Switch} : f.fields = "none"
  /\ Setup!NoFile.file = "absent" /\ Setup!Bad.file = "bad" /\ Setup!Ours.fields = "ours" /\ Setup!Other.fields = "other"
  /\ Setup!Empty.file = "there" /\ Setup!Ours.file = "there" /\ Setup!Other.file = "there" /\ Setup!Switch.file = "there"
<1> USE DEF Setup!NoFile, Setup!Empty, Setup!Files
<1>1. Setup!NoFile \in Setup!Files /\ Setup!NoFile.file = "absent" /\ Setup!NoFile.fields = "none"
  OBVIOUS
<1>2. Setup!Empty \in Setup!Files /\ Setup!Empty.file = "there" /\ Setup!Empty.fields = "none"
  OBVIOUS
<1>3. Setup!Bad \in Setup!Files /\ Setup!Bad.file = "bad" /\ Setup!Bad.fields = "none"
  BY DEF Setup!Bad
<1> HIDE DEF Setup!NoFile, Setup!Empty
<1>4. Setup!Ours \in Setup!Files /\ Setup!Ours.file = "there" /\ Setup!Ours.fields = "ours"
  BY <1>2 DEF Setup!Ours
<1>5. Setup!Other \in Setup!Files /\ Setup!Other.file = "there" /\ Setup!Other.fields = "other"
  BY <1>2 DEF Setup!Other
<1>6. Setup!Switch \in Setup!Files /\ Setup!Switch.file = "there" /\ Setup!Switch.fields = "none"
  BY <1>2 DEF Setup!Switch
<1> HIDE DEF Setup!Files
<1>7. QED
  BY <1>1, <1>2, <1>3, <1>4, <1>5, <1>6

\* What a discovery says.
LEMMA DiscoveryIsTyped ==
  ASSUME NEW d \in Disk
  PROVE  Setup!Discovery(d) \in [exists : [Setup!Targets -> BOOLEAN], any : BOOLEAN]
<1>1. [t \in Setup!Targets |-> d[t].file # "absent"] \in [Setup!Targets -> BOOLEAN]
  OBVIOUS
<1>2. (d.hosts \/ \E l \in Setup!Read(d) : d[l].file # "absent") \in BOOLEAN
  OBVIOUS
<1>3. QED
  BY <1>1, <1>2 DEF Setup!Discovery

\* A closed panel.
LEMMA ClosedIsRow ==
  /\ Setup!Closed \in SetupRow /\ Setup!Closed.at = "closed" /\ Setup!Closed.busy = "no" /\ Setup!Closed.notice = "none"
<1>1. /\ "closed" \in {"new", "closed", "open"} /\ "setup" \in {"empty", "setup", "imports", "paths"}
      /\ "project" \in Setup!Targets /\ "no" \in {"no", "added", "ignored", "opening"}
      /\ "none" \in {"none", "added", "ignored", "failed", "other"}
  BY DEF Setup!Targets
<1>2. QED
  BY <1>1 DEF Setup!Closed, SetupRow

\* A session has loaded the files.
LEMMA LoadingKeeps ==
  ASSUME Setup!Load, disk' \in Disk, Setup!FilesAreRead'
  PROVE  Setup!SetupInv'
<1>1. /\ loaded' = Setup!Effective(disk') /\ seen' = Setup!Discovery(disk') /\ setup' = Setup!Closed
      /\ changed' = FALSE /\ foreign' = FALSE
  BY DEF Setup!Load
<1>2. loaded' \in [fields : {"none", "ours", "other"}, off : {"unset", "yes"}, imports : BOOLEAN]
  BY <1>1, EffectiveIsTyped
<1>3. seen' \in [exists : [Setup!Targets -> BOOLEAN], any : BOOLEAN]
  BY <1>1, DiscoveryIsTyped
<1>4. Setup!TypeOK'
  BY <1>1, <1>2, <1>3, ClosedIsRow DEF Setup!TypeOK, Disk, SetupRow
<1>5. Setup!EndsAreTrue' /\ Setup!NoticeIsTrue'
  BY <1>1, ClosedIsRow DEF Setup!EndsAreTrue, Setup!NoticeIsTrue
<1>6. Setup!LoadedIsCurrent'
  BY <1>1 DEF Setup!LoadedIsCurrent
<1>7. QED
  BY <1>4, <1>5, <1>6 DEF Setup!SetupInv

\* The panel moves and the files stay; what it says is nothing of them, or what was about to be said.
LEMMA PanelMoves ==
  ASSUME Setup!SetupInv, NEW row \in SetupRow, setup.at = "new" => row.at = "new", setup' = row, UNCHANGED <<disk, loaded, changed, foreign>>,
         seen' \in [exists : [Setup!Targets -> BOOLEAN], any : BOOLEAN],
         row.busy \in {"no", "opening", setup.busy}, row.notice \in {"none", "failed", "other", setup.busy}
  PROVE  Setup!SetupInv'
<1>1. Setup!TypeOK'
  BY DEF Setup!SetupInv, Setup!TypeOK, SetupRow
<1>2. Setup!FilesAreRead'
  BY DEF Setup!SetupInv, Setup!FilesAreRead
<1>3. Setup!InEffect(disk)' = Setup!InEffect(disk)
  BY DEF Setup!InEffect
<1>4. Setup!EndsAreTrue'
  BY <1>3 DEF Setup!SetupInv, Setup!EndsAreTrue
<1>5. Setup!NoticeIsTrue'
  BY <1>3 DEF Setup!SetupInv, Setup!EndsAreTrue, Setup!NoticeIsTrue
<1>6. Setup!LoadedIsCurrent'
  BY DEF Setup!SetupInv, Setup!LoadedIsCurrent
<1>7. QED
  BY <1>1, <1>2, <1>4, <1>5, <1>6 DEF Setup!SetupInv

\* The panel writes: what it says of the files is true, and a reload follows.
LEMMA WritingKeeps ==
  ASSUME Setup!SetupInv, NEW d \in Disk, NEW row \in SetupRow, disk' = d, setup' = row, changed' = TRUE,
         UNCHANGED <<seen, loaded, foreign>>, Setup!FilesAreRead',
         "added" \in {row.busy, row.notice} => Setup!InEffect(d),
         "ignored" \in {row.busy, row.notice} => ~Setup!InEffect(d)
  PROVE  Setup!SetupInv'
<1>1. Setup!TypeOK'
  BY DEF Setup!SetupInv, Setup!TypeOK, SetupRow, Disk
<1>2. Setup!InEffect(disk)' = Setup!InEffect(d)
  BY DEF Setup!InEffect
<1>3. Setup!EndsAreTrue' /\ Setup!NoticeIsTrue' /\ Setup!LoadedIsCurrent'
  BY <1>2 DEF Setup!EndsAreTrue, Setup!NoticeIsTrue, Setup!LoadedIsCurrent
<1>4. QED
  BY <1>1, <1>3 DEF Setup!SetupInv

\* A target gets a file that defines the server only if it is there.
LEMMA TargetIsWritten ==
  ASSUME disk \in Disk, Setup!FilesAreRead, NEW t \in Setup!Targets, NEW f \in Setup!Files,
         f.file # "there" => f.fields = "none", disk' = [disk EXCEPT ![t] = f]
  PROVE  /\ disk' \in Disk /\ Setup!FilesAreRead' /\ disk'[t] = f
         /\ \A u \in Setup!Targets \ {t} : disk'[u] = disk[u]
<1>1. CASE t = "global"
  <2>1. disk' = [disk EXCEPT !.global = f]
    BY <1>1
  <2>2. disk' \in Disk /\ disk'["global"] = f /\ disk'["project"] = disk["project"]
    BY <2>1 DEF Disk
  <2>3. QED
    BY <1>1, <2>2 DEF Setup!Targets, Setup!FilesAreRead
<1>2. CASE t = "project"
  <2>1. disk' = [disk EXCEPT !.project = f]
    BY <1>2
  <2>2. disk' \in Disk /\ disk'["project"] = f /\ disk'["global"] = disk["global"]
    BY <2>1 DEF Disk
  <2>3. QED
    BY <1>2, <2>2 DEF Setup!Targets, Setup!FilesAreRead
<1>3. QED
  BY <1>1, <1>2 DEF Setup!Targets

\* A key that moves in the panel.
LEMMA ShowsKeep ==
  ASSUME Setup!SetupInv, NEW row \in SetupRow, setup.at = "new" => row.at = "new", setup' = row,
         UNCHANGED <<disk, seen, loaded, changed, foreign>>,
         row.busy \in {"no", "opening", setup.busy}, row.notice \in {"none", "failed", "other", setup.busy}
  PROVE  Setup!SetupInv'
<1>1. seen' \in [exists : [Setup!Targets -> BOOLEAN], any : BOOLEAN]
  BY DEF Setup!SetupInv, Setup!TypeOK
<1>2. QED
  BY <1>1, PanelMoves

\* The files the session starts with, and a session that loads them again.
LEMMA BeginsKeeps ==
  ASSUME Setup!SetupInv, Setup!Begin \/ Setup!Reload
  PROVE  Setup!SetupInv'
<1>1. CASE Setup!Reload
  <2>1. disk' = disk /\ Setup!Load
    BY <1>1 DEF Setup!Reload
  <2>2. disk' \in Disk /\ Setup!FilesAreRead'
    BY <2>1, SetupParts DEF Setup!FilesAreRead
  <2>3. QED
    BY <2>1, <2>2, LoadingKeeps
<1>2. CASE Setup!Begin
  <2>1. PICK g \in {Setup!NoFile, Setup!Other}, u \in {Setup!NoFile, Setup!Other, Setup!Switch},
             p \in {Setup!NoFile, Setup!Other, Setup!Bad}, o \in {Setup!NoFile, Setup!Switch},
             exclusive \in BOOLEAN, hosts \in BOOLEAN :
               /\ exclusive \/ hosts => {p, o} = {Setup!NoFile}
               /\ ~(exclusive /\ hosts)
               /\ disk' = [disk EXCEPT !.global = g, !.user = u, !.project = p, !.over = o,
                                       !.exclusive = exclusive, !.hosts = hosts]
    BY <1>2, Zenon DEF Setup!Begin
  <2>2. {g, u, p, o} \subseteq Setup!Files /\ \A f \in {g, p} : f.file # "there" => f.fields = "none"
    BY NamedFiles
  <2>3. disk \in Disk
    BY SetupParts
  <2>4. disk' = [global |-> g, user |-> u, project |-> p, over |-> o, exclusive |-> exclusive,
                 imports |-> disk.imports, hosts |-> hosts] /\ disk.imports \in BOOLEAN
    BY <2>1, <2>3 DEF Disk
  <2>5. disk' \in Disk /\ disk'["global"] = g /\ disk'["project"] = p
    BY <2>2, <2>4 DEF Disk
  <2>6. Setup!FilesAreRead'
    BY <2>2, <2>5 DEF Setup!FilesAreRead, Setup!Targets
  <2>7. QED
    BY <1>2, <2>5, <2>6, LoadingKeeps DEF Setup!Begin
<1>3. QED
  BY <1>1, <1>2

\* Someone else writes a file.
LEMMA WriteKeeps ==
  ASSUME Setup!SetupInv, NEW t \in Setup!Targets, NEW f \in {Setup!Other, Setup!Bad}, Setup!Write(t, f)
  PROVE  Setup!SetupInv'
<1>1. f \in Setup!Files /\ (f.file # "there" => f.fields = "none")
  BY NamedFiles
<1>2. disk' \in Disk /\ Setup!FilesAreRead'
  BY <1>1, SetupParts, TargetIsWritten DEF Setup!Write
<1>3. Setup!TypeOK'
  BY <1>2 DEF Setup!SetupInv, Setup!TypeOK, Setup!Write, Disk
<1>4. Setup!EndsAreTrue' /\ Setup!NoticeIsTrue' /\ Setup!LoadedIsCurrent'
  BY DEF Setup!EndsAreTrue, Setup!NoticeIsTrue, Setup!LoadedIsCurrent, Setup!Write
<1>5. QED
  BY <1>2, <1>3, <1>4 DEF Setup!SetupInv

\* The panel opens with what a discovery says.
LEMMA OpenSetupKeeps ==
  ASSUME Setup!SetupInv, NEW mode \in {"empty", "setup"}, Setup!Open(mode)
  PROVE  Setup!SetupInv'
<1> DEFINE row == [Setup!Closed EXCEPT !.at = "open", !.screen = mode, !.imports = mode = "setup" /\ disk.hosts]
<1>1. (mode = "setup" /\ disk.hosts) \in BOOLEAN /\ disk \in Disk
  BY SetupParts
<1>2. row \in SetupRow /\ row.at = "open" /\ row.busy = "no" /\ row.notice = "none"
  <2> DEFINE can == mode = "setup" /\ disk.hosts
  <2>1. can \in BOOLEAN /\ row = [Setup!Closed EXCEPT !.at = "open", !.screen = mode, !.imports = can]
    OBVIOUS
  <2> HIDE DEF can, row
  <2>2. QED
    BY <2>1, ClosedIsRow DEF SetupRow
<1>3. [disk EXCEPT !.hosts = FALSE] \in Disk
  BY <1>1 DEF Disk
<1>4. seen' \in [exists : [Setup!Targets -> BOOLEAN], any : BOOLEAN]
  <2>1. CASE mode = "setup"
    BY <1>1, <2>1, DiscoveryIsTyped DEF Setup!Open
  <2>2. CASE mode # "setup"
    <3>1. seen' = Setup!Discovery([disk EXCEPT !.hosts = FALSE])
      BY <2>2 DEF Setup!Open
    <3>2. QED
      BY <1>3, <3>1, DiscoveryIsTyped
  <2>3. QED
    BY <2>1, <2>2
<1>5. setup' = row /\ UNCHANGED <<disk, loaded, changed, foreign>> /\ setup.at = "closed"
  BY DEF Setup!Open
<1> HIDE DEF row
<1>6. QED
  BY <1>2, <1>4, <1>5, PanelMoves

\* The panel without its notice.
LEMMA QuietIsRow ==
  ASSUME setup \in SetupRow
  PROVE  /\ Setup!Quiet \in SetupRow /\ Setup!Quiet.at = setup.at
         /\ Setup!Quiet.busy = setup.busy /\ Setup!Quiet.notice = "none"
BY DEF Setup!Quiet, SetupRow

\* Keys that only move in the panel.
LEMMA KeysKeep ==
  ASSUME Setup!SetupInv,
         \/ Setup!RunSetup \/ Setup!ShowImports \/ Setup!ShowPaths \/ Setup!ToggleImport
         \/ Setup!Back \/ Setup!Close \/ \E t \in Setup!Targets : Setup!SelectTarget(t)
  PROVE  Setup!SetupInv'
<1>1. setup \in SetupRow /\ Setup!Quiet \in SetupRow /\ Setup!Quiet.at = setup.at
      /\ Setup!Quiet.busy = setup.busy /\ Setup!Quiet.notice = "none"
  BY SetupParts, QuietIsRow
<1>2. Setup!Home \in {"empty", "setup", "imports", "paths"}
  BY DEF Setup!Home
<1>3. ASSUME NEW to \in {"empty", "setup", "imports", "paths"}, setup' = [Setup!Quiet EXCEPT !.screen = to],
             UNCHANGED <<disk, seen, loaded, changed, foreign>>
      PROVE  Setup!SetupInv'
  <2> DEFINE row == [Setup!Quiet EXCEPT !.screen = to]
  <2>1. row \in SetupRow /\ row.at = setup.at /\ row.busy = setup.busy /\ row.notice = "none"
    BY <1>1 DEF SetupRow
  <2>2. setup' = row
    BY <1>3
  <2> HIDE DEF row
  <2>3. QED
    BY <1>3, <2>1, <2>2, ShowsKeep
<1>4. CASE Setup!RunSetup \/ Setup!ShowImports \/ Setup!ShowPaths \/ Setup!Back
  BY <1>2, <1>3, <1>4 DEF Setup!RunSetup, Setup!ShowImports, Setup!ShowPaths, Setup!Back, Setup!Shows
<1>5. CASE Setup!ToggleImport
  <2> DEFINE row == [Setup!Quiet EXCEPT !.adopt = ~@]
  <2>1. row \in SetupRow /\ row.at = setup.at /\ row.busy = setup.busy /\ row.notice = "none"
    BY <1>1 DEF SetupRow
  <2>2. setup' = row /\ UNCHANGED <<disk, seen, loaded, changed, foreign>>
    BY <1>5 DEF Setup!ToggleImport, Setup!Shows
  <2> HIDE DEF row
  <2>3. QED
    BY <2>1, <2>2, ShowsKeep
<1>6. CASE Setup!Close
  <2>1. setup' = Setup!Closed /\ setup.at = "open" /\ UNCHANGED <<disk, seen, loaded, changed, foreign>>
    BY <1>6 DEF Setup!Close, Setup!Shows
  <2>2. QED
    BY <2>1, ClosedIsRow, ShowsKeep
<1>7. ASSUME NEW t \in Setup!Targets, Setup!SelectTarget(t) PROVE Setup!SetupInv'
  <2> DEFINE row == [Setup!Quiet EXCEPT !.target = t, !.notice = "other"]
  <2>1. row \in SetupRow /\ row.at = setup.at /\ row.busy = setup.busy /\ row.notice = "other"
    BY <1>1 DEF SetupRow
  <2>2. setup' = row /\ UNCHANGED <<disk, seen, loaded, changed, foreign>>
    BY <1>7 DEF Setup!SelectTarget, Setup!Shows
  <2> HIDE DEF row
  <2>3. QED
    BY <2>1, <2>2, ShowsKeep
<1>8. QED
  BY <1>4, <1>5, <1>6, <1>7

\* What the panel does ends, fails or begins without writing.
LEMMA BusyKeeps ==
  ASSUME Setup!SetupInv,
         Setup!Fails({"empty", "setup", "imports"}) \/ Setup!Probed \/ Setup!OpenPath \/ Setup!Opened
  PROVE  Setup!SetupInv'
<1>1. setup \in SetupRow /\ Setup!Quiet \in SetupRow /\ Setup!Quiet.at = setup.at
      /\ Setup!Quiet.busy = setup.busy /\ Setup!Quiet.notice = "none"
  BY SetupParts, QuietIsRow
<1>2. ASSUME NEW busy \in {"no", setup.busy}, NEW notice \in {"failed", "other", setup.busy},
             notice \in {"none", "added", "ignored", "failed", "other"},
             setup' = [setup EXCEPT !.busy = busy, !.notice = notice],
             UNCHANGED <<disk, seen, loaded, changed, foreign>>
      PROVE  Setup!SetupInv'
  <2> DEFINE row == [setup EXCEPT !.busy = busy, !.notice = notice]
  <2>1. busy \in {"no", "added", "ignored", "opening"}
    BY <1>1 DEF SetupRow
  <2>2. row \in SetupRow /\ row.at = setup.at /\ row.busy = busy /\ row.notice = notice
    BY <1>1, <1>2, <2>1 DEF SetupRow
  <2>3. setup' = row
    BY <1>2
  <2> HIDE DEF row
  <2>4. QED
    BY <1>2, <2>2, <2>3, ShowsKeep
<1>3. CASE Setup!Fails({"empty", "setup", "imports"})
  <2>1. setup' = [setup EXCEPT !.busy = setup.busy, !.notice = "failed"]
    BY <1>1, <1>3 DEF Setup!Fails, SetupRow
  <2>2. QED
    BY <1>2, <1>3, <2>1 DEF Setup!Fails
<1>4. CASE Setup!Probed
  BY <1>2, <1>4 DEF Setup!Probed
<1>5. CASE Setup!Opened
  BY <1>2, <1>5 DEF Setup!Opened
<1>6. CASE Setup!OpenPath
  <2> DEFINE row == [Setup!Quiet EXCEPT !.busy = "opening"]
  <2>1. row \in SetupRow /\ row.at = setup.at /\ row.busy = "opening" /\ row.notice = "none"
    BY <1>1 DEF SetupRow
  <2>2. setup' = row /\ UNCHANGED <<disk, seen, loaded, changed, foreign>>
    BY <1>6 DEF Setup!OpenPath
  <2> HIDE DEF row
  <2>3. QED
    BY <2>1, <2>2, ShowsKeep
<1>7. QED
  BY <1>3, <1>4, <1>5, <1>6

\* A known server is added, and what is said of it, now or after a probe, holds.
LEMMA AddingKeeps ==
  ASSUME Setup!SetupInv, NEW desktop \in BOOLEAN, NEW throws \in BOOLEAN, Setup!AddServer(desktop, throws)
  PROVE  Setup!SetupInv'
<1> DEFINE t == IF desktop THEN "global" ELSE setup.target
           d == [disk EXCEPT ![t] = Setup!Ours]
           ends == IF throws THEN "failed" ELSE IF Setup!InEffect(d) THEN "added" ELSE "ignored"
           probes == desktop /\ ~throws
           busy == IF probes THEN ends ELSE "no"
           notice == IF probes THEN "none" ELSE ends
           row == [setup EXCEPT !.busy = busy, !.notice = notice]
<1>1. disk \in Disk /\ setup \in SetupRow /\ Setup!FilesAreRead /\ t \in Setup!Targets
  BY SetupParts DEF SetupRow, Setup!Targets
<1>2. disk' = d /\ changed' = TRUE /\ setup' = row /\ UNCHANGED <<seen, loaded, foreign>>
  BY DEF Setup!AddServer, Setup!AddedTo
<1>3. d \in Disk /\ Setup!FilesAreRead'
  BY <1>1, <1>2, NamedFiles, TargetIsWritten
<1>4. /\ busy \in {"no", "added", "ignored"} /\ notice \in {"none", "added", "ignored", "failed"}
      /\ "added" \in {busy, notice} => Setup!InEffect(d)
      /\ "ignored" \in {busy, notice} => ~Setup!InEffect(d)
  <2> HIDE DEF d
  <2>1. QED
    OBVIOUS
<1> HIDE DEF busy, notice, d
<1>5. row \in SetupRow /\ row.busy = busy /\ row.notice = notice
  BY <1>1, <1>4 DEF SetupRow
<1> HIDE DEF row
<1>6. QED
  BY <1>2, <1>3, <1>4, <1>5, WritingKeeps

\* A starter file, or the adoption of imports.
LEMMA ScaffoldKeeps ==
  ASSUME Setup!SetupInv, Setup!Scaffold
  PROVE  Setup!SetupInv'
<1> DEFINE row == [setup EXCEPT !.notice = "other"]
           d == [disk EXCEPT ![setup.target] = Setup!Empty]
<1>1. disk \in Disk /\ setup \in SetupRow /\ Setup!FilesAreRead /\ setup.target \in Setup!Targets
  BY SetupParts DEF SetupRow
<1>2. disk' = d /\ changed' = TRUE /\ setup' = row /\ setup.busy = "no" /\ UNCHANGED <<seen, loaded, foreign>>
  BY DEF Setup!Scaffold, Setup!Idle
<1>3. d \in Disk /\ Setup!FilesAreRead'
  BY <1>1, <1>2, NamedFiles, TargetIsWritten
<1>4. row \in SetupRow /\ row.busy = "no" /\ row.notice = "other"
  BY <1>1, <1>2 DEF SetupRow
<1> HIDE DEF row, d
<1>5. QED
  BY <1>2, <1>3, <1>4, WritingKeeps

\* Imports are adopted; if they were already, nothing changes on the disk.
LEMMA AdoptKeeps ==
  ASSUME Setup!SetupInv, Setup!Adopt
  PROVE  Setup!SetupInv'
<1>1. /\ disk \in Disk /\ setup \in SetupRow /\ Setup!FilesAreRead /\ changed \in BOOLEAN
      /\ setup.busy = "no" /\ UNCHANGED <<seen, loaded, foreign>>
  BY SetupParts DEF Setup!Adopt, Setup!Idle
<1>2. CASE ~setup.adopt
  <2> DEFINE row == [setup EXCEPT !.notice = "failed"]
  <2>1. setup' = row /\ UNCHANGED <<disk, seen, loaded, changed, foreign>>
    BY <1>1, <1>2 DEF Setup!Adopt
  <2>2. row \in SetupRow /\ row.at = setup.at /\ row.busy = setup.busy /\ row.notice = "failed"
    BY <1>1 DEF SetupRow
  <2> HIDE DEF row
  <2>3. QED
    BY <2>1, <2>2, ShowsKeep
<1>3. CASE setup.adopt
  <2> DEFINE row == [setup EXCEPT !.notice = "other", !.screen = Setup!Home]
  <2>1. Setup!Home \in {"empty", "setup", "imports", "paths"}
    BY DEF Setup!Home
  <2>2. row \in SetupRow /\ row.at = setup.at /\ row.busy = "no" /\ row.notice = "other"
    BY <1>1, <2>1 DEF SetupRow
  <2>3. setup' = row
    BY <1>3 DEF Setup!Adopt
  <2> HIDE DEF row
  <2>4. CASE disk.imports
    <3>1. disk' = [disk EXCEPT !.imports = TRUE, !.user.file = @] /\ changed' = changed
      BY <1>1, <1>3, <2>4 DEF Setup!Adopt
    <3>2. disk' = disk
      BY <1>1, <2>4, <3>1 DEF Disk, Setup!Files
    <3>3. QED
      BY <1>1, <2>2, <2>3, <3>1, <3>2, ShowsKeep
  <2>5. CASE ~disk.imports
    <3> DEFINE file == [disk.user EXCEPT !.file = "there"]
               d == [disk EXCEPT !.imports = TRUE, !.user = file]
    <3>1. disk' = d /\ changed' = TRUE
      BY <1>1, <1>3, <2>5 DEF Setup!Adopt
    <3>2. file \in Setup!Files
      BY <1>1 DEF Disk, Setup!Files
    <3> HIDE DEF file
    <3>3. d \in Disk /\ d["global"] = disk["global"] /\ d["project"] = disk["project"]
      BY <1>1, <3>2 DEF Disk
    <3>4. Setup!FilesAreRead'
      BY <1>1, <3>1, <3>3 DEF Setup!FilesAreRead, Setup!Targets
    <3> HIDE DEF d
    <3>5. QED
      BY <1>1, <2>2, <2>3, <3>1, <3>3, <3>4, WritingKeeps
  <2>6. QED
    BY <2>4, <2>5
<1>4. QED
  BY <1>2, <1>3

\* No session has loaded anything yet.
LEMMA SetupBegins == Setup!Init => Setup!SetupInv
<1> SUFFICES ASSUME Setup!Init PROVE Setup!SetupInv
  OBVIOUS
<1>1. disk \in Disk /\ disk["global"] = Setup!NoFile /\ disk["project"] = Setup!NoFile
  BY NamedFiles DEF Setup!Init, Disk
<1>2. seen \in [exists : [Setup!Targets -> BOOLEAN], any : BOOLEAN]
  BY <1>1, DiscoveryIsTyped DEF Setup!Init
<1>3. loaded \in [fields : {"none", "ours", "other"}, off : {"unset", "yes"}, imports : BOOLEAN]
  BY <1>1, EffectiveIsTyped DEF Setup!Init
<1>4. setup \in SetupRow /\ setup.at = "new" /\ setup.busy = "no" /\ setup.notice = "none"
  BY ClosedIsRow DEF Setup!Init, SetupRow
<1>5. Setup!TypeOK
  BY <1>1, <1>2, <1>3, <1>4 DEF Setup!Init, Setup!TypeOK, Disk, SetupRow
<1>6. Setup!FilesAreRead
  BY <1>1, NamedFiles DEF Setup!FilesAreRead, Setup!Targets
<1>7. Setup!EndsAreTrue /\ Setup!NoticeIsTrue /\ Setup!LoadedIsCurrent
  BY <1>4 DEF Setup!EndsAreTrue, Setup!NoticeIsTrue, Setup!LoadedIsCurrent
<1>8. QED
  BY <1>5, <1>6, <1>7 DEF Setup!SetupInv

\* Every step keeps it.
LEMMA SetupKeeps == Setup!SetupInv /\ (Setup!Next \/ UNCHANGED stp) => Setup!SetupInv'
<1> SUFFICES ASSUME Setup!SetupInv, Setup!Next \/ UNCHANGED stp PROVE Setup!SetupInv'
  OBVIOUS
<1>1. CASE UNCHANGED stp
  <2>1. Setup!InEffect(disk)' = Setup!InEffect(disk)
    BY <1>1 DEF stp, Setup!InEffect
  <2>2. QED
    BY <1>1, <2>1 DEF stp, Setup!SetupInv, Setup!TypeOK, Setup!FilesAreRead, Setup!EndsAreTrue, Setup!NoticeIsTrue, Setup!LoadedIsCurrent
<1>2. CASE Setup!Begin \/ Setup!Reload
  BY <1>2, BeginsKeeps
<1>3. ASSUME NEW t \in Setup!Targets, NEW f \in {Setup!Other, Setup!Bad}, Setup!Write(t, f) PROVE Setup!SetupInv'
  BY <1>3, WriteKeeps
<1>4. ASSUME NEW mode \in {"empty", "setup"}, Setup!Open(mode) PROVE Setup!SetupInv'
  BY <1>4, OpenSetupKeeps
<1>5. CASE \/ Setup!RunSetup \/ Setup!ShowImports \/ Setup!ShowPaths \/ Setup!ToggleImport
           \/ Setup!Back \/ Setup!Close \/ \E t \in Setup!Targets : Setup!SelectTarget(t)
  BY <1>5, KeysKeep
<1>6. CASE Setup!Fails({"empty", "setup", "imports"}) \/ Setup!Probed \/ Setup!OpenPath \/ Setup!Opened
  BY <1>6, BusyKeeps
<1>7. ASSUME NEW desktop \in BOOLEAN, NEW throws \in BOOLEAN, Setup!AddServer(desktop, throws) PROVE Setup!SetupInv'
  BY <1>7, AddingKeeps
<1>8. CASE Setup!Scaffold \/ Setup!Adopt
  BY <1>8, ScaffoldKeeps, AdoptKeeps
<1>9. QED
  BY <1>1, <1>2, <1>3, <1>4, <1>5, <1>6, <1>7, <1>8 DEF Setup!Next

\* A step of the panel or of the session leaves what others wrote in the targets.
LEMMA TargetsAreKept ==
  ASSUME Setup!SetupInv, Setup!Next, setup.at # "new", ~foreign' \/ foreign, NEW t \in Setup!Targets
  PROVE  /\ disk[t].fields # "none" => disk'[t].fields # "none"
         /\ disk[t].file = "bad" => disk'[t] = disk[t]
<1>1. disk \in Disk /\ Setup!FilesAreRead /\ setup \in SetupRow
  BY SetupParts
<1>2. CASE disk' = disk
  BY <1>2
<1>3. CASE \E u \in Setup!Targets, f \in {Setup!Other, Setup!Bad} : Setup!Write(u, f)
  BY <1>3 DEF Setup!Write
<1>4. CASE Setup!Begin
  BY <1>4 DEF Setup!Begin
<1>5. ASSUME NEW desktop \in BOOLEAN, NEW throws \in BOOLEAN, Setup!AddServer(desktop, throws)
      PROVE  /\ disk[t].fields # "none" => disk'[t].fields # "none"
             /\ disk[t].file = "bad" => disk'[t] = disk[t]
  <2> DEFINE u == IF desktop THEN "global" ELSE setup.target
  <2>1. u \in Setup!Targets
    BY <1>1 DEF SetupRow, Setup!Targets
  <2>2. disk' = [disk EXCEPT ![u] = Setup!Ours] /\ disk[u].file # "bad"
    BY <1>5 DEF Setup!AddServer, Setup!AddedTo
  <2> HIDE DEF u
  <2>3. disk'[u] = Setup!Ours /\ \A v \in Setup!Targets \ {u} : disk'[v] = disk[v]
    BY <1>1, <2>1, <2>2, NamedFiles, TargetIsWritten
  <2>4. QED
    BY <2>2, <2>3, NamedFiles
<1>6. CASE Setup!Scaffold
  <2> DEFINE u == setup.target
  <2>1. u \in Setup!Targets
    BY <1>1 DEF SetupRow
  <2>2. disk' = [disk EXCEPT ![u] = Setup!Empty] /\ disk[u].file = "absent"
    BY <1>6 DEF Setup!Scaffold
  <2> HIDE DEF u
  <2>3. disk'[u] = Setup!Empty /\ \A v \in Setup!Targets \ {u} : disk'[v] = disk[v]
    BY <1>1, <2>1, <2>2, NamedFiles, TargetIsWritten
  <2>4. disk[u].fields = "none"
    BY <1>1, <2>1, <2>2 DEF Setup!FilesAreRead
  <2>5. QED
    BY <2>2, <2>3, <2>4
<1>7. CASE Setup!Adopt /\ disk' # disk
  <2> DEFINE user == [disk.user EXCEPT !.file = IF disk.imports THEN @ ELSE "there"]
  <2>1. disk' = [disk EXCEPT !.imports = TRUE, !.user = user]
    BY <1>7 DEF Setup!Adopt
  <2> HIDE DEF user
  <2>2. disk'["global"] = disk["global"] /\ disk'["project"] = disk["project"]
    BY <1>1, <2>1 DEF Disk
  <2>3. QED
    BY <2>2 DEF Setup!Targets
<1>8. QED
  <2> DEFINE Kept == /\ disk[t].fields # "none" => disk'[t].fields # "none"
                     /\ disk[t].file = "bad" => disk'[t] = disk[t]
  <2>1. \A mode \in {"empty", "setup"} : Setup!Open(mode) => disk' = disk
    BY DEF Setup!Open
  <2>2. \A u \in Setup!Targets : Setup!SelectTarget(u) => disk' = disk
    BY DEF Setup!SelectTarget, Setup!Shows
  <2>3. Setup!RunSetup \/ Setup!ShowImports \/ Setup!ShowPaths \/ Setup!ToggleImport \/ Setup!Back \/ Setup!Close
        => disk' = disk
    BY DEF Setup!RunSetup, Setup!ShowImports, Setup!ShowPaths, Setup!ToggleImport, Setup!Back, Setup!Close, Setup!Shows
  <2>4. Setup!Reload \/ Setup!Fails({"empty", "setup", "imports"}) \/ Setup!Probed \/ Setup!OpenPath \/ Setup!Opened
        => disk' = disk
    BY DEF Setup!Reload, Setup!Fails, Setup!Probed, Setup!OpenPath, Setup!Opened
  <2>5. Kept
    <3>1. (disk' = disk => Kept) /\ (Setup!Begin => Kept) /\ (Setup!Scaffold => Kept) /\ (Setup!Adopt => Kept)
      BY <1>2, <1>4, <1>6, <1>7
    <3>2. \A desktop, throws \in BOOLEAN : Setup!AddServer(desktop, throws) => Kept
      BY <1>5
    <3> HIDE DEF Kept
    <3>3. (\E u \in Setup!Targets, f \in {Setup!Other, Setup!Bad} : Setup!Write(u, f)) => Kept
      BY <1>3 DEF Kept
    <3>4. QED
      BY <2>1, <2>2, <2>3, <2>4, <3>1, <3>2, <3>3 DEF Setup!Next
  <2>6. QED
    BY <2>5

\* SetupInv holds throughout, so NothingIsLost does.
LEMMA SetupInvariant == Spec => []Setup!SetupInv /\ Setup!NothingIsLost
<1>1. Init => Setup!SetupInv
  BY SetupBegins DEF Init
<1>2. Setup!SetupInv /\ [Next]_vars => Setup!SetupInv'
  <2> SUFFICES ASSUME Setup!SetupInv, [Next]_vars PROVE Setup!SetupInv'
    OBVIOUS
  <2>1. Setup!Next \/ UNCHANGED stp
    BY DEF Next, vars
  <2>2. QED
    BY <2>1, SetupKeeps
<1>3. Setup!SetupInv /\ [Next]_vars
      => [~foreign' \/ foreign =>
            \A t \in Setup!Targets :
              /\ disk[t].fields # "none" => disk'[t].fields # "none" \/ setup.at = "new"
              /\ disk[t].file = "bad" => disk'[t] = disk[t] \/ setup.at = "new"]_Setup!vars
  <2> SUFFICES ASSUME Setup!SetupInv, [Next]_vars, ~(UNCHANGED Setup!vars), ~foreign' \/ foreign,
                      setup.at # "new", NEW t \in Setup!Targets
               PROVE  /\ disk[t].fields # "none" => disk'[t].fields # "none"
                      /\ disk[t].file = "bad" => disk'[t] = disk[t]
    OBVIOUS
  <2>1. Setup!Next
    BY DEF Next, vars, stp, Setup!vars
  <2>2. QED
    BY <2>1, TargetsAreKept
<1>4. QED
  BY <1>1, <1>2, <1>3, PTL DEF Spec, Setup!NothingIsLost

-----------------------------------------------------------------------------
(* McpPanel *)

Bound == MaxReconnects \in Nat
PanelRow == [at : {"new", "closed", "open", "asking"}, listed : SUBSET DirectTool,
             direct : SUBSET DirectTool, was : SUBSET DirectTool, off : BOOLEAN, wasOff : BOOLEAN,
             dirty : BOOLEAN, status : {"ready", "connecting", "disabled", "blocked"},
             signing : BOOLEAN, reconnects : 0..MaxReconnects, discard : BOOLEAN]
Known == [off : {"unset", "yes", "no"}, direct : Panel!Selections]

\* What the invariant asks of a panel, `dirty` apart.
AlmostFits(row) ==
  /\ row.at \in {"open", "asking"} =>
       /\ row.direct \subseteq row.listed
       /\ row.was = row.listed \cap Panel!Configured(session.direct)
       /\ row.wasOff = (session.off = "yes")
       /\ row.wasOff => row.listed = {} /\ row.status \in {"disabled", "blocked"} /\ row.reconnects = 0 /\ ~row.signing
  /\ row.status = "connecting" => row.reconnects > 0
RowFits(row) ==
  AlmostFits(row) /\ (row.at \in {"open", "asking"} => row.dirty = (row.off # row.wasOff \/ row.direct # row.was))

\* The parts of the invariant.
LEMMA PanelParts ==
  ASSUME Panel!PanelInv
  PROVE  /\ files \in Panel!Layers /\ session \in Known /\ panel \in PanelRow /\ RowFits(panel)
         /\ reload \in BOOLEAN /\ edited \in BOOLEAN /\ Panel!LayersAreCurrent
BY DEF Panel!PanelInv, Panel!TypeOK, Panel!PanelIsConsistent, Panel!OffListsNothing, Panel!ConnectingEnds, Panel!Shown,
       PanelRow, Known, RowFits, AlmostFits

\* The parts make the invariant.
LEMMA PanelWhole ==
  ASSUME files \in Panel!Layers, session \in Known, panel \in PanelRow, RowFits(panel),
         origin \in {"none", "base", "mine", "over", "import"}, reload \in BOOLEAN, edited \in BOOLEAN,
         Panel!LayersAreCurrent
  PROVE  Panel!PanelInv
BY DEF Panel!PanelInv, Panel!TypeOK, Panel!PanelIsConsistent, Panel!OffListsNothing, Panel!ConnectingEnds, Panel!Shown,
       PanelRow, Known, RowFits, AlmostFits

\* What loading some layers makes.
LEMMA EffectiveIsKnown ==
  ASSUME NEW f \in Panel!Layers
  PROVE  Panel!Effective(f) \in Known
<1>1. /\ f.over \in Panel!Entry /\ f.mine \in Panel!Entry /\ f.base \in Panel!Entry
  BY DEF Panel!Layers
<1>2. /\ f.over.off \in {"unset", "yes", "no"} /\ f.mine.off \in {"unset", "yes", "no"} /\ f.base.off \in {"unset", "yes", "no"}
      /\ f.over.direct \in Panel!Selections /\ f.mine.direct \in Panel!Selections /\ f.base.direct \in Panel!Selections
  BY <1>1 DEF Panel!Entry
<1>3. Panel!Or(f.over.off, Panel!Or(f.mine.off, f.base.off, "unset"), "unset") \in {"unset", "yes", "no"}
  BY <1>2 DEF Panel!Or
<1>4. Panel!Or(f.over.direct, Panel!Or(f.mine.direct, f.base.direct, Panel!Unset), Panel!Unset) \in Panel!Selections
  BY <1>2 DEF Panel!Or
<1>5. QED
  BY <1>3, <1>4 DEF Panel!Effective, Known

\* A panel that is closed.
LEMMA ClosedFits ==
  ASSUME Bound
  PROVE  Panel!Closed \in PanelRow /\ Panel!Closed.at = "closed" /\ RowFits(Panel!Closed)
<1>1. Panel!Closed \in PanelRow
  <2>1. 0 \in 0..MaxReconnects
    BY DEF Bound
  <2>2. QED
    BY <2>1 DEF Panel!Closed, PanelRow
<1>2. QED
  BY <1>1 DEF Panel!Closed, RowFits, AlmostFits

\* A session has loaded the files.
LEMMA LoadsKeep ==
  ASSUME Bound, Panel!Load, files' \in Panel!Layers
  PROVE  Panel!PanelInv'
<1>1. /\ session' = Panel!Effective(files') /\ reload' = FALSE /\ edited' = FALSE /\ panel' = Panel!Closed /\ origin' = "none"
  BY DEF Panel!Load
<1>2. session' \in Known
  BY <1>1, EffectiveIsKnown
<1>3. panel' \in PanelRow /\ RowFits(panel)' /\ Panel!LayersAreCurrent'
  BY <1>1, ClosedFits DEF RowFits, AlmostFits, Panel!Closed, Panel!LayersAreCurrent, Panel!Shown
<1>4. QED
  BY <1>1, <1>2, <1>3 DEF Panel!PanelInv, Panel!TypeOK, Panel!PanelIsConsistent, Panel!OffListsNothing, Panel!ConnectingEnds, Panel!Shown,
       PanelRow, Known, RowFits, AlmostFits

\* A key or a callback changes only the panel.
LEMMA PanelTurns ==
  ASSUME Panel!PanelInv, NEW row \in PanelRow, RowFits(row), panel' = row,
         UNCHANGED <<files, session, origin, reload, edited>>,
         row.at \in {"open", "asking"} => Panel!Shown, panel.at = "new" => row.at = "new"
  PROVE  Panel!PanelInv'
<1>1. RowFits(panel)'
  BY DEF RowFits, AlmostFits, Panel!Configured
<1>2. Panel!LayersAreCurrent'
  BY PanelParts DEF Panel!LayersAreCurrent, Panel!Shown, Panel!Effective, Panel!Provenance
<1>3. Panel!TypeOK'
  BY DEF Panel!PanelInv, Panel!TypeOK, PanelRow
<1>4. QED
  BY <1>1, <1>2, <1>3 DEF Panel!PanelInv, Panel!PanelIsConsistent, Panel!OffListsNothing, Panel!ConnectingEnds, Panel!Shown,
       RowFits, AlmostFits

\* updateDirty() makes a panel fit.
LEMMA MarkedFits ==
  ASSUME NEW row \in PanelRow, AlmostFits(row)
  PROVE  Panel!Marked(row) \in PanelRow /\ Panel!Marked(row).at = row.at /\ RowFits(Panel!Marked(row))
         /\ Panel!Marked(row).direct = row.direct /\ Panel!Marked(row).listed = row.listed
<1> DEFINE turned == row.off # row.wasOff \/ row.direct # row.was
           it == [row EXCEPT !.dirty = turned]
<1>1. Panel!Marked(row) = it
  BY DEF Panel!Marked
<1>2. turned \in BOOLEAN
  OBVIOUS
<1> HIDE DEF turned
<1>3. /\ it \in PanelRow /\ it.at = row.at /\ it.direct = row.direct /\ it.listed = row.listed /\ it.was = row.was
      /\ it.off = row.off /\ it.wasOff = row.wasOff /\ it.status = row.status /\ it.signing = row.signing
      /\ it.reconnects = row.reconnects /\ it.dirty = turned
  BY <1>2 DEF PanelRow
<1> HIDE DEF it
<1>4. RowFits(it)
  BY <1>3 DEF RowFits, AlmostFits, turned
<1>5. QED
  BY <1>1, <1>3, <1>4

\* The files the session starts with, a reload and an edit.
LEMMA FilesKeep ==
  ASSUME Bound, Panel!PanelInv,
         Panel!Begin \/ Panel!Reload \/ Panel!DropsOverride \/ Panel!SwitchesBase \/ \E off \in BOOLEAN : Panel!Disables(off)
  PROVE  Panel!PanelInv'
<1> USE PanelParts
<1>1. CASE Panel!Reload
  BY <1>1, LoadsKeep DEF Panel!Reload
<1>2. CASE Panel!Begin
  <2>1. PICK s \in Panel!Setups : files' = s /\ Panel!Load
    BY <1>2 DEF Panel!Begin
  <2>2. Panel!Absent \in Panel!Entry /\ {Panel!Unset, Panel!All, Panel!Lazy, Panel!Off} \subseteq Panel!Selections
    BY DEF Panel!Absent, Panel!Entry, Panel!Selections
  <2>3. \A off \in {"unset", "yes", "no"} : [Panel!Absent EXCEPT !.off = off] \in Panel!Entry
    BY <2>2 DEF Panel!Entry
  <2>4. \A d \in Panel!Selections : [Panel!Absent EXCEPT !.direct = d] \in Panel!Entry
    BY <2>2 DEF Panel!Entry
  <2>5. [Panel!Absent EXCEPT !.more = TRUE] \in Panel!Entry
    BY <2>2 DEF Panel!Entry
  <2>6. \A t \in DirectTool : Panel!Listing({t}) \in Panel!Selections
    BY DEF Panel!Selections
  <2>7. s \in Panel!Layers
    <3> HIDE DEF Panel!Absent, Panel!Unset, Panel!Lazy, Panel!Off, Panel!All, Panel!Listing
    <3>1. CASE s \in [kind : {"own", "import", "host", "plugin"},
                base : {[Panel!Absent EXCEPT !.off = off] : off \in {"unset", "yes"}}, mine : {Panel!Absent},
                over : {[Panel!Absent EXCEPT !.off = off] : off \in {"unset", "yes", "no"}}, default : {Panel!Unset}]
      BY <2>2, <2>3, <3>1 DEF Panel!Layers
    <3>2. CASE s \in [kind : {"own"}, base : {[Panel!Absent EXCEPT !.direct = d] : d \in {Panel!Unset, Panel!Lazy}},
                mine : {Panel!Absent}, over : {Panel!Absent, [Panel!Absent EXCEPT !.more = TRUE],
                [Panel!Absent EXCEPT !.direct = Panel!Off]}, default : {Panel!Unset, Panel!All}]
      <4>1. {[Panel!Absent EXCEPT !.direct = d] : d \in {Panel!Unset, Panel!Lazy}} \subseteq Panel!Entry
        BY <2>2, <2>4
      <4>2. {Panel!Absent, [Panel!Absent EXCEPT !.more = TRUE], [Panel!Absent EXCEPT !.direct = Panel!Off]} \subseteq Panel!Entry
        BY <2>2, <2>4, <2>5
      <4>3. {Panel!Unset, Panel!All} \subseteq Panel!Selections
        BY <2>2
      <4>4. QED
        BY <2>2, <3>2, <4>1, <4>2, <4>3 DEF Panel!Layers
    <3>3. CASE s \in [kind : {"import"}, base : {Panel!Absent}, over : {Panel!Absent}, default : {Panel!Unset},
                mine : [off : {"unset", "yes"}, direct : {Panel!Off} \cup {Panel!Listing({t}) : t \in DirectTool},
                        more : {TRUE}]]
      <4>1. [off : {"unset", "yes"}, direct : {Panel!Off} \cup {Panel!Listing({t}) : t \in DirectTool},
             more : {TRUE}] \subseteq Panel!Entry
        BY <2>2, <2>6 DEF Panel!Entry
      <4>2. QED
        BY <2>2, <3>3, <4>1 DEF Panel!Layers
    <3>4. QED
      BY <3>1, <3>2, <3>3, Zenon DEF Panel!Setups
  <2>8. QED
    BY <2>1, <2>7, LoadsKeep
<1>3. ASSUME NEW f \in Panel!Layers, f.default = files.default, Panel!Edit(f) PROVE Panel!PanelInv'
  <2>1. files' = f /\ edited' = TRUE /\ panel.at # "new" /\ ~reload /\ UNCHANGED <<session, origin, panel, reload>>
    BY <1>3 DEF Panel!Edit
  <2>2. RowFits(panel)'
    BY <1>3, <2>1 DEF RowFits, AlmostFits, Panel!Configured
  <2>3. Panel!LayersAreCurrent'
    BY <2>1 DEF Panel!LayersAreCurrent, Panel!Shown
  <2>4. Panel!TypeOK'
    BY <1>3, <2>1 DEF Panel!PanelInv, Panel!TypeOK
  <2>5. QED
    BY <2>2, <2>3, <2>4 DEF Panel!PanelInv, Panel!PanelIsConsistent, Panel!OffListsNothing, Panel!ConnectingEnds, Panel!Shown,
         RowFits, AlmostFits
<1>4. ASSUME NEW off \in BOOLEAN, Panel!Disables(off) PROVE Panel!PanelInv'
  <2> DEFINE to == IF off THEN "yes" ELSE IF Panel!LowerOff(files) = "yes" THEN "no" ELSE "unset"
             over == [files.over EXCEPT !.off = to]
             f == [files EXCEPT !.over = over]
  <2>1. to \in {"unset", "yes", "no"} /\ Panel!Edit(f)
    BY <1>4 DEF Panel!Disables, Panel!Overridden
  <2> HIDE DEF to
  <2>2. over \in Panel!Entry
    BY <2>1 DEF Panel!Layers, Panel!Entry
  <2> HIDE DEF over
  <2>3. f \in Panel!Layers /\ f.default = files.default
    BY <2>2 DEF Panel!Layers
  <2> HIDE DEF f
  <2>4. QED
    BY <1>3, <2>1, <2>3
<1>5. CASE Panel!DropsOverride
  <2> DEFINE f == [files EXCEPT !.over = Panel!Absent]
  <2>1. Panel!Absent \in Panel!Entry
    BY DEF Panel!Absent, Panel!Entry, Panel!Selections
  <2>2. f \in Panel!Layers /\ f.default = files.default
    BY <2>1 DEF Panel!Layers
  <2>3. Panel!Edit(f)
    BY <1>5 DEF Panel!DropsOverride
  <2> HIDE DEF f
  <2>4. QED
    BY <1>3, <2>2, <2>3
<1>6. CASE Panel!SwitchesBase
  <2> DEFINE to == IF files.base.off = "yes" THEN "unset" ELSE "yes"
             base == [files.base EXCEPT !.off = to]
             f == [files EXCEPT !.base = base]
  <2>1. to \in {"unset", "yes", "no"} /\ Panel!Edit(f)
    BY <1>6 DEF Panel!SwitchesBase
  <2> HIDE DEF to
  <2>2. base \in Panel!Entry
    BY <2>1 DEF Panel!Layers, Panel!Entry
  <2> HIDE DEF base
  <2>3. f \in Panel!Layers /\ f.default = files.default
    BY <2>2 DEF Panel!Layers
  <2> HIDE DEF f
  <2>4. QED
    BY <1>3, <2>1, <2>3
<1>7. QED
  BY <1>1, <1>2, <1>4, <1>5, <1>6

\* The panel opens with the tools the cache lists.
LEMMA OpenPanelKeeps ==
  ASSUME Bound, Panel!PanelInv, NEW listed_ \in SUBSET DirectTool, NEW blocked \in BOOLEAN, Panel!Open(listed_, blocked)
  PROVE  Panel!PanelInv'
<1> DEFINE off == session.off = "yes"
           tools == IF off THEN {} ELSE listed_
           direct == tools \cap Panel!Configured(session.direct)
           status == IF blocked THEN "blocked" ELSE IF off THEN "disabled" ELSE "ready"
           row == [Panel!Closed EXCEPT !.at = "open", !.listed = tools, !.direct = direct,
                     !.was = direct, !.off = off, !.wasOff = off, !.status = status]
<1>1. /\ panel.at = "closed" /\ ~reload /\ origin' = Panel!Provenance(files) /\ panel' = row
      /\ UNCHANGED <<files, session, reload, edited>>
  BY DEF Panel!Open
<1>2. /\ off \in BOOLEAN /\ off = (session.off = "yes") /\ tools \in SUBSET DirectTool /\ (off => tools = {})
      /\ direct = tools \cap Panel!Configured(session.direct) /\ direct \in SUBSET DirectTool
      /\ status \in {"ready", "disabled", "blocked"} /\ (off => status # "ready")
  OBVIOUS
<1> HIDE DEF off, tools, direct, status
<1>3. /\ row \in PanelRow /\ row.at = "open" /\ row.listed = tools /\ row.direct = direct /\ row.was = direct
      /\ row.off = off /\ row.wasOff = off /\ row.status = status
  BY <1>2, ClosedFits DEF PanelRow
<1>4. row.dirty = FALSE /\ row.signing = FALSE /\ row.reconnects = 0
  BY DEF Panel!Closed
<1> HIDE DEF row
<1>5. RowFits(row)
  BY <1>2, <1>3, <1>4 DEF RowFits, AlmostFits
<1>6. RowFits(panel)'
  BY <1>1, <1>5 DEF RowFits, AlmostFits, Panel!Configured
<1>7. Panel!TypeOK'
  <2>1. origin' \in {"none", "base", "mine", "over", "import"}
    BY <1>1 DEF Panel!Provenance
  <2>2. QED
    BY <1>1, <1>3, <2>1 DEF Panel!PanelInv, Panel!TypeOK, PanelRow
<1>8. Panel!LayersAreCurrent'
  BY <1>1, <1>3, PanelParts DEF Panel!LayersAreCurrent, Panel!Shown, Panel!Effective, Panel!Provenance
<1>9. QED
  BY <1>6, <1>7, <1>8 DEF Panel!PanelInv, Panel!PanelIsConsistent, Panel!OffListsNothing, Panel!ConnectingEnds, Panel!Shown,
       RowFits, AlmostFits

\* The user turns switches.
LEMMA SwitchesKeep ==
  ASSUME Panel!PanelInv, Panel!ToggleServer \/ Panel!Disable \/ \E t \in DirectTool : Panel!ToggleTool(t)
  PROVE  Panel!PanelInv'
<1>1. panel \in PanelRow /\ RowFits(panel) /\ panel.at = "open"
  BY PanelParts DEF Panel!ToggleServer, Panel!Disable, Panel!ToggleTool
<1>2. ASSUME NEW turned \in SUBSET panel.listed, Panel!Shows(Panel!Marked([panel EXCEPT !.direct = turned]))
      PROVE  Panel!PanelInv'
  <2> DEFINE row == [panel EXCEPT !.direct = turned]
  <2>1. row \in PanelRow /\ AlmostFits(row) /\ row.at = panel.at
    <3>1. turned \in SUBSET DirectTool
      BY <1>1 DEF PanelRow
    <3>2. /\ row \in PanelRow /\ row.at = panel.at /\ row.direct = turned /\ row.listed = panel.listed /\ row.was = panel.was
          /\ row.wasOff = panel.wasOff /\ row.status = panel.status /\ row.signing = panel.signing /\ row.reconnects = panel.reconnects
      BY <1>1, <3>1 DEF PanelRow
    <3> HIDE DEF row
    <3>3. QED
      BY <1>1, <3>2 DEF RowFits, AlmostFits
  <2>2. Panel!Shows(Panel!Marked(row))
    BY <1>2
  <2> HIDE DEF row
  <2>3. Panel!Marked(row) \in PanelRow /\ Panel!Marked(row).at = panel.at /\ RowFits(Panel!Marked(row))
    BY <2>1, MarkedFits
  <2>4. QED
    BY <1>1, <2>2, <2>3, PanelTurns DEF Panel!Shows, Panel!Shown
<1>3. ASSUME NEW t \in DirectTool, Panel!ToggleTool(t) PROVE Panel!PanelInv'
  <2> DEFINE turned == IF t \in panel.direct THEN panel.direct \ {t} ELSE panel.direct \cup {t}
  <2>1. turned \in SUBSET panel.listed
    BY <1>1, <1>3 DEF RowFits, AlmostFits, Panel!ToggleTool
  <2>2. Panel!Shows(Panel!Marked([panel EXCEPT !.direct = turned]))
    BY <1>3 DEF Panel!ToggleTool
  <2> HIDE DEF turned
  <2>3. QED
    BY <1>2, <2>1, <2>2
<1>4. CASE Panel!ToggleServer
  <2> DEFINE turned == IF panel.listed \subseteq panel.direct THEN {} ELSE panel.listed
  <2>1. turned \in SUBSET panel.listed
    OBVIOUS
  <2>2. Panel!Shows(Panel!Marked([panel EXCEPT !.direct = turned]))
    BY <1>4 DEF Panel!ToggleServer
  <2> HIDE DEF turned
  <2>3. QED
    BY <1>2, <2>1, <2>2
<1>5. CASE Panel!Disable
  <2> DEFINE row == [panel EXCEPT !.off = ~@]
  <2>1. /\ row \in PanelRow /\ row.at = panel.at /\ row.direct = panel.direct /\ row.listed = panel.listed /\ row.was = panel.was
        /\ row.wasOff = panel.wasOff /\ row.status = panel.status /\ row.signing = panel.signing /\ row.reconnects = panel.reconnects
    BY <1>1 DEF PanelRow
  <2>2. Panel!Shows(Panel!Marked(row))
    BY <1>5 DEF Panel!Disable
  <2> HIDE DEF row
  <2>3. AlmostFits(row)
    BY <1>1, <2>1 DEF RowFits, AlmostFits
  <2>4. Panel!Marked(row) \in PanelRow /\ Panel!Marked(row).at = panel.at /\ RowFits(Panel!Marked(row))
    BY <2>1, <2>3, MarkedFits
  <2>5. QED
    BY <1>1, <2>2, <2>4, PanelTurns DEF Panel!Shows, Panel!Shown
<1>6. QED
  BY <1>3, <1>4, <1>5

\* A change of the status, of the sign-in and of the reconnects in flight that leaves the rest.
LEMMA StatusTurns ==
  ASSUME Panel!PanelInv, Panel!Shown, NEW row \in PanelRow, panel' = row, UNCHANGED <<files, session, origin, reload, edited>>,
         row.at \in {"open", "asking"}, row.listed = panel.listed, row.direct = panel.direct, row.was = panel.was,
         row.off = panel.off, row.wasOff = panel.wasOff, row.dirty = panel.dirty,
         panel.wasOff => row.status = panel.status /\ row.reconnects = panel.reconnects /\ row.signing = panel.signing,
         row.status = "connecting" => row.reconnects > 0
  PROVE  Panel!PanelInv'
<1>1. RowFits(row)
  BY PanelParts DEF Panel!Shown, RowFits, AlmostFits
<1>2. QED
  BY <1>1, PanelTurns DEF Panel!Shown

\* Reconnects and sign-ins begin and end.
LEMMA ConnectingKeeps ==
  ASSUME Bound, Panel!PanelInv,
         \/ Panel!Reconnect \/ Panel!ReconnectFails \/ Panel!Authenticate
         \/ Panel!KeepEditing \/ Panel!Arrow \/ \E ok \in BOOLEAN : Panel!SignedIn(ok)
  PROVE  Panel!PanelInv'
<1>1. panel \in PanelRow /\ RowFits(panel) /\ panel.at \in {"open", "asking"} /\ Panel!Shown /\ panel.reconnects \in 0..MaxReconnects
  BY PanelParts DEF Panel!Shown, Panel!Reconnect, Panel!ReconnectFails, Panel!Authenticate, Panel!KeepEditing, Panel!Arrow,
     Panel!SignedIn, PanelRow
<1>2. panel.wasOff => panel.status \in {"disabled", "blocked"} /\ panel.reconnects = 0 /\ ~panel.signing
  BY <1>1 DEF RowFits, AlmostFits
<1>3. panel.status = "connecting" => panel.reconnects > 0
  BY <1>1 DEF RowFits, AlmostFits
<1> DEFINE Like(row) == /\ row \in PanelRow /\ row.at \in {"open", "asking"} /\ row.listed = panel.listed
                        /\ row.direct = panel.direct /\ row.was = panel.was
                        /\ row.off = panel.off /\ row.wasOff = panel.wasOff /\ row.dirty = panel.dirty
<1> DEFINE With(status, signing, reconnects) ==
             [panel EXCEPT !.status = status, !.signing = signing, !.reconnects = reconnects]
<1>4. \A status \in {"ready", "connecting", "disabled", "blocked"}, signing \in BOOLEAN, reconnects \in 0..MaxReconnects :
        /\ Like(With(status, signing, reconnects)) /\ With(status, signing, reconnects).status = status
        /\ With(status, signing, reconnects).signing = signing /\ With(status, signing, reconnects).reconnects = reconnects
  <2> SUFFICES ASSUME NEW status \in {"ready", "connecting", "disabled", "blocked"}, NEW signing \in BOOLEAN,
                      NEW reconnects \in 0..MaxReconnects
               PROVE  /\ Like(With(status, signing, reconnects)) /\ With(status, signing, reconnects).status = status
                      /\ With(status, signing, reconnects).signing = signing /\ With(status, signing, reconnects).reconnects = reconnects
    <3> HIDE DEF Like, With
    <3>1. QED
      OBVIOUS
  <2> DEFINE row == [panel EXCEPT !.status = status, !.signing = signing, !.reconnects = reconnects]
  <2>1. Like(row) /\ row.status = status /\ row.signing = signing /\ row.reconnects = reconnects
    BY <1>1 DEF PanelRow
  <2>2. With(status, signing, reconnects) = row
    OBVIOUS
  <2> HIDE DEF Like, With, row
  <2>3. QED
    BY <2>1, <2>2
<1>5. panel = With(panel.status, panel.signing, panel.reconnects) /\ panel.signing \in BOOLEAN
      /\ panel.status \in {"ready", "connecting", "disabled", "blocked"}
  BY <1>1 DEF PanelRow
<1> HIDE DEF With
<1>6. ASSUME NEW status \in {"ready", "connecting", "disabled", "blocked"}, NEW signing \in BOOLEAN,
             NEW reconnects \in 0..MaxReconnects,
             panel' = With(status, signing, reconnects),
             UNCHANGED <<files, session, origin, reload, edited>>,
             panel.wasOff => status = panel.status /\ reconnects = panel.reconnects /\ signing = panel.signing,
             status = "connecting" => reconnects > 0
      PROVE  Panel!PanelInv'
  <2> DEFINE row == With(status, signing, reconnects)
  <2>1. Like(row) /\ row.status = status /\ row.signing = signing /\ row.reconnects = reconnects
    BY <1>4
  <2>2. panel' = row
    BY <1>6
  <2> HIDE DEF row
  <2>3. QED
    BY <1>1, <1>6, <2>1, <2>2, StatusTurns
<1>7. CASE Panel!Reconnect
  <2>1. panel' = Panel!Reconnecting(panel) /\ panel.reconnects < MaxReconnects /\ UNCHANGED <<files, session, origin, reload, edited>>
    BY <1>7 DEF Panel!Reconnect, Panel!Shows
  <2>2. panel.reconnects + 1 \in 0..MaxReconnects /\ panel.reconnects + 1 > 0
    BY <1>1, <2>1 DEF Bound
  <2>3. CASE panel.status = "ready"
    <3>1. panel' = [panel EXCEPT !.status = "connecting", !.reconnects = panel.reconnects + 1]
      BY <1>1, <2>1, <2>3 DEF Panel!Reconnecting, PanelRow
    <3>2. panel' = With("connecting", panel.signing, panel.reconnects + 1)
      BY <1>1, <3>1 DEF With, PanelRow
    <3>3. QED
      BY <1>2, <1>5, <1>6, <2>1, <2>2, <2>3, <3>2
  <2>4. CASE panel.status # "ready"
    <3>1. panel' = panel
      BY <2>1, <2>4 DEF Panel!Reconnecting
    <3>2. QED
      BY <1>1, <1>3, <1>5, <1>6, <2>1, <3>1
  <2>5. QED
    BY <2>3, <2>4
<1>8. CASE Panel!ReconnectFails
  <2>1. panel' = [panel EXCEPT !.status = "ready", !.reconnects = panel.reconnects - 1] /\ panel.reconnects > 0
        /\ UNCHANGED <<files, session, origin, reload, edited>>
    BY <1>8 DEF Panel!ReconnectFails, Panel!Shows
  <2>2. panel.reconnects - 1 \in 0..MaxReconnects
    BY <1>1, <2>1 DEF Bound
  <2>3. panel' = With("ready", panel.signing, panel.reconnects - 1)
    BY <1>1, <2>1 DEF With, PanelRow
  <2>4. QED
    BY <1>2, <1>5, <1>6, <2>1, <2>2, <2>3
<1>9. CASE Panel!Authenticate
  <2>1. panel' = [panel EXCEPT !.signing = TRUE] /\ panel.status = "ready" /\ UNCHANGED <<files, session, origin, reload, edited>>
    BY <1>9 DEF Panel!Authenticate, Panel!Shows
  <2>2. panel' = With("ready", TRUE, panel.reconnects)
    BY <1>1, <2>1 DEF With, PanelRow
  <2>3. QED
    BY <1>1, <1>2, <1>6, <2>1, <2>2
<1>10. ASSUME NEW ok \in BOOLEAN, Panel!SignedIn(ok) PROVE Panel!PanelInv'
  <2> DEFINE p == [panel EXCEPT !.signing = FALSE, !.status = "ready"]
  <2>1. /\ panel' = (IF ok THEN Panel!Reconnecting(p) ELSE p) /\ panel.signing /\ (ok => panel.reconnects < MaxReconnects)
        /\ UNCHANGED <<files, session, origin, reload, edited>>
    BY <1>10 DEF Panel!SignedIn, Panel!Shows
  <2>2. p = With("ready", FALSE, panel.reconnects) /\ p.status = "ready"
    BY <1>1 DEF With, PanelRow
  <2>3. Panel!Reconnecting(p) = With("connecting", FALSE, panel.reconnects + 1)
    <3>1. Panel!Reconnecting(p) = [p EXCEPT !.status = "connecting", !.reconnects = p.reconnects + 1] /\ p.reconnects = panel.reconnects
      BY <1>1, <2>2 DEF Panel!Reconnecting, PanelRow
    <3>2. QED
      BY <1>1, <3>1 DEF With, PanelRow
  <2> HIDE DEF p
  <2>4. CASE ok
    <3>1. panel.reconnects + 1 \in 0..MaxReconnects /\ panel.reconnects + 1 > 0
      BY <1>1, <2>1, <2>4 DEF Bound
    <3>2. QED
      BY <1>2, <1>6, <2>1, <2>3, <2>4, <3>1
  <2>5. CASE ~ok
    BY <1>1, <1>2, <1>6, <2>1, <2>2, <2>5
  <2>6. QED
    BY <2>4, <2>5
<1>11. CASE Panel!KeepEditing \/ Panel!Arrow
  <2>1. \E at_ \in {"open", "asking"}, discard \in BOOLEAN :
          panel' = [panel EXCEPT !.at = at_, !.discard = discard] /\ UNCHANGED <<files, session, origin, reload, edited>>
    <3>1. panel.discard \in BOOLEAN /\ panel = [panel EXCEPT !.discard = panel.discard] /\ panel = [panel EXCEPT !.at = panel.at]
      BY <1>1 DEF PanelRow
    <3>2. CASE Panel!KeepEditing
      <4>1. panel' = [panel EXCEPT !.at = "open", !.discard = panel.discard] /\ UNCHANGED <<files, session, origin, reload, edited>>
        BY <1>1, <3>2 DEF Panel!KeepEditing, Panel!Shows, PanelRow
      <4>2. QED
        BY <3>1, <4>1
    <3>3. CASE Panel!Arrow
      <4>1. panel' = [panel EXCEPT !.at = "asking", !.discard = ~panel.discard] /\ UNCHANGED <<files, session, origin, reload, edited>>
        BY <1>1, <3>3 DEF Panel!Arrow, Panel!Shows, PanelRow
      <4>2. (~panel.discard) \in BOOLEAN
        OBVIOUS
      <4>3. QED
        BY <4>1, <4>2
    <3>4. QED
      BY <1>11, <3>2, <3>3
  <2>2. PICK at_ \in {"open", "asking"}, discard \in BOOLEAN :
          panel' = [panel EXCEPT !.at = at_, !.discard = discard] /\ UNCHANGED <<files, session, origin, reload, edited>>
    BY <2>1
  <2> DEFINE row == [panel EXCEPT !.at = at_, !.discard = discard]
  <2>3. Like(row) /\ row.status = panel.status /\ row.signing = panel.signing /\ row.reconnects = panel.reconnects
    <3>1. at_ \in {"new", "closed", "open", "asking"}
      OBVIOUS
    <3>2. row \in PanelRow
      BY <1>1, <3>1 DEF PanelRow
    <3>3. row.at = at_
      BY <1>1 DEF PanelRow
    <3>4. /\ row.listed = panel.listed /\ row.direct = panel.direct /\ row.was = panel.was
          /\ row.off = panel.off /\ row.wasOff = panel.wasOff /\ row.dirty = panel.dirty
      BY <1>1 DEF PanelRow
    <3>5. row.status = panel.status /\ row.signing = panel.signing /\ row.reconnects = panel.reconnects
      BY <1>1 DEF PanelRow
    <3> HIDE DEF row
    <3>6. QED
      BY <3>2, <3>3, <3>4, <3>5
  <2>4. panel' = row
    BY <2>2
  <2> HIDE DEF row
  <2>5. QED
    BY <1>1, <1>3, <2>2, <2>3, <2>4, StatusTurns
<1>12. QED
  BY <1>7, <1>8, <1>9, <1>10, <1>11

\* A list arrives: a tool the panel knows keeps its switch.
LEMMA ReconnectedKeeps ==
  ASSUME Bound, Panel!PanelInv, NEW listed_ \in SUBSET DirectTool, Panel!Reconnected(listed_)
  PROVE  /\ Panel!PanelInv'
         /\ panel'.direct \cap panel.listed = panel.direct \cap panel'.listed
<1> DEFINE p == [panel EXCEPT !.status = "ready", !.reconnects = @ - 1]
           fresh == (listed_ \ panel.listed) \cap Panel!Configured(session.direct)
           direct == (panel.direct \cap listed_) \cup fresh
           was == (panel.was \cap listed_) \cup fresh
           row == [p EXCEPT !.listed = listed_, !.direct = direct, !.was = was]
<1>1. /\ panel \in PanelRow /\ RowFits(panel) /\ panel.at \in {"open", "asking"} /\ Panel!Shown
      /\ panel.reconnects \in 0..MaxReconnects /\ panel.reconnects > 0
  BY PanelParts DEF Panel!Shown, Panel!Reconnected, PanelRow
<1>2. ~panel.wasOff
  BY <1>1 DEF RowFits, AlmostFits
<1>3. /\ p \in PanelRow /\ p.at = panel.at /\ p.listed = panel.listed /\ p.direct = panel.direct /\ p.was = panel.was
      /\ p.wasOff = panel.wasOff /\ p.status = "ready"
  <2>1. panel.reconnects - 1 \in 0..MaxReconnects
    BY <1>1 DEF Bound
  <2>2. QED
    BY <1>1, <2>1 DEF PanelRow
<1> HIDE DEF p
<1>4. Panel!Rebuilt(p, listed_) = Panel!Marked(row)
  BY <1>3 DEF Panel!Rebuilt
<1>5. fresh \in SUBSET DirectTool /\ direct \in SUBSET DirectTool /\ was \in SUBSET DirectTool
  BY <1>1 DEF PanelRow
<1>6. /\ direct \subseteq listed_ /\ was = listed_ \cap Panel!Configured(session.direct)
      /\ direct \cap panel.listed = panel.direct \cap listed_
  BY <1>1 DEF RowFits, AlmostFits
<1> HIDE DEF fresh, direct, was
<1>7. /\ row \in PanelRow /\ row.at = panel.at /\ row.listed = listed_ /\ row.direct = direct /\ row.was = was
      /\ row.wasOff = panel.wasOff /\ row.status = "ready"
  BY <1>3, <1>5 DEF PanelRow
<1> HIDE DEF row
<1>8. AlmostFits(row)
  BY <1>1, <1>2, <1>6, <1>7 DEF RowFits, AlmostFits
<1>9. /\ Panel!Marked(row) \in PanelRow /\ Panel!Marked(row).at = panel.at /\ RowFits(Panel!Marked(row))
      /\ Panel!Marked(row).direct = direct /\ Panel!Marked(row).listed = listed_
  BY <1>7, <1>8, MarkedFits
<1>10. panel' = Panel!Marked(row) /\ UNCHANGED <<files, session, origin, reload, edited>>
  BY <1>4 DEF Panel!Reconnected, Panel!Shows, p
<1>11. Panel!PanelInv'
  BY <1>1, <1>9, <1>10, PanelTurns
<1>12. QED
  BY <1>6, <1>9, <1>10, <1>11

\* The panel is left, or asks whether it may be.
LEMMA LeavingPanelKeeps ==
  ASSUME Bound, Panel!PanelInv, Panel!Cancel \/ Panel!Escape
  PROVE  Panel!PanelInv'
<1>1. panel \in PanelRow /\ RowFits(panel) /\ panel.at \in {"open", "asking"} /\ Panel!Shown
  BY PanelParts DEF Panel!Shown, Panel!Cancel, Panel!Escape
<1>2. CASE panel' = Panel!Closed /\ UNCHANGED <<files, session, origin, reload, edited>>
  BY <1>1, <1>2, ClosedFits, PanelTurns
<1>3. CASE panel' = [panel EXCEPT !.at = "asking", !.discard = FALSE] /\ UNCHANGED <<files, session, origin, reload, edited>>
  <2> DEFINE row == [panel EXCEPT !.at = "asking", !.discard = FALSE]
  <2>1. row \in PanelRow /\ row.at = "asking"
    BY <1>1 DEF PanelRow
  <2>2. /\ row.listed = panel.listed /\ row.direct = panel.direct /\ row.was = panel.was
        /\ row.off = panel.off /\ row.wasOff = panel.wasOff /\ row.dirty = panel.dirty
    BY <1>1 DEF PanelRow
  <2>3. row.status = panel.status /\ row.signing = panel.signing /\ row.reconnects = panel.reconnects
    BY <1>1 DEF PanelRow
  <2>4. panel' = row
    BY <1>3
  <2> HIDE DEF row
  <2>5. panel.status = "connecting" => panel.reconnects > 0
    BY <1>1 DEF RowFits, AlmostFits
  <2>6. QED
    BY <1>1, <1>3, <2>1, <2>2, <2>3, <2>4, <2>5, StatusTurns
<1>4. QED
  BY <1>2, <1>3 DEF Panel!Cancel, Panel!Escape, Panel!Shows

\* What is chosen is a selection that is set.
LEMMA ChosenIsSet ==
  ASSUME panel \in PanelRow
  PROVE  Panel!Chosen \in Panel!Selections /\ Panel!Chosen # Panel!Unset
<1>1. panel.direct \in SUBSET DirectTool
  BY DEF PanelRow
<1>2. Panel!Listing(panel.direct) \in Panel!Selections /\ Panel!Listing(panel.direct) # Panel!Unset
  BY <1>1 DEF Panel!Selections, Panel!Listing, Panel!Unset
<1>3. /\ Panel!All \in Panel!Selections /\ Panel!All # Panel!Unset
      /\ Panel!Off \in Panel!Selections /\ Panel!Off # Panel!Unset
  BY DEF Panel!Selections, Panel!All, Panel!Off, Panel!Unset
<1>4. QED
  BY <1>2, <1>3 DEF Panel!Chosen

\* The layer that says where the server comes from.
LEMMA ProvenanceIs ==
  ASSUME NEW f \in Panel!Layers
  PROVE  /\ Panel!Provenance(f) = "over" => f.over # Panel!Absent
         /\ Panel!Provenance(f) = "mine" => f.over = Panel!Absent /\ f.mine # Panel!Absent
         /\ Panel!Provenance(f) \in {"base", "import", "none"} => f.over = Panel!Absent /\ f.mine = Panel!Absent
         /\ Panel!Provenance(f) = "none" => f.kind = "plugin"
         /\ f.kind = "plugin" /\ f.over = Panel!Absent /\ f.mine = Panel!Absent => Panel!Provenance(f) = "none"
<1>1. f.kind \in {"own", "import", "host", "plugin"}
  BY DEF Panel!Layers
<1>2. CASE f.over # Panel!Absent
  <2>1. Panel!Provenance(f) = "over"
    BY <1>2 DEF Panel!Provenance
  <2>2. QED
    BY <1>2, <2>1
<1>3. CASE f.over = Panel!Absent /\ f.mine # Panel!Absent
  <2>1. Panel!Provenance(f) = "mine"
    BY <1>3 DEF Panel!Provenance
  <2>2. QED
    BY <1>3, <2>1
<1>4. CASE f.over = Panel!Absent /\ f.mine = Panel!Absent
  <2>1. CASE f.kind = "own"
    <3>1. Panel!Provenance(f) = "base"
      BY <1>4, <2>1 DEF Panel!Provenance
    <3>2. QED
      BY <1>4, <2>1, <3>1
  <2>2. CASE f.kind = "plugin"
    <3>1. Panel!Provenance(f) = "none"
      BY <1>4, <2>2 DEF Panel!Provenance
    <3>2. QED
      BY <1>4, <2>2, <3>1
  <2>3. CASE f.kind \in {"import", "host"}
    <3>1. Panel!Provenance(f) = "import"
      BY <1>4, <2>3 DEF Panel!Provenance
    <3>2. QED
      BY <1>4, <2>3, <3>1
  <2>4. QED
    BY <1>1, <2>1, <2>2, <2>3
<1>5. QED
  BY <1>2, <1>3, <1>4

\* What writing a selection makes of the layers.
LEMMA WrittenIs ==
  ASSUME NEW f, NEW c, origin \in {"none", "base", "mine", "over", "import"}
  PROVE  /\ origin = "import" => Panel!Written(f, c) = [f EXCEPT !.mine = [off |-> session.off, direct |-> c, more |-> TRUE]]
         /\ origin = "base" => Panel!Written(f, c) = [f EXCEPT !.base.direct = c]
         /\ origin = "mine" => Panel!Written(f, c) = [f EXCEPT !.mine.direct = c]
         /\ origin = "over" /\ f.over # Panel!Absent => Panel!Written(f, c) = [f EXCEPT !.over.direct = c]
         /\ origin = "none" \/ (origin = "over" /\ f.over = Panel!Absent) => Panel!Written(f, c) = f
<1>1. CASE origin = "import"
  BY <1>1 DEF Panel!Written
<1>2. CASE origin = "base"
  BY <1>2 DEF Panel!Written
<1>3. CASE origin = "mine"
  BY <1>3 DEF Panel!Written
<1>4. CASE origin = "over" /\ f.over # Panel!Absent
  BY <1>4 DEF Panel!Written
<1>5. CASE origin = "none" \/ (origin = "over" /\ f.over = Panel!Absent)
  BY <1>5 DEF Panel!Written
<1>6. QED
  BY <1>1, <1>2, <1>3, <1>4, <1>5

\* A selection is written where the server is defined, and nothing else is.
LEMMA WrittenIsTyped ==
  ASSUME NEW f \in Panel!Layers, NEW c \in Panel!Selections, session \in Known,
         origin \in {"none", "base", "mine", "over", "import"}
  PROVE  /\ Panel!Written(f, c) \in Panel!Layers /\ Panel!Written(f, c).over.off = f.over.off
         /\ origin = "none" => Panel!Written(f, c) = f
         /\ origin # "over" => Panel!Written(f, c).over = f.over
<1> DEFINE w == Panel!Written(f, c)
<1>1. /\ f.kind \in {"own", "import", "host", "plugin"} /\ f.over \in Panel!Entry /\ f.mine \in Panel!Entry
      /\ f.base \in Panel!Entry /\ f.default \in Panel!Selections
  BY DEF Panel!Layers
<1>2. \A e \in Panel!Entry : [e EXCEPT !.direct = c] \in Panel!Entry /\ [e EXCEPT !.direct = c].off = e.off
  BY DEF Panel!Entry
<1>3. CASE origin = "import"
  <2> DEFINE copy == [off |-> session.off, direct |-> c, more |-> TRUE]
  <2>1. copy \in Panel!Entry
    BY DEF Known, Panel!Entry
  <2>2. w = [f EXCEPT !.mine = copy]
    BY <1>3, WrittenIs
  <2> HIDE DEF copy, w
  <2>3. w \in Panel!Layers /\ w.over = f.over
    BY <2>1, <2>2 DEF Panel!Layers
  <2>4. QED
    BY <1>3, <2>3 DEF w
<1>4. CASE origin = "base"
  <2> DEFINE e == [f.base EXCEPT !.direct = c]
  <2>1. w = [f EXCEPT !.base = e] /\ e \in Panel!Entry
    BY <1>1, <1>2, <1>4, WrittenIs
  <2> HIDE DEF e, w
  <2>2. w \in Panel!Layers /\ w.over = f.over
    BY <2>1 DEF Panel!Layers
  <2>3. QED
    BY <1>4, <2>2 DEF w
<1>5. CASE origin = "mine"
  <2> DEFINE e == [f.mine EXCEPT !.direct = c]
  <2>1. w = [f EXCEPT !.mine = e] /\ e \in Panel!Entry
    BY <1>1, <1>2, <1>5, WrittenIs
  <2> HIDE DEF e, w
  <2>2. w \in Panel!Layers /\ w.over = f.over
    BY <2>1 DEF Panel!Layers
  <2>3. QED
    BY <1>5, <2>2 DEF w
<1>6. CASE origin = "over" /\ f.over # Panel!Absent
  <2> DEFINE e == [f.over EXCEPT !.direct = c]
  <2>1. w = [f EXCEPT !.over = e] /\ e \in Panel!Entry /\ e.off = f.over.off
    BY <1>1, <1>2, <1>6, WrittenIs
  <2> HIDE DEF e, w
  <2>2. w \in Panel!Layers /\ w.over = e
    BY <2>1 DEF Panel!Layers
  <2>3. QED
    BY <1>6, <2>1, <2>2 DEF w
<1>7. CASE origin = "none" \/ (origin = "over" /\ f.over = Panel!Absent)
  BY <1>7, WrittenIs
<1>8. QED
  BY <1>3, <1>4, <1>5, <1>6, <1>7

\* An override is written to the project's file, and nothing else is.
LEMMA OverriddenIs ==
  ASSUME NEW f \in Panel!Layers, NEW off \in BOOLEAN
  PROVE  LET to == IF off THEN "yes" ELSE IF Panel!LowerOff(f) = "yes" THEN "no" ELSE "unset"
             g == Panel!Overridden(f, off) IN
         /\ g \in Panel!Layers /\ g.kind = f.kind /\ g.base = f.base /\ g.mine = f.mine /\ g.default = f.default
         /\ g.over = [f.over EXCEPT !.off = to] /\ g.over.off = to /\ g.over.direct = f.over.direct
<1> DEFINE to == IF off THEN "yes" ELSE IF Panel!LowerOff(f) = "yes" THEN "no" ELSE "unset"
           e == [f.over EXCEPT !.off = to]
           g == Panel!Overridden(f, off)
<1>1. to \in {"unset", "yes", "no"} /\ g = [f EXCEPT !.over = e]
  BY DEF Panel!Overridden
<1> HIDE DEF to, g
<1>2. e \in Panel!Entry /\ e.off = to /\ e.direct = f.over.direct
  BY <1>1 DEF Panel!Layers, Panel!Entry
<1>3. e = [f.over EXCEPT !.off = to]
  OBVIOUS
<1> HIDE DEF e
<1>4. g \in Panel!Layers /\ g.kind = f.kind /\ g.base = f.base /\ g.mine = f.mine /\ g.default = f.default /\ g.over = e
  BY <1>1, <1>2 DEF Panel!Layers
<1>5. QED
  BY <1>2, <1>3, <1>4 DEF g, to

\* Absent says nothing.
LEMMA AbsentIs == Panel!Absent.off = "unset" /\ Panel!Absent.direct = Panel!Unset
BY DEF Panel!Absent

\* What a session that loads a written selection will show, and that it keeps the switch.
LEMMA WrittenIsEffective ==
  ASSUME files \in Panel!Layers, session \in Known, origin \in {"base", "mine", "over", "import"},
         origin = Panel!Provenance(files), session = Panel!Effective(files),
         NEW f \in Panel!Layers, f.base = files.base, f.mine = files.mine, f.over.direct = files.over.direct,
         origin = "over" => f.over # Panel!Absent,
         NEW c \in Panel!Selections, c # Panel!Unset
  PROVE  Panel!Effective(Panel!Written(f, c)) = [off |-> Panel!Effective(f).off, direct |-> c]
<1> DEFINE w == Panel!Written(f, c)
<1>1. \A g : Panel!Effective(g) = [off |-> Panel!Or(g.over.off, Panel!Or(g.mine.off, g.base.off, "unset"), "unset"),
                                   direct |-> Panel!Or(g.over.direct, Panel!Or(g.mine.direct, g.base.direct, Panel!Unset), Panel!Unset)]
  BY DEF Panel!Effective
<1>2. /\ origin \in {"base", "import"} => files.over.direct = Panel!Unset /\ files.mine.direct = Panel!Unset /\ files.mine.off = "unset"
                                          /\ files.over.off = "unset"
      /\ origin = "mine" => files.over.direct = Panel!Unset
  BY ProvenanceIs, AbsentIs
<1>3. f.over \in Panel!Entry /\ f.mine \in Panel!Entry /\ f.base \in Panel!Entry
  BY DEF Panel!Layers
<1>4. \A e \in Panel!Entry : [e EXCEPT !.direct = c].direct = c /\ [e EXCEPT !.direct = c].off = e.off
  BY DEF Panel!Entry
<1>5. CASE origin = "import"
  <2> DEFINE copy == [off |-> session.off, direct |-> c, more |-> TRUE]
  <2>1. w = [f EXCEPT !.mine = copy]
    BY <1>5, WrittenIs
  <2>2. copy.off = session.off /\ copy.direct = c
    OBVIOUS
  <2> HIDE DEF copy, w
  <2>3. w.over = f.over /\ w.mine = copy /\ w.base = f.base
    BY <2>1 DEF Panel!Layers
  <2>4. session.off = f.base.off
    BY <1>1, <1>2, <1>5 DEF Panel!Or
  <2>5. Panel!Or(w.over.off, Panel!Or(w.mine.off, w.base.off, "unset"), "unset")
          = Panel!Or(f.over.off, Panel!Or(f.mine.off, f.base.off, "unset"), "unset")
    BY <1>2, <1>5, <2>2, <2>3, <2>4 DEF Panel!Or
  <2>6. Panel!Or(w.over.direct, Panel!Or(w.mine.direct, w.base.direct, Panel!Unset), Panel!Unset) = c
    BY <1>2, <1>5, <2>2, <2>3 DEF Panel!Or
  <2>7. QED
    BY <1>1, <2>5, <2>6 DEF w
<1>6. CASE origin = "base"
  <2> DEFINE e == [f.base EXCEPT !.direct = c]
  <2>1. w = [f EXCEPT !.base = e] /\ e.direct = c /\ e.off = f.base.off
    BY <1>3, <1>4, <1>6, WrittenIs
  <2> HIDE DEF e, w
  <2>2. w.over = f.over /\ w.mine = f.mine /\ w.base = e
    BY <2>1 DEF Panel!Layers
  <2>3. Panel!Or(w.over.off, Panel!Or(w.mine.off, w.base.off, "unset"), "unset")
          = Panel!Or(f.over.off, Panel!Or(f.mine.off, f.base.off, "unset"), "unset")
    BY <2>1, <2>2
  <2>4. Panel!Or(w.over.direct, Panel!Or(w.mine.direct, w.base.direct, Panel!Unset), Panel!Unset) = c
    BY <1>2, <1>6, <2>1, <2>2 DEF Panel!Or
  <2>5. QED
    BY <1>1, <2>3, <2>4 DEF w
<1>7. CASE origin = "mine"
  <2> DEFINE e == [f.mine EXCEPT !.direct = c]
  <2>1. w = [f EXCEPT !.mine = e] /\ e.direct = c /\ e.off = f.mine.off
    BY <1>3, <1>4, <1>7, WrittenIs
  <2> HIDE DEF e, w
  <2>2. w.over = f.over /\ w.mine = e /\ w.base = f.base
    BY <2>1 DEF Panel!Layers
  <2>3. Panel!Or(w.over.off, Panel!Or(w.mine.off, w.base.off, "unset"), "unset")
          = Panel!Or(f.over.off, Panel!Or(f.mine.off, f.base.off, "unset"), "unset")
    BY <2>1, <2>2
  <2>4. Panel!Or(w.over.direct, Panel!Or(w.mine.direct, w.base.direct, Panel!Unset), Panel!Unset) = c
    BY <1>2, <1>7, <2>1, <2>2 DEF Panel!Or
  <2>5. QED
    BY <1>1, <2>3, <2>4 DEF w
<1>8. CASE origin = "over"
  <2> DEFINE e == [f.over EXCEPT !.direct = c]
  <2>1. w = [f EXCEPT !.over = e] /\ e.direct = c /\ e.off = f.over.off
    BY <1>3, <1>4, <1>8, WrittenIs
  <2> HIDE DEF e, w
  <2>2. w.over = e /\ w.mine = f.mine /\ w.base = f.base
    BY <2>1 DEF Panel!Layers
  <2>3. Panel!Or(w.over.off, Panel!Or(w.mine.off, w.base.off, "unset"), "unset")
          = Panel!Or(f.over.off, Panel!Or(f.mine.off, f.base.off, "unset"), "unset")
    BY <2>1, <2>2
  <2>4. Panel!Or(w.over.direct, Panel!Or(w.mine.direct, w.base.direct, Panel!Unset), Panel!Unset) = c
    BY <2>1, <2>2 DEF Panel!Or
  <2>5. QED
    BY <1>1, <2>3, <2>4 DEF w
<1>9. QED
  BY <1>5, <1>6, <1>7, <1>8

SaveEnds == {"ok", "unwritten", "unapproved", "unsynced"}

\* What a save does: f is what the switch makes of the files, to which the selection is written.
Saves(f, fails, end) ==
  /\ f \in Panel!Layers
  /\ panel.off # panel.wasOff /\ ~fails => f = Panel!Overridden(files, panel.off)
  /\ panel.off = panel.wasOff \/ fails => f = files
  /\ f.kind = files.kind /\ f.base = files.base /\ f.mine = files.mine
  /\ f.default = files.default /\ f.over.direct = files.over.direct
  /\ panel.direct # panel.was /\ end # "unwritten" => files' = Panel!Written(f, Panel!Chosen)
  /\ panel.direct = panel.was \/ end = "unwritten" => files' = f
  /\ panel.direct # panel.was /\ end \in {"ok", "unsynced"} => session' = [session EXCEPT !.direct = Panel!Chosen]
  /\ panel.direct = panel.was \/ end \notin {"ok", "unsynced"} => session' = session
  /\ reload' = (f # files \/ end \in {"unapproved", "unsynced"})
  /\ panel' = Panel!Closed /\ origin' = origin /\ edited' = edited /\ Panel!Shown
  /\ end # "ok" => panel.direct # panel.was

\* A save is one of these.
LEMMA SaveIs ==
  ASSUME Panel!PanelInv, NEW fails \in BOOLEAN, NEW end \in SaveEnds, Panel!Save(fails, end)
  PROVE  \E f : Saves(f, fails, end)
<1> DEFINE f == IF panel.off # panel.wasOff /\ ~fails THEN Panel!Overridden(files, panel.off) ELSE files
<1>1. panel \in PanelRow /\ files \in Panel!Layers /\ panel.off \in BOOLEAN
  BY PanelParts DEF PanelRow
<1>2. /\ f \in Panel!Layers /\ f.kind = files.kind /\ f.base = files.base /\ f.mine = files.mine
      /\ f.default = files.default /\ f.over.direct = files.over.direct
  <2>1. CASE f = files
    BY <1>1, <2>1
  <2>2. CASE f = Panel!Overridden(files, panel.off)
    BY <1>1, <2>2, OverriddenIs
  <2>3. QED
    BY <2>1, <2>2
<1>3. /\ panel.off # panel.wasOff /\ ~fails => f = Panel!Overridden(files, panel.off)
      /\ panel.off = panel.wasOff \/ fails => f = files
  OBVIOUS
<1>4. /\ files' = IF panel.direct # panel.was /\ end # "unwritten" THEN Panel!Written(f, Panel!Chosen) ELSE f
      /\ session' = IF panel.direct # panel.was /\ end \in {"ok", "unsynced"}
                    THEN [session EXCEPT !.direct = Panel!Chosen] ELSE session
      /\ reload' = (f # files \/ end \in {"unapproved", "unsynced"})
      /\ panel' = Panel!Closed /\ origin' = origin /\ edited' = edited /\ panel.at \in {"open", "asking"}
      /\ end # "ok" => panel.direct # panel.was
  BY DEF Panel!Save
<1> HIDE DEF f
<1>5. Saves(f, fails, end)
  BY <1>2, <1>3, <1>4 DEF Panel!Shown, Saves
<1>6. QED
  BY <1>5

\* What the invariant says while the panel is shown, of files that nobody has changed.
LEMMA WhileShown ==
  ASSUME Panel!PanelInv, Panel!Shown, ~edited
  PROVE  /\ origin = Panel!Provenance(files) /\ origin \in {"none", "base", "mine", "over", "import"}
         /\ session.off = Panel!Effective(files).off
         /\ origin # "none" => session = Panel!Effective(files)
         /\ origin = "none" => files.kind = "plugin" /\ files.over = Panel!Absent /\ files.mine = Panel!Absent
         /\ origin = "over" => files.over # Panel!Absent
<1>1. /\ files \in Panel!Layers /\ ~reload /\ origin = Panel!Provenance(files)
      /\ \/ session = Panel!Effective(files)
         \/ /\ files.kind = "plugin" /\ {files.over, files.mine} = {Panel!Absent}
            /\ session.off = Panel!Effective(files).off
  BY PanelParts DEF Panel!LayersAreCurrent, Panel!Shown
<1>2. origin \in {"none", "base", "mine", "over", "import"}
  BY DEF Panel!PanelInv, Panel!TypeOK
<1>3. QED
  BY <1>1, <1>2, ProvenanceIs

\* The session is left with what the files say, or is reloaded.
LEMMA SaveKeeps ==
  ASSUME Bound, Panel!PanelInv, NEW fails \in BOOLEAN, NEW end \in SaveEnds, Panel!Save(fails, end)
  PROVE  Panel!PanelInv'
<1>1. PICK f : Saves(f, fails, end)
  BY SaveIs
<1>2. /\ files \in Panel!Layers /\ session \in Known /\ panel \in PanelRow /\ edited \in BOOLEAN
      /\ Panel!Chosen \in Panel!Selections /\ Panel!Chosen # Panel!Unset
      /\ origin \in {"none", "base", "mine", "over", "import"} /\ f \in Panel!Layers
  BY <1>1, PanelParts, ChosenIsSet DEF Saves, Panel!PanelInv, Panel!TypeOK
<1>3. files' \in Panel!Layers
  BY <1>1, <1>2, WrittenIsTyped DEF Saves
<1>4. [session EXCEPT !.direct = Panel!Chosen] \in Known /\ [session EXCEPT !.direct = Panel!Chosen].off = session.off
      /\ [session EXCEPT !.direct = Panel!Chosen].direct = Panel!Chosen
  BY <1>2 DEF Known
<1>5. session' \in Known
  BY <1>1, <1>2, <1>4 DEF Saves
<1>6. RowFits(panel)' /\ panel' \in PanelRow /\ panel'.at = "closed"
  BY <1>1, ClosedFits DEF Saves, RowFits, AlmostFits, Panel!Closed
<1>7. ASSUME ~edited, ~reload'
      PROVE  \/ session' = Panel!Effective(files')
             \/ /\ files'.kind = "plugin" /\ {files'.over, files'.mine} = {Panel!Absent}
                /\ session'.off = Panel!Effective(files').off
  <2>1. f = files /\ end \in {"ok", "unwritten"} /\ Panel!Shown
    BY <1>1, <1>7 DEF Saves, SaveEnds
  <2>2. /\ origin = Panel!Provenance(files) /\ session.off = Panel!Effective(files).off
        /\ origin # "none" => session = Panel!Effective(files)
        /\ origin = "none" => files.kind = "plugin" /\ files.over = Panel!Absent /\ files.mine = Panel!Absent
        /\ origin = "over" => files.over # Panel!Absent
    BY <1>7, <2>1, WhileShown
  <2>3. CASE panel.direct = panel.was \/ end = "unwritten"
    <3>1. files' = files /\ session' = session
      BY <1>1, <2>1, <2>3 DEF Saves
    <3>2. QED
      BY <2>2, <3>1
  <2>4. CASE panel.direct # panel.was /\ end = "ok"
    <3>1. files' = Panel!Written(files, Panel!Chosen) /\ session' = [session EXCEPT !.direct = Panel!Chosen]
      BY <1>1, <2>1, <2>4 DEF Saves
    <3>2. CASE origin = "none"
      <4>1. files' = files /\ session'.off = session.off
        BY <1>2, <1>4, <3>1, <3>2, WrittenIsTyped
      <4>2. QED
        BY <2>2, <3>2, <4>1
    <3>3. CASE origin # "none"
      <4>1. Panel!Effective(files') = [off |-> Panel!Effective(files).off, direct |-> Panel!Chosen]
        BY <1>2, <2>2, <3>1, <3>3, WrittenIsEffective
      <4>2. session'.off = Panel!Effective(files).off /\ session'.direct = Panel!Chosen
        BY <1>4, <2>2, <3>1
      <4>3. session' = [off |-> session'.off, direct |-> session'.direct]
        BY <1>5 DEF Known
      <4>4. QED
        BY <4>1, <4>2, <4>3
    <3>4. QED
      BY <3>2, <3>3
  <2>5. QED
    BY <2>1, <2>3, <2>4
<1>8. Panel!LayersAreCurrent'
  BY <1>1, <1>6, <1>7 DEF Panel!LayersAreCurrent, Panel!Shown, Saves
<1>9. reload' \in BOOLEAN /\ edited' \in BOOLEAN /\ origin' \in {"none", "base", "mine", "over", "import"}
  BY <1>1, <1>2 DEF Saves
<1>10. QED
  BY <1>3, <1>5, <1>6, <1>8, <1>9 DEF Panel!PanelInv, Panel!TypeOK, Panel!PanelIsConsistent, Panel!OffListsNothing,
     Panel!ConnectingEnds, Panel!Shown, PanelRow, Known, RowFits, AlmostFits

\* What a selection that was chosen will show.
LEMMA ChosenShows ==
  ASSUME panel \in PanelRow, panel.direct \subseteq panel.listed
  PROVE  panel.listed \cap Panel!Configured(Panel!Chosen) = panel.direct
<1>1. panel.listed \in SUBSET DirectTool
  BY DEF PanelRow
<1>2. Panel!Or(Panel!Chosen, files.default, Panel!Unset) = Panel!Chosen
  BY ChosenIsSet DEF Panel!Or
<1>3. CASE panel.direct = panel.listed
  <2>1. Panel!Chosen.kind = "all"
    BY <1>3 DEF Panel!Chosen, Panel!All
  <2>2. Panel!Configured(Panel!Chosen) = DirectTool
    BY <1>2, <2>1 DEF Panel!Configured
  <2>3. QED
    BY <1>1, <1>3, <2>2
<1>4. CASE panel.direct # panel.listed /\ panel.direct = {}
  <2>1. Panel!Chosen.kind = "none"
    BY <1>4 DEF Panel!Chosen, Panel!Off
  <2>2. Panel!Configured(Panel!Chosen) = {}
    BY <1>2, <2>1 DEF Panel!Configured
  <2>3. QED
    BY <1>4, <2>2
<1>5. CASE panel.direct # panel.listed /\ panel.direct # {}
  <2>1. Panel!Chosen.kind = "list" /\ Panel!Chosen.tools = panel.direct
    BY <1>5 DEF Panel!Chosen, Panel!Listing
  <2>2. Panel!Configured(Panel!Chosen) = panel.direct
    BY <1>2, <2>1 DEF Panel!Configured
  <2>3. QED
    BY <2>2
<1>6. QED
  BY <1>3, <1>4, <1>5

\* What a save without failures wrote is what a session that loads it will show.
LEMMA SaveIsShown ==
  ASSUME Panel!PanelInv, Panel!Save(FALSE, "ok"), ~edited
  PROVE  LET now == Panel!Effective(files') IN
         /\ \/ panel.off = (now.off = "yes")
            \/ ~panel.off /\ files.kind \in {"host", "plugin"} /\ files.base.off = "yes"
         /\ \/ panel.direct = panel.listed \cap Panel!Configured(now.direct)
            \/ origin = "none"
<1>1. PICK f : Saves(f, FALSE, "ok")
  BY SaveIs DEF SaveEnds
<1>2. /\ files \in Panel!Layers /\ session \in Known /\ panel \in PanelRow /\ RowFits(panel) /\ Panel!Shown
      /\ Panel!Chosen \in Panel!Selections /\ Panel!Chosen # Panel!Unset /\ f \in Panel!Layers
  BY <1>1, PanelParts, ChosenIsSet DEF Saves
<1>3. /\ origin = Panel!Provenance(files) /\ session.off = Panel!Effective(files).off
      /\ origin \in {"none", "base", "mine", "over", "import"}
      /\ origin # "none" => session = Panel!Effective(files)
      /\ origin = "none" => files.kind = "plugin" /\ files.over = Panel!Absent /\ files.mine = Panel!Absent
      /\ origin = "over" => files.over # Panel!Absent
  BY <1>2, WhileShown
<1>4. /\ panel.direct \subseteq panel.listed /\ panel.was = panel.listed \cap Panel!Configured(session.direct)
      /\ panel.wasOff = (session.off = "yes") /\ (panel.wasOff => panel.listed = {})
  BY <1>2 DEF RowFits, AlmostFits, Panel!Shown
<1>5. panel.off \in BOOLEAN /\ panel.wasOff \in BOOLEAN
  BY <1>2 DEF PanelRow
<1>6. \A g : Panel!Effective(g) = [off |-> Panel!Or(g.over.off, Panel!Or(g.mine.off, g.base.off, "unset"), "unset"),
                                   direct |-> Panel!Or(g.over.direct, Panel!Or(g.mine.direct, g.base.direct, Panel!Unset), Panel!Unset)]
  BY DEF Panel!Effective
<1>7. Panel!Effective(f).direct = Panel!Effective(files).direct
  BY <1>1, <1>6 DEF Saves
\* the switch, before the selection is written
<1>8. \/ panel.off = (Panel!Effective(f).off = "yes")
      \/ ~panel.off /\ files.kind \in {"host", "plugin"} /\ files.base.off = "yes"
  <2>1. CASE panel.off = panel.wasOff
    BY <1>1, <1>3, <1>4, <2>1 DEF Saves
  <2>2. CASE panel.off # panel.wasOff /\ panel.off
    <3>1. f.over.off = "yes"
      BY <1>1, <1>2, <2>2, OverriddenIs DEF Saves
    <3>2. QED
      BY <1>6, <2>2, <3>1 DEF Panel!Or
  <2>3. CASE panel.off # panel.wasOff /\ ~panel.off
    <3>1. f.over.off = (IF Panel!LowerOff(files) = "yes" THEN "no" ELSE "unset") /\ f.mine = files.mine /\ f.base = files.base
      <4>1. f = Panel!Overridden(files, FALSE) /\ f.mine = files.mine /\ f.base = files.base
        <5>1. panel.off = FALSE
          BY <1>5, <2>3
        <5>2. QED
          BY <1>1, <2>3, <5>1 DEF Saves
      <4>2. Panel!Overridden(files, FALSE).over.off = IF FALSE THEN "yes" ELSE IF Panel!LowerOff(files) = "yes" THEN "no" ELSE "unset"
        BY <1>2, OverriddenIs
      <4>3. QED
        BY <4>1, <4>2
    <3>2. files.kind \in {"own", "import", "host", "plugin"}
      BY <1>2 DEF Panel!Layers
    <3>3. Panel!Effective(f).off = Panel!Or(f.over.off, Panel!Or(files.mine.off, files.base.off, "unset"), "unset")
      BY <1>6, <3>1
    <3>4. CASE Panel!LowerOff(files) = "yes"
      <4>1. f.over.off = "no"
        BY <3>1, <3>4
      <4>2. Panel!Effective(f).off = "no"
        BY <3>3, <4>1 DEF Panel!Or
      <4>3. QED
        BY <1>5, <2>3, <4>2
    <3>5. CASE Panel!LowerOff(files) # "yes" /\ Panel!Effective(f).off = "yes"
      <4>1. f.over.off = "unset"
        BY <3>1, <3>5
      <4>2. Panel!Or(files.mine.off, files.base.off, "unset") = "yes"
        BY <3>3, <3>5, <4>1 DEF Panel!Or
      <4>3. files.mine.off # "yes"
        BY <3>5 DEF Panel!LowerOff, Panel!Or
      <4>4. files.mine.off = "unset" /\ files.base.off = "yes"
        BY <4>2, <4>3 DEF Panel!Or
      <4>5. files.kind \notin {"own", "import"}
        BY <3>5, <4>4 DEF Panel!LowerOff, Panel!Or
      <4>6. QED
        BY <2>3, <3>2, <4>4, <4>5
    <3>6. CASE Panel!Effective(f).off # "yes"
      BY <1>5, <2>3, <3>6
    <3>7. QED
      BY <3>4, <3>5, <3>6
  <2>4. QED
    BY <1>5, <2>1, <2>2, <2>3
<1>9. CASE panel.direct = panel.was
  <2>1. files' = f
    BY <1>1, <1>9 DEF Saves
  <2>2. origin = "none" \/ Panel!Effective(files').direct = session.direct
    BY <1>3, <1>7, <2>1
  <2>3. QED
    BY <1>4, <1>8, <1>9, <2>1, <2>2
<1>10. CASE panel.direct # panel.was
  <2>1. files' = Panel!Written(f, Panel!Chosen)
    BY <1>1, <1>10 DEF Saves
  <2>2. CASE origin = "none"
    <3>1. files' = f
      BY <1>2, <1>3, <2>1, <2>2, WrittenIsTyped
    <3>2. QED
      BY <1>8, <2>2, <3>1
  <2>3. CASE origin # "none"
    <3>1. ~panel.wasOff
      BY <1>4, <1>10
    <3>2. origin = "over" => f.over # Panel!Absent
      <4>1. CASE panel.off = panel.wasOff
        BY <1>1, <1>3, <4>1 DEF Saves
      <4>2. CASE panel.off # panel.wasOff
        <5>1. f.over.off = "yes"
          BY <1>1, <1>2, <1>5, <3>1, <4>2, OverriddenIs DEF Saves
        <5>2. QED
          BY <5>1, AbsentIs
      <4>3. QED
        BY <4>1, <4>2
    <3>3. Panel!Effective(files') = [off |-> Panel!Effective(f).off, direct |-> Panel!Chosen]
      BY <1>1, <1>2, <1>3, <2>1, <2>3, <3>2, WrittenIsEffective DEF Saves
    <3>4. panel.listed \cap Panel!Configured(Panel!Effective(files').direct) = panel.direct
      BY <1>2, <1>4, <3>3, ChosenShows
    <3>5. QED
      BY <1>8, <3>3, <3>4
  <2>4. QED
    BY <2>2, <2>3
<1>11. QED
  BY <1>9, <1>10

\* A save leaves the switch that was not turned, and the selection of which no tool was.
LEMMA OnlyTheChange ==
  ASSUME Panel!PanelInv, NEW fails \in BOOLEAN, NEW end \in SaveEnds, Panel!Save(fails, end)
  PROVE  /\ panel.off = panel.wasOff => files'.over.off = files.over.off
         /\ panel.direct = panel.was => Panel!Effective(files').direct = Panel!Effective(files).direct
<1>1. PICK f : Saves(f, fails, end)
  BY SaveIs
<1>2. /\ files \in Panel!Layers /\ session \in Known /\ panel \in PanelRow /\ f \in Panel!Layers
      /\ Panel!Chosen \in Panel!Selections /\ origin \in {"none", "base", "mine", "over", "import"}
  BY <1>1, PanelParts, ChosenIsSet DEF Saves, Panel!PanelInv, Panel!TypeOK
<1>3. panel.off = panel.wasOff => files'.over.off = files.over.off
  BY <1>1, <1>2, WrittenIsTyped DEF Saves
<1>4. panel.direct = panel.was => Panel!Effective(files').direct = Panel!Effective(files).direct
  BY <1>1 DEF Saves, Panel!Effective
<1>5. QED
  BY <1>3, <1>4

\* The panel starts closed.
LEMMA PanelBegins == ASSUME Bound, Panel!Init PROVE Panel!PanelInv
<1>1. /\ session = Panel!Effective(files) /\ origin = "none" /\ reload = FALSE /\ edited = FALSE
      /\ files = [kind |-> "own", base |-> Panel!Absent, mine |-> Panel!Absent, over |-> Panel!Absent, default |-> Panel!Unset]
      /\ panel = [Panel!Closed EXCEPT !.at = "new"]
  BY DEF Panel!Init
<1>2. Panel!Unset \in Panel!Selections
  BY DEF Panel!Selections
<1>3. Panel!Absent \in Panel!Entry
  BY <1>2 DEF Panel!Absent, Panel!Entry
<1>4. files \in Panel!Layers
  BY <1>1, <1>2, <1>3 DEF Panel!Layers
<1>5. session \in Known
  BY <1>1, <1>4, EffectiveIsKnown
<1>6. panel \in PanelRow /\ panel.at = "new" /\ panel.status = Panel!Closed.status
  BY <1>1, ClosedFits DEF PanelRow
<1>7. RowFits(panel)
  BY <1>6 DEF RowFits, AlmostFits, Panel!Closed
<1>8. Panel!LayersAreCurrent
  BY <1>1, <1>6 DEF Panel!LayersAreCurrent, Panel!Shown
<1>9. QED
  BY <1>1, <1>4, <1>5, <1>6, <1>7, <1>8, PanelWhole

\* Every step of the panel keeps PanelInv.
LEMMA PanelKeeps ==
  ASSUME Bound, Panel!PanelInv, Panel!Next \/ UNCHANGED pnl
  PROVE  Panel!PanelInv'
<1>1. CASE UNCHANGED pnl
  BY <1>1 DEF pnl, Panel!PanelInv, Panel!TypeOK, Panel!PanelIsConsistent, Panel!OffListsNothing, Panel!LayersAreCurrent,
     Panel!ConnectingEnds, Panel!Shown, Panel!Configured
<1>2. CASE Panel!Begin \/ Panel!Reload \/ Panel!DropsOverride \/ Panel!SwitchesBase \/ \E off \in BOOLEAN : Panel!Disables(off)
  BY <1>2, FilesKeep
<1>3. CASE \E listed_ \in SUBSET DirectTool, blocked \in BOOLEAN : Panel!Open(listed_, blocked)
  BY <1>3, OpenPanelKeeps
<1>4. CASE Panel!ToggleServer \/ Panel!Disable \/ \E t \in DirectTool : Panel!ToggleTool(t)
  BY <1>4, SwitchesKeep
<1>5. CASE \/ Panel!Reconnect \/ Panel!ReconnectFails \/ Panel!Authenticate
           \/ Panel!KeepEditing \/ Panel!Arrow \/ \E ok \in BOOLEAN : Panel!SignedIn(ok)
  BY <1>5, ConnectingKeeps
<1>6. CASE \E listed_ \in SUBSET DirectTool : Panel!Reconnected(listed_)
  BY <1>6, ReconnectedKeeps
<1>7. CASE Panel!Cancel \/ Panel!Escape
  BY <1>7, LeavingPanelKeeps
<1>8. CASE \E fails \in BOOLEAN, end \in SaveEnds : Panel!Save(fails, end)
  BY <1>8, SaveKeeps
<1>9. Panel!Next =>
        \/ Panel!Begin \/ Panel!Reload \/ Panel!DropsOverride \/ Panel!SwitchesBase \/ \E off \in BOOLEAN : Panel!Disables(off)
        \/ \E listed_ \in SUBSET DirectTool, blocked \in BOOLEAN : Panel!Open(listed_, blocked)
        \/ Panel!ToggleServer \/ Panel!Disable \/ \E t \in DirectTool : Panel!ToggleTool(t)
        \/ Panel!Reconnect \/ Panel!ReconnectFails \/ Panel!Authenticate
        \/ Panel!KeepEditing \/ Panel!Arrow \/ \E ok \in BOOLEAN : Panel!SignedIn(ok)
        \/ \E listed_ \in SUBSET DirectTool : Panel!Reconnected(listed_)
        \/ Panel!Cancel \/ Panel!Escape
        \/ \E fails \in BOOLEAN, end \in SaveEnds : Panel!Save(fails, end)
  BY Zenon DEF Panel!Next, SaveEnds
<1>10. QED
  BY <1>1, <1>2, <1>3, <1>4, <1>5, <1>6, <1>7, <1>8, <1>9

\* Escape closes the panel at once only when there is nothing to save.
LEMMA EscapeIsSafe ==
  ASSUME Panel!PanelInv, Panel!Escape, panel'.at = "closed"
  PROVE  panel.off = panel.wasOff /\ panel.direct = panel.was
<1>1. panel \in PanelRow /\ RowFits(panel) /\ panel.at = "open"
  BY PanelParts DEF Panel!Escape
<1>2. panel.dirty = (panel.off # panel.wasOff \/ panel.direct # panel.was)
  BY <1>1 DEF RowFits
<1>3. ~panel.dirty
  <2>1. SUFFICES ASSUME panel.dirty PROVE FALSE
    OBVIOUS
  <2>2. panel' = [panel EXCEPT !.at = "asking", !.discard = FALSE]
    BY <2>1 DEF Panel!Escape, Panel!Shows
  <2>3. panel'.at = "asking"
    BY <1>1, <2>2 DEF PanelRow
  <2>4. QED
    BY <2>3
<1>4. QED
  BY <1>2, <1>3

\* Only a list that arrives changes what the panel lists, and it turns no switch.
LEMMA ListsAreCalm ==
  ASSUME Bound, Panel!PanelInv, Panel!Next, panel.at # "closed", panel'.at # "closed", panel'.listed # panel.listed
  PROVE  panel'.direct \cap panel.listed = panel.direct \cap panel'.listed
<1>1. panel \in PanelRow
  BY PanelParts
<1>2. \A row \in PanelRow : Panel!Marked(row).listed = row.listed
  BY DEF PanelRow, Panel!Marked
<1>3. ~(Panel!Begin \/ Panel!Reload \/ Panel!DropsOverride \/ Panel!SwitchesBase \/ \E off \in BOOLEAN : Panel!Disables(off))
  BY DEF Panel!Begin, Panel!Reload, Panel!DropsOverride, Panel!SwitchesBase, Panel!Disables, Panel!Edit, Panel!Load, Panel!Closed
<1>4. ~\E listed_ \in SUBSET DirectTool, blocked \in BOOLEAN : Panel!Open(listed_, blocked)
  BY DEF Panel!Open
<1>5. ~\E t \in DirectTool : Panel!ToggleTool(t)
  <2> SUFFICES ASSUME NEW t \in DirectTool, Panel!ToggleTool(t) PROVE FALSE
    OBVIOUS
  <2> DEFINE turned == IF t \in panel.direct THEN panel.direct \ {t} ELSE panel.direct \cup {t}
             row == [panel EXCEPT !.direct = turned]
  <2>1. panel' = Panel!Marked(row)
    BY DEF Panel!ToggleTool, Panel!Shows
  <2>2. turned \in SUBSET DirectTool
    BY <1>1 DEF PanelRow
  <2> HIDE DEF turned
  <2>3. row \in PanelRow /\ row.listed = panel.listed
    BY <1>1, <2>2 DEF PanelRow
  <2>4. QED
    BY <1>2, <2>1, <2>3
<1>6. ~Panel!ToggleServer
  <2> SUFFICES ASSUME Panel!ToggleServer PROVE FALSE
    OBVIOUS
  <2> DEFINE turned == IF panel.listed \subseteq panel.direct THEN {} ELSE panel.listed
             row == [panel EXCEPT !.direct = turned]
  <2>1. panel' = Panel!Marked(row)
    BY DEF Panel!ToggleServer, Panel!Shows
  <2>2. turned \in SUBSET DirectTool
    BY <1>1 DEF PanelRow
  <2> HIDE DEF turned
  <2>3. row \in PanelRow /\ row.listed = panel.listed
    BY <1>1, <2>2 DEF PanelRow
  <2>4. QED
    BY <1>2, <2>1, <2>3
<1>7. ~Panel!Disable
  <2> SUFFICES ASSUME Panel!Disable PROVE FALSE
    OBVIOUS
  <2> DEFINE row == [panel EXCEPT !.off = ~panel.off]
  <2>1. panel' = Panel!Marked(row)
    BY DEF Panel!Disable, Panel!Shows
  <2>2. row \in PanelRow /\ row.listed = panel.listed
    BY <1>1 DEF PanelRow
  <2>3. QED
    BY <1>2, <2>1, <2>2
<1>8. ~(Panel!Reconnect \/ Panel!ReconnectFails \/ Panel!Authenticate \/ Panel!KeepEditing \/ Panel!Arrow)
  BY <1>1 DEF PanelRow, Panel!Reconnect, Panel!ReconnectFails, Panel!Authenticate, Panel!KeepEditing, Panel!Arrow,
     Panel!Shows, Panel!Reconnecting
<1>9. ~\E ok \in BOOLEAN : Panel!SignedIn(ok)
  <2> SUFFICES ASSUME NEW ok \in BOOLEAN, Panel!SignedIn(ok) PROVE FALSE
    OBVIOUS
  <2> DEFINE row == [panel EXCEPT !.signing = FALSE, !.status = "ready"]
  <2>1. panel' = (IF ok THEN Panel!Reconnecting(row) ELSE row)
    BY DEF Panel!SignedIn, Panel!Shows
  <2>2. row \in [at : {"new", "closed", "open", "asking"}, listed : SUBSET DirectTool,
             direct : SUBSET DirectTool, was : SUBSET DirectTool, off : BOOLEAN, wasOff : BOOLEAN,
             dirty : BOOLEAN, status : {"ready", "connecting", "disabled", "blocked"},
             signing : BOOLEAN, reconnects : 0..MaxReconnects, discard : BOOLEAN] /\ row.listed = panel.listed
    BY <1>1 DEF PanelRow
  <2> HIDE DEF row
  <2>3. Panel!Reconnecting(row).listed = row.listed
    BY <2>2 DEF Panel!Reconnecting
  <2>4. QED
    BY <2>1, <2>2, <2>3
<1>10. ~(Panel!Cancel \/ Panel!Escape \/ \E fails \in BOOLEAN, end \in SaveEnds : Panel!Save(fails, end))
  <2>1. ~Panel!Cancel
    BY DEF Panel!Cancel, Panel!Shows, Panel!Closed
  <2>2. ~Panel!Escape
    <3>1. ~(Panel!Escape /\ panel' = Panel!Closed)
      BY DEF Panel!Closed
    <3>2. ~(Panel!Escape /\ panel' = [panel EXCEPT !.at = "asking", !.discard = FALSE])
      BY <1>1 DEF PanelRow
    <3>3. QED
      BY <3>1, <3>2 DEF Panel!Escape, Panel!Shows
  <2>3. ~\E fails \in BOOLEAN, end \in SaveEnds : Panel!Save(fails, end)
    BY DEF Panel!Save, Panel!Closed
  <2>4. QED
    BY <2>1, <2>2, <2>3
<1>11. \E listed_ \in SUBSET DirectTool : Panel!Reconnected(listed_)
  BY <1>3, <1>4, <1>5, <1>6, <1>7, <1>8, <1>9, <1>10 DEF Panel!Next, SaveEnds
<1>12. QED
  BY <1>11, ReconnectedKeeps

\* PanelInv holds throughout, and what a step of the panel may not do is not done.
LEMMA PanelInvariant ==
  ASSUME Bound
  PROVE  Spec => []Panel!PanelInv /\ Panel!SavedIsShown /\ Panel!OnlyChangesAreSaved /\ Panel!EscapeLosesNothing
                 /\ Panel!ListsTurnNoSwitch
<1>1. Init => Panel!PanelInv
  BY PanelBegins DEF Init
<1>2. Panel!PanelInv /\ [Next]_vars => Panel!PanelInv'
  <2> SUFFICES ASSUME Panel!PanelInv, [Next]_vars PROVE Panel!PanelInv'
    OBVIOUS
  <2>1. Panel!Next \/ UNCHANGED pnl
    BY DEF Next, vars
  <2>2. QED
    BY <2>1, PanelKeeps
<1>3. Panel!PanelInv /\ [Next]_vars =>
        [Panel!Save(FALSE, "ok") /\ ~edited =>
         LET now == Panel!Effective(files') IN
         /\ \/ panel.off = (now.off = "yes")
            \/ ~panel.off /\ files.kind \in {"host", "plugin"} /\ files.base.off = "yes"
         /\ \/ panel.direct = panel.listed \cap Panel!Configured(now.direct)
            \/ origin = "none"]_Panel!vars
  <2> SUFFICES ASSUME Panel!PanelInv, Panel!Save(FALSE, "ok"), ~edited
               PROVE  /\ \/ panel.off = (Panel!Effective(files').off = "yes")
                         \/ ~panel.off /\ files.kind \in {"host", "plugin"} /\ files.base.off = "yes"
                      /\ \/ panel.direct = panel.listed \cap Panel!Configured(Panel!Effective(files').direct)
                         \/ origin = "none"
    OBVIOUS
  <2>1. QED
    BY SaveIsShown
<1>4. Panel!PanelInv /\ [Next]_vars =>
        [\A overrideFails \in BOOLEAN, end \in {"ok", "unwritten", "unapproved", "unsynced"} :
         Panel!Save(overrideFails, end) =>
           /\ panel.off = panel.wasOff => files'.over.off = files.over.off
           /\ panel.direct = panel.was => Panel!Effective(files').direct = Panel!Effective(files).direct]_Panel!vars
  BY OnlyTheChange DEF SaveEnds
<1>5. Panel!PanelInv /\ [Next]_vars =>
        [Panel!Escape /\ panel'.at = "closed" => panel.off = panel.wasOff /\ panel.direct = panel.was]_Panel!vars
  BY EscapeIsSafe
<1>6. Panel!PanelInv /\ [Next]_vars =>
        [panel.at # "closed" /\ panel'.listed # panel.listed /\ panel'.at # "closed" =>
         panel'.direct \cap panel.listed = panel.direct \cap panel'.listed]_Panel!vars
  <2> SUFFICES ASSUME Panel!PanelInv, [Next]_vars, ~(UNCHANGED Panel!vars),
                      panel.at # "closed", panel'.listed # panel.listed, panel'.at # "closed"
               PROVE  panel'.direct \cap panel.listed = panel.direct \cap panel'.listed
    OBVIOUS
  <2>1. Panel!Next
    BY DEF Next, vars, pnl, Panel!vars
  <2>2. QED
    BY <2>1, ListsAreCalm
<1>7. QED
  BY <1>1, <1>2, <1>3, <1>4, <1>5, <1>6, PTL
     DEF Spec, Panel!SavedIsShown, Panel!OnlyChangesAreSaved, Panel!EscapeLosesNothing, Panel!ListsTurnNoSwitch

-----------------------------------------------------------------------------
(* What the panels show *)

\* PanelsAreTrue: the panels show what the files say or a reload follows, a save writes what
\* was changed and no more, a list that arrives turns no switch, and no step of the setup
\* panel loses what a file holds; for any tools and any number of reconnects in flight.
THEOREM PanelsTrue ==
  ASSUME Bound
  PROVE  Spec => PanelsAreTrue
<1>1. Panel!PanelInv => Panel!SessionIsCurrent /\ Panel!ConnectingEnds
  BY DEF Panel!PanelInv, Panel!SessionIsCurrent, Panel!LayersAreCurrent
<1>2. Setup!SetupInv => Setup!PanelReloads /\ Setup!NoticeIsTrue
  BY DEF Setup!SetupInv, Setup!PanelReloads, Setup!LoadedIsCurrent
<1>3. QED
  BY <1>1, <1>2, PanelInvariant, SetupInvariant, PTL DEF PanelsAreTrue
=============================================================================
