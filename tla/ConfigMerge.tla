----------------------------- MODULE ConfigMerge -----------------------------
(***************************************************************************)
(* How one server's entry is put together from the configuration files     *)
(* (config.ts), source by source from the lowest precedence to the         *)
(* highest: hosts' own files, the user's, the project's, each with what it *)
(* imports, then below them the plugins and packages.  Beside the entry    *)
(* the loader keeps whether a project had a part in it: such a server runs *)
(* only when the user agreed (ProjectTrust).                               *)
(*                                                                         *)
(* An entry names a URL, or a local command or socket, and credentials     *)
(* (headers, a provider of tokens, OAuth, which may be "off").             *)
(***************************************************************************)
EXTENDS Naturals, Sequences

CONSTANTS Url, None

VARIABLES
  at,        \* the next source; beyond the last one, the entry is complete
  merged,    \* the entry so far, or None
  gated,      \* the server is in projectServers
  plugins,   \* who set settings.agentPluginPaths last, or None
  redefined  \* Pi's project file has the server, too

mergeVars == <<at, merged, gated, plugins, redefined>>

Scope == {"user", "project"}
\* One source of each kind: of the standard files and the adapter's own there are more.
\* Pi's own files are "pi": the project's entry there replaces the user's.
Sources == << [of |-> "host", scope |-> "user"],
              [of |-> "pi", scope |-> "user"], [of |-> "standard", scope |-> "user"],
              [of |-> "standard", scope |-> "project"], [of |-> "pi", scope |-> "project"] >>
Credentials == {"headers", "provider", "oauth"}

\* What a file says of the server; a credential carries, for the properties, who gave
\* it and for which URL: None is whichever the server has.
Secret(scope) == {None, [by |-> scope, to |-> None]}
Local == "local"
Off == [by |-> "off", to |-> None]   \* oauth: false
Said(scope) ==
  {e \in [where : Url \cup {Local, None}, headers : Secret(scope), provider : Secret(scope),
          oauth : Secret(scope) \cup {Off}, touched : {{scope}}] :
     e.where = Local => \A c \in Credentials : e[c] = None}

IsSecret(c) == c \notin {None, Off}

Credential == {None, Off} \cup [by : Scope, to : Url \cup {Local, None}]
Entry == [where : Url \cup {Local, None}, headers : Credential, provider : Credential, oauth : Credential,
          touched : SUBSET Scope]

TypeOK ==
  /\ at \in 1..Len(Sources) + 2 /\ gated \in BOOLEAN /\ plugins \in Scope \cup {None}
  /\ redefined \in BOOLEAN
  /\ merged # None => /\ merged \in Entry
                      /\ \A c \in Credentials : IsSecret(merged[c]) => merged[c].by \in merged.touched

Init == at = 1 /\ merged = None /\ gated = FALSE /\ plugins = None /\ redefined = FALSE

-----------------------------------------------------------------------------
\* What is given for whichever URL is given for the one that the server gets.
BoundTo(url, c) == IF IsSecret(c) /\ c.to = None THEN [c EXCEPT !.to = url] ELSE c
Bound(e) == [e EXCEPT !.headers = BoundTo(e.where, @), !.provider = BoundTo(e.where, @),
                      !.oauth = BoundTo(e.where, @)]

\* droppedUrlBoundAuth(), and the fields of another transport: what is not inherited.
Dropped(base, next) ==
  IF next.where = Local THEN Credentials
  ELSE IF next.where \in Url /\ next.where # base.where THEN {c \in Credentials : base[c] # Off}
  ELSE {}

\* mergeServerMaps(): field by field.
Merge(base, next) ==
  IF base = None THEN next ELSE IF next = None THEN base
  ELSE LET field(c) == IF next[c] # None THEN next[c]
                       ELSE IF c \in Dropped(base, next) THEN None ELSE base[c]
       IN Bound([where |-> IF next.where = None THEN base.where ELSE next.where,
                 headers |-> field("headers"), provider |-> field("provider"), oauth |-> field("oauth"),
                 touched |-> base.touched \cup next.touched])

-----------------------------------------------------------------------------
(* loadMcpConfigWithSources() *)

\* The hosts' files, when they are to be discovered: each kind the last that has the server.
Discover(first, second) ==
  /\ at = 1 /\ at' = 2
  /\ merged' = Merge(first, second)
  /\ gated' = (\E e \in {first, second} : e # None /\ "project" \in e.touched)
  /\ UNCHANGED <<plugins, redefined>>

\* One file, with what it imports below it.  The user's file may import a project's, and
\* what a project's file imports is the project's.
Read(own, imported, paths) ==
  /\ at \in 2..Len(Sources) /\ at' = at + 1
  /\ LET src == Sources[at]
         pi == src.of = "pi"
         said == IF pi THEN own ELSE Merge(imported, own)
     IN /\ (pi /\ src.scope = "project") => (own # None) = redefined
        /\ IF pi /\ src.scope = "user" THEN redefined' \in BOOLEAN ELSE UNCHANGED redefined
        /\ merged' = IF pi /\ src.scope = "user" /\ redefined' THEN merged ELSE Merge(merged, said)
        /\ gated' = (gated \/ (said # None /\ src.scope = "project")
                         \/ (~pi /\ imported # None /\ "project" \in imported.touched))
        /\ plugins' = IF paths /\ ~pi THEN src.scope ELSE plugins

\* Below the files: a plugin, or a package if no plugin has the server; the user or a
\* project brings them.  A provider of tokens is for servers of the user's alone.
Complete(plugin, package) ==
  /\ at = Len(Sources) + 1 /\ at' = at + 1
  /\ LET below == IF plugin # None THEN plugin ELSE package
         all == Merge(below, merged)
         owned == \/ gated \/ (plugin # None /\ plugins = "project")
                  \/ (plugin = None /\ package # None /\ "project" \in package.touched)
     IN IF owned /\ all # None /\ all.provider # None THEN merged' = None /\ gated' = FALSE
        ELSE merged' = all /\ gated' = owned
  /\ UNCHANGED <<plugins, redefined>>

\* What hosts, plugins and packages say, for short.
Brief(scope) == {None} \cup {e \in Said(scope) : e.provider = None /\ e.oauth = None /\ e.headers # None /\ e.where # None}

Next ==
  \/ \E s, t \in Scope : \E e \in Brief(s), f \in Brief(t) : Discover(e, f)
  \/ /\ at \in 2..Len(Sources)
     /\ \E own \in {None} \cup Said(Sources[at].scope), t \in Scope, paths \in BOOLEAN :
          \E imported \in Brief(t) : Read(own, imported, paths)
  \/ \E s \in Scope : \E e \in Brief(IF plugins = None THEN "user" ELSE plugins), f \in Brief(s) : Complete(e, f)

-----------------------------------------------------------------------------
\* A credential is sent to the URL that it was given for and to no other, however the
\* files override each other (the SECURITY note of config.ts:1104).
CredentialsKeepTheirUrl ==
  merged # None => \A c \in Credentials : IsSecret(merged[c]) => merged[c].to \in {merged.where, None}

\* The user is asked about every server that a project had a part in, however it got
\* there, and none of those gets a provider's token.
ProjectsAreAskedFor ==
  (at = Len(Sources) + 2 /\ merged # None)
  => /\ "project" \in merged.touched => gated
     /\ gated => merged.provider = None

\* While sources are read, a project that touched the entry is known to have.
ProjectsAreNoted ==
  merged # None => /\ merged.touched \subseteq Scope
                   /\ "project" \in merged.touched => gated

\* Inductive.
MergeInv == ProjectsAreNoted /\ ProjectsAreAskedFor
=============================================================================
