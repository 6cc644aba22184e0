------------------------------ MODULE NpxArgs ------------------------------
(***************************************************************************)
(* What of a server's npx or npm exec command line belongs to npm, and     *)
(* what to the server (npx-resolver.ts): arguments arrive one by one.      *)
(* v and w are words; --package=q stands for one argument; -x is an option *)
(* that the resolver does not know, for which it leaves the command alone. *)
(***************************************************************************)
EXTENDS Naturals, Sequences, SequencesExt

CONSTANTS MaxArgs, None

VARIABLE args   \* what follows npx, or npm exec

Words   == {"v", "w"}
Options == {"-y", "-p", "--package", "--package=q", "-x", "--"}
Tokens  == Words \cup Options

Init == args = <<>>

TypeOK == args \in Seq(Tokens) /\ Len(args) <= MaxArgs

Read(t) == Len(args) < MaxArgs /\ args' = Append(args, t)

Next == \E t \in Tokens : Read(t)

-----------------------------------------------------------------------------
Separator == SelectInSeq(args, LAMBDA t : t = "--")      \* 0 if there is none
Before == IF Separator = 0 THEN args ELSE SubSeq(args, 1, Separator - 1)
After  == IF Separator = 0 THEN <<>> ELSE SubSeq(args, Separator + 1, Len(args))

Unread == [spec |-> None, wants |-> FALSE, refused |-> FALSE, words |-> <<>>]
Named(a, spec) == [a EXCEPT !.spec = IF @ = None THEN spec ELSE @, !.wants = FALSE]

\* One argument in front of the separator; `takes` are the options with a value, `skips`
\* says that words are passed over.
Option(a, t, takes, skips) ==
  IF a.words # <<>> THEN [a EXCEPT !.words = Append(@, t)]
  ELSE IF a.wants THEN IF t \in Words THEN Named(a, t) ELSE [a EXCEPT !.refused = TRUE]
  ELSE IF t \in takes THEN [a EXCEPT !.wants = TRUE]
  ELSE IF t = "--package=q" THEN Named(a, "q")
  ELSE IF t = "-y" \/ (t \in Words /\ skips) THEN a
  ELSE IF t \in Words THEN [a EXCEPT !.words = <<t>>]
  ELSE [a EXCEPT !.refused = TRUE]

Scanned(takes, skips) == FoldLeft(LAMBDA a, t : Option(a, t, takes, skips), Unread, Before)

\* parseNpxArgs(): the first word is the binary, and the package unless one is named.
Npx ==
  LET a == Scanned({"-p", "--package"}, FALSE) IN
  IF a.refused \/ a.wants \/ a.words = <<>> THEN None
  ELSE [spec |-> IF a.spec = None THEN a.words[1] ELSE a.spec,
        bin |-> a.words[1],
        extra |-> Tail(a.words) \o (IF After = <<>> THEN <<>> ELSE <<"--">> \o After)]

\* parseNpmExecArgs(): the binary comes behind the separator, the package is named.
NpmExec ==
  LET a == Scanned({"--package"}, TRUE) IN
  IF Separator = 0 \/ a.refused \/ a.wants \/ a.spec = None \/ After = <<>> THEN None
  ELSE [spec |-> a.spec, bin |-> After[1], extra |-> Tail(After)]

-----------------------------------------------------------------------------
IsOption(i) == args[i] \in {"-y", "-p", "--package", "--package=q"}
               \/ (i > 1 /\ args[i - 1] \in {"-p", "--package"})

\* The command gets all that is its own, in its order, separators included
\* (CHANGELOG.md:440); a separator with nothing behind it is dropped.  What it does
\* not get are options of npm, and for npm exec the words in front of the separator.
ArgumentsArrive ==
  /\ Npx # None => \E i \in 1..Len(args) :
       /\ args[i] = Npx.bin /\ \A j \in 1..i - 1 : IsOption(j)
       /\ SubSeq(args, i + 1, Len(args)) \in {Npx.extra, Append(Npx.extra, "--")}
  /\ NpmExec # None => \E i \in 2..Len(args) :
       /\ args[i - 1] = "--" /\ args[i] = NpmExec.bin
       /\ SubSeq(args, i + 1, Len(args)) = NpmExec.extra
       /\ \A j \in 1..i - 2 : IsOption(j) \/ args[j] \in Words
=============================================================================
