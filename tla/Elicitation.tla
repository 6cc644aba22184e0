----------------------------- MODULE Elicitation -----------------------------
(***************************************************************************)
(* A form that a server asks the user to fill in (elicitation-handler.ts): *)
(* field by field, each asked for again until it is valid, then a review   *)
(* in which fields can be edited.  All of it goes through lists of labels: *)
(* what the user picks is known by its label alone.                        *)
(*                                                                         *)
(* "one" is a choice, "many" a list with at least one choice, "number" a   *)
(* typed number (0 stands for text that is none).  A label is              *)
(* <<check marks, text, dots>>.                                            *)
(***************************************************************************)
EXTENDS Naturals, Sequences, Functions

CONSTANT None   \* undefined: a field that is omitted, or a list that is escaped

VARIABLES
  stage,    \* what is shown: "ask", "field", "choose", "type", "review", "edit", or "closed"
  field,    \* the field that is asked for
  editing,  \* it is edited after a review
  before,   \* what it had when it was asked for
  selected, \* the choices checked so far
  values,   \* what was collected
  meant,    \* history: what the user meant each field to be
  picked,   \* history: what the user means for the field asked for
  reply     \* the answer to the server

formVars == <<stage, field, editing, before, selected, values, meant, picked, reply>>

Fields   == <<"one", "many", "number">>
Required == {"many", "number"}
\* Two choices with one display, one whose display is another's with dots, one whose
\* display is another's with its check mark.
Options  == <<<<0, "x", 0>>, <<0, "x", 0>>, <<0, "x", 1>>, <<1, "x", 0>>>>
Default  == [one |-> 2, many |-> {}, number |-> None]

Values(f) == [one |-> DOMAIN Options, many |-> SUBSET DOMAIN Options, number |-> 0..1][f]
Name == Fields[field]
Answers == {"none", "cancel", "decline", "accept"}

TypeOK ==
  /\ stage \in {"ask", "field", "choose", "type", "review", "edit", "closed"}
  /\ field \in DOMAIN Fields /\ editing \in BOOLEAN /\ selected \subseteq DOMAIN Options
  /\ reply \in Answers /\ before \in Values(Name) \cup {None}
  /\ values = [f \in Range(Fields) |-> values[f]]
  /\ \A f \in Range(Fields) : values[f] \in Values(f) \cup {None} /\ meant[f] \in Values(f) \cup {None}

Init ==
  /\ stage = "ask" /\ field = 1 /\ editing = FALSE /\ before = None /\ selected = {}
  /\ values = [f \in Range(Fields) |-> None] /\ meant = [f \in Range(Fields) |-> None]
  /\ picked = None /\ reply = "none"

-----------------------------------------------------------------------------
Dotted(l, k) == <<l[1], l[2], l[3] + k>>
\* The fewest dots that make a label another one than those used.
Dots(l, used, n) ==
  CHOOSE k \in 0..n : Dotted(l, k) \notin used /\ \A j \in 0..k - 1 : Dotted(l, j) \in used

\* uniqueLabels(): a label gets dots until it is the only one of its kind.
UniqueLabels(labels) ==
  LET unique[i \in DOMAIN labels] == Dotted(labels[i], Dots(labels[i], {unique[j] : j \in 1..i - 1}, i))
  IN unique

Shown == UniqueLabels([i \in DOMAIN Options |->
           IF i \in selected THEN <<Options[i][1] + 1, Options[i][2], Options[i][3]>> ELSE Options[i]])

\* The choice whose label was picked: the first that has it.
Read(i) == CHOOSE j \in DOMAIN Shown : Shown[j] = Shown[i] /\ \A h \in 1..j - 1 : Shown[h] # Shown[i]

\* coerceAndValidateFormValues() of one field.
Valid(f, v) ==
  IF v = None THEN f \notin Required
  ELSE (f = "one" => v \in DOMAIN Options) /\ (f = "many" => v # {}) /\ (f = "number" => v # 0)

Show(s) == stage' = s /\ UNCHANGED reply
Close(answer) == stage' = "closed" /\ reply' = answer

\* A field is asked for, with what it had.
AskFor(n, had, edit) ==
  /\ field' = n /\ before' = had /\ editing' = edit /\ selected' = {} /\ picked' = None /\ Show("field")

\* collectValidField(): an invalid value is asked for again; the user meant m.
Collected(v, m) ==
  IF ~Valid(Name, v)
  THEN AskFor(field, v, editing) /\ UNCHANGED <<values, meant>>
  ELSE /\ values' = [values EXCEPT ![Name] = v] /\ meant' = [meant EXCEPT ![Name] = m]
       /\ IF editing \/ field = Len(Fields)
          THEN Show("review") /\ UNCHANGED <<field, editing, before, selected, picked>>
          ELSE AskFor(field + 1, None, FALSE)

form == <<values, meant>>
asked == <<field, editing, before, selected, picked>>

\* handleFormElicitation(): the first question.
Continue == stage = "ask" /\ AskFor(1, None, FALSE) /\ UNCHANGED form
Decline  == stage \in {"ask", "review"} /\ Close("decline") /\ UNCHANGED <<form, asked>>
Escape   == stage # "closed" /\ Close("cancel") /\ UNCHANGED <<form, asked>>

\* collectField(): a default, an omission, or a value.
UseDefault ==
  stage = "field" /\ Default[Name] # None /\ Collected(Default[Name], Default[Name])
Omit == stage = "field" /\ Name \notin Required /\ Collected(None, None)
PickOne(i) == stage = "field" /\ Name = "one" /\ Collected(Read(i), i)
ChooseValues ==
  /\ stage = "field" /\ Name = "many" /\ Show("choose")
  /\ selected' = IF before = None THEN {} ELSE before
  /\ picked' = selected' /\ UNCHANGED <<form, field, editing, before>>
EnterValue == stage = "field" /\ Name = "number" /\ Show("type") /\ UNCHANGED <<form, asked>>

Toggle(i) ==
  /\ stage = "choose"
  /\ LET flip(set, j) == IF j \in set THEN set \ {j} ELSE set \cup {j} IN
     selected' = flip(selected, Read(i)) /\ picked' = flip(picked, i)
  /\ UNCHANGED <<form, field, editing, before, stage, reply>>
PickDone == stage = "choose" /\ Collected(selected, picked)
Type(v)  == stage = "type" /\ Collected(v, v)

\* The review: submitted as it is, or one field edited from what it has.
Submit  == stage = "review" /\ Close("accept") /\ UNCHANGED <<form, asked>>
Edit    == stage = "review" /\ Show("edit") /\ UNCHANGED <<form, asked>>
Reask(n) == stage = "edit" /\ AskFor(n, values[Fields[n]], TRUE) /\ UNCHANGED form

Next ==
  \/ Continue \/ Decline \/ Escape \/ UseDefault \/ Omit \/ ChooseValues \/ EnterValue \/ PickDone
  \/ Submit \/ Edit
  \/ \E i \in DOMAIN Options : PickOne(i) \/ Toggle(i)
  \/ \E v \in 0..1 : Type(v)
  \/ \E n \in DOMAIN Fields : Reask(n)

-----------------------------------------------------------------------------
\* The server gets what the user meant, whatever the labels looked like, and only
\* what its own schema allows.
AnswerIsMeant ==
  reply = "accept" => values = meant /\ \A f \in Range(Fields) : Valid(f, values[f])

\* Before the fields asked for, and after the last one, everything is valid.
CollectedIsValid ==
  /\ \A n \in DOMAIN Fields : n < field => Valid(Fields[n], values[Fields[n]])
  /\ stage \in {"review", "edit"} \/ editing \/ reply = "accept"
     => \A n \in DOMAIN Fields : Valid(Fields[n], values[Fields[n]])
  /\ stage = "choose" => Name = "many" /\ picked = selected
  /\ stage = "type" => Name = "number"

\* Inductive: AnswerIsMeant follows.
FormInv == TypeOK /\ values = meant /\ CollectedIsValid
=============================================================================
