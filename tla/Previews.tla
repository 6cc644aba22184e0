------------------------------ MODULE Previews ------------------------------
(***************************************************************************)
(* What the setup panel draws (mcp-setup-panel.ts), and the diffs shown    *)
(* before a file is written (config.ts): a line diff by the longest common *)
(* subsequence, its hunks with context, and windows on a list and on a     *)
(* text that are longer than the terminal.  Texts and lists are built one  *)
(* line at a time; the properties hold of every one on the way.            *)
(***************************************************************************)
EXTENDS Integers, Sequences, FiniteSets, SequencesExt

CONSTANTS
  Line,         \* lines of a text
  MaxLines,     \* bound on the length of a text
  MaxEntries    \* bound on the length of a list

VARIABLES
  old, new,     \* the text of a file, and the one that replaces it
  items,        \* a list: for every entry whether it can be selected
  cursor,       \* the entry selected
  height        \* rows the terminal leaves for it

vars == <<old, new, items, cursor, height>>

-----------------------------------------------------------------------------
(* buildUnifiedDiff() *)

\* lcs[i, j]: the longest common subsequence of what follows position i and j
Common(a, b) ==
  LET lcs[i \in 1..Len(a) + 1, j \in 1..Len(b) + 1] ==
        IF i > Len(a) \/ j > Len(b) THEN 0
        ELSE IF a[i] = b[j] THEN lcs[i + 1, j + 1] + 1
        ELSE Max({lcs[i + 1, j], lcs[i, j + 1]})
  IN lcs

Marked(mark, text) == [mark |-> mark, text |-> text]

Diff(a, b) ==
  LET lcs == Common(a, b)
      from[i \in 1..Len(a) + 1, j \in 1..Len(b) + 1] ==
        IF i > Len(a) /\ j > Len(b) THEN <<>>
        ELSE IF i <= Len(a) /\ j <= Len(b) /\ a[i] = b[j]
             THEN <<Marked(" ", a[i])>> \o from[i + 1, j + 1]
        ELSE IF j <= Len(b) /\ (i > Len(a) \/ lcs[i, j + 1] >= lcs[i + 1, j])
             THEN <<Marked("+", b[j])>> \o from[i, j + 1]
        ELSE <<Marked("-", a[i])>> \o from[i + 1, j]
  IN from[1, 1]

Keeps(l)   == l.mark = " "
Removes(l) == l.mark = "-"
Adds(l)    == l.mark = "+"
OldSide(lines) == SelectSeq(lines, LAMBDA l : ~Adds(l))
NewSide(lines) == SelectSeq(lines, LAMBDA l : ~Removes(l))
Texts(lines)   == [k \in DOMAIN lines |-> lines[k].text]

-----------------------------------------------------------------------------
(* contextHunks() *)

\* Removals come before additions within each run of changes.
Ordered(lines) ==
  LET from[k \in 1..Len(lines) + 1] ==
        IF k > Len(lines) THEN <<>>
        ELSE IF Keeps(lines[k]) THEN <<lines[k]>> \o from[k + 1]
        ELSE LET end == Max({e \in k..Len(lines) : \A i \in k..e : ~Keeps(lines[i])})
                 run == SubSeq(lines, k, end)
             IN SelectSeq(run, Removes) \o SelectSeq(run, Adds) \o from[end + 1]
  IN from[1]

\* MUTANT of Numbered: lines are counted from zero.
NumberedFromZero(line, count) == line - 1

\* The number a header names: that of the line before, where a side has no line.
Numbered(line, count) == IF count = 0 THEN line - 1 ELSE line

\* The hunk of the changed lines from `first` to `last`
Hunk(lines, first, last, context) ==
  LET start == Max({1, first - context})
      shown == SubSeq(lines, start, Min({Len(lines), last + context}))
      above == SubSeq(lines, 1, start - 1) IN
  [lines    |-> shown,
   oldCount |-> Len(OldSide(shown)), newCount |-> Len(NewSide(shown)),
   oldLine  |-> Numbered(1 + Len(OldSide(above)), Len(OldSide(shown))),
   newLine  |-> Numbered(1 + Len(NewSide(above)), Len(NewSide(shown)))]

\* Changes that share their context are one hunk.
Hunks(lines, context) ==
  LET changed == {k \in DOMAIN lines : ~Keeps(lines[k])}
      Near(k, next) == next - k - 1 <= 2 * context
      firsts == {k \in changed : \A p \in changed : p < k => ~Near(p, k)}
      End(k) == Max({e \in changed : e >= k /\ \A f \in firsts : f > k => e < f})
      order == SetToSortSeq(firsts, <)
  IN [n \in DOMAIN order |-> Hunk(lines, order[n], End(order[n]), context)]

-----------------------------------------------------------------------------
(* layoutRows(), renderList() and renderPane() *)

FrameRows == 5
SpacerRows == 2
Margin == 1
MinSpaced == 10
MaxBody == 22
MinBody == 3

\* layoutRows() for a terminal of a known height, and how render() stacks the panes
Layout(terminal) ==
  LET budget == terminal - 2 * Margin - FrameRows IN
  IF budget - SpacerRows >= MinSpaced
  THEN [body |-> Min({MaxBody, budget - SpacerRows}), spacers |-> SpacerRows]
  ELSE [body |-> Max({MinBody, budget}), spacers |-> 0]

ListRows(body, entries) == Min({entries, Max({1, (body - 1) \div 2})})
PageSize(rows) == Max({1, rows - 2})

\* renderList(): which entries are drawn, and how many items the markers say are hidden.
Window ==
  LET start == IF Len(items) <= height THEN 0
               ELSE Max({0, Min({cursor - 1 - (height \div 2), Len(items) - height})})
      end == Min({Len(items), start + height})
      markers == height >= 3
      drawn == (IF markers /\ start > 0 THEN start + 2 ELSE start + 1)
               .. (IF markers /\ end < Len(items) THEN end - 1 ELSE end)
      Hidden(range) == Cardinality({k \in range : items[k]})
  IN [drawn |-> drawn,
      above |-> IF markers /\ start > 0 THEN Hidden(1..start + 1) ELSE 0,
      below |-> IF markers /\ end < Len(items) THEN Hidden(end..Len(items)) ELSE 0,
      used  |-> end - start]

\* renderPane(): the lines of a text of `total` lines that can be read `scroll` lines down.
MaxScroll(total, rows) == Max({0, total - rows})
Readable(total, rows, scroll) ==
  LET start == Min({scroll, MaxScroll(total, rows)})
      end == Min({total, start + rows}) IN
  (IF rows >= 3 /\ start > 0 THEN start + 2 ELSE start + 1)
    .. (IF rows >= 3 /\ end < total THEN end - 1 ELSE end)

\* handleDetailScroll(): the positions PageDown stops at, from the top.
Stops(total, rows) ==
  {Min({n * PageSize(rows), MaxScroll(total, rows)}) : n \in 0..total}

-----------------------------------------------------------------------------
TypeOK ==
  /\ old \in Seq(Line) /\ new \in Seq(Line)
  /\ items \in Seq(BOOLEAN) /\ cursor \in 0..MaxEntries /\ height \in 1..MaxEntries

Init == old = <<>> /\ new = <<>> /\ items = <<>> /\ cursor = 0 /\ height = 1

Write(l) ==
  /\ items = <<>> /\ new = <<>> /\ Len(old) < MaxLines /\ old' = Append(old, l)
  /\ UNCHANGED <<new, items, cursor, height>>

Rewrite(l) ==
  /\ items = <<>> /\ Len(new) < MaxLines /\ new' = Append(new, l)
  /\ UNCHANGED <<old, items, cursor, height>>

AddEntry(selectable) ==
  /\ old = <<>> /\ new = <<>> /\ Len(items) < MaxEntries
  /\ items' = Append(items, selectable)
  /\ cursor' = IF cursor = 0 /\ selectable THEN Len(items') ELSE cursor
  /\ UNCHANGED <<old, new, height>>

Move(k) ==
  /\ k \in DOMAIN items /\ items[k] /\ k # cursor /\ cursor' = k
  /\ UNCHANGED <<old, new, items, height>>

Resize(rows) ==
  /\ items # <<>> /\ rows # height /\ height' = rows
  /\ UNCHANGED <<old, new, items, cursor>>

Next ==
  \/ \E l \in Line : Write(l) \/ Rewrite(l)
  \/ \E selectable \in BOOLEAN : AddEntry(selectable)
  \/ \E k \in DOMAIN items : Move(k)
  \/ \E rows \in 1..MaxEntries : Resize(rows)

-----------------------------------------------------------------------------
(* Properties *)

\* Reference: the texts that remain of a text when some lines are left out.
Subsequences(text) ==
  {[k \in 1..Cardinality(kept) |-> text[SetToSortSeq(kept, <)[k]]] :
     kept \in SUBSET (DOMAIN text)}

\* A diff is right and no longer than it must be: it holds the old text and the new one,
\* and no common subsequence of them is longer than the lines it keeps.
DiffIsLeast ==
  LET diff == Diff(old, new) IN
  /\ Texts(OldSide(diff)) = old /\ Texts(NewSide(diff)) = new
  /\ \A both \in Subsequences(old) \cap Subsequences(new) :
       Len(both) <= Len(SelectSeq(diff, Keeps))

\* Reference: what patch makes of a text.  A header's number is that of the first line
\* replaced; where nothing is replaced, of the line after which lines are added.
Patched(text, hunks) ==
  LET First(h) == IF h.oldCount = 0 THEN h.oldLine + 1 ELSE h.oldLine
      from[n \in 1..Len(hunks) + 1, line \in 1..Len(text) + 1] ==
        IF n > Len(hunks) THEN SubSeq(text, line, Len(text))
        ELSE SubSeq(text, line, First(hunks[n]) - 1) \o Texts(NewSide(hunks[n].lines))
             \o from[n + 1, First(hunks[n]) + hunks[n].oldCount]
  IN from[1, 1]

\* The hunks shown to the user before a file is written say what will be written: applied
\* to the old text as `patch` does, they give the new one, and applied backwards the old.
HunksApply ==
  \A context \in {0, 1} :
    LET hunks == Hunks(Ordered(Diff(old, new)), context)
        Flip(l) == Marked(CASE Adds(l) -> "-" [] Removes(l) -> "+" [] Keeps(l) -> " ", l.text)
        Back(h) == [lines |-> [k \in DOMAIN h.lines |-> Flip(h.lines[k])],
                    oldLine |-> h.newLine, oldCount |-> h.newCount,
                    newLine |-> h.oldLine, newCount |-> h.oldCount] IN
    /\ Patched(old, hunks) = new
    /\ Patched(new, [n \in DOMAIN hunks |-> Back(hunks[n])]) = old

\* However short the terminal, the entry under the cursor is drawn, no row too many is
\* used, and the markers account for every item that is not (mcp-setup-panel.ts:384).
CursorIsShown ==
  cursor # 0 =>
    LET w == Window IN
    /\ cursor \in w.drawn /\ w.used <= height
    /\ height >= 3 => Cardinality({k \in w.drawn : items[k]}) + w.above + w.below
                        = Cardinality({k \in DOMAIN items : items[k]})

\* PageDown from the top shows every line of the details once markers cover some.
PagesShowAll ==
  Len(items) > 0 =>
    UNION {Readable(Len(items), height, s) : s \in Stops(Len(items), height)} = DOMAIN items

\* The panel fits every terminal of ten rows or more, in either layout, whatever is shown.
PanelFits ==
  \A terminal \in 10..40 :
    LET layout == Layout(terminal)
        list == ListRows(layout.body, Max({1, Len(items)})) IN
    /\ layout.body + layout.spacers + FrameRows + 2 * Margin <= terminal
    /\ list >= 1 /\ layout.body - 1 - list >= 1
=============================================================================
