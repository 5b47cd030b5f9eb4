------------------------------- MODULE Layout -------------------------------
(***************************************************************************)
(* The document algebra of mirin-fmt (doc.rs) and its renderer.  A text is *)
(* a sequence of tokens, as wide as its characters; a group is printed on  *)
(* one line when it fits, else each of its lines becomes a newline.  A     *)
(* `mark` prints nothing: it tells in the output where a node starts and   *)
(* ends.                                                                   *)
(***************************************************************************)
EXTENDS Integers, Sequences, SequencesExt, FiniteSets, TLC

INDENT == 4

Nil == [k |-> "nil"]
Line == [k |-> "line", soft |-> FALSE]
SoftLine == [k |-> "line", soft |-> TRUE]
HardLine == [k |-> "hard"]
Space == [k |-> "space"]                         \* a space no break can replace
Tokens(ts) == [k |-> "text", ts |-> ts]
Text(t) == Tokens(<<t>>)
Mark(key, end) == [k |-> "mark", key |-> key, end |-> end]
(* Verbatim text: lines, each with its own indent. *)
Raw(lines) == [k |-> "raw", lines |-> lines]
Concat(ds) == [k |-> "concat", ds |-> ds]
Indent(d) == [k |-> "indent", d |-> d]
IfBreak(broken, flat) == [k |-> "ifbreak", broken |-> broken, flat |-> flat]

(* A hard line, or verbatim text of several lines, breaks every group        *)
(* around it.                                                              *)
RECURSIVE ContainsHardline(_)
ContainsHardline(d) ==
  CASE d.k = "hard"                -> TRUE
    [] d.k = "concat"              -> \E i \in DOMAIN d.ds : ContainsHardline(d.ds[i])
    [] d.k \in {"indent", "group"} -> ContainsHardline(d.d)
    [] d.k = "ifbreak"             -> ContainsHardline(d.broken) \/ ContainsHardline(d.flat)
    [] d.k = "raw"                 -> Len(d.lines) > 1
    [] OTHER                       -> FALSE

Group(d) == [k |-> "group", d |-> d, must |-> ContainsHardline(d), max |-> <<>>]
GroupCapped(d, max) == [Group(d) EXCEPT !.max = <<max>>]

Width(ts) == FoldLeft(LAMBDA n, t : n + Len(t), 0, ts)

(* The width of a document on one line; its group has no hard line.          *)
RECURSIVE FlatWidth(_)
FlatWidth(d) ==
  CASE d.k = "text"    -> Width(d.ts)
    [] d.k = "space"   -> 1
    [] d.k = "line"    -> IF d.soft THEN 0 ELSE 1
    [] d.k = "raw"     -> Width(d.lines[1].ts)
    [] d.k = "concat"  -> FoldLeft(LAMBDA n, x : n + FlatWidth(x), 0, d.ds)
    [] d.k \in {"indent", "group"} -> FlatWidth(d.d)
    [] d.k = "ifbreak" -> FlatWidth(d.flat)
    [] OTHER           -> 0

(***************************************************************************)
(* Does a document fit flat, with what is printed after it up to the next   *)
(* newline?  `acc` is the room left and whether a newline has been met;     *)
(* `ps` is pending work, documents with their indent and mode, of which the *)
(* items from i to j are measured (halved, to spare the evaluation stack).  *)
(***************************************************************************)
Pending(ind, flat, ds) == [i \in DOMAIN ds |-> [ind |-> ind, flat |-> flat, d |-> ds[i]]]
Taken(acc, w) == [acc EXCEPT !.left = @ - w]
Ended(acc) == [acc EXCEPT !.ended = TRUE]

RECURSIVE Measure(_, _, _), MeasureAll(_, _, _, _)
Measure(acc, flat, d) ==
  CASE d.k = "text"   -> Taken(acc, Width(d.ts))
    [] d.k = "space"  -> Taken(acc, 1)
    [] d.k = "raw"    -> IF Len(d.lines) > 1 THEN Ended(acc) ELSE Taken(acc, Width(d.lines[1].ts))
    [] d.k = "concat" -> MeasureAll(acc, Pending(0, flat, d.ds), 1, Len(d.ds))
    [] d.k = "indent" -> Measure(acc, flat, d.d)
    [] d.k = "group"  -> Measure(acc, TRUE, d.d)
    [] d.k = "line"   -> IF ~flat THEN Ended(acc) ELSE Taken(acc, IF d.soft THEN 0 ELSE 1)
    [] d.k = "hard"   -> Ended(acc)
    [] d.k = "ifbreak" -> Measure(acc, flat, IF flat THEN d.flat ELSE d.broken)
    [] OTHER          -> acc
MeasureAll(acc, ps, i, j) ==
  CASE acc.ended \/ i > j  -> acc
    [] ~acc.ended /\ i = j -> Measure(acc, ps[i].flat, ps[i].d)
    [] OTHER -> LET m == (i + j) \div 2
                IN MeasureAll(MeasureAll(acc, ps, i, m), ps, m + 1, j)

(* A variant: only the group itself is measured, not what follows it. *)
FitsAlone(left, d, rest) == Measure([left |-> left, ended |-> FALSE], TRUE, d).left >= 0

Fits(left, d, rest) ==
  MeasureAll(Measure([left |-> left, ended |-> FALSE], TRUE, d), rest, 1, Len(rest)).left >= 0

(***************************************************************************)
(* Rendering: the lines so far and the column.  A line keeps its tokens, its *)
(* length, the marks passed on it, and whether a group was printed flat and *)
(* whether verbatim text was copied on it.                                  *)
(***************************************************************************)
NewLine(ind) == [ind |-> ind, ts |-> <<>>, len |-> 0, marks |-> {}, flat |-> FALSE, raw |-> FALSE]

OnLine(s, ts, w) ==
  [lines |-> [s.lines EXCEPT ![Len(s.lines)].ts = @ \o ts, ![Len(s.lines)].len = s.col + w],
   col |-> s.col + w]

Broken(s, ind) == [lines |-> Append(s.lines, NewLine(ind)), col |-> ind]

Flattened(s, w) ==
  [lines |-> [s.lines EXCEPT ![Len(s.lines)].flat = TRUE], col |-> s.col + w]

Marked(s, m) == [s EXCEPT !.lines[Len(s.lines)].marks = @ \cup {<<m.key, m.end>>}]

PrintRaw(s, lines) ==
  LET put(acc, i) == LET at == IF i = 1 THEN acc ELSE Broken(acc, lines[i].ind)
                         on == OnLine(at, lines[i].ts, Width(lines[i].ts))
                     IN [on EXCEPT !.lines[Len(on.lines)].raw = TRUE]
  IN FoldLeft(put, s, [i \in DOMAIN lines |-> i])

FlatOk(s, width, d, rest) ==
  /\ ~d.must
  /\ d.max # <<>> => FlatWidth(d.d) <= d.max[1]
  /\ Fits(IF s.col > width THEN 0 ELSE width - s.col, d.d, rest)

RECURSIVE PrintDoc(_, _, _, _), PrintAll(_, _, _, _, _, _)
PrintDoc(s, width, p, rest) ==
  LET d == p.d
      instead(x) == [p EXCEPT !.d = x]
  IN CASE d.k = "text"   -> OnLine(s, d.ts, Width(d.ts))
       [] d.k = "mark"   -> Marked(s, d)
       [] d.k = "space"  -> [s EXCEPT !.col = @ + 1]
       [] d.k = "raw"    -> PrintRaw(s, d.lines)
       [] d.k = "concat" -> PrintAll(s, width, Pending(p.ind, p.flat, d.ds), 1, Len(d.ds), rest)
       [] d.k = "indent" -> PrintDoc(s, width, [instead(d.d) EXCEPT !.ind = @ + INDENT], rest)
       [] d.k = "line"   -> IF p.flat THEN Flattened(s, IF d.soft THEN 0 ELSE 1) ELSE Broken(s, p.ind)
       [] d.k = "hard"   -> Broken(s, p.ind)
       [] d.k = "ifbreak" -> PrintDoc(s, width, instead(IF p.flat THEN d.flat ELSE d.broken), rest)
       [] d.k = "group"  ->
            PrintDoc(s, width, [instead(d.d) EXCEPT !.flat = FlatOk(s, width, d, rest)], rest)
       [] OTHER          -> s
PrintAll(s, width, ps, i, j, rest) ==
  CASE s.col >= 0 /\ i > j -> s
    [] s.col >= 0 /\ i = j -> PrintDoc(s, width, ps[i], SubSeq(ps, i + 1, Len(ps)) \o rest)
    [] OTHER -> LET m == (i + j) \div 2
                IN PrintAll(PrintAll(s, width, ps, i, m, rest), width, ps, m + 1, j, rest)

(* Blank lines at the end are dropped; trailing spaces are no tokens. *)
Normalize(lines) ==
  SubSeq(lines, 1, CHOOSE n \in 0..Len(lines) :
                     /\ \A i \in (n + 1)..Len(lines) : lines[i].ts = <<>>
                     /\ n > 0 => lines[n].ts # <<>>)

Render(d, width) ==
  Normalize(PrintDoc([lines |-> <<NewLine(0)>>, col |-> 0], width,
                     [ind |-> 0, flat |-> FALSE, d |-> d], <<>>).lines)
=============================================================================
