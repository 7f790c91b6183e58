------------------------------- MODULE PlanFile -------------------------------
(***************************************************************************)
(* BcfParser: the plan (and dockers.bcf, mimes.bcf) is a list of lines,    *)
(* nested by their indentation.  parse_same_level calls itself for the     *)
(* content of an element and hands a line that is not its own back through *)
(* prev_line_info; the columns seen so far are kept in one list, which     *)
(* each level has to leave as its caller expects it.                       *)
(***************************************************************************)
EXTENDS Naturals, Sequences, SequencesExt, FiniteSetsExt

CONSTANT Files   \* sequences of [column, kind]

VARIABLES
  lines,    \* the file
  at,       \* line_no
  held,     \* prev_line_info: [line, indent], or None
  indents,  \* indent_map
  levels,   \* the calls of parse_same_level, outermost first
  tree,     \* what each line has been put into, the document being 0
  verdict   \* "parsing", "parsed", "refused" (ParseException) or "crashed"

vars == <<lines, at, held, indents, levels, tree, verdict>>

None == [line |-> 0, indent |-> 0]
Level(indent, of) == [indent |-> indent, of |-> of, seen |-> FALSE]

Init ==
  /\ lines \in Files /\ at = 0 /\ held = None /\ indents = <<>>
  /\ levels = <<Level(0, 0)>> /\ tree = <<>> /\ verdict = "parsing"

Parsing == verdict = "parsing"
Refuse == verdict' = "refused" /\ UNCHANGED <<held, indents>>

-----------------------------------------------------------------------------
(* Reading a line.                                                         *)
Ended == at = Len(lines)
Line == lines[at + 1]

(* Each call pops a column on its way out, its own or not.                 *)
EndOfFile ==
  /\ Parsing /\ held = None /\ Ended
  /\ IF Len(indents) >= Len(levels)
     THEN verdict' = "parsed" /\ indents' = SubSeq(indents, 1, Len(indents) - Len(levels))
     ELSE verdict' = "crashed" /\ indents' = <<>>
  /\ UNCHANGED <<lines, at, held, levels, tree>>

SkipComment ==
  /\ Parsing /\ held = None /\ ~Ended /\ Line.kind = "comment" /\ at' = at + 1
  /\ UNCHANGED <<lines, held, indents, levels, tree, verdict>>

(* get_indent: a new column is accepted to the right of all others.        *)
Pushed(column) ==
  IF indents = <<>> \/ column > Last(indents) THEN Append(indents, column) ELSE indents

ParseLine ==
  /\ Parsing /\ held = None /\ ~Ended /\ Line.kind # "comment" /\ at' = at + 1
  /\ IF Line.kind = "tab" \/ ~Contains(Pushed(Line.column), Line.column) \/ Line.kind = "broken"
     THEN Refuse
     ELSE /\ indents' = Pushed(Line.column)
          /\ held' = [line |-> at + 1, indent |-> SelectInSeq(indents', LAMBDA c : c = Line.column) - 1]
          /\ UNCHANGED verdict
  /\ UNCHANGED <<lines, levels, tree>>

-----------------------------------------------------------------------------
(* parse_same_level, given a line.                                         *)
Own == Last(levels)

LowerLevel ==
  /\ Parsing /\ held # None /\ held.indent > Own.indent
  /\ Refuse
  /\ UNCHANGED <<lines, at, levels, tree>>

(* Mutant: the column goes even if this level has had no line.             *)
PopAlways == TRUE
PopIfSeen == Own.seen

UpperLevel ==
  /\ Parsing /\ held # None /\ held.indent < Own.indent
  /\ indents' = IF PopIfSeen THEN Front(indents) ELSE indents
  /\ levels' = Front(levels)
  /\ UNCHANGED <<lines, at, held, tree, verdict>>

SameLevel ==
  /\ Parsing /\ held # None /\ held.indent = Own.indent
  /\ tree' = [i \in DOMAIN tree \cup {held.line} |-> IF i = held.line THEN Own.of ELSE tree[i]]
  /\ LET seen == [levels EXCEPT ![Len(levels)].seen = TRUE] IN
     levels' = IF lines[held.line].kind = "element"
               THEN Append(seen, Level(held.indent + 1, held.line)) ELSE seen
  /\ held' = None
  /\ UNCHANGED <<lines, at, indents, verdict>>

Next == EndOfFile \/ SkipComment \/ ParseLine \/ LowerLevel \/ UpperLevel \/ SameLevel

-----------------------------------------------------------------------------
(* What indentation means.                                                 *)
Content == {i \in DOMAIN lines : lines[i].kind # "comment"}
Before(i) == {j \in Content : j < i}
Outer(i) == {j \in Before(i) : lines[j].column < lines[i].column
               /\ \A k \in Before(i) : k > j => lines[k].column >= lines[i].column}
Container(i) == IF Outer(i) = {} THEN 0 ELSE Max(Outer(i))

(* A line to the right of the one before it belongs to that, an element;   *)
(* one to the left is in the column of a line that has not been closed.    *)
Ordered(i) ==
  Before(i) # {} =>
    LET p == Max(Before(i)) IN
    /\ lines[i].column > lines[p].column => lines[p].kind = "element"
    /\ lines[i].column < lines[p].column =>
         \E j \in Before(i) : lines[j].column = lines[i].column
                              /\ \A k \in Before(i) : k > j => lines[k].column >= lines[i].column
WellFormed == \A i \in Content : lines[i].kind \in {"element", "value"} /\ Ordered(i)
LeftOpen == Content = {} \/ lines[Max(Content)].kind = "element"

-----------------------------------------------------------------------------
(* Properties.                                                             *)

(* Every line is put where its indentation says, at each moment.           *)
TreeAsIndented == \A i \in DOMAIN tree : WellFormed => tree[i] = Container(i)

(* A file is refused exactly when it is ill-formed, and parsed whole when  *)
(* it is well-formed; but one without content, and one that ends with an   *)
(* element that has none, ends the server with an IndexError: the call for *)
(* the missing content pops a column it never pushed.                      *)
VerdictAsIndented ==
  /\ verdict = "refused" => ~WellFormed
  /\ verdict = "parsed" => WellFormed /\ ~LeftOpen /\ DOMAIN tree = Content /\ indents = <<>>
  /\ verdict = "crashed" => WellFormed /\ LeftOpen

PlanAsIndented == TreeAsIndented /\ VerdictAsIndented
=============================================================================
