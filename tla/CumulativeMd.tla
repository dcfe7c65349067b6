----------------------------- MODULE CumulativeMd -----------------------------
(***************************************************************************)
(* How merge_to_main resolves a conflict in the cumulative document        *)
(* (cumulative_md.rs): rows that both branches appended are united, and    *)
(* anything else is refused.  MergeToMain takes either outcome.            *)
(*                                                                         *)
(* A line is its kind, the name of the branch it is attributed to and its  *)
(* text, both as numbers in their order.  Lines are counted from 1.        *)
(***************************************************************************)
EXTENDS Naturals, Sequences, FiniteSets, SequencesExt, FiniteSetsExt

CONSTANTS
  Preamble, Footer,   \* PREAMBLE_GUARD_LINES and FOOTER_GUARD_LINES
  Documents           \* the documents the properties are checked for

\* The conflict markers open a block, part its two sides and close it.
Kinds == {"opens", "parts", "closes", "row", "comment", "blank", "prose"}

Lines == [kind : Kinds, branch : Nat, text : Nat]

\* The text of a line says what it is.
ASSUME DocumentsAssumption ==
  /\ {Preamble, Footer} \subseteq Nat
  /\ \A doc \in Documents :
       /\ doc \in Seq(Lines)
       /\ \A a, b \in {line \in Range(doc) : line.kind \in {"row", "comment"}} :
            a.branch = b.branch /\ a.text = b.text => a = b

Line(kind, branch, text) == [kind |-> kind, branch |-> branch, text |-> text]

IsA(kind, doc, i) == doc[i].kind = kind

-----------------------------------------------------------------------------
(* find_conflict_blocks.                                                   *)

Opens(doc) == {i \in DOMAIN doc : IsA("opens", doc, i)}

\* The first line of a kind after line i.
NextOf(kind, doc, i) == {j \in i + 1..Len(doc) : IsA(kind, doc, j)}

\* A block runs to the next closing marker, with a separator and without
\* another opening marker before it.
Matched(doc, i) ==
  /\ NextOf("closes", doc, i) # {}
  /\ LET close == Min(NextOf("closes", doc, i))
     IN /\ \A j \in Opens(doc) : ~(i < j /\ j < close)
        /\ \E j \in NextOf("parts", doc, i) : j < close

MalformedMarkers(doc) == \E i \in Opens(doc) : ~Matched(doc, i)

Block(doc, i) ==
  LET sep == Min(NextOf("parts", doc, i))
      close == Min(NextOf("closes", doc, i))
  IN [start |-> i, end |-> close,
      ours |-> SubSeq(doc, i + 1, sep - 1), theirs |-> SubSeq(doc, sep + 1, close - 1)]

Blocks(doc) == {Block(doc, i) : i \in Opens(doc)}

-----------------------------------------------------------------------------
(* resolve_cumulative_md_conflict.                                         *)

InProtectedZone(doc, b) == b.start <= Preamble \/ b.end + Footer >= Len(doc)

\* is_pure_addition and all_lines_table_or_branch_comment.
ContentMixed(b) ==
  \/ b.ours = <<>> \/ b.theirs = <<>>
  \/ \E line \in Range(b.ours) \cup Range(b.theirs) :
       line.kind \notin {"row", "comment", "blank"}

Before(a, b) == a.branch < b.branch \/ (a.branch = b.branch /\ a.text < b.text)

\* Fault: the sides one after the other.
OursThenTheirs(b) ==
  SelectSeq(b.ours \o b.theirs, LAMBDA line : line.kind # "blank")

\* union_merge_sorted: a line comes after the lines that are before it.
Place(line, lines) == Cardinality({other \in lines : Before(other, line)}) + 1

UnionMergeSorted(b) ==
  LET lines == {line \in Range(b.ours) \cup Range(b.theirs) : line.kind # "blank"}
  IN [k \in 1..Cardinality(lines) |-> CHOOSE line \in lines : Place(line, lines) = k]

\* What line i of the document becomes.
Resolved(doc, i) ==
  IF \E b \in Blocks(doc) : b.start = i
  THEN UnionMergeSorted(Block(doc, i))
  ELSE IF \E b \in Blocks(doc) : b.start < i /\ i <= b.end THEN <<>> ELSE <<doc[i]>>

Refused(doc) ==
  \/ MalformedMarkers(doc)
  \/ \E b \in Blocks(doc) : InProtectedZone(doc, b) \/ ContentMixed(b)

Resolve(doc) ==
  LET output[n \in 0..Len(doc)] == IF n = 0 THEN <<>> ELSE output[n - 1] \o Resolved(doc, n)
  IN output[Len(doc)]

-----------------------------------------------------------------------------
(* What a resolution should keep.                                          *)

\* The document as one side had it.
Side(doc, keep) ==
  {i \in DOMAIN doc : \A b \in Blocks(doc) : i \notin b.start..b.end}
    \cup UNION {IF keep = "ours"
                THEN b.start + 1..b.start + Len(b.ours)
                ELSE b.end - Len(b.theirs)..b.end - 1 : b \in Blocks(doc)}

Content(lines) == {line \in lines : line.kind # "blank"}

\* The same conflict seen from the other branch.
Swapped(doc) ==
  LET around(i) == {b \in Blocks(doc) : b.start < i /\ i <= b.end}
      other(b) == b.theirs \o <<Line("parts", 0, 0)>> \o b.ours \o <<Line("closes", 0, 0)>>
  IN [i \in DOMAIN doc |->
        IF around(i) = {} THEN doc[i]
        ELSE LET b == CHOOSE b \in around(i) : TRUE IN other(b)[i - b.start]]

Foot(n, doc) == SubSeq(doc, Len(doc) - n + 1, Len(doc))

\* Every line either side had is kept and no other, whichever branch rebases,
\* and the ends of the document stay as they are.
ResolutionKeeps(doc) ==
  LET result == Resolve(doc)
      sides == Side(doc, "ours") \cup Side(doc, "theirs")
  IN /\ Content(Range(result)) = Content({doc[i] : i \in sides})
     /\ Opens(result) = {}
     /\ result = Resolve(Swapped(doc))
     /\ Blocks(doc) # {} =>
          /\ SubSeq(result, 1, Preamble) = SubSeq(doc, 1, Preamble)
          /\ Foot(Footer, result) = Foot(Footer, doc)

\* The sides have a row of one branch with different texts: it was edited.
Edited(b) ==
  \E mine \in Range(b.ours), other \in Range(b.theirs) :
    /\ mine.kind = "row" /\ other.kind = "row"
    /\ mine.branch = other.branch /\ mine.text # other.text

HasEditedRow(doc) == ~MalformedMarkers(doc) /\ \E b \in Blocks(doc) : Edited(b)

ResolutionsKeep ==
  \A doc \in Documents : Refused(doc) \/ HasEditedRow(doc) \/ ResolutionKeeps(doc)
==============================================================================
