------------------------------- MODULE MCMerge -------------------------------
(* Small instances of MergeToMain.  Servers, branches and reviewers are     *)
(* interchangeable; changes are not, some are allowlisted.                  *)
(* The documents: any few lines, one conflict of up to two lines on a side, *)
(* and two conflicts, between zero to three lines of prose at either end.   *)
EXTENDS MergeRules, TLC

Symmetry == Permutations(Servers) \cup Permutations(Branches) \cup Permutations(Reviewers)

Mark(kind) == Line(kind, 0, 0)
Rows == {Line("row", 1, 2), Line("row", 2, 2), Line("comment", 1, 1)}
Some == Rows \cup {Mark(kind) : kind \in Kinds \ {"row", "comment"}}

Between(min, max, S) == UNION {[1..k -> S] : k \in min..max}

Conflict(ours, theirs) ==
  <<Mark("opens")>> \o ours \o <<Mark("parts")>> \o theirs \o <<Mark("closes")>>

Sides == Between(0, 2, Rows \cup {Mark("blank")})
OneLine == Between(1, 1, Rows)
Appended == Between(1, 1, Rows \cup {Line("row", 1, 3)})

Bodies ==
  Between(0, 3, Some)
    \cup {Conflict(ours, theirs) : ours \in Sides, theirs \in Sides}
    \cup {Conflict(a, b) : a \in Appended, b \in Appended}
    \cup {Conflict(a, b) \o Conflict(c, d) :
            a \in OneLine, b \in OneLine, c \in OneLine, d \in OneLine}

Prose(n) == [i \in 1..n |-> Line("prose", 0, i)]

MCDocuments ==
  {Prose(head) \o body \o Prose(foot) : head \in 0..2, foot \in 0..3, body \in Bodies}

Field(name, value) == Text("field", name, value)
Plain(kind) == Text(kind, None, None)

MCRequired == {"tip", "verdict"}
Enough == <<Field("tip", "t1"), Field("verdict", "PROCEED")>>

\* What may stand in a frontmatter next to, or in place of, what has to.
Entries ==
  {Field("tip", "t2"), Field("tip", NoValue), Field("verdict", "BLOCK"),
   Field("verdict", "MAYBE"), Field("schema_version", "1"), Field("schema_version", "2"),
   Field("lease_compliance", "out-of-scope"), Field("lease_compliance", "unsure"),
   Field(NoValue, "x"), Plain("blank"), Plain("comment"),
   Plain("text"), Plain("---")}

Fronts ==
  {Enough} \cup {<<e>> : e \in Entries \cup Range(Enough)} \cup {<<>>}
    \cup {<<e>> \o Enough : e \in Entries} \cup {Enough \o <<e>> : e \in Entries}
    \cup {Enough \o <<e, f>> : e \in Entries, f \in Entries}

BodyLines ==
  {Plain("fence"), Text("heading", "issues", None), Text("heading", "strengths", None),
   Text("heading", "none", None), Text("bullet", "HIGH", "x"), Text("bullet", "HIGH", "y"),
   Text("bullet", "none", "x"), Field("tip", "t2"), Plain("---")}

Fenced(front) == <<Plain("---")>> \o front \o <<Plain("---")>>

MCFiles ==
  {lead \o Fenced(front) : lead \in {<<>>, <<Plain("blank")>>, Enough}, front \in Fronts}
    \cup {Enough, <<Plain("---")>> \o Enough}
    \cup {Fenced(Enough) \o body : body \in Between(0, 5, BodyLines)}
==============================================================================
