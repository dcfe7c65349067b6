------------------------------ MODULE VerdictFile ------------------------------
(***************************************************************************)
(* How a reviewer's verdict file is read: extract-verdict.sh, whose result *)
(* the gates of MergeToMain act on.                                        *)
(*                                                                         *)
(* A line is what the parser can make of it: its kind, the name in it (the *)
(* key of a field, the section of a heading, the severity of a bullet) and *)
(* the value or text.  The same line is read differently in the            *)
(* frontmatter and in the body.                                            *)
(***************************************************************************)
EXTENDS Naturals, Sequences, FiniteSets, SequencesExt, FiniteSetsExt

CONSTANTS
  Required,     \* the fields a file must have
  VerdictWords, \* VALID_VERDICTS
  Leases,       \* VALID_LEASE_COMPLIANCE
  NoValue,      \* the empty string
  Rejected,     \* exit status 2
  Files         \* the files the properties are checked for

ASSUME FilesAssumption == \A file \in Files : file \in Seq(Range(file))

Text(kind, name, value) == [kind |-> kind, name |-> name, value |-> value]

Fields == Required \cup {"schema_version", "lease_compliance"}
Severities == {"HIGH", "MED", "LOW"}

-----------------------------------------------------------------------------
(* The frontmatter.                                                        *)

AllBlank(lines) == \A i \in DOMAIN lines : lines[i].kind = "blank"

\* The delimiters: only blank lines come before the first.
Delimiters(file) == {i \in DOMAIN file : file[i].kind = "---"}

Framed(file) ==
  /\ Cardinality(Delimiters(file)) >= 2
  /\ AllBlank(SubSeq(file, 1, Min(Delimiters(file)) - 1))

Opening(file) == Min(Delimiters(file))
Closing(file) == Min(Delimiters(file) \ {Opening(file)})

Frontmatter(file) == SubSeq(file, Opening(file) + 1, Closing(file) - 1)
Body(file) == SubSeq(file, Closing(file) + 1, Len(file))

\* Blank lines and comments are skipped, and a heading is a comment here;
\* anything else has to be a field with a key.
WellFormed(front) ==
  \A i \in DOMAIN front :
    \/ front[i].kind \in {"blank", "comment", "heading"}
    \/ front[i].kind = "field" /\ front[i].name # NoValue

\* fm[key], or the empty string.
Value(front, key) ==
  LET value[n \in 0..Len(front)] ==
        IF n = 0 THEN NoValue
        ELSE IF front[n].kind = "field" /\ front[n].name = key THEN front[n].value
        ELSE value[n - 1]
  IN value[Len(front)]

VersionSupported(front) == Value(front, "schema_version") \in {NoValue, "1"}

NothingMissing(front) == \A key \in Required : Value(front, key) # NoValue

LeaseCompliance(front) ==
  IF Value(front, "lease_compliance") = NoValue THEN "not-applicable"
  ELSE Value(front, "lease_compliance")

-----------------------------------------------------------------------------
(* The body: bullets under their headings, and none of a fenced excerpt.   *)

Unread == [section |-> "none", fenced |-> FALSE,
          issues |-> <<>>, followups |-> <<>>, strengths |-> <<>>]

\* Fault: headings count inside a fence.
HeadingsAlways(s) == FALSE

Hidden(s) == s.fenced

Bullet(s, line) ==
  CASE s.section = "strengths" -> [s EXCEPT !.strengths = Append(@, line)]
    [] s.section = "issues" /\ line.name \in Severities ->
         [s EXCEPT !.issues = Append(@, line)]
    [] s.section = "followups" /\ line.name \in Severities ->
         [s EXCEPT !.followups = Append(@, line)]
    [] OTHER -> s

ReadLine(s, line) ==
  CASE line.kind = "fence" -> [s EXCEPT !.fenced = ~@]
    [] line.kind = "heading" /\ ~Hidden(s) -> [s EXCEPT !.section = line.name]
    [] line.kind = "bullet" /\ ~s.fenced -> Bullet(s, line)
    [] OTHER -> s

ReadBody(lines) ==
  LET read[n \in 0..Len(lines)] == IF n = 0 THEN Unread ELSE ReadLine(read[n - 1], lines[n])
  IN read[Len(lines)]

Accepted(file) ==
  /\ Framed(file)
  /\ LET front == Frontmatter(file)
     IN /\ WellFormed(front) /\ VersionSupported(front) /\ NothingMissing(front)
        /\ Value(front, "verdict") \in VerdictWords /\ LeaseCompliance(front) \in Leases

\* The object on stdout, or exit status 2.
Extracted(file) ==
  IF ~Accepted(file) THEN Rejected
  ELSE LET front == Frontmatter(file)
           body == ReadBody(Body(file))
       IN [fields |-> [key \in Required |-> Value(front, key)],
           lease |-> LeaseCompliance(front),
           issues |-> body.issues, followups |-> body.followups,
           strengths |-> body.strengths]

-----------------------------------------------------------------------------
(* What reading should mean.                                               *)

Fences(lines, i) == {j \in 1..i - 1 : lines[j].kind = "fence"}
Visible(lines, i) == Cardinality(Fences(lines, i)) % 2 = 0

Headings(lines, i) ==
  {j \in 1..i - 1 : lines[j].kind = "heading" /\ Visible(lines, j)}

\* The findings of a section, by their place.
Findings(lines, section) ==
  {i \in DOMAIN lines :
     /\ lines[i].kind = "bullet" /\ Visible(lines, i)
     /\ section # "strengths" => lines[i].name \in Severities
     /\ Headings(lines, i) # {} /\ lines[Max(Headings(lines, i))].name = section}

\* A list has the lines of some places, in their order.
InOrder(lines, places, list) ==
  /\ Len(list) = Cardinality(places)
  /\ \A i \in places : list[Cardinality({j \in places : j <= i})] = lines[i]

\* The last line that sets a field has the say, and there is one for every
\* required field.
FieldsMean(file, read) ==
  LET front == Frontmatter(file)
      setting(key) == {i \in DOMAIN front : front[i].kind = "field" /\ front[i].name = key}
  IN \A key \in Required :
       setting(key) # {} /\ read.fields[key] = front[Max(setting(key))].value

BodyMeans(file, read) ==
  /\ InOrder(Body(file), Findings(Body(file), "issues"), read.issues)
  /\ InOrder(Body(file), Findings(Body(file), "followups"), read.followups)
  /\ InOrder(Body(file), Findings(Body(file), "strengths"), read.strengths)

ReadingsMean ==
  \A file \in Files :
    LET read == Extracted(file)
    IN read # Rejected =>
         FieldsMean(file, read) /\ BodyMeans(file, read)
==============================================================================
