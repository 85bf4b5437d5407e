----------------------------- MODULE Properties -----------------------------
(***************************************************************************)
(* scripts/read_properties.sh: prints the value of a property of a file,   *)
(* cat FILE | grep NAME | cut -d'=' -f2, the lines joined with blanks.     *)
(* grep looks for the name anywhere in a line, and cut prints a line       *)
(* without = as it is.                                                     *)
(*                                                                         *)
(* A line is the sequence of its fields, what = separates; a field is a    *)
(* model value, and Within says which names it has within it.  Pipelines   *)
(* append to their properties file between the reads.                      *)
(***************************************************************************)
EXTENDS Naturals, Sequences, FiniteSets

CONSTANTS
  Names,      \* names of properties
  Fields,     \* texts between two =, the names among them
  Within,     \* the pairs <<name, field>> such that the field contains the name
  MaxLines    \* bound: lines of the file

VARIABLES
  file,    \* the lines
  asked,   \* for the name of the last read
  printed  \* the output of the last read

vars == <<file, asked, printed>>

FileLines == {<<f>> : f \in Fields} \cup (Fields \X Fields) \cup (Names \X Fields \X Fields)
-----------------------------------------------------------------------------
grep_value(name, line) ==  \* mutant: only the first field after = is searched
  Len(line) > 1 /\ <<name, line[2]>> \in Within
grep(name, line) == \E i \in DOMAIN line : <<name, line[i]>> \in Within

cut(line) == IF Len(line) = 1 THEN line[1] ELSE line[2]

\* The lines that grep lets through, and the number of one among them.
Found(name) == {i \in DOMAIN file : grep(name, file[i])}
Nth(lines, i) == Cardinality({j \in lines : j <= i})

\* prop_value=`cat $1 | grep $2 | cut -d'=' -f2`; echo ${prop_value}
getProperty(name) ==
  [k \in 1..Cardinality(Found(name)) |->
     cut(file[CHOOSE i \in Found(name) : Nth(Found(name), i) = k])]

Read(name) ==
  /\ asked' = name /\ printed' = getProperty(name)
  /\ UNCHANGED file

\* A stage of the pipeline defines another property, or writes a comment.
AppendLine(line) ==
  /\ Len(file) < MaxLines /\ file' = Append(file, line)
  /\ UNCHANGED <<asked, printed>>

Init == file = <<>> /\ asked \in Names /\ printed = <<>>

Next == (\E n \in Names : Read(n)) \/ \E l \in FileLines : AppendLine(l)

Spec == Init /\ [][Next]_vars
-----------------------------------------------------------------------------
TypeOK ==
  /\ file \in Seq(FileLines) /\ Len(file) <= MaxLines
  /\ asked \in Names /\ printed \in Seq(Fields) /\ Len(printed) <= MaxLines

Mentioned(name) == {i \in DOMAIN file : \E j \in DOMAIN file[i] : <<name, file[i][j]>> \in Within}
Defined(name) == {i \in DOMAIN file : Len(file[i]) > 1 /\ file[i][1] = name}
Reads == UNCHANGED file

\* No definition is overlooked: the value of each, up to its second =, is printed; and
\* nothing is printed for a name the file does not have.
DefinitionsPrinted ==
  [][Reads =>
       /\ \A i \in Defined(asked') : \E k \in DOMAIN printed' : printed'[k] = file[i][2]
       /\ Mentioned(asked') = {} => printed' = <<>>]_vars
=============================================================================
