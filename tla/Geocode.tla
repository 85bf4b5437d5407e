------------------------------ MODULE Geocode ------------------------------
(***************************************************************************)
(* geocode-data: gen_geo_etl.awk turns the records of the Canada Post      *)
(* address file into the rows of a COPY.  The variables that getFullProv,  *)
(* getFullStreetType and getFullStreetDir assign are global and keep their *)
(* values from record to record; only parameters are copies.               *)
(*                                                                         *)
(* A field is "" (blank) or its text.  The columns of a street number may  *)
(* hold anything.  The two numbers of a row are handled alike and appear   *)
(* as one; the fields that are printed as they are do not appear.          *)
(***************************************************************************)
EXTENDS Naturals, Sequences, FiniteSets

CONSTANTS
  MaxRecords,  \* bound: records of the address file
  Provinces, Types, Directions, Numbers, Routes  \* contents of the fields

Null == "\\N"  \* the text \N, with which COPY writes NULL

Records == [REC_TYPE : {"1", "2", "3", "4", "5"}, action : {"D", "other"},
            PROV_ABBR : Provinces, ST_TYPE : Types, dir : Directions,
            no : Numbers, route : Routes]

VARIABLES
  records,  \* of the address file, read so far
  PROV_FULL, ST_TYPE_FULL, ST_DIR_FULL,  \* of the script
  rows,     \* written to load_canada.sql
  phase     \* "awk", or "written": the whole file

names == <<PROV_FULL, ST_TYPE_FULL, ST_DIR_FULL>>
vars == <<records, names, rows, phase>>
-----------------------------------------------------------------------------
(* The translations: tables of the script, some lines of each.             *)

ProvinceNames == [QC |-> "QUEBEC", ON |-> "ONTARIO", NU |-> "NUNAVUT"]
StreetTypeNames == [ABBEY |-> "Abbey", WALK |-> "Walk", WAY |-> "Way"]
DirectionNames(PROV_ABBR) ==
  IF PROV_ABBR = "QC"
  THEN [S |-> "Sud", SW |-> "Sud-Ouest", SO |-> "Sud-Ouest", W |-> "Ouest", O |-> "Ouest"]
  ELSE [S |-> "South", SW |-> "Southwest", SO |-> "Southwest", W |-> "West", O |-> "West"]

\* Each function sets its variable to \N before it looks for the key.
Full_stale(table, key, variable) ==  \* mutant: the variable is not reset
  IF key \in DOMAIN table THEN table[key] ELSE variable
Full(table, key, variable) == IF key \in DOMAIN table THEN table[key] ELSE Null

getFullProv(abbr) == PROV_FULL' = Full(ProvinceNames, abbr, PROV_FULL)
getFullStreetType(type) == ST_TYPE_FULL' = Full(StreetTypeNames, type, ST_TYPE_FULL)

\* The abbreviation that it translates between the languages is its own copy.
getFullStreetDir(abbr, dir) == ST_DIR_FULL' = Full(DirectionNames(abbr), dir, ST_DIR_FULL)
-----------------------------------------------------------------------------
\* "Skip records which are deleted or postal station"
Skipped(r) == r.action = "D" \/ r.REC_TYPE = "5"

\* Where the layout of the record has the field, and \N where it does not.
ST_DIR(r) == IF r.REC_TYPE \in {"1", "2"} THEN r.dir ELSE Null
ROUTE(r) == IF r.REC_TYPE \in {"2", "4"} THEN r.route ELSE Null

\* "Remove non-numeric street numbers": the texts that match ^[0-9]+$.
Digits == {"12", "300"}
Number(text) == IF text \in Digits THEN text ELSE Null

\* "Replace empty with null"
OrNull(text) == IF text = "" THEN Null ELSE text

\* main(): the next record, and the row that is printed for it.
Main(r) ==
  /\ phase = "awk" /\ Len(records) < MaxRecords
  /\ records' = Append(records, r)
  /\ \/ Skipped(r) /\ UNCHANGED <<names, rows>>
     \/ /\ ~Skipped(r)
        /\ getFullProv(r.PROV_ABBR) /\ getFullStreetType(r.ST_TYPE)
        /\ getFullStreetDir(r.PROV_ABBR, ST_DIR(r))
        /\ rows' = Append(rows,
             [province |-> PROV_FULL',
              type |-> OrNull(r.ST_TYPE), typeFull |-> ST_TYPE_FULL',
              dir |-> OrNull(ST_DIR(r)), dirFull |-> ST_DIR_FULL',
              no |-> OrNull(Number(r.no)), route |-> OrNull(ROUTE(r))])
  /\ UNCHANGED phase

\* END: \. closes the COPY.
End ==
  /\ phase = "awk" /\ phase' = "written"
  /\ UNCHANGED <<records, names, rows>>

\* A variable of awk that was never assigned is the empty string.
Init == /\ records = <<>> /\ rows = <<>> /\ phase = "awk"
        /\ PROV_FULL = "" /\ ST_TYPE_FULL = "" /\ ST_DIR_FULL = ""

Next == (\E r \in Records : Main(r)) \/ End

Spec == Init /\ [][Next]_vars
-----------------------------------------------------------------------------
Filled == {Null} \cup ((Types \cup Directions \cup Routes) \ {""})
Names(table) == {Null} \cup {table[k] : k \in DOMAIN table}

Row == [province : Names(ProvinceNames), type : Filled,
        typeFull : Names(StreetTypeNames), dir : Filled,
        dirFull : Names(DirectionNames("QC")) \cup Names(DirectionNames("ON")),
        no : {Null} \cup (Digits \cap Numbers), route : Filled]

TypeOK ==
  /\ records \in Seq(Records) /\ Len(records) <= MaxRecords
  /\ rows \in Seq(Row)
  /\ phase \in {"awk", "written"}

\* A row describes its record: in the language of its province, without numbers that
\* are none, and without a street's direction or a route that the record has not.
Describes(row, r) ==
  LET french == r.PROV_ABBR = "QC"
      street == r.REC_TYPE \in {"1", "2"} /\ r.dir \in DOMAIN DirectionNames("QC")
  IN  /\ row.province = Null <=> r.PROV_ABBR \notin DOMAIN ProvinceNames
      /\ row.typeFull # Null <=> r.ST_TYPE \in DOMAIN StreetTypeNames
      /\ row.dirFull # Null <=> street
      /\ street => row.dirFull = DirectionNames(IF french THEN "QC" ELSE "ON")[r.dir]
      /\ row.no # Null => row.no = r.no
      /\ row.route # Null => r.REC_TYPE \in {"2", "4"} /\ row.route = r.route

\* Every record that is neither deleted nor a postal station gives one row, in order,
\* and nothing of the records before it gets into the row.
Kept == {i \in DOMAIN records : records[i].action # "D" /\ records[i].REC_TYPE # "5"}
RowOf(i) == Cardinality({j \in Kept : j <= i})
RowsDescribeRecords ==
  /\ Len(rows) = Cardinality(Kept)
  /\ \A i \in Kept : Describes(rows[RowOf(i)], records[i])
=============================================================================
