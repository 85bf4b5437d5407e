----------------------------- MODULE SetupProofs -----------------------------
(* Theorems about module Setup, for any number of failures and of uses of    *)
(* the database between the runs.                                            *)
EXTENDS Setup, TLAPS

(* The scripts and the dependencies, statement by statement.               *)

\* Objects that others need, and what some of these need in turn.
Bases == {"prevalence_range", "geocodes", "schools_daycares", "lots", "readonly",
          "trades_agents", "agents_diseases", "load_schools_daycares",
          "load_schools_daycares()", "load_lots", "load_lots()", "Immun_Submission",
          "Submission_Attachment", "file_upload_check()"}
Uppers == {"agents", "diseases", "trades", "geocodes_index"}

LEMMA ChainsAreShort ==
  ASSUME NEW o
  PROVE  /\ Needs(o) \subseteq Bases \cup Uppers
         /\ o \in Bases => Needs(o) = {}
         /\ o \in Uppers => Needs(o) \subseteq Bases
         /\ o \notin Needs(o)
<1>1. Needs(o) \subseteq Bases \cup Uppers
  BY DEF Needs, Bases, Uppers, MatViews, Source, VaccineTables
<1>2. o \in Bases => Needs(o) = {}
  BY DEF Needs, Bases, MatViews
<1>3. o \in Uppers => Needs(o) \subseteq Bases
  BY DEF Needs, Bases, Uppers, MatViews, Source
<1>4. o \notin Needs(o)
  BY DEF Needs, MatViews, Source, VaccineTables
<1> QED  BY <1>1, <1>2, <1>3, <1>4

\* Foreign keys are no relations, and nothing needs them.
LEMMA PartsApart ==
  ASSUME NEW o
  PROVE  /\ Parts(o) \cap (Relations \cup Bases \cup Uppers) = {}
         /\ \A p \in Parts(o) : p \in {"trades_agents_fkeys", "agents_diseases_fkeys"}
BY DEF Parts, Relations, Tables, LookupTables, SubmitTables, MatViews, Views, Bases, Uppers

LEMMA FilesAre ==
  /\ DOMAIN Files = 1..6 /\ Len(Files) = 6
  /\ Files[1] = Drop_DB /\ Files[2] = Add_Roles /\ Files[3] = Create_Lookup_DB
  /\ Files[4] = Create_Submit_DB /\ Files[5] = Geocode_Data /\ Files[6] = Lookup_Data
BY DEF Files

LEMMA Lengths ==
  /\ Len(Drop_DB) = 29 /\ DOMAIN Drop_DB = 1..29
  /\ Len(Add_Roles) = 5 /\ DOMAIN Add_Roles = 1..5
  /\ Len(Create_Lookup_DB) = 39 /\ DOMAIN Create_Lookup_DB = 1..39
  /\ Len(Create_Submit_DB) = 8 /\ DOMAIN Create_Submit_DB = 1..8
  /\ Len(Geocode_Data) = 2 /\ DOMAIN Geocode_Data = 1..2
  /\ Len(Lookup_Data) = 12 /\ DOMAIN Lookup_Data = 1..12
<1>1. Len(Drop_DB) = 29 /\ DOMAIN Drop_DB = 1..29
  BY DEF Drop_DB, Each
<1>2. Len(Add_Roles) = 5 /\ DOMAIN Add_Roles = 1..5
  BY DEF Add_Roles, Each
<1>3. Len(Create_Lookup_DB) = 39 /\ DOMAIN Create_Lookup_DB = 1..39
  BY DEF Create_Lookup_DB, Each
<1>4. Len(Create_Submit_DB) = 8 /\ DOMAIN Create_Submit_DB = 1..8
  BY DEF Create_Submit_DB, Each
<1>5. Len(Geocode_Data) = 2 /\ DOMAIN Geocode_Data = 1..2
  BY DEF Geocode_Data
<1>6. Len(Lookup_Data) = 12 /\ DOMAIN Lookup_Data = 1..12
  BY DEF Lookup_Data, Each
<1> QED  BY <1>1, <1>2, <1>3, <1>4, <1>5, <1>6

LEMMA LengthOf ==
  ASSUME NEW f \in DOMAIN Files
  PROVE  /\ f \in 1..6 /\ Len(Files[f]) \in Nat \ {0}
         /\ DOMAIN Files[f] = 1..Len(Files[f])
<1>1. f \in 1..6
  BY FilesAre
<1>2. CASE f = 1
  BY <1>2, FilesAre, Lengths
<1>3. CASE f = 2
  BY <1>3, FilesAre, Lengths
<1>4. CASE f = 3
  BY <1>4, FilesAre, Lengths
<1>5. CASE f = 4
  BY <1>5, FilesAre, Lengths
<1>6. CASE f = 5
  BY <1>6, FilesAre, Lengths
<1>7. CASE f = 6
  BY <1>7, FilesAre, Lengths
<1> QED  BY <1>1, <1>2, <1>3, <1>4, <1>5, <1>6, <1>7

\* What the statements do, file by file.
Changes == {"drop", "dropCascade", "make", "grantSelect", "alterDefault"}

LEMMA DropStmts ==
  \A i \in 1..29 : Drop_DB[i].op \in {"drop", "dropCascade"}
BY DEF Drop_DB, Each

LEMMA RoleStmts ==
  \A i \in 1..5 : Add_Roles[i].op \in {"make", "grantSelect", "alterDefault"}
BY DEF Add_Roles, Each

LEMMA LookupStmts ==
  /\ \A i \in 1..39 : Create_Lookup_DB[i].op \in {"drop", "make", "insert"}
  /\ \A i \in 1..39 : Create_Lookup_DB[i].op = "insert" <=> i = 13
  /\ Create_Lookup_DB[13].on = "process_lock"
<1>1. \A i \in 1..39 : Create_Lookup_DB[i].op \in {"drop", "make", "insert"}
  BY DEF Create_Lookup_DB, Each
<1>2. \A i \in 1..39 : Create_Lookup_DB[i].op = "insert" <=> i = 13
  BY DEF Create_Lookup_DB, Each
<1>3. Create_Lookup_DB[13].on = "process_lock"
  BY DEF Create_Lookup_DB, Each
<1> QED  BY <1>1, <1>2, <1>3

LEMMA SubmitStmts ==
  \A i \in 1..8 : Create_Submit_DB[i].op \in {"drop", "make"}
BY DEF Create_Submit_DB, Each

LEMMA GeocodeStmts ==
  /\ Geocode_Data[1] = [op |-> "copy", on |-> "geocodes"]
  /\ Geocode_Data[2] = [op |-> "refresh", on |-> "geocodes_index"]
BY DEF Geocode_Data

LEMMA DataStmts ==
  /\ Lookup_Data[1] = [op |-> "start", on |-> "transaction"]
  /\ \A i \in 2..9 : Lookup_Data[i].op = "copy" /\ Lookup_Data[i].on \in LookupTables
  /\ \A t \in LookupTables : \E i \in 2..9 : Lookup_Data[i].on = t
  /\ \A i, j \in 2..9 : i # j => Lookup_Data[i].on # Lookup_Data[j].on
  /\ Lookup_Data[10] = [op |-> "commit", on |-> "transaction"]
  /\ Lookup_Data[11] = [op |-> "refresh", on |-> "schools_daycares_index"]
  /\ Lookup_Data[12] = [op |-> "refresh", on |-> "cities_index"]
<1>1. /\ Lookup_Data[1] = [op |-> "start", on |-> "transaction"]
      /\ Lookup_Data[10] = [op |-> "commit", on |-> "transaction"]
  BY DEF Lookup_Data, Each
<1>2. /\ Lookup_Data[11] = [op |-> "refresh", on |-> "schools_daycares_index"]
      /\ Lookup_Data[12] = [op |-> "refresh", on |-> "cities_index"]
  BY DEF Lookup_Data, Each
<1>3. /\ Lookup_Data[2] = [op |-> "copy", on |-> "agents"]
      /\ Lookup_Data[3] = [op |-> "copy", on |-> "diseases"]
      /\ Lookup_Data[4] = [op |-> "copy", on |-> "trades"]
      /\ Lookup_Data[5] = [op |-> "copy", on |-> "public_health_units"]
      /\ Lookup_Data[6] = [op |-> "copy", on |-> "agents_diseases"]
      /\ Lookup_Data[7] = [op |-> "copy", on |-> "trades_agents"]
      /\ Lookup_Data[8] = [op |-> "copy", on |-> "lots"]
      /\ Lookup_Data[9] = [op |-> "copy", on |-> "schools_daycares"]
  BY DEF Lookup_Data, Each
<1>4. \A i \in 2..9 : Lookup_Data[i].op = "copy" /\ Lookup_Data[i].on \in LookupTables
  BY <1>3 DEF LookupTables
<1>5. \A t \in LookupTables : \E i \in 2..9 : Lookup_Data[i].on = t
  BY <1>3 DEF LookupTables
<1>6. \A i, j \in 2..9 : i # j => Lookup_Data[i].on # Lookup_Data[j].on
  BY <1>3
<1> QED  BY <1>1, <1>2, <1>4, <1>5, <1>6

\* Only the last file has a transaction, and only it and the file before copy.
LEMMA Shape ==
  ASSUME NEW f \in 1..6, NEW i \in 1..Len(Files[f])
  PROVE  /\ Files[f][i].op \in Changes \cup {"insert", "copy", "refresh", "start", "commit"}
         /\ Files[f][i].op = "start" <=> f = 6 /\ i = 1
         /\ Files[f][i].op = "commit" <=> f = 6 /\ i = 10
         /\ Files[f][i].op = "copy" <=> (f = 5 /\ i = 1) \/ (f = 6 /\ i \in 2..9)
         /\ Files[f][i].op = "copy" => Files[f][i].on \in LookupTables \cup {"geocodes"}
         /\ Files[f][i].op = "copy" /\ f = 6 => Files[f][i].on \in LookupTables
         /\ Files[f][i].op = "insert" => Files[f][i].on = "process_lock"
         /\ Files[f][i].op = "refresh" => Files[f][i].on \in MatViews
<1> DEFINE x == Files[f][i]
<1>1. ASSUME f \in 1..4
      PROVE  x.op \in Changes \cup {"insert"} /\ (x.op = "insert" => x.on = "process_lock")
  <2>1. CASE f = 1
    BY <2>1, FilesAre, Lengths, DropStmts DEF Changes
  <2>2. CASE f = 2
    BY <2>2, FilesAre, Lengths, RoleStmts DEF Changes
  <2>3. CASE f = 3
    BY <2>3, FilesAre, Lengths, LookupStmts DEF Changes
  <2>4. CASE f = 4
    BY <2>4, FilesAre, Lengths, SubmitStmts DEF Changes
  <2> QED  BY <1>1, <2>1, <2>2, <2>3, <2>4
<1>2. CASE f \in 1..4
  BY <1>1, <1>2 DEF Changes
<1>3. CASE f = 5
  BY <1>3, FilesAre, Lengths, GeocodeStmts DEF Changes, MatViews
<1>4. CASE f = 6
  <2>1. /\ i \in 1..12 /\ x = Lookup_Data[i]
    BY <1>4, FilesAre, Lengths
  <2>2. CASE i \in 2..9
    BY <1>4, <2>1, <2>2, DataStmts DEF Changes
  <2>3. CASE i \in {1, 10, 11, 12}
    BY <1>4, <2>1, <2>3, DataStmts DEF Changes, MatViews
  <2> QED  BY <2>1, <2>2, <2>3
<1> QED  BY <1>2, <1>3, <1>4
-----------------------------------------------------------------------------
(* Whatever has failed before.                                             *)

\* Every object has what it needs.
Closed == \A o \in objs : Needs(o) \subseteq objs

CatalogOK ==
  /\ objs \subseteq Installed \cup Tables /\ readable \subseteq objs \cap Relations
  /\ content \in [Relations -> Values] /\ defaultRead \in BOOLEAN

ControlOK ==
  /\ file \in 1..6 /\ at \in 1..Len(Files[file]) + 1
  /\ status \in {"idle", "running", "completed"} /\ clean \in BOOLEAN
  /\ faults \in 0..MaxFaults /\ uses \in 0..MaxUses
  /\ status # "running" => file = 1 /\ at = 1

\* The one transaction is open or has failed from START to COMMIT; while it is open, all
\* the COPYs before have gone through, into empty tables.
TxOK ==
  /\ tx \in {"none", "open", "failed"} /\ copied \subseteq LookupTables
  /\ tx = "none" => copied = {} /\ ~(file = 6 /\ at \in 2..10)
  /\ tx # "none" => file = 6 /\ at > 1
  /\ tx = "open" => /\ at \in 2..10 /\ copied = {Lookup_Data[k].on : k \in 2..at - 1}
                    /\ \A t \in copied : content[t] = "empty"

Base == CatalogOK /\ Closed /\ ControlOK /\ TxOK

LEMMA Statement ==
  ASSUME ControlOK, Running
  PROVE  /\ file \in 1..6 /\ at \in 1..Len(Files[file]) /\ st = Files[file][at]
         /\ st \in Statements
<1>1. file \in DOMAIN Files /\ Len(Files[file]) \in Nat
  BY FilesAre, LengthOf DEF ControlOK
<1>2. at \in 1..Len(Files[file])
  BY <1>1 DEF ControlOK, Running
<1>3. at \in DOMAIN Files[file]
  BY <1>1, <1>2, LengthOf
<1> QED  BY <1>1, <1>2, <1>3 DEF Statements, st, ControlOK

LEMMA MakesInstalled ==
  ASSUME NEW x \in Statements, x.op = "make"
  PROVE  {x.on} \cup Parts(x.on) \subseteq Installed
BY Zenon DEF Installed

LEMMA NextStatement ==
  ASSUME ControlOK, Running, at' = at + 1, UNCHANGED <<file, status>>,
         clean' \in {clean, FALSE}, faults' \in 0..MaxFaults, uses' = uses
  PROVE  ControlOK'
<1>1. file \in 1..6 /\ Len(Files[file]) \in Nat /\ at \in 1..Len(Files[file])
  BY Statement, LengthOf, FilesAre
<1>2. at' \in 1..Len(Files[file'])+1 /\ file' \in 1..6
  BY <1>1
<1> QED  BY <1>2 DEF ControlOK, Running

\* Outside of the transaction.
LEMMA QuietStatement ==
  ASSUME ControlOK, TxOK, Running, st.op \in Changes \cup {"insert", "refresh"}
  PROVE  /\ file = 6 => at > 10
         /\ tx # "failed" => tx = "none" /\ copied = {}
<1>1. /\ file \in 1..6 /\ at \in 1..Len(Files[file]) /\ st = Files[file][at]
  BY Statement
<1>2. file = 6 => at # 1 /\ at # 10 /\ at \notin 2..9
  BY <1>1, Shape DEF Changes
<1>3. file = 6 => at > 10
  BY <1>1, <1>2, FilesAre, Lengths
<1> QED  BY <1>3 DEF TxOK

LEMMA QuietTx ==
  ASSUME ControlOK, TxOK, Running, st.op \in Changes \cup {"insert", "refresh"},
         tx # "failed", Autocommit
  PROVE  ControlOK' /\ TxOK' /\ defaultRead' = defaultRead
<1>1. at' = at + 1 /\ UNCHANGED <<file, status, clean, faults, uses, tx, copied, defaultRead>>
  BY DEF Autocommit, Advance
<1>2. ControlOK'
  BY <1>1, NextStatement DEF ControlOK
<1>3. TxOK'
  <2>1. tx = "none" /\ copied = {} /\ (file = 6 => at > 10)
    BY QuietStatement
  <2>2. at \in Nat
    BY DEF ControlOK
  <2>3. file' = 6 => at' \notin 2..10
    BY <1>1, <2>1, <2>2
  <2> QED  BY <1>1, <2>1, <2>3 DEF TxOK
<1> QED  BY <1>1, <1>2, <1>3

LEMMA RemoveKeeps ==
  ASSUME CatalogOK, Closed, NEW o, Remove(Cascade(o)), defaultRead' = defaultRead
  PROVE  CatalogOK' /\ Closed'
<1> DEFINE gone == Cascade(o)
<1>1. /\ objs' = objs \ gone /\ readable' = readable \ gone
      /\ content' = [r \in Relations |-> IF r \in gone THEN "unpopulated" ELSE content[r]]
  BY DEF Remove
<1>2. content' \in [Relations -> Values]
  BY <1>1 DEF CatalogOK, Values
<1>3. CatalogOK'
  BY <1>1, <1>2 DEF CatalogOK
<1>4. ASSUME NEW z \in objs', NEW y \in Needs(z)
      PROVE  y \in objs'
  <2>1. z \in objs /\ z \notin gone /\ y \in objs
    BY <1>1, <1>4 DEF Closed
  <2>2. z \notin Dependents(Dependents({o}))
    BY <2>1 DEF Cascade
  <2>3. y \notin Dependents({o})
    BY <1>4, <2>1, <2>2 DEF Dependents
  <2>4. Needs(y) \cap Dependents({o}) = {}
    <3> SUFFICES ASSUME NEW x \in Needs(y), x \in Dependents({o}) PROVE FALSE
      OBVIOUS
    <3>1. y \in Bases \cup Uppers /\ y \notin Bases
      BY <1>4, ChainsAreShort
    <3>2. x \in Bases /\ Needs(x) = {}
      BY <3>1, ChainsAreShort
    <3>3. x = o
      BY <3>2 DEF Dependents
    <3> QED  BY <2>1, <2>3, <3>3 DEF Dependents
  <2>5. y \notin gone
    BY <2>3, <2>4 DEF Cascade, Dependents
  <2> QED  BY <1>1, <2>1, <2>5
<1> QED  BY <1>3, <1>4 DEF Closed

LEMMA PutContent ==
  ASSUME CatalogOK, NEW o, NEW v \in Values, content' = Holds(o, v)
  PROVE  content' \in [Relations -> Values]
BY DEF CatalogOK, Holds

LEMMA DropBase == ASSUME Base, Drop PROVE Base'
<1>1. Running /\ st.op \in Changes /\ tx # "failed"
  BY DEF Drop, Stmt, Changes
<1>2. ControlOK' /\ TxOK' /\ defaultRead' = defaultRead
  BY <1>1, QuietTx DEF Drop, Base
<1> QED  BY <1>2, RemoveKeeps DEF Drop, Base

LEMMA MakeBase == ASSUME Base, Make PROVE Base'
<1>1. Running /\ st.op = "make" /\ tx # "failed" /\ Creatable(st.on) /\ Autocommit
  BY DEF Make, Stmt
<1>2. ControlOK' /\ TxOK' /\ defaultRead' = defaultRead
  BY <1>1, QuietTx DEF Changes, Base
<1>3. {st.on} \cup Parts(st.on) \subseteq Installed
  BY <1>1, Statement, MakesInstalled DEF Base
<1>4. objs' = objs \cup {st.on} \cup Parts(st.on)
  BY DEF Make, Created
<1>5. content' \in [Relations -> Values]
  <2>1. Fresh(st.on) \in Values
    BY DEF Fresh, Values
  <2> QED  BY <2>1, PutContent DEF Make, CatalogOK, Base
<1>6. readable' \subseteq objs' \cap Relations
  BY <1>4 DEF Make, CatalogOK, Base
<1>7. CatalogOK'
  BY <1>2, <1>3, <1>4, <1>5, <1>6 DEF CatalogOK, Base
<1>8. ASSUME NEW o \in objs' PROVE Needs(o) \subseteq objs'
  <2>1. CASE o \in objs
    BY <1>4, <2>1 DEF Base, Closed
  <2>2. CASE o \in {st.on} \cup Parts(st.on)
    <3>1. Required(st.on) \subseteq objs
      BY <1>1 DEF Creatable
    <3>2. ASSUME NEW n \in Needs(o), n # st.on PROVE n \in Required(st.on)
      <4>1. \E p \in {st.on} \cup Parts(st.on) : n \in Needs(p)
        BY <2>2
      <4>2. n \in UNION {Needs(p) : p \in {st.on} \cup Parts(st.on)}
        BY <4>1, Zenon
      <4> QED  BY <3>2, <4>2 DEF Required
    <3> QED  BY <1>4, <3>1, <3>2
  <2> QED  BY <1>4, <2>1, <2>2
<1> QED  BY <1>2, <1>7, <1>8 DEF Base, Closed

LEMMA GrantBase == ASSUME Base, GrantSelect PROVE Base'
<1>1. Running /\ st.op \in Changes /\ tx # "failed" /\ Autocommit
  BY DEF GrantSelect, Stmt, Changes
<1>2. ControlOK' /\ TxOK' /\ defaultRead' = defaultRead
  BY <1>1, QuietTx DEF Base
<1> QED  BY <1>2 DEF GrantSelect, Base, CatalogOK, Closed

LEMMA AlterDefaultBase == ASSUME Base, AlterDefault PROVE Base'
<1>1. Running /\ st.op \in Changes /\ tx # "failed" /\ Advance
  BY DEF AlterDefault, Stmt, Changes
<1>2. ControlOK'
  BY <1>1, NextStatement DEF Base, ControlOK, Advance
<1>3. tx = "none" /\ (file = 6 => at > 10) /\ at \in Nat
  BY <1>1, QuietStatement DEF Base, ControlOK
<1>4. UNCHANGED <<objs, content, readable, tx, copied, file>> /\ at' = at + 1 /\ defaultRead' = TRUE
  BY DEF AlterDefault, Advance
<1>5. TxOK'
  BY <1>3, <1>4 DEF Base, TxOK
<1> QED  BY <1>2, <1>4, <1>5 DEF Base, CatalogOK, Closed

LEMMA InsertBase == ASSUME Base, Insert PROVE Base'
<1>1. Running /\ st.op = "insert" /\ tx # "failed" /\ Autocommit
  BY DEF Insert, Stmt
<1>2. ControlOK' /\ TxOK' /\ defaultRead' = defaultRead
  BY <1>1, QuietTx DEF Base
<1>3. content' \in [Relations -> Values]
  BY PutContent DEF Insert, Base, Values
<1> QED  BY <1>2, <1>3 DEF Insert, Base, CatalogOK, Closed

LEMMA RefreshBase == ASSUME Base, Refresh PROVE Base'
<1>1. Running /\ st.op = "refresh" /\ tx # "failed" /\ Autocommit
  BY DEF Refresh, Stmt
<1>2. ControlOK' /\ TxOK' /\ defaultRead' = defaultRead
  BY <1>1, QuietTx DEF Base
<1>3. st.on \in MatViews
  BY <1>1, Statement, Shape DEF Base
<1>4. Source[st.on] \in Relations
  BY <1>3 DEF MatViews, Source, Relations, Tables, LookupTables
<1>5. content' \in [Relations -> Values]
  BY <1>4, PutContent DEF Refresh, Base, CatalogOK
<1> QED  BY <1>2, <1>5 DEF Refresh, Base, CatalogOK, Closed

LEMMA CopyBase == ASSUME Base, Copy PROVE Base'
<1>1. Running /\ st.op = "copy" /\ tx # "failed" /\ Copyable(st.on) /\ Advance
  BY DEF Copy, Stmt
<1>2. /\ file \in 1..6 /\ at \in 1..Len(Files[file]) /\ st = Files[file][at] /\ at \in Nat
  BY <1>1, Statement, LengthOf, FilesAre DEF Base
<1>3. (file = 5 /\ at = 1) \/ (file = 6 /\ at \in 2..9)
  BY <1>1, <1>2, Shape
<1>4. ControlOK' /\ at' = at + 1 /\ file' = file
  BY <1>1, NextStatement DEF Base, ControlOK, Advance
<1>5. CASE file = 5
  <2>1. tx = "none" /\ copied = {}
    BY <1>5 DEF Base, TxOK
  <2>2. content' \in [Relations -> Values] /\ UNCHANGED <<objs, defaultRead, readable, tx, copied>>
    BY <2>1, PutContent DEF Copy, Base, Values
  <2> QED  BY <1>4, <1>5, <2>1, <2>2 DEF Base, CatalogOK, Closed, TxOK
<1>6. CASE file = 6
  <2>1. tx = "open" /\ at \in 2..9
    BY <1>1, <1>3, <1>6 DEF Base, TxOK
  <2>2. copied' = copied \cup {st.on} /\ UNCHANGED <<objs, content, defaultRead, readable, tx>>
    BY <2>1 DEF Copy
  <2>3. st = Lookup_Data[at] /\ st.on \in LookupTables
    BY <1>2, <1>6, <2>1, FilesAre, DataStmts
  <2>4. copied' = {Lookup_Data[k].on : k \in 2..at' - 1}
    <3>1. 2..at' - 1 = (2..at - 1) \cup {at}
      BY <1>4, <2>1
    <3> QED  BY <2>1, <2>2, <2>3, <3>1 DEF Base, TxOK
  <2>5. content[st.on] = "empty"
    <3>1. st.on # "geocodes"
      BY <2>3 DEF LookupTables
    <3> QED  BY <1>1, <3>1 DEF Copyable
  <2> QED  BY <1>4, <1>6, <2>1, <2>2, <2>3, <2>4, <2>5 DEF Base, CatalogOK, Closed, TxOK
<1> QED  BY <1>3, <1>5, <1>6

LEMMA StartTransactionBase == ASSUME Base, StartTransaction PROVE Base'
<1>1. Running /\ st.op = "start" /\ tx # "failed" /\ Advance
  BY DEF StartTransaction, Stmt
<1>2. file = 6 /\ at = 1
  BY <1>1, Statement, Shape DEF Base
<1>3. ControlOK' /\ at' = at + 1 /\ file' = file
  BY <1>1, NextStatement DEF Base, ControlOK, Advance
<1>4. /\ tx = "none" /\ copied = {} /\ tx' = "open"
      /\ UNCHANGED <<objs, content, defaultRead, readable, copied>>
  BY <1>2 DEF StartTransaction, catalog, Base, TxOK
<1>5. TxOK'
  BY <1>2, <1>3, <1>4 DEF TxOK
<1> QED  BY <1>3, <1>4, <1>5 DEF Base, CatalogOK, Closed

LEMMA CommitBase == ASSUME Base, Commit PROVE Base'
<1>1. Running /\ st.op = "commit" /\ tx # "failed" /\ Advance
  BY DEF Commit, Stmt
<1>2. file = 6 /\ at = 10
  BY <1>1, Statement, Shape DEF Base
<1>3. ControlOK' /\ at' = at + 1 /\ file' = file
  BY <1>1, NextStatement DEF Base, ControlOK, Advance
<1>4. /\ content' = [r \in Relations |-> IF r \in copied THEN "full" ELSE content[r]]
      /\ tx' = "none" /\ copied' = {} /\ UNCHANGED <<objs, defaultRead, readable>>
  BY DEF Commit
<1>5. content' \in [Relations -> Values]
  BY <1>4 DEF Base, CatalogOK, Values
<1>6. TxOK'
  BY <1>2, <1>3, <1>4 DEF TxOK
<1> QED  BY <1>3, <1>4, <1>5, <1>6 DEF Base, CatalogOK, Closed

\* A statement that fails fails the transaction it is in.
LEMMA SkipBase ==
  ASSUME Base, Running, tx # "failed", SkipStmt, st.op \notin {"start", "commit"},
         clean' \in {clean, FALSE}, faults' \in 0..MaxFaults
  PROVE  Base'
<1>1. /\ at' = at + 1
      /\ UNCHANGED <<objs, content, defaultRead, readable, file, status, copied, uses>>
      /\ tx' = (IF tx = "open" THEN "failed" ELSE tx)
  BY DEF SkipStmt, catalog
<1>2. ControlOK'
  BY <1>1, NextStatement DEF Base
<1>3. /\ file \in 1..6 /\ at \in 1..Len(Files[file]) /\ st = Files[file][at] /\ at \in Nat
  BY Statement, LengthOf, FilesAre DEF Base
<1>4. ~(file = 6 /\ at = 1)
  BY <1>3, Shape
<1>5. TxOK'
  <2>1. CASE tx = "none"
    BY <1>1, <1>3, <1>4, <2>1 DEF Base, TxOK
  <2>2. CASE tx = "open"
    BY <1>1, <1>3, <2>2 DEF Base, TxOK
  <2> QED  BY <2>1, <2>2 DEF Base, TxOK
<1> QED  BY <1>1, <1>2, <1>5 DEF Base, CatalogOK, Closed

LEMMA ErrorBase == ASSUME Base, Error PROVE Base'
<1>1. Running /\ tx # "failed" /\ SkipStmt /\ clean' = clean /\ faults' = faults
  BY DEF Error
<1>2. st.op \notin {"start", "commit"}
  BY DEF Error, Impossible
<1> QED  BY <1>1, <1>2, SkipBase DEF Base, ControlOK

LEMMA StatementFailsBase == ASSUME Base, StatementFails PROVE Base'
<1>1. /\ Running /\ tx # "failed" /\ st.op \notin {"start", "commit"}
      /\ SkipStmt /\ clean' = FALSE /\ faults' = faults + 1 /\ faults < MaxFaults
  BY DEF StatementFails, Fault
<1>2. faults' \in 0..MaxFaults
  BY <1>1, SetupAssumption DEF Base, ControlOK
<1> QED  BY <1>1, <1>2, SkipBase

LEMMA ErrorInFailedBase == ASSUME Base, ErrorInFailed PROVE Base'
<1>1. /\ Running /\ tx = "failed" /\ at' = at + 1
      /\ (st.op = "commit" /\ tx' = "none" /\ copied' = {}) \/ UNCHANGED <<tx, copied>>
      /\ UNCHANGED <<objs, content, defaultRead, readable, file, status, clean, faults, uses>>
  BY DEF ErrorInFailed, catalog
<1>2. ControlOK'
  BY <1>1, NextStatement DEF Base, ControlOK
<1>3. /\ file \in 1..6 /\ at \in 1..Len(Files[file]) /\ st = Files[file][at] /\ at \in Nat
  BY <1>1, Statement, LengthOf, FilesAre DEF Base
<1>4. file = 6 /\ at > 1
  BY <1>1 DEF Base, TxOK
<1>5. st.op = "commit" => at = 10
  BY <1>3, Shape
<1>6. TxOK'
  BY <1>1, <1>3, <1>4, <1>5 DEF Base, TxOK
<1> QED  BY <1>1, <1>2, <1>6 DEF Base, CatalogOK, Closed

LEMMA EndSessionBase ==
  ASSUME Base, status = "running", EndSession, clean' \in {clean, FALSE},
         faults' \in 0..MaxFaults
  PROVE  Base'
<1>1. /\ tx' = "none" /\ copied' = {} /\ at' = 1
      /\ \/ file < 6 /\ file' = file + 1 /\ status' = status
         \/ status' = "completed" /\ file' = 1
      /\ UNCHANGED <<objs, content, defaultRead, readable, uses>>
  BY FilesAre DEF EndSession, catalog
<1>2. file' \in 1..6
  BY <1>1 DEF Base, ControlOK
<1>3. Len(Files[file']) \in Nat
  BY <1>2, LengthOf, FilesAre
<1>4. at' \in 1..Len(Files[file']) + 1
  BY <1>1, <1>3
<1>5. ControlOK'
  BY <1>1, <1>2, <1>4 DEF Base, ControlOK
<1>6. TxOK'
  BY <1>1 DEF Base, TxOK
<1> QED  BY <1>1, <1>5, <1>6 DEF Base, CatalogOK, Closed

LEMMA NextFileBase == ASSUME Base, NextFile PROVE Base'
BY EndSessionBase DEF NextFile, Base, ControlOK

LEMMA ConnectionLostBase == ASSUME Base, ConnectionLost PROVE Base'
<1>1. /\ status = "running" /\ EndSession
      /\ clean' = FALSE /\ faults' = faults + 1 /\ faults < MaxFaults
  BY DEF ConnectionLost, Running, Fault
<1>2. faults' \in 0..MaxFaults
  BY <1>1, SetupAssumption DEF Base, ControlOK
<1> QED  BY <1>1, <1>2, EndSessionBase

LEMMA KilledBase == ASSUME Base, Killed PROVE Base'
<1>1. /\ status' = "idle" /\ file' = 1 /\ at' = 1 /\ tx' = "none" /\ copied' = {}
      /\ clean' = FALSE /\ faults' = faults + 1 /\ faults < MaxFaults
      /\ UNCHANGED <<objs, content, defaultRead, readable, uses>>
  BY DEF Killed, Fault, catalog
<1>2. faults' \in 0..MaxFaults
  BY <1>1, SetupAssumption DEF Base, ControlOK
<1>3. Len(Files[file']) \in Nat
  BY <1>1, LengthOf, FilesAre
<1>4. ControlOK'
  <2>1. at' \in 1..Len(Files[file']) + 1 /\ file' \in 1..6
    BY <1>1, <1>3
  <2> QED  BY <1>1, <1>2, <2>1 DEF Base, ControlOK
<1>5. TxOK'
  BY <1>1 DEF Base, TxOK
<1> QED  BY <1>1, <1>4, <1>5 DEF Base, CatalogOK, Closed

LEMMA StartBase == ASSUME Base, NEW first \in Starts, Start(first) PROVE Base'
<1>1. /\ status # "running" /\ status' = "running" /\ file' = first /\ at' = 1
      /\ clean' = (first = 1 \/ objs = {})
      /\ UNCHANGED <<objs, content, defaultRead, readable, tx, copied, faults, uses>>
  BY DEF Start, catalog
<1>2. first \in 1..6
  BY SetupAssumption
<1>3. Len(Files[file']) \in Nat
  BY <1>1, <1>2, LengthOf, FilesAre
<1>4. tx = "none"
  BY <1>1 DEF Base, ControlOK, TxOK
<1>5. clean' \in BOOLEAN
  BY <1>1
<1>6. ControlOK'
  <2>1. at' \in 1..Len(Files[file']) + 1
    BY <1>1, <1>3
  <2> QED  BY <1>1, <1>2, <1>5, <2>1 DEF Base, ControlOK
<1>7. TxOK'
  BY <1>1, <1>4 DEF Base, TxOK
<1> QED  BY <1>1, <1>6, <1>7 DEF Base, CatalogOK, Closed

LEMMA UseControl == ASSUME Base, Use PROVE ControlOK' /\ TxOK'
<1>1. /\ status # "running" /\ status' = "idle" /\ clean' = FALSE
      /\ uses < MaxUses /\ uses' = uses + 1
      /\ UNCHANGED <<file, at, tx, copied, faults>>
  BY DEF Use
<1>2. uses' \in 0..MaxUses
  BY <1>1, SetupAssumption DEF Base, ControlOK
<1>3. tx = "none"
  BY <1>1 DEF Base, ControlOK, TxOK
<1> QED  BY <1>1, <1>2, <1>3 DEF Base, ControlOK, TxOK

LEMMA LoadBase ==
  ASSUME Base, NEW table \in Relations, NEW loader,
         NEW bak \in {"schools_daycares_bak", "lots_bak"}, NEW idx,
         Load(table, loader, bak, idx)
  PROVE  Base'
<1>1. /\ objs' = objs \cup {bak} /\ Use /\ defaultRead' = defaultRead
      /\ content' = [r \in Relations |-> CASE r \in {table} \cup idx -> "other"
                                       [] r = bak -> content[table]
                                       [] OTHER -> content[r]]
      /\ readable' \in {readable \cup {bak}, readable \ {bak}}
  BY DEF Load, Use
<1>2. bak \in Tables /\ bak \in Relations
  BY DEF Tables, Relations
<1>3. content' \in [Relations -> Values]
  BY <1>1 DEF Base, CatalogOK, Values
<1>4. CatalogOK'
  BY <1>1, <1>2, <1>3 DEF Base, CatalogOK
<1>5. Needs(bak) = {}
  BY DEF Needs, MatViews
<1>6. Closed'
  BY <1>1, <1>5 DEF Base, Closed
<1> QED  BY <1>1, <1>4, <1>6, UseControl DEF Base

LEMMA SubmitBase == ASSUME Base, NEW t \in SubmitTables, Submit(t) PROVE Base'
<1>1. content' \in [Relations -> Values]
  BY PutContent DEF Submit, Base, Values
<1>2. Use /\ UNCHANGED <<objs, readable, defaultRead>>
  BY DEF Submit, Use
<1> QED  BY <1>1, <1>2, UseControl DEF Base, CatalogOK, Closed

LEMMA NextBase == Base /\ [Next]_vars => Base'
<1> SUFFICES ASSUME Base, [Next]_vars PROVE Base'
  OBVIOUS
<1>1. CASE UNCHANGED vars
  BY <1>1 DEF vars, catalog, Base, CatalogOK, Closed, ControlOK, TxOK
<1>2. CASE \/ Load("schools_daycares", "load_schools_daycares_trigger",
                   "schools_daycares_bak", {"schools_daycares_index"})
           \/ Load("lots", "load_lots_trigger", "lots_bak", {})
  <2>1. "schools_daycares" \in Relations /\ "lots" \in Relations
    BY DEF Relations, Tables, LookupTables
  <2> QED  BY <1>2, <2>1, LoadBase
<1> QED  BY <1>1, <1>2, DropBase, MakeBase, GrantBase, AlterDefaultBase, InsertBase,
            CopyBase, RefreshBase, StartTransactionBase, CommitBase, ErrorBase,
            ErrorInFailedBase, NextFileBase, StatementFailsBase, ConnectionLostBase,
            KilledBase, StartBase, SubmitBase DEF Next

LEMMA InitBase == Init => Base
<1> SUFFICES ASSUME Init PROVE Base
  OBVIOUS
<1>1. Len(Files[1]) \in Nat
  BY LengthOf, FilesAre
<1>2. 0 \in 0..MaxFaults /\ 0 \in 0..MaxUses /\ 1 \in 1..Len(Files[1]) + 1
  BY <1>1, SetupAssumption
<1>3. /\ file = 1 /\ at = 1 /\ status = "idle" /\ clean = FALSE /\ faults = 0 /\ uses = 0
      /\ tx = "none" /\ copied = {}
  BY DEF Init
<1>4. ControlOK
  <2>1. file \in 1..6 /\ at \in 1..Len(Files[file]) + 1
    BY <1>2, <1>3
  <2>2. clean \in BOOLEAN /\ faults \in 0..MaxFaults /\ uses \in 0..MaxUses
    BY <1>2, <1>3, Zenon
  <2> QED  BY <1>3, <2>1, <2>2 DEF ControlOK
<1>5. CatalogOK
  BY DEF Init, CatalogOK, Values
<1>6. Closed
  BY DEF Init, Closed
<1>7. TxOK
  BY <1>3 DEF TxOK
<1> QED  BY <1>4, <1>5, <1>6, <1>7 DEF Base

LEMMA BaseInvariant == Spec => []Base
BY InitBase, NextBase, PTL DEF Spec

\* The types: what exists is what the scripts create.
THEOREM TypeCorrect == Spec => []TypeOK
<1>1. Base => TypeOK
  BY FilesAre, Zenon DEF Base, CatalogOK, ControlOK, TxOK, TypeOK
<1> QED  BY <1>1, BaseInvariant, PTL
-----------------------------------------------------------------------------
(* The lookup data.                                                        *)

LEMMA HoldsAt ==
  ASSUME CatalogOK, NEW o, NEW v, NEW r \in Relations, r # o
  PROVE  Holds(o, v)[r] = content[r]
BY DEF CatalogOK, Holds

LEMMA LookupApart ==
  ASSUME NEW t \in LookupTables
  PROVE  /\ t \in Relations /\ t \notin MatViews /\ t \notin SubmitTables
         /\ t # "process_lock" /\ t # "geocodes" /\ t # "lots_bak"
         /\ t # "schools_daycares_bak"
BY DEF LookupTables, Relations, Tables, MatViews, SubmitTables

\* The commit comes after eight COPYs, each into an empty table.
LEMMA CommitCopied ==
  ASSUME Base, Commit
  PROVE  \A t \in LookupTables : content[t] = "empty" /\ content'[t] = "full"
<1>1. Running /\ st.op = "commit" /\ tx # "failed"
  BY DEF Commit, Stmt
<1>2. file = 6 /\ at = 10
  BY <1>1, Statement, Shape DEF Base
<1>3. tx = "open"
  BY <1>1, <1>2 DEF Base, TxOK
<1>4. copied = {Lookup_Data[k].on : k \in 2..9}
  BY <1>2, <1>3 DEF Base, TxOK
<1>5. \A t \in LookupTables : t \in copied
  BY <1>4, DataStmts
<1>6. content' = [r \in Relations |-> IF r \in copied THEN "full" ELSE content[r]]
  BY DEF Commit
<1> QED  BY <1>3, <1>5, <1>6, LookupApart DEF Base, TxOK

\* No other statement fills a lookup table.
LEMMA FilledByCommit ==
  ASSUME Base, Next, NEW t \in LookupTables, content[t] = "empty", content'[t] = "full"
  PROVE  Commit
<1>0. CatalogOK /\ ControlOK
  BY DEF Base
<1>1. CASE Drop
  <2>1. content' = [r \in Relations |->
                      IF r \in Cascade(st.on) THEN "unpopulated" ELSE content[r]]
    BY <1>1 DEF Drop, Remove
  <2> QED  BY <2>1, LookupApart
<1>2. CASE Make
  <2>1. content' \in {content, Holds(st.on, Fresh(st.on))}
    BY <1>2 DEF Make
  <2>2. t # st.on => Holds(st.on, Fresh(st.on))[t] = "empty"
    BY <1>0, HoldsAt, LookupApart
  <2>3. t = st.on => Holds(st.on, Fresh(st.on))[t] = Fresh(st.on)
    BY <1>0, LookupApart DEF Holds, CatalogOK
  <2>4. Fresh(st.on) # "full"
    BY DEF Fresh
  <2> QED  BY <2>1, <2>2, <2>3, <2>4
<1>3. CASE Insert
  <2>1. content' = Holds(st.on, "full") /\ st.on = "process_lock"
    BY <1>0, <1>3, Statement, Shape DEF Insert, Stmt
  <2> QED  BY <1>0, <2>1, HoldsAt, LookupApart
<1>4. CASE Copy
  <2>1. Running /\ st.op = "copy" /\ tx # "failed"
    BY <1>4 DEF Copy, Stmt
  <2>2. /\ file \in 1..6 /\ at \in 1..Len(Files[file]) /\ st = Files[file][at]
    BY <1>0, <2>1, Statement
  <2>3. (file = 5 /\ at = 1) \/ (file = 6 /\ at \in 2..9)
    BY <2>1, <2>2, Shape
  <2>4. CASE file = 5
    <3>1. st.on = "geocodes" /\ tx = "none"
      BY <2>2, <2>3, <2>4, FilesAre, GeocodeStmts DEF Base, TxOK
    <3>2. content' = Holds("geocodes", IF content[st.on] = "empty" THEN "full" ELSE "other")
      BY <1>4, <3>1 DEF Copy
    <3> QED  BY <1>0, <3>2, HoldsAt, LookupApart
  <2>5. CASE file = 6
    <3>1. tx = "open"
      BY <2>1, <2>3, <2>5 DEF Base, TxOK
    <3> QED  BY <1>4, <3>1 DEF Copy
  <2> QED  BY <2>3, <2>4, <2>5
<1>5. CASE Refresh
  <2>1. content' = Holds(st.on, content[Source[st.on]]) /\ st.on \in MatViews
    BY <1>0, <1>5, Statement, Shape DEF Refresh, Stmt
  <2> QED  BY <1>0, <2>1, HoldsAt, LookupApart
<1>6. CASE \E s \in SubmitTables : Submit(s)
  <2>1. PICK s \in SubmitTables : content' = Holds(s, "other")
    BY <1>6 DEF Submit
  <2> QED  BY <1>0, <2>1, HoldsAt, LookupApart
<1>7. ASSUME NEW table, NEW loader, NEW idx,
             NEW bak \in {"schools_daycares_bak", "lots_bak"}, Load(table, loader, bak, idx)
      PROVE  FALSE
  <2>1. content' = [r \in Relations |-> CASE r \in {table} \cup idx -> "other"
                                       [] r = bak -> content[table]
                                       [] OTHER -> content[r]]
    BY <1>7 DEF Load
  <2> QED  BY <2>1, LookupApart
<1>8. CASE GrantSelect \/ AlterDefault
  BY <1>8 DEF GrantSelect, AlterDefault
<1>9. CASE StartTransaction \/ Error \/ ErrorInFailed \/ NextFile \/ StatementFails
           \/ ConnectionLost \/ Killed \/ \E first \in Starts : Start(first)
  BY <1>9 DEF StartTransaction, Error, ErrorInFailed, NextFile, StatementFails,
              ConnectionLost, Killed, Start, SkipStmt, EndSession, catalog
<1> QED  BY <1>1, <1>2, <1>3, <1>4, <1>5, <1>6, <1>7, <1>8, <1>9 DEF Next

\* Whatever fails, and whatever is left of earlier runs: the lookup data appear together.
THEOREM DataAppearTogether == Spec => LoadedTogether
<1> DEFINE Together ==
      (\E t \in LookupTables : content[t] = "empty" /\ content'[t] = "full")
        => \A t \in LookupTables : content[t] = "empty" /\ content'[t] = "full"
<1>1. Base /\ [Next]_vars => [Together]_vars
  BY FilledByCommit, CommitCopied
<1> QED  BY <1>1, BaseInvariant, PTL DEF Spec, LoadedTogether
-----------------------------------------------------------------------------
(* The names in the files.                                                 *)

\* Where 2_Create_Lookup_DB.sql has its objects.
LEMMA LookupNames ==
  /\ \A i \in 1..39 : Create_Lookup_DB[i].op = "drop" <=> i \in {1, 33, 38}
  /\ Create_Lookup_DB[1].on = "prevalence_range"
  /\ \A i \in 2..13 : Create_Lookup_DB[i].on \in
       LookupTables \cup {"prevalence_range", "geocodes", "process_lock"}
  /\ \A i \in 14..20 : Create_Lookup_DB[i].on \in
       {"trades_agents_agent_snomed_fkey_idx", "trades_agents_trade_snomed_fkey_idx",
        "agents_diseases_agent_snomed_fkey_idx", "agents_diseases_disease_snomed_fkey_idx",
        "lots_agent_jf_idx", "lots_trade_jf_idx", "trades_jf_idx"}
  /\ \A i \in 21..30 : Create_Lookup_DB[i].on \in MatViews \cup Views
  /\ \A i \in {31, 35, 36} : Create_Lookup_DB[i].on \in
       {"load_schools_daycares", "load_lots", "lots"}
  /\ \A i \in {32, 37} : Create_Lookup_DB[i].on \in {"load_schools_daycares()", "load_lots()"}
  /\ \A i \in {33, 34} : Create_Lookup_DB[i].on = "load_schools_daycares_trigger"
  /\ \A i \in {38, 39} : Create_Lookup_DB[i].on = "load_lots_trigger"
<1>1. \A i \in 1..39 : Create_Lookup_DB[i].op = "drop" <=> i \in {1, 33, 38}
  BY DEF Create_Lookup_DB, Each
<1>2. Create_Lookup_DB[1].on = "prevalence_range"
  BY DEF Create_Lookup_DB, Each
<1>3. \A i \in 2..13 : Create_Lookup_DB[i].on \in
       LookupTables \cup {"prevalence_range", "geocodes", "process_lock"}
  BY DEF Create_Lookup_DB, Each, LookupTables
<1>4. \A i \in 14..20 : Create_Lookup_DB[i].on \in
       {"trades_agents_agent_snomed_fkey_idx", "trades_agents_trade_snomed_fkey_idx",
        "agents_diseases_agent_snomed_fkey_idx", "agents_diseases_disease_snomed_fkey_idx",
        "lots_agent_jf_idx", "lots_trade_jf_idx", "trades_jf_idx"}
  BY DEF Create_Lookup_DB, Each
<1>5. \A i \in 21..30 : Create_Lookup_DB[i].on \in MatViews \cup Views
  BY DEF Create_Lookup_DB, Each, MatViews, Views
<1>6. \A i \in {31, 35, 36} : Create_Lookup_DB[i].on \in
       {"load_schools_daycares", "load_lots", "lots"}
  BY DEF Create_Lookup_DB, Each
<1>7. \A i \in {32, 37} : Create_Lookup_DB[i].on \in {"load_schools_daycares()", "load_lots()"}
  BY DEF Create_Lookup_DB, Each
<1>8. \A i \in {33, 34} : Create_Lookup_DB[i].on = "load_schools_daycares_trigger"
  BY DEF Create_Lookup_DB, Each
<1>9. \A i \in {38, 39} : Create_Lookup_DB[i].on = "load_lots_trigger"
  BY DEF Create_Lookup_DB, Each
<1> QED  BY <1>1, <1>2, <1>3, <1>4, <1>5, <1>6, <1>7, <1>8, <1>9

LEMMA SubmitNames ==
  /\ \A i \in 1..8 : Create_Submit_DB[i].op = "drop" <=> i \in {1, 3}
  /\ Create_Submit_DB[1].on = "Immun_Submission"
  /\ Create_Submit_DB[2].on = "Immun_Submission"
  /\ Create_Submit_DB[3].on = "Submission_Attachment"
  /\ Create_Submit_DB[4].on = "Submission_Attachment"
  /\ Create_Submit_DB[5].on = "Immun_Submission_pkey"
  /\ Create_Submit_DB[6].on = "Submission_Attachment_pkey"
  /\ Create_Submit_DB[7].on = "file_upload_check()" /\ Create_Submit_DB[8].on = "file_upload_check"
BY DEF Create_Submit_DB, Each

LEMMA RoleNames ==
  /\ Add_Roles[1] = [op |-> "make", on |-> "readonly"]
  /\ Add_Roles[2] = [op |-> "make", on |-> "connect"]
  /\ Add_Roles[3] = [op |-> "make", on |-> "usage"]
  /\ Add_Roles[4] = [op |-> "grantSelect", on |-> "readonly"]
  /\ Add_Roles[5] = [op |-> "alterDefault", on |-> "readonly"]
BY DEF Add_Roles, Each
LEMMA DropScript ==
  /\ Drop_DB[1].on = "retrieval_lookups" /\ Drop_DB[2].on = "lot_lookups"
  /\ Drop_DB[3].on = "immunization_lookups" /\ Drop_DB[4].on = "cities_index"
  /\ Drop_DB[5].on = "geocodes_index" /\ Drop_DB[6].on = "schools_daycares_index"
  /\ Drop_DB[7].on = "lots_index" /\ Drop_DB[8].on = "trades_index"
  /\ Drop_DB[9].on = "agents_index" /\ Drop_DB[10].on = "diseases_index"
  /\ Drop_DB[11].on = "agents_diseases" /\ Drop_DB[12].on = "trades_agents"
  /\ Drop_DB[13].on = "lots" /\ Drop_DB[14].on = "diseases"
  /\ Drop_DB[15].on = "agents" /\ Drop_DB[16].on = "trades"
  /\ Drop_DB[17].on = "geocodes" /\ Drop_DB[18].on = "public_health_units"
  /\ Drop_DB[19].on = "schools_daycares" /\ Drop_DB[20].on = "Submission_Attachment"
  /\ Drop_DB[21].on = "Immun_Submission" /\ Drop_DB[22].on = "process_lock"
  /\ Drop_DB[23].on = "load_lots" /\ Drop_DB[24].on = "lots_bak"
  /\ Drop_DB[25].on = "load_schools_daycares" /\ Drop_DB[26].on = "schools_daycares_bak"
  /\ Drop_DB[27].on = "load_lots()" /\ Drop_DB[28].on = "load_schools_daycares()"
  /\ Drop_DB[29].on = "prevalence_range"
  /\ \A i \in 1..29 : Drop_DB[i].op = "drop" => i > 26
BY DEF Drop_DB, Each

Leftover == {"readonly", "connect", "usage", "file_upload_check()"}
Dropped == {Drop_DB[i].on : i \in 1..29}

LEMMA DroppedAre ==
  /\ Tables \cup MatViews \cup Views \subseteq Dropped
  /\ {"load_lots()", "load_schools_daycares()", "prevalence_range"} \subseteq Dropped
BY DropScript DEF Dropped, Tables, MatViews, Views, LookupTables, SubmitTables

\* An object that the first file does not drop, by name or because it needs one.
LEMMA RemainsIsLeftover ==
  ASSUME NEW o \in Installed \cup Tables, o \notin Dropped, Needs(o) \cap Dropped = {}
  PROVE  o \in Leftover
<1>0. o \notin Tables \cup MatViews \cup Views
  BY DroppedAre
<1>1. PICK x \in Statements : x.op = "make" /\ o \in {x.on} \cup Parts(x.on)
  BY <1>0, Zenon DEF Installed
<1>2. CASE o \in Parts(x.on)
  <2>1. "trades" \in Needs(o) \/ "agents" \in Needs(o)
    BY <1>2, PartsApart DEF Needs, MatViews
  <2> QED  BY <2>1, DroppedAre DEF Tables, LookupTables
<1>3. CASE o = x.on
  <2>1. PICK f \in 1..6 : \E i \in DOMAIN Files[f] : x = Files[f][i]
    BY FilesAre DEF Statements
  <2>2. PICK i \in DOMAIN Files[f] : x = Files[f][i]
    BY <2>1
  <2>3. CASE f = 1
    <3>1. i \in 1..29 /\ x = Drop_DB[i]
      BY <2>2, <2>3, FilesAre, Lengths
    <3> QED  BY <1>1, <3>1, DropStmts
  <2>4. CASE f = 2
    <3>1. i \in 1..5 /\ x = Add_Roles[i]
      BY <2>2, <2>4, FilesAre, Lengths
    <3> QED  BY <1>1, <1>3, <3>1, RoleNames DEF Leftover
  <2>5. CASE f = 3
    <3>1. i \in 1..39 /\ x = Create_Lookup_DB[i]
      BY <2>2, <2>5, FilesAre, Lengths
    <3>2. o # "prevalence_range" /\ o \notin {"load_lots()", "load_schools_daycares()"}
      BY DroppedAre
    <3>3. i \in 14..20 \/ i \in {33, 34, 38, 39}
      BY <1>0, <1>1, <1>3, <3>1, <3>2, LookupNames DEF Tables, LookupTables
    <3>4. CASE i \in 14..20
      <4>1. Needs(o) \cap LookupTables # {}
        BY <1>3, <3>1, <3>4, LookupNames DEF Needs, MatViews, LookupTables
      <4> QED  BY <4>1, DroppedAre DEF Tables
    <3>5. CASE i \in {33, 34, 38, 39}
      <4>1. o = "load_lots_trigger" \/ o = "load_schools_daycares_trigger"
        BY <1>3, <3>1, <3>5, LookupNames
      <4>2. Needs(o) \cap Tables # {}
        BY <4>1 DEF Needs, MatViews, Tables
      <4> QED  BY <4>2, DroppedAre
    <3> QED  BY <3>3, <3>4, <3>5
  <2>6. CASE f = 4
    <3>1. i \in 1..8 /\ x = Create_Submit_DB[i]
      BY <2>2, <2>6, FilesAre, Lengths
    <3>2. CASE i \in {1, 2, 3, 4, 7}
      BY <1>0, <1>3, <3>1, <3>2, SubmitNames DEF Tables, SubmitTables, Leftover
    <3>3. CASE i \in {5, 6, 8}
      <4>1. o \in {"Immun_Submission_pkey", "Submission_Attachment_pkey", "file_upload_check"}
        BY <1>3, <3>1, <3>3, SubmitNames
      <4>2. Needs(o) \cap SubmitTables # {}
        BY <4>1 DEF Needs, MatViews, SubmitTables
      <4> QED  BY <4>2, DroppedAre DEF Tables
    <3> QED  BY <3>1, <3>2, <3>3
  <2>7. CASE f = 5
    <3>1. i \in 1..2 /\ x = Geocode_Data[i]
      BY <2>2, <2>7, FilesAre, Lengths
    <3> QED  BY <1>1, <3>1, GeocodeStmts
  <2>8. CASE f = 6
    <3>1. i \in 1..12 /\ x = Lookup_Data[i]
      BY <2>2, <2>8, FilesAre, Lengths
    <3>2. i \in 2..9 \/ i \in {1, 10, 11, 12}
      BY <3>1
    <3> QED  BY <1>1, <3>1, <3>2, DataStmts
  <2> QED  BY <2>1, <2>3, <2>4, <2>5, <2>6, <2>7, <2>8
<1> QED  BY <1>1, <1>2, <1>3

-----------------------------------------------------------------------------
(* What is there before each statement of an undisturbed run.              *)

Before(g, j, f, a) == g < f \/ (g = f /\ j < a)

\* What the files have created and filled before statement a of file f.
Made(f, a) ==
  {o \in Installed : \E g \in 1..6 : \E j \in 1..Len(Files[g]) :
     /\ Before(g, j, f, a) /\ Files[g][j].op = "make"
     /\ o \in {Files[g][j].on} \cup Parts(Files[g][j].on)}
Loaded(f, a) ==
  {r \in Relations : \E g \in 1..6 : \E j \in 1..Len(Files[g]) :
     /\ Before(g, j, f, a) /\ Files[g][j].op \in {"insert", "copy", "refresh"}
     /\ r = Files[g][j].on}

LEMMA MakesAre ==
  ASSUME NEW g \in 1..6, NEW j \in 1..Len(Files[g]), Files[g][j].op = "make"
  PROVE  {Files[g][j].on} \cup Parts(Files[g][j].on) \subseteq Installed
<1>1. j \in DOMAIN Files[g] /\ g \in DOMAIN Files
  BY FilesAre, LengthOf
<1>2. Files[g][j] \in Statements
  BY <1>1 DEF Statements
<1> QED  BY <1>2, MakesInstalled

LEMMA MadeHas ==
  ASSUME NEW f, NEW a, NEW g \in 1..6, NEW j \in 1..Len(Files[g]),
         Before(g, j, f, a), Files[g][j].op = "make"
  PROVE  {Files[g][j].on} \cup Parts(Files[g][j].on) \subseteq Made(f, a)
BY MakesAre DEF Made

LEMMA LoadedHas ==
  ASSUME NEW f, NEW a, NEW g \in 1..6, NEW j \in 1..Len(Files[g]),
         Before(g, j, f, a), Files[g][j].op \in {"insert", "copy", "refresh"}
  PROVE  Files[g][j].on \in Loaded(f, a)
<1>1. Files[g][j].on \in Relations
  BY Shape DEF Relations, Tables, LookupTables, MatViews
<1> QED  BY <1>1 DEF Loaded

\* The statement at hand adds what it creates and fills.
LEMMA StatementAdds ==
  ASSUME NEW f \in 1..6, NEW a \in 1..Len(Files[f])
  PROVE  /\ Files[f][a].op = "make" =>
              Made(f, a + 1) = Made(f, a) \cup {Files[f][a].on} \cup Parts(Files[f][a].on)
         /\ Files[f][a].op # "make" => Made(f, a + 1) = Made(f, a)
         /\ Files[f][a].op \in {"insert", "copy", "refresh"} =>
              Loaded(f, a + 1) = Loaded(f, a) \cup {Files[f][a].on}
         /\ Files[f][a].op \notin {"insert", "copy", "refresh"} =>
              Loaded(f, a + 1) = Loaded(f, a)
<1>0. Len(Files[f]) \in Nat /\ a \in Nat
  BY FilesAre, LengthOf
<1>1. \A g \in 1..6 : \A j \in 1..Len(Files[g]) :
        Before(g, j, f, a + 1) <=> Before(g, j, f, a) \/ (g = f /\ j = a)
  <2> SUFFICES ASSUME NEW g \in 1..6, NEW j \in 1..Len(Files[g])
               PROVE  Before(g, j, f, a + 1) <=> Before(g, j, f, a) \/ (g = f /\ j = a)
    OBVIOUS
  <2>1. Len(Files[g]) \in Nat
    BY FilesAre, LengthOf
  <2>2. j \in Nat
    BY <2>1
  <2> QED  BY <1>0, <2>2 DEF Before
<1>2. Files[f][a].op = "make" =>
        {Files[f][a].on} \cup Parts(Files[f][a].on) \subseteq Made(f, a + 1)
  BY <1>1, MadeHas
<1>3. Made(f, a) \subseteq Made(f, a + 1)
  BY <1>1 DEF Made
<1>4. Made(f, a + 1) \subseteq Made(f, a) \cup
        (IF Files[f][a].op = "make" THEN {Files[f][a].on} \cup Parts(Files[f][a].on) ELSE {})
  BY <1>1 DEF Made
<1>5. Files[f][a].op \in {"insert", "copy", "refresh"} => Files[f][a].on \in Loaded(f, a + 1)
  BY <1>1, LoadedHas
<1>6. Loaded(f, a) \subseteq Loaded(f, a + 1)
  BY <1>1 DEF Loaded
<1>7. Loaded(f, a + 1) \subseteq Loaded(f, a) \cup
        (IF Files[f][a].op \in {"insert", "copy", "refresh"} THEN {Files[f][a].on} ELSE {})
  BY <1>1 DEF Loaded
<1> QED  BY <1>2, <1>3, <1>4, <1>5, <1>6, <1>7

LEMMA FileAdds ==
  ASSUME NEW f \in 1..6, NEW a \in Nat, a > Len(Files[f])
  PROVE  Made(f + 1, 1) = Made(f, a) /\ Loaded(f + 1, 1) = Loaded(f, a)
<1>1. \A g \in 1..6 : \A j \in 1..Len(Files[g]) :
        Before(g, j, f + 1, 1) <=> Before(g, j, f, a)
  <2> SUFFICES ASSUME NEW g \in 1..6, NEW j \in 1..Len(Files[g])
               PROVE  Before(g, j, f + 1, 1) <=> Before(g, j, f, a)
    OBVIOUS
  <2>1. Len(Files[g]) \in Nat /\ Len(Files[f]) \in Nat
    BY FilesAre, LengthOf
  <2>2. j \in Nat /\ 1 <= j /\ j <= Len(Files[g])
    BY <2>1
  <2> QED  BY <2>1, <2>2 DEF Before
<1>2. Made(f + 1, 1) = Made(f, a)
  BY <1>1 DEF Made
<1>3. Loaded(f + 1, 1) = Loaded(f, a)
  BY <1>1 DEF Loaded
<1> QED  BY <1>2, <1>3

\* Drop_DB.sql creates nothing.
LEMMA NothingMadeFirst == Made(2, 1) = {} /\ Loaded(2, 1) = {}
<1> SUFFICES ASSUME NEW g \in 1..6, NEW j \in 1..Len(Files[g]), Before(g, j, 2, 1)
             PROVE  Files[g][j].op \notin {"make", "insert", "copy", "refresh"}
  BY DEF Made, Loaded
<1>1. Len(Files[g]) \in Nat
  BY FilesAre, LengthOf
<1>2. g = 1
  BY <1>1 DEF Before
<1> QED  BY <1>2, FilesAre, Lengths, DropStmts

\* The objects that others need, where they are created.
LEMMA LookupAt ==
  /\ Create_Lookup_DB[2].on = "prevalence_range" /\ Create_Lookup_DB[3].on = "trades"
  /\ Create_Lookup_DB[4].on = "agents" /\ Create_Lookup_DB[5].on = "diseases"
  /\ Create_Lookup_DB[6].on = "lots" /\ Create_Lookup_DB[7].on = "public_health_units"
  /\ Create_Lookup_DB[8].on = "trades_agents" /\ Create_Lookup_DB[9].on = "agents_diseases"
  /\ Create_Lookup_DB[10].on = "schools_daycares" /\ Create_Lookup_DB[11].on = "geocodes"
  /\ Create_Lookup_DB[12].on = "process_lock" /\ Create_Lookup_DB[25].on = "schools_daycares_index"
  /\ Create_Lookup_DB[26].on = "geocodes_index" /\ Create_Lookup_DB[27].on = "cities_index"
  /\ Create_Lookup_DB[31].on = "load_schools_daycares"
  /\ Create_Lookup_DB[32].on = "load_schools_daycares()"
  /\ Create_Lookup_DB[35].on = "load_lots" /\ Create_Lookup_DB[36].on = "lots"
  /\ Create_Lookup_DB[37].on = "load_lots()"
BY DEF Create_Lookup_DB, Each

LEMMA RequiredOf ==
  ASSUME NEW o
  PROVE  /\ Parts(o) = {} => Required(o) \subseteq Needs(o)
         /\ o = "trades_agents" => Required(o) \subseteq {"trades", "agents"}
         /\ o = "agents_diseases" => Required(o) \subseteq {"agents", "diseases"}
         /\ o \notin {"trades_agents", "agents_diseases"} => Parts(o) = {}
<1>1. Parts(o) = {} => Required(o) \subseteq Needs(o)
  BY DEF Required
<1>2. Needs("trades_agents") = {} /\ Needs("agents_diseases") = {}
  BY DEF Needs, MatViews
<1>3. /\ Needs("trades_agents_fkeys") = {"trades_agents", "agents", "trades"}
      /\ Needs("agents_diseases_fkeys") = {"agents_diseases", "agents", "diseases"}
  BY DEF Needs, MatViews
<1>4. /\ Parts("trades_agents") = {"trades_agents_fkeys"}
      /\ Parts("agents_diseases") = {"agents_diseases_fkeys"}
  BY DEF Parts
<1>5. o = "trades_agents" => Required(o) \subseteq {"trades", "agents"}
  BY <1>2, <1>3, <1>4 DEF Required
<1>6. o = "agents_diseases" => Required(o) \subseteq {"agents", "diseases"}
  BY <1>2, <1>3, <1>4 DEF Required
<1>7. o \notin {"trades_agents", "agents_diseases"} => Parts(o) = {}
  BY DEF Parts
<1> QED  BY <1>1, <1>5, <1>6, <1>7

\* The objects of 2_Create_Lookup_DB.sql before its statement a, or after it all.
LEMMA LookupMade ==
  ASSUME NEW f \in 3..6, NEW a \in Nat, NEW j \in 1..39, f = 3 => j < a,
         Create_Lookup_DB[j].op = "make"
  PROVE  Create_Lookup_DB[j].on \in Made(f, a)
<1>1. /\ 3 \in 1..6 /\ j \in 1..Len(Files[3]) /\ Files[3][j] = Create_Lookup_DB[j]
  BY FilesAre, Lengths
<1>2. Before(3, j, f, a)
  BY DEF Before
<1> QED  BY <1>1, <1>2, MadeHas

LEMMA LookupMakes ==
  \A j \in {2, 3, 4, 5, 6, 7, 8, 9, 10, 11, 12, 25, 26, 27, 31, 32, 35, 37} :
    Create_Lookup_DB[j].op = "make"
BY DEF Create_Lookup_DB, Each

\* 1_Add_Roles.sql.
LEMMA OrderRoles ==
  ASSUME NEW i \in 1..5
  PROVE  /\ Add_Roles[i].op = "make" =>
              /\ Required(Add_Roles[i].on) \subseteq Made(2, i)
              /\ Add_Roles[i].on \notin Relations
         /\ Add_Roles[i].op # "make" =>
              /\ Add_Roles[i].op \in {"grantSelect", "alterDefault"}
              /\ Add_Roles[i].on \in Made(2, i)
         /\ i = 5 <=> Add_Roles[i].op = "alterDefault"
<1>1. ASSUME i > 1 PROVE "readonly" \in Made(2, i)
  <2>1. /\ 2 \in 1..6 /\ 1 \in 1..Len(Files[2]) /\ Files[2][1] = Add_Roles[1]
    BY FilesAre, Lengths
  <2>2. Before(2, 1, 2, i)
    BY <1>1 DEF Before
  <2> QED  BY <2>1, <2>2, MadeHas, RoleNames
<1>2. /\ Needs("readonly") = {} /\ Needs("connect") = {"readonly"}
      /\ Needs("usage") = {"readonly"}
  BY DEF Needs, MatViews
<1>3. {"readonly", "connect", "usage"} \cap Relations = {}
  BY DEF Relations, Tables, LookupTables, SubmitTables, MatViews, Views
<1>4. Add_Roles[i].op = "make" => Required(Add_Roles[i].on) \subseteq Needs(Add_Roles[i].on)
  BY RequiredOf, RoleNames
<1> QED  BY <1>1, <1>2, <1>3, <1>4, RoleNames

\* 2_Create_Lookup_DB.sql creates what it needs before it needs it.
LEMMA OrderLookup ==
  ASSUME NEW i \in 1..39, Create_Lookup_DB[i].op = "make"
  PROVE  Required(Create_Lookup_DB[i].on) \subseteq Made(3, i)
<1> DEFINE o == Create_Lookup_DB[i].on
<1>1. i \notin {1, 13, 33, 38}
  BY LookupNames, LookupStmts
<1>2. \A j \in {2, 3, 4, 5, 6, 7, 8, 9, 10, 11, 12, 25, 26, 27, 31, 32, 35, 37} :
        j < i => Create_Lookup_DB[j].on \in Made(3, i)
  BY LookupMade, LookupMakes
<1>3. ASSUME Parts(o) = {}, Needs(o) \subseteq Made(3, i) PROVE Required(o) \subseteq Made(3, i)
  BY <1>3, RequiredOf
<1>4. CASE i \in {2, 6, 7, 10, 11, 12, 31, 32, 35, 36, 37}
  <2>1. o \in {"prevalence_range", "lots", "public_health_units", "schools_daycares", "geocodes",
               "process_lock", "load_schools_daycares", "load_schools_daycares()", "load_lots",
               "load_lots()"}
    BY <1>4, LookupAt
  <2>2. Needs(o) = {}
    BY <2>1 DEF Needs, MatViews
  <2> QED  BY <1>3, <2>1, <2>2, RequiredOf
<1>5. CASE i \in {3, 4, 5}
  <2>1. o \in {"trades", "agents", "diseases"}
    BY <1>5, LookupAt
  <2>2. Needs(o) = {"prevalence_range"}
    BY <2>1 DEF Needs, MatViews
  <2>3. "prevalence_range" \in Made(3, i)
    BY <1>2, <1>5, LookupAt
  <2> QED  BY <1>3, <2>1, <2>2, <2>3, RequiredOf
<1>6. CASE i \in {8, 9}
  <2>1. o \in {"trades_agents", "agents_diseases"}
    BY <1>6, LookupAt
  <2>2. {"trades", "agents", "diseases"} \subseteq Made(3, i)
    BY <1>2, <1>6, LookupAt
  <2> QED  BY <2>1, <2>2, RequiredOf
<1>7. CASE i \in 14..20
  <2>1. Needs(o) \subseteq {"trades_agents", "agents_diseases", "lots", "trades"}
    BY <1>7, LookupNames DEF Needs, MatViews
  <2>2. {"trades_agents", "agents_diseases", "lots", "trades"} \subseteq Made(3, i)
    BY <1>2, <1>7, LookupAt
  <2>3. o \notin {"trades_agents", "agents_diseases"}
    BY <1>7, LookupNames
  <2> QED  BY <1>3, <2>1, <2>2, <2>3, RequiredOf
<1>8. CASE i \in 21..30
  <2>1. o \in MatViews \cup Views
    BY <1>8, LookupNames
  <2>2. Needs(o) \subseteq {"trades_agents", "agents_diseases", "lots", "trades", "agents",
                            "diseases", "schools_daycares", "geocodes", "geocodes_index"}
    BY <2>1 DEF Needs, MatViews, Views, Source, VaccineTables
  <2>3. {"trades_agents", "agents_diseases", "lots", "trades", "agents", "diseases",
         "schools_daycares", "geocodes"} \subseteq Made(3, i)
    BY <1>2, <1>8, LookupAt
  <2>4. "geocodes_index" \in Needs(o) => i = 27
    <3>1. \A k \in 21..30 : Create_Lookup_DB[k].on = "cities_index" => k = 27
      BY DEF Create_Lookup_DB, Each
    <3>2. "geocodes_index" \in Needs(o) => o = "cities_index"
      BY <2>1 DEF Needs, MatViews, Views, Source, VaccineTables
    <3> QED  BY <1>8, <3>1, <3>2
  <2>5. i = 27 => "geocodes_index" \in Made(3, i)
    BY <1>2, LookupAt
  <2>6. o \notin {"trades_agents", "agents_diseases"}
    BY <2>1 DEF MatViews, Views
  <2>7. Needs(o) \subseteq Made(3, i)
    BY <2>2, <2>3, <2>4, <2>5
  <2> QED  BY <1>3, <2>6, <2>7, RequiredOf
<1>9. CASE i \in {34, 39}
  <2>1. \/ o = "load_schools_daycares_trigger"
        \/ o = "load_lots_trigger" /\ i = 39
    BY <1>9, LookupNames
  <2>2. CASE o = "load_schools_daycares_trigger"
    <3>1. Needs(o) = {"load_schools_daycares", "load_schools_daycares()"}
      BY <2>2 DEF Needs, MatViews
    <3>2. {"load_schools_daycares", "load_schools_daycares()"} \subseteq Made(3, i)
      BY <1>2, <1>9, LookupAt
    <3> QED  BY <1>3, <2>2, <3>1, <3>2, RequiredOf
  <2>3. CASE o = "load_lots_trigger" /\ i = 39
    <3>1. Needs(o) = {"load_lots", "load_lots()"}
      BY <2>3 DEF Needs, MatViews
    <3>2. {"load_lots", "load_lots()"} \subseteq Made(3, i)
      BY <1>2, <2>3, LookupAt
    <3> QED  BY <1>3, <2>3, <3>1, <3>2, RequiredOf
  <2> QED  BY <2>1, <2>2, <2>3
<1>10. \/ i \in {2, 6, 7, 10, 11, 12, 31, 32, 35, 36, 37} \/ i \in {3, 4, 5} \/ i \in {8, 9}
       \/ i \in 14..20 \/ i \in 21..30 \/ i \in {34, 39}
  BY <1>1
<1> QED  BY <1>4, <1>5, <1>6, <1>7, <1>8, <1>9, <1>10

\* What is dropped again, in case it is still there, has not been created before.
LEMMA OrderDrops ==
  ASSUME NEW f \in {3, 4}, NEW i \in 1..Len(Files[f]), Files[f][i].op = "drop"
  PROVE  Files[f][i].on \notin Made(f, i) \cup Leftover
<1> DEFINE o == Files[f][i].on
<1>1. \/ f = 3 /\ i = 1 /\ o = "prevalence_range"
      \/ f = 3 /\ i = 33 /\ o = "load_schools_daycares_trigger"
      \/ f = 3 /\ i = 38 /\ o = "load_lots_trigger"
      \/ f = 4 /\ i = 1 /\ o = "Immun_Submission"
      \/ f = 4 /\ i = 3 /\ o = "Submission_Attachment"
  <2>1. CASE f = 3
    <3>1. i \in {1, 33, 38} /\ Files[f][i] = Create_Lookup_DB[i]
      BY <2>1, FilesAre, Lengths, LookupNames
    <3> QED  BY <2>1, <3>1, LookupNames
  <2>2. CASE f = 4
    BY <2>2, FilesAre, Lengths, SubmitNames
  <2> QED  BY <2>1, <2>2
<1>2. o \notin Leftover
  BY <1>1 DEF Leftover
<1>3. ASSUME NEW g \in 1..6, NEW j \in 1..Len(Files[g]), Before(g, j, f, i),
             Files[g][j].op = "make"
      PROVE  o # Files[g][j].on
  <2>0. Len(Files[g]) \in Nat /\ j \in Nat
    BY FilesAre, LengthOf
  <2>1. g \in {1, 2, 3, 4} /\ g <= f /\ (g = f => j < i)
    BY <1>3, <2>0 DEF Before
  <2>2. CASE g = 1
    BY <1>3, <2>2, FilesAre, Lengths, DropStmts
  <2>3. CASE g = 2
    <3>1. Files[g][j].on \in {"readonly", "connect", "usage"}
      BY <1>3, <2>3, FilesAre, Lengths, RoleNames
    <3> QED  BY <1>1, <3>1
  <2>4. CASE g = 3
    <3>1. \A k \in 1..39 :
            Create_Lookup_DB[k].on \notin {"Immun_Submission", "Submission_Attachment"}
      <4> TAKE k \in 1..39
      <4>1. \/ k \in {1, 32, 33, 34, 37, 38, 39} \/ k \in 2..13 \/ k \in 14..20
            \/ k \in 21..30 \/ k \in {31, 35, 36}
        OBVIOUS
      <4>2. CASE k \in {1, 32, 33, 34, 37, 38, 39} \/ k \in {31, 35, 36}
        BY <4>2, LookupNames
      <4>3. CASE k \in 2..13
        BY <4>3, LookupNames DEF LookupTables
      <4>4. CASE k \in 14..20
        BY <4>4, LookupNames
      <4>5. CASE k \in 21..30
        BY <4>5, LookupNames DEF MatViews, Views
      <4> QED  BY <4>1, <4>2, <4>3, <4>4, <4>5
    <3>2. \A k \in 1..32 : Create_Lookup_DB[k].on # "load_schools_daycares_trigger"
      <4> TAKE k \in 1..32
      <4>1. \/ k \in {1, 32} \/ k \in 2..13 \/ k \in 14..20 \/ k \in 21..30 \/ k = 31
        OBVIOUS
      <4> QED  BY <4>1, LookupNames DEF LookupTables, MatViews, Views
    <3>3. \A k \in 1..37 : Create_Lookup_DB[k].on # "load_lots_trigger"
      <4> TAKE k \in 1..37
      <4>1. \/ k \in {1, 32, 33, 34, 37} \/ k \in 2..13 \/ k \in 14..20 \/ k \in 21..30
            \/ k \in {31, 35, 36}
        OBVIOUS
      <4> QED  BY <4>1, LookupNames DEF LookupTables, MatViews, Views
    <3>4. /\ j \in 1..39 /\ Files[g][j] = Create_Lookup_DB[j]
          /\ Files[g][j].on = Create_Lookup_DB[j].on
      BY <2>4, FilesAre, Lengths
    <3>5. CASE f = 4
      <4>1. o \in {"Immun_Submission", "Submission_Attachment"}
        BY <1>1, <3>5
      <4>2. Files[g][j].on \notin {"Immun_Submission", "Submission_Attachment"}
        BY <3>1, <3>4
      <4> QED  BY <4>1, <4>2
    <3>6. CASE f = 3 /\ i = 1
      BY <1>3, <2>0, <2>1, <2>4, <3>6
    <3>7. CASE f = 3 /\ i = 33
      <4>1. j \in 1..32
        BY <2>1, <2>4, <3>4, <3>7
      <4>2. o = "load_schools_daycares_trigger"
        BY <1>1, <3>7
      <4>3. Files[g][j].on # "load_schools_daycares_trigger"
        BY <3>2, <3>4, <4>1
      <4> QED  BY <4>2, <4>3
    <3>8. CASE f = 3 /\ i = 38
      <4>1. j \in 1..37
        BY <2>1, <2>4, <3>4, <3>8
      <4>2. o = "load_lots_trigger"
        BY <1>1, <3>8
      <4>3. Files[g][j].on # "load_lots_trigger"
        BY <3>3, <3>4, <4>1
      <4> QED  BY <4>2, <4>3
    <3> QED  BY <1>1, <3>5, <3>6, <3>7, <3>8
  <2>5. CASE g = 4
    <3>1. f = 4 /\ j \in 1..2 /\ i = 3
      BY <1>1, <2>0, <2>1, <2>5, FilesAre, Lengths, SubmitNames, <1>3
    <3> QED  BY <1>1, <3>1, <2>5, FilesAre, SubmitNames
  <2> QED  BY <2>1, <2>2, <2>3, <2>4, <2>5
<1>4. ASSUME NEW g \in 1..6, NEW j \in 1..Len(Files[g])
      PROVE  o \notin Parts(Files[g][j].on)
  BY <1>1, PartsApart
<1> QED  BY <1>2, <1>3, <1>4 DEF Made

\* 3_Create_Submit_DB.sql.
LEMMA OrderSubmit ==
  ASSUME NEW i \in 1..8, Create_Submit_DB[i].op = "make"
  PROVE  Required(Create_Submit_DB[i].on) \subseteq Made(4, i)
<1> DEFINE o == Create_Submit_DB[i].on
<1>1. i \notin {1, 3}
  BY SubmitNames
<1>2. \A j \in {2, 4, 7} : j < i => Create_Submit_DB[j].on \in Made(4, i)
  <2> SUFFICES ASSUME NEW j \in {2, 4, 7}, j < i PROVE Create_Submit_DB[j].on \in Made(4, i)
    OBVIOUS
  <2>1. Create_Submit_DB[j].op = "make"
    BY SubmitNames, SubmitStmts
  <2>2. /\ 4 \in 1..6 /\ j \in 1..Len(Files[4]) /\ Files[4][j] = Create_Submit_DB[j]
    BY FilesAre, Lengths
  <2>3. Before(4, j, 4, i)
    BY DEF Before
  <2> QED  BY <2>1, <2>2, <2>3, MadeHas
<1>3. o \notin {"trades_agents", "agents_diseases"}
  BY <1>1, SubmitNames
<1>4. /\ Needs("Immun_Submission") = {} /\ Needs("Submission_Attachment") = {}
      /\ Needs("file_upload_check()") = {}
      /\ Needs("Immun_Submission_pkey") = {"Immun_Submission"}
      /\ Needs("Submission_Attachment_pkey") = {"Submission_Attachment"}
      /\ Needs("file_upload_check") = {"Submission_Attachment", "file_upload_check()"}
  BY DEF Needs, MatViews
<1>5. Needs(o) \subseteq Made(4, i)
  BY <1>1, <1>2, <1>4, SubmitNames
<1> QED  BY <1>3, <1>5, RequiredOf

\* Which tables have rows, and which views are populated, before a COPY or REFRESH.
LEMMA LoadedBefore ==
  /\ \A i \in 1..13 : Loaded(3, i) = {}
  /\ Loaded(5, 1) = {"process_lock"}
  /\ \A i \in 1..13 : Loaded(6, i) = {"process_lock", "geocodes", "geocodes_index"}
       \cup {Lookup_Data[k].on : k \in {k \in 1..i - 1 : Lookup_Data[k].op \in {"copy", "refresh"}}}
<1> DEFINE Fill(x) == x.op \in {"insert", "copy", "refresh"}
<1>0. \A g \in 1..6 : Len(Files[g]) \in Nat
  BY FilesAre, LengthOf
<1>1. ASSUME NEW g \in 1..4, NEW j \in 1..Len(Files[g]), Fill(Files[g][j])
      PROVE  g = 3 /\ j = 13 /\ Files[g][j].on = "process_lock"
  <2>1. CASE g = 1
    BY <1>1, <2>1, FilesAre, Lengths, DropStmts
  <2>2. CASE g = 2
    BY <1>1, <2>2, FilesAre, Lengths, RoleStmts
  <2>3. CASE g = 3
    BY <1>1, <2>3, FilesAre, Lengths, LookupStmts
  <2>4. CASE g = 4
    BY <1>1, <2>4, FilesAre, Lengths, SubmitStmts
  <2> QED  BY <2>1, <2>2, <2>3, <2>4
<1>2. \A i \in 1..13 : Loaded(3, i) = {}
  <2> SUFFICES ASSUME NEW i \in 1..13, NEW g \in 1..6, NEW j \in 1..Len(Files[g]),
                      Before(g, j, 3, i), Fill(Files[g][j])
               PROVE  FALSE
    BY DEF Loaded
  <2>1. g \in 1..4 /\ (g = 3 => j < 13)
    BY <1>0 DEF Before
  <2> QED  BY <1>1, <2>1
<1>3. "process_lock" \in Loaded(5, 1) /\ \A i \in 1..13 : "process_lock" \in Loaded(6, i)
  <2>1. /\ 3 \in 1..6 /\ 13 \in 1..Len(Files[3]) /\ Files[3][13].on = "process_lock"
        /\ Files[3][13].op = "insert"
    BY FilesAre, Lengths, LookupStmts
  <2>2. Before(3, 13, 5, 1) /\ \A i \in 1..13 : Before(3, 13, 6, i)
    BY DEF Before
  <2> QED  BY <2>1, <2>2, LoadedHas
<1>4. Loaded(5, 1) \subseteq {"process_lock"}
  <2> SUFFICES ASSUME NEW g \in 1..6, NEW j \in 1..Len(Files[g]),
                      Before(g, j, 5, 1), Fill(Files[g][j])
               PROVE  Files[g][j].on = "process_lock"
    BY DEF Loaded
  <2>1. g \in 1..4
    BY <1>0 DEF Before
  <2> QED  BY <1>1, <2>1
<1>5. \A i \in 1..13 : {"geocodes", "geocodes_index"} \subseteq Loaded(6, i)
  <2>1. /\ 5 \in 1..6 /\ 1 \in 1..Len(Files[5]) /\ 2 \in 1..Len(Files[5])
        /\ Files[5][1] = [op |-> "copy", on |-> "geocodes"]
        /\ Files[5][2] = [op |-> "refresh", on |-> "geocodes_index"]
    BY FilesAre, Lengths, GeocodeStmts
  <2>2. \A i \in 1..13 : Before(5, 1, 6, i) /\ Before(5, 2, 6, i)
    BY DEF Before
  <2> QED  BY <2>1, <2>2, LoadedHas
<1>6. ASSUME NEW i \in 1..13, NEW k \in 1..i - 1, Lookup_Data[k].op \in {"copy", "refresh"}
      PROVE  Lookup_Data[k].on \in Loaded(6, i)
  <2>1. 6 \in 1..6 /\ k \in 1..Len(Files[6]) /\ Files[6][k] = Lookup_Data[k] /\ k < i
    BY FilesAre, Lengths
  <2>2. Before(6, k, 6, i)
    BY <2>1 DEF Before
  <2> QED  BY <1>6, <2>1, <2>2, LoadedHas
<1>7. ASSUME NEW i \in 1..13, NEW g \in 1..6, NEW j \in 1..Len(Files[g]),
             Before(g, j, 6, i), Fill(Files[g][j])
      PROVE  \/ Files[g][j].on \in {"process_lock", "geocodes", "geocodes_index"}
             \/ /\ j \in 1..i - 1 /\ Lookup_Data[j].op \in {"copy", "refresh"}
                /\ Files[g][j].on = Lookup_Data[j].on
  <2>1. CASE g \in 1..4
    BY <1>1, <1>7, <2>1
  <2>2. CASE g = 5
    BY <2>2, FilesAre, Lengths, GeocodeStmts
  <2>3. CASE g = 6
    <3>1. j \in 1..i - 1
      BY <1>0, <1>7, <2>3 DEF Before
    <3>2. Files[g][j] = Lookup_Data[j] /\ j \in 1..12
      BY <2>3, FilesAre, Lengths
    <3>3. Lookup_Data[j].op # "insert"
      <4>1. j \in 2..9 \/ j \in {1, 10, 11, 12}
        BY <3>2
      <4> QED  BY <4>1, DataStmts
    <3> QED  BY <1>7, <3>1, <3>2, <3>3
  <2> QED  BY <2>1, <2>2, <2>3
<1>8. \A i \in 1..13 : Loaded(6, i) = {"process_lock", "geocodes", "geocodes_index"}
       \cup {Lookup_Data[k].on : k \in {k \in 1..i - 1 : Lookup_Data[k].op \in {"copy", "refresh"}}}
  <2> TAKE i \in 1..13
  <2> DEFINE R == {"process_lock", "geocodes", "geocodes_index"}
       \cup {Lookup_Data[k].on : k \in {k \in 1..i - 1 : Lookup_Data[k].op \in {"copy", "refresh"}}}
  <2>1. R \subseteq Loaded(6, i)
    BY <1>3, <1>5, <1>6
  <2>2. Loaded(6, i) \subseteq R
    BY <1>7 DEF Loaded
  <2> QED  BY <2>1, <2>2
<1> QED  BY <1>2, <1>3, <1>4, <1>8

\* At the end everything is there.
LEMMA AllAtEnd == Made(6, 13) = Installed /\ Loaded(6, 13) = Filled
<1>1. ASSUME NEW g \in 1..6, NEW j \in 1..Len(Files[g]) PROVE Before(g, j, 6, 13)
  <2>1. Len(Files[g]) \in Nat
    BY FilesAre, LengthOf
  <2>2. g = 6 => Len(Files[g]) = 12
    BY FilesAre, Lengths
  <2>3. CASE g < 6
    BY <2>3 DEF Before
  <2>4. CASE g = 6
    <3>1. j \in 1..12
      BY <2>2, <2>4
    <3> QED  BY <2>4, <3>1 DEF Before
  <2> QED  BY <2>3, <2>4
<1>2. ASSUME NEW o \in Installed PROVE o \in Made(6, 13)
  <2>1. PICK x \in Statements : x.op = "make" /\ o \in {x.on} \cup Parts(x.on)
    BY Zenon DEF Installed
  <2>2. PICK g \in 1..6 : \E j \in DOMAIN Files[g] : x = Files[g][j]
    BY FilesAre DEF Statements
  <2>3. PICK j \in DOMAIN Files[g] : x = Files[g][j]
    BY <2>2
  <2>4. j \in 1..Len(Files[g])
    BY FilesAre, LengthOf
  <2> QED  BY <1>1, <2>1, <2>3, <2>4, MadeHas
<1>3. Made(6, 13) = Installed
  BY <1>2 DEF Made
<1>4. Loaded(6, 13) = {"process_lock", "geocodes", "geocodes_index"}
       \cup {Lookup_Data[k].on : k \in {k \in 1..12 : Lookup_Data[k].op \in {"copy", "refresh"}}}
  BY LoadedBefore
<1>5. ASSUME NEW k \in 1..12, Lookup_Data[k].op \in {"copy", "refresh"}
      PROVE  Lookup_Data[k].on \in LookupTables \cup MatViews
  <2>1. k \in 2..9 \/ k \in {1, 10, 11, 12}
    OBVIOUS
  <2> QED  BY <1>5, <2>1, DataStmts DEF MatViews
<1>6. ASSUME NEW t \in LookupTables PROVE t \in Loaded(6, 13)
  <2>1. PICK k \in 2..9 : Lookup_Data[k].on = t
    BY DataStmts
  <2>2. Lookup_Data[k].op = "copy" /\ k \in 1..12
    BY DataStmts
  <2> QED  BY <1>4, <2>1, <2>2
<1>7. MatViews \subseteq Loaded(6, 13)
  <2>1. /\ Lookup_Data[11].op = "refresh" /\ Lookup_Data[11].on = "schools_daycares_index"
        /\ Lookup_Data[12].op = "refresh" /\ Lookup_Data[12].on = "cities_index"
    BY DataStmts
  <2>2. 11 \in 1..12 /\ 12 \in 1..12
    OBVIOUS
  <2> QED  BY <1>4, <2>1, <2>2 DEF MatViews
<1>8. Loaded(6, 13) = Filled
  BY <1>4, <1>5, <1>6, <1>7 DEF Filled, MatViews
<1> QED  BY <1>3, <1>8

\* The tables and materialized views are there when they are filled.
LEMMA LookupThere ==
  /\ "process_lock" \in Made(3, 13)
  /\ \A f \in 4..6 : \A a \in Nat :
       LookupTables \cup MatViews \cup {"geocodes"} \subseteq Made(f, a)
<1>1. \A j \in {3, 4, 5, 6, 7, 8, 9, 10, 11, 12, 25, 26, 27} :
        j \in 1..39 /\ Create_Lookup_DB[j].op = "make"
  BY LookupMakes
<1>2. "process_lock" \in Made(3, 13)
  <2>1. 3 \in 3..6 /\ 13 \in Nat /\ 12 \in 1..39 /\ 12 < 13 /\ Create_Lookup_DB[12].op = "make"
    BY <1>1
  <2> QED  BY <2>1, LookupMade, LookupAt
<1>3. ASSUME NEW f \in 4..6, NEW a \in Nat
      PROVE  LookupTables \cup MatViews \cup {"geocodes"} \subseteq Made(f, a)
  <2>1. \A j \in {3, 4, 5, 6, 7, 8, 9, 10, 11, 12, 25, 26, 27} :
          Create_Lookup_DB[j].on \in Made(f, a)
    <3>1. f \in 3..6 /\ f # 3
      OBVIOUS
    <3> QED  BY <1>1, <3>1, LookupMade
  <2> QED  BY <2>1, LookupAt DEF LookupTables, MatViews
<1> QED  BY <1>2, <1>3

\* Every statement of the files that create and fill finds what it needs.
LEMMA Order ==
  ASSUME NEW f \in 2..6, NEW i \in 1..Len(Files[f])
  PROVE  /\ Files[f][i].op # "dropCascade"
         /\ Files[f][i].op = "make" => Required(Files[f][i].on) \subseteq Made(f, i)
         /\ Files[f][i].op = "drop" => Files[f][i].on \notin Made(f, i) \cup Leftover
         /\ Files[f][i].op \in {"grantSelect", "alterDefault", "insert", "copy", "refresh"} =>
              Files[f][i].on \in Made(f, i)
         /\ Files[f][i].op \in {"insert", "copy"} => Files[f][i].on \notin Loaded(f, i)
         /\ Files[f][i].op = "refresh" => Source[Files[f][i].on] \in Loaded(f, i)
         /\ Files[f][i].op = "grantSelect" => f = 2
         /\ Files[f][i].op = "alterDefault" <=> f = 2 /\ i = 5
         /\ f = 2 /\ Files[f][i].op = "make" => Files[f][i].on \notin Relations
<1> DEFINE x == Files[f][i]
<1>1. CASE f = 2
  <2>1. i \in 1..5 /\ x = Add_Roles[i]
    BY <1>1, FilesAre, Lengths
  <2>2. x.op \in {"make", "grantSelect", "alterDefault"}
    BY <2>1, RoleStmts
  <2> QED  BY <1>1, <2>1, <2>2, OrderRoles
<1>2. CASE f = 3
  <2>1. i \in 1..39 /\ x = Create_Lookup_DB[i]
    BY <1>2, FilesAre, Lengths
  <2>2. x.op \in {"drop", "make", "insert"} /\ (x.op = "insert" <=> i = 13)
    BY <2>1, LookupStmts
  <2>3. "process_lock" \in Made(3, 13)
    BY LookupThere
  <2>4. x.op = "insert" => x.on = "process_lock" /\ Loaded(f, i) = {}
    BY <1>2, <2>1, <2>2, LookupStmts, LoadedBefore
  <2>5. x.op = "drop" => x.on \notin Made(f, i) \cup Leftover
    BY <1>2, OrderDrops
  <2>6. x.op = "make" => Required(x.on) \subseteq Made(f, i)
    BY <1>2, <2>1, OrderLookup
  <2> QED  BY <1>2, <2>1, <2>2, <2>3, <2>4, <2>5, <2>6
<1>3. CASE f = 4
  <2>1. i \in 1..8 /\ x = Create_Submit_DB[i]
    BY <1>3, FilesAre, Lengths
  <2>2. x.op \in {"drop", "make"}
    BY <2>1, SubmitStmts
  <2>3. x.op = "drop" => x.on \notin Made(f, i) \cup Leftover
    BY <1>3, OrderDrops
  <2>4. x.op = "make" => Required(x.on) \subseteq Made(f, i)
    BY <1>3, <2>1, OrderSubmit
  <2> QED  BY <1>3, <2>2, <2>3, <2>4
<1>4. CASE f = 5
  <2>1. \/ i = 1 /\ x = [op |-> "copy", on |-> "geocodes"]
        \/ i = 2 /\ x = [op |-> "refresh", on |-> "geocodes_index"]
    BY <1>4, FilesAre, Lengths, GeocodeStmts
  <2>2. {"geocodes", "geocodes_index"} \subseteq Made(5, i)
    BY <2>1, LookupThere DEF MatViews
  <2>3. "geocodes" \notin Loaded(5, 1)
    BY LoadedBefore
  <2>4. "geocodes" \in Loaded(5, 2)
    <3>1. 5 \in 1..6 /\ 1 \in 1..Len(Files[5]) /\ Files[5][1] = [op |-> "copy", on |-> "geocodes"]
      BY FilesAre, Lengths, GeocodeStmts
    <3>2. Before(5, 1, 5, 2)
      BY DEF Before
    <3> QED  BY <3>1, <3>2, LoadedHas
  <2> QED  BY <1>4, <2>1, <2>2, <2>3, <2>4 DEF Source
<1>5. CASE f = 6
  <2>1. i \in 1..12 /\ x = Lookup_Data[i]
    BY <1>5, FilesAre, Lengths
  <2>2. ASSUME NEW t \in LookupTables \cup MatViews PROVE t \in Made(6, i)
    BY <2>1, LookupThere
  <2>3. CASE i \in 2..9
    <3>1. x.op = "copy" /\ x.on \in LookupTables
      BY <2>1, <2>3, DataStmts
    <3>2. ASSUME NEW k \in 1..i - 1, Lookup_Data[k].op \in {"copy", "refresh"}
          PROVE  Lookup_Data[k].on # x.on
      <4>1. k \in 2..9 \/ k = 1
        BY <2>3
      <4> QED  BY <2>1, <2>3, <3>2, <4>1, DataStmts
    <3>3. x.on \notin {"process_lock", "geocodes", "geocodes_index"}
      BY <3>1 DEF LookupTables
    <3>4. x.on \notin Loaded(6, i)
      BY <2>1, <3>2, <3>3, LoadedBefore
    <3> QED  BY <1>5, <2>2, <3>1, <3>4
  <2>4. CASE i \in {1, 10}
    BY <1>5, <2>1, <2>4, DataStmts
  <2>5. CASE i \in {11, 12}
    <3>1. \/ x = [op |-> "refresh", on |-> "schools_daycares_index"]
          \/ x = [op |-> "refresh", on |-> "cities_index"]
      BY <2>1, <2>5, DataStmts
    <3>2. "geocodes_index" \in Loaded(6, i)
      BY <2>1, LoadedBefore
    <3>3. "schools_daycares" \in Loaded(6, i)
      <4>1. PICK k \in 2..9 : Lookup_Data[k].on = "schools_daycares"
        BY DataStmts DEF LookupTables
      <4>2. Lookup_Data[k].op = "copy" /\ k \in 1..i - 1
        BY <2>5, DataStmts
      <4> QED  BY <2>1, <4>1, <4>2, LoadedBefore
    <3>4. /\ Source["schools_daycares_index"] = "schools_daycares"
          /\ Source["cities_index"] = "geocodes_index"
      BY DEF Source
    <3> QED  BY <1>5, <2>2, <3>1, <3>2, <3>3, <3>4 DEF MatViews
  <2>6. i \in 2..9 \/ i \in {1, 10} \/ i \in {11, 12}
    BY <2>1
  <2> QED  BY <2>3, <2>4, <2>5, <2>6
<1> QED  BY <1>1, <1>2, <1>3, <1>4, <1>5

-----------------------------------------------------------------------------
(* The undisturbed run.                                                    *)

\* While Drop_DB.sql runs: what it has dropped is gone.
Dropping ==
  clean /\ status = "running" /\ file = 1 => \A i \in 1..at - 1 : Drop_DB[i].on \notin objs

\* Then: what the files have created and filled so far is there, and next to nothing else.
Built ==
  /\ Made(file, at) \subseteq objs /\ objs \subseteq Made(file, at) \cup Leftover
  /\ Loaded(file, at) \subseteq objs /\ copied \subseteq Loaded(file, at)
  /\ \A r \in objs \cap (Tables \cup MatViews) :
       content[r] = IF r \in Loaded(file, at) \ copied THEN "full" ELSE Fresh(r)
  /\ Relations \cap objs \subseteq readable
  /\ (file = 2 /\ at < 6) \/ defaultRead
  /\ tx # "failed"
Building == clean /\ status = "running" /\ file > 1 => Built

\* What Order says of the statement at hand.
LEMMA Ready ==
  ASSUME Base, Built, file > 1, Running
  PROVE  /\ file \in 2..6 /\ at \in 1..Len(Files[file]) /\ st = Files[file][at]
         /\ st.op \in {"drop", "make", "grantSelect", "alterDefault", "insert", "copy",
                       "refresh", "start", "commit"}
         /\ st.op = "make" => Required(st.on) \subseteq objs
         /\ st.op = "drop" => st.on \notin objs
         /\ st.op \in {"grantSelect", "alterDefault", "insert", "copy", "refresh"} => st.on \in objs
         /\ st.op \in {"insert", "copy"} => st.on \notin Loaded(file, at)
         /\ st.op = "refresh" => Source[st.on] \in Loaded(file, at)
         /\ st.op = "grantSelect" => file = 2
         /\ st.op = "alterDefault" <=> file = 2 /\ at = 5
         /\ file = 2 /\ st.op = "make" => st.on \notin Relations
<1>1. file \in 1..6 /\ at \in 1..Len(Files[file]) /\ st = Files[file][at]
  BY Statement DEF Base
<1>2. file \in 2..6
  BY <1>1
<1>3. st.op \in Changes \cup {"insert", "copy", "refresh", "start", "commit"}
  BY <1>1, Shape
<1> QED  BY <1>1, <1>2, <1>3, Order DEF Built, Changes

\* The statement has been executed, with all its effects on the catalog but those on
\* rows and privileges.
LEMMA Past ==
  ASSUME Base, file > 1, Running, at' = at + 1, file' = file
  PROVE  /\ st.op = "make" => /\ Made(file, at)' = Made(file, at) \cup {st.on} \cup Parts(st.on)
                              /\ Loaded(file, at)' = Loaded(file, at)
         /\ st.op # "make" => Made(file, at)' = Made(file, at)
         /\ st.op \in {"insert", "copy", "refresh"} =>
              Loaded(file, at)' = Loaded(file, at) \cup {st.on}
         /\ st.op \notin {"insert", "copy", "refresh"} => Loaded(file, at)' = Loaded(file, at)
<1>1. file \in 1..6 /\ at \in 1..Len(Files[file]) /\ st = Files[file][at]
  BY Statement DEF Base
<1>2. Made(file, at)' = Made(file, at + 1) /\ Loaded(file, at)' = Loaded(file, at + 1)
  BY Zenon
<1> QED  BY <1>1, <1>2, StatementAdds

LEMMA DropBuilt ==
  ASSUME Base, Built, file > 1, Drop
  PROVE  Built'
<1>1. /\ Running /\ st.op \in {"drop", "dropCascade"} /\ Remove(Cascade(st.on))
      /\ at' = at + 1 /\ UNCHANGED <<file, tx, copied, defaultRead>>
  BY DEF Drop, Stmt, Autocommit, Advance
<1>2. st.op = "drop" /\ st.on \notin objs
  BY <1>1, Ready
<1>3. Cascade(st.on) = {st.on}
  BY <1>2 DEF Cascade, Dependents, Base, Closed
<1>4. /\ objs' = objs /\ readable' = readable \ {st.on}
      /\ \A r \in objs \cap Relations : content'[r] = content[r]
  BY <1>1, <1>2, <1>3 DEF Remove
<1>5. Made(file, at)' = Made(file, at) /\ Loaded(file, at)' = Loaded(file, at)
  BY <1>1, <1>2, Past
<1>6. file \in 2..6 /\ (file = 2 => st.op # "drop")
  <2>1. file = 2 => st.op = Add_Roles[at].op /\ at \in 1..5
    BY <1>1, Ready, FilesAre, Lengths
  <2> QED  BY <1>1, <2>1, Ready, RoleStmts
<1>7. \A r \in objs' \cap (Tables \cup MatViews) :
        content'[r] = IF r \in Loaded(file, at)' \ copied' THEN "full" ELSE Fresh(r)
  BY <1>1, <1>4, <1>5 DEF Built, Relations
<1>8. Relations \cap objs' \subseteq readable'
  BY <1>2, <1>4 DEF Built
<1> QED  BY <1>1, <1>2, <1>4, <1>5, <1>6, <1>7, <1>8 DEF Built

LEMMA PartsNoRelations ==
  ASSUME NEW o PROVE Parts(o) \cap Relations = {}
BY PartsApart

LEMMA MakeBuilt ==
  ASSUME Base, Built, file > 1, Make
  PROVE  Built'
<1>1. /\ Running /\ st.op = "make" /\ st.on \notin objs
      /\ at' = at + 1 /\ UNCHANGED <<file, tx, copied, defaultRead>>
  BY DEF Make, Creatable, Stmt, Autocommit, Advance
<1>2. /\ objs' = objs \cup {st.on} \cup Parts(st.on)
      /\ content' = IF st.on \in Relations THEN Holds(st.on, Fresh(st.on)) ELSE content
      /\ readable' = IF defaultRead THEN readable \cup ({st.on} \cap Relations) ELSE readable
  BY DEF Make, Created
<1>3. /\ Made(file, at)' = Made(file, at) \cup {st.on} \cup Parts(st.on)
      /\ Loaded(file, at)' = Loaded(file, at)
  BY <1>1, Past
<1>4. st.on \notin Loaded(file, at)
  BY <1>1 DEF Built
<1>5. ASSUME NEW r \in objs' \cap (Tables \cup MatViews)
      PROVE  content'[r] = IF r \in Loaded(file, at)' \ copied' THEN "full" ELSE Fresh(r)
  <2>1. r \in Relations /\ r \notin Parts(st.on)
    BY PartsNoRelations DEF Relations
  <2>2. CASE r = st.on
    BY <1>1, <1>2, <1>3, <1>4, <2>1, <2>2 DEF Holds, Base, CatalogOK
  <2>3. CASE r # st.on
    <3>1. r \in objs /\ content'[r] = content[r]
      BY <1>2, <2>1, <2>3, HoldsAt DEF Base
    <3> QED  BY <1>1, <1>3, <3>1 DEF Built
  <2> QED  BY <2>2, <2>3
<1>6. Relations \cap objs' \subseteq readable'
  <2>1. Relations \cap objs' \subseteq (Relations \cap objs) \cup ({st.on} \cap Relations)
    BY <1>2, PartsNoRelations
  <2>2. file = 2 => st.on \notin Relations
    BY <1>1, Ready
  <2>3. file = 2 \/ defaultRead
    BY DEF Built
  <2> QED  BY <1>2, <2>1, <2>2, <2>3 DEF Built
<1>7. (file' = 2 /\ at' < 6) \/ defaultRead'
  <2>1. file = 2 /\ ~defaultRead => at \in 1..4
    <3>1. file = 2 => at \in 1..5 /\ at # 5
      BY <1>1, Ready, FilesAre, Lengths
    <3> QED  BY <3>1
  <2> QED  BY <1>1, <2>1 DEF Built
<1> QED  BY <1>1, <1>2, <1>3, <1>5, <1>6, <1>7 DEF Built

\* Only what is already there is not created.
LEMMA ErrorBuilt ==
  ASSUME Base, Built, file > 1, Error
  PROVE  Built'
<1>1. /\ Running /\ Impossible /\ at' = at + 1
      /\ UNCHANGED <<objs, content, defaultRead, readable, file, copied>>
      /\ tx' = (IF tx = "open" THEN "failed" ELSE tx)
  BY DEF Error, SkipStmt, catalog
<1>2. ASSUME st.op = "drop" PROVE Droppable(st.on)
  BY <1>1, <1>2, Ready DEF Droppable, Dependents, Base, Closed
<1>3. ASSUME st.op = "insert" PROVE Insertable(st.on)
  <2>1. st.on = "process_lock"
    BY <1>1, <1>3, Ready, Shape
  <2>2. st.on \in Tables /\ st.on \in objs /\ st.on \notin Loaded(file, at)
    BY <1>1, <1>3, <2>1, Ready DEF Tables
  <2> QED  BY <2>2 DEF Insertable, Built, Fresh
<1>4. ASSUME st.op = "copy" PROVE Copyable(st.on)
  <2>1. st.on \in LookupTables \cup {"geocodes"}
    BY <1>1, <1>4, Ready, Shape
  <2>2. st.on \in Tables /\ st.on \in objs /\ st.on \notin Loaded(file, at)
    BY <1>1, <1>4, <2>1, Ready DEF Tables
  <2> QED  BY <2>2 DEF Copyable, Built, Fresh
<1>5. ASSUME st.op = "refresh" PROVE Refreshable(st.on)
  <2>1. st.on \in MatViews /\ st.on \in objs /\ Source[st.on] \in Loaded(file, at)
    BY <1>1, <1>5, Ready, Shape
  <2>2. Source[st.on] \in Tables \cup MatViews /\ Source[st.on] \in objs
    BY <2>1 DEF Source, MatViews, Tables, LookupTables, Built
  <2>3. copied = {}
    BY <1>1, <1>5, QuietStatement DEF Base, Built
  <2> QED  BY <2>1, <2>2, <2>3 DEF Refreshable, Built
<1>6. st.op = "make" /\ ~Creatable(st.on)
  BY <1>1, <1>2, <1>3, <1>4, <1>5, Ready DEF Impossible
<1>7. st.on \in objs
  BY <1>1, <1>6, Ready DEF Creatable
<1>8. Parts(st.on) \subseteq objs
  <2>1. st.on \in Made(file, at) => Parts(st.on) \subseteq Made(file, at)
    <3> SUFFICES ASSUME st.on \in Made(file, at) PROVE Parts(st.on) \subseteq Made(file, at)
      OBVIOUS
    <3>1. PICK g \in 1..6 : \E j \in 1..Len(Files[g]) :
            /\ Before(g, j, file, at) /\ Files[g][j].op = "make"
            /\ st.on \in {Files[g][j].on} \cup Parts(Files[g][j].on)
      BY DEF Made
    <3>2. PICK j \in 1..Len(Files[g]) :
            /\ Before(g, j, file, at) /\ Files[g][j].op = "make"
            /\ st.on \in {Files[g][j].on} \cup Parts(Files[g][j].on)
      BY <3>1
    <3>3. CASE st.on = Files[g][j].on
      BY <3>2, <3>3, MadeHas
    <3>4. CASE st.on \in Parts(Files[g][j].on)
      <4>1. st.on \in {"trades_agents_fkeys", "agents_diseases_fkeys"}
        BY <3>4, PartsApart
      <4>2. Parts(st.on) = {}
        BY <4>1, RequiredOf
      <4> QED  BY <4>2
    <3> QED  BY <3>2, <3>3, <3>4
  <2>2. st.on \in Leftover => Parts(st.on) = {}
    BY RequiredOf DEF Leftover
  <2> QED  BY <1>7, <2>1, <2>2 DEF Built
<1>9. /\ Made(file, at)' = Made(file, at) \cup {st.on} \cup Parts(st.on)
      /\ Loaded(file, at)' = Loaded(file, at)
  BY <1>1, <1>6, Past
<1>10. tx' = tx
  BY <1>1, <1>6, QuietStatement DEF Base, Built, Changes
<1>11. (file' = 2 /\ at' < 6) \/ defaultRead'
  <2>1. file = 2 /\ ~defaultRead => at \in 1..4
    <3>1. file = 2 => at \in 1..5 /\ at # 5
      BY <1>1, <1>6, Ready, FilesAre, Lengths
    <3> QED  BY <3>1
  <2> QED  BY <1>1, <2>1 DEF Built
<1> QED  BY <1>1, <1>7, <1>8, <1>9, <1>10, <1>11 DEF Built

LEMMA GrantBuilt ==
  ASSUME Base, Built, file > 1, GrantSelect
  PROVE  Built'
<1>1. /\ Running /\ st.op = "grantSelect" /\ readable' = objs \cap Relations
      /\ at' = at + 1 /\ UNCHANGED <<objs, content, file, tx, copied, defaultRead>>
  BY DEF GrantSelect, Stmt, Autocommit, Advance
<1>2. Made(file, at)' = Made(file, at) /\ Loaded(file, at)' = Loaded(file, at)
  BY <1>1, Past
<1>3. (file' = 2 /\ at' < 6) \/ defaultRead'
  <2>1. file = 2 => at \in 1..5 /\ at # 5
    BY <1>1, Ready, FilesAre, Lengths
  <2> QED  BY <1>1, <2>1 DEF Built
<1> QED  BY <1>1, <1>2, <1>3 DEF Built

LEMMA AlterDefaultBuilt ==
  ASSUME Base, Built, file > 1, AlterDefault
  PROVE  Built'
<1>1. /\ Running /\ st.op = "alterDefault" /\ defaultRead'
      /\ at' = at + 1 /\ UNCHANGED <<objs, content, readable, file, tx, copied>>
  BY DEF AlterDefault, Stmt, Advance
<1>2. Made(file, at)' = Made(file, at) /\ Loaded(file, at)' = Loaded(file, at)
  BY <1>1, Past
<1> QED  BY <1>1, <1>2 DEF Built

\* A later file, or the default privileges, already.
LEMMA StillReadable ==
  ASSUME Base, Built, file > 1, Running, at' = at + 1, UNCHANGED <<file, defaultRead>>,
         st.op \in {"insert", "copy", "refresh", "start", "commit"}
  PROVE  (file' = 2 /\ at' < 6) \/ defaultRead'
<1>1. file # 2
  <2>1. file = 2 => st.op = Add_Roles[at].op /\ at \in 1..5
    BY Ready, FilesAre, Lengths
  <2> QED  BY <2>1, RoleStmts
<1> QED  BY <1>1 DEF Built

\* One relation gets its rows.
LEMMA FillBuilt ==
  ASSUME Base, Built, file > 1, Running, at' = at + 1,
         UNCHANGED <<objs, readable, defaultRead, file, tx, copied>>,
         st.op \in {"insert", "copy", "refresh"}, st.on \notin copied,
         content' = Holds(st.on, "full")
  PROVE  Built'
<1>1. Loaded(file, at)' = Loaded(file, at) \cup {st.on} /\ Made(file, at)' = Made(file, at)
  BY Past
<1>2. st.on \in objs
  BY Ready
<1>3. ASSUME NEW r \in objs' \cap (Tables \cup MatViews)
      PROVE  content'[r] = IF r \in Loaded(file, at)' \ copied' THEN "full" ELSE Fresh(r)
  <2>1. r \in Relations
    BY DEF Relations
  <2>2. CASE r = st.on
    BY <1>1, <2>1, <2>2 DEF Holds, Base, CatalogOK
  <2>3. CASE r # st.on
    <3>1. content'[r] = content[r]
      BY <2>1, <2>3, HoldsAt DEF Base
    <3> QED  BY <1>1, <2>3, <3>1 DEF Built
  <2> QED  BY <2>2, <2>3
<1>4. (file' = 2 /\ at' < 6) \/ defaultRead'
  BY StillReadable
<1> QED  BY <1>1, <1>2, <1>3, <1>4 DEF Built

LEMMA InsertBuilt ==
  ASSUME Base, Built, file > 1, Insert
  PROVE  Built'
<1>1. /\ Running /\ st.op = "insert" /\ content' = Holds(st.on, "full")
      /\ at' = at + 1 /\ UNCHANGED <<objs, readable, file, tx, copied, defaultRead>>
  BY DEF Insert, Stmt, Autocommit, Advance
<1>2. st.on \notin Loaded(file, at)
  BY <1>1, Ready
<1> QED  BY <1>1, <1>2, FillBuilt DEF Built

LEMMA RefreshBuilt ==
  ASSUME Base, Built, file > 1, Refresh
  PROVE  Built'
<1>1. /\ Running /\ st.op = "refresh" /\ content' = Holds(st.on, content[Source[st.on]])
      /\ at' = at + 1 /\ UNCHANGED <<objs, readable, file, tx, copied, defaultRead>>
  BY DEF Refresh, Stmt, Autocommit, Advance
<1>2. copied = {}
  BY <1>1, QuietStatement DEF Base, Built
<1>3. st.on \in MatViews /\ Source[st.on] \in Loaded(file, at)
  BY <1>1, Ready, Shape
<1>4. Source[st.on] \in Tables \cup MatViews /\ Source[st.on] \in objs
  BY <1>3 DEF Source, MatViews, Tables, LookupTables, Built
<1>5. content[Source[st.on]] = "full"
  BY <1>2, <1>3, <1>4 DEF Built
<1> QED  BY <1>1, <1>2, <1>5, FillBuilt

LEMMA CopyBuilt ==
  ASSUME Base, Built, file > 1, Copy
  PROVE  Built'
<1>1. /\ Running /\ st.op = "copy" /\ tx # "failed" /\ at' = at + 1
      /\ UNCHANGED <<objs, readable, file, tx, defaultRead>>
  BY DEF Copy, Stmt, Advance
<1>2. /\ st.on \notin Loaded(file, at) /\ st.on \in objs
      /\ st.on \in LookupTables \cup {"geocodes"}
  BY <1>1, Ready, Shape
<1>3. CASE tx = "open"
  <2>1. copied' = copied \cup {st.on} /\ content' = content
    BY <1>3 DEF Copy
  <2>2. Loaded(file, at)' = Loaded(file, at) \cup {st.on} /\ Made(file, at)' = Made(file, at)
    BY <1>1, Past
  <2>3. Loaded(file, at)' \ copied' = Loaded(file, at) \ copied
    BY <1>2, <2>1, <2>2
  <2>4. (file' = 2 /\ at' < 6) \/ defaultRead'
    BY <1>1, StillReadable
  <2> QED  BY <1>1, <1>2, <2>1, <2>2, <2>3, <2>4 DEF Built
<1>4. CASE tx # "open"
  <2>1. st.on \in Tables
    BY <1>2 DEF Tables
  <2>2. content[st.on] = "empty"
    BY <1>2, <2>1 DEF Built, Fresh
  <2>3. content' = Holds(st.on, "full") /\ copied' = copied
    BY <1>4, <2>2 DEF Copy
  <2>4. st.on \notin copied
    BY <1>2 DEF Built
  <2> QED  BY <1>1, <2>3, <2>4, FillBuilt
<1> QED  BY <1>3, <1>4

LEMMA StartTransactionBuilt ==
  ASSUME Base, Built, file > 1, StartTransaction
  PROVE  Built'
<1>1. /\ Running /\ st.op = "start" /\ tx' = "open" /\ at' = at + 1
      /\ UNCHANGED <<objs, content, defaultRead, readable, file, copied>>
  BY DEF StartTransaction, Stmt, Advance, catalog
<1>2. Loaded(file, at)' = Loaded(file, at) /\ Made(file, at)' = Made(file, at)
  BY <1>1, Past
<1>3. (file' = 2 /\ at' < 6) \/ defaultRead'
  BY <1>1, StillReadable
<1> QED  BY <1>1, <1>2, <1>3 DEF Built

LEMMA CommitBuilt ==
  ASSUME Base, Built, file > 1, Commit
  PROVE  Built'
<1>1. /\ Running /\ st.op = "commit" /\ tx' = "none" /\ copied' = {} /\ at' = at + 1
      /\ content' = [r \in Relations |-> IF r \in copied THEN "full" ELSE content[r]]
      /\ UNCHANGED <<objs, defaultRead, readable, file>>
  BY DEF Commit, Stmt, Advance
<1>2. Loaded(file, at)' = Loaded(file, at) /\ Made(file, at)' = Made(file, at)
  BY <1>1, Past
<1>3. (file' = 2 /\ at' < 6) \/ defaultRead'
  BY <1>1, StillReadable
<1>4. ASSUME NEW r \in objs' \cap (Tables \cup MatViews)
      PROVE  content'[r] = IF r \in Loaded(file, at)' \ copied' THEN "full" ELSE Fresh(r)
  <2>1. r \in Relations
    BY DEF Relations
  <2>2. content'[r] = IF r \in copied THEN "full" ELSE content[r]
    BY <1>1, <2>1
  <2> QED  BY <1>1, <1>2, <2>2 DEF Built
<1> QED  BY <1>1, <1>2, <1>3, <1>4 DEF Built

\* From file to file.
LEMMA NextFileBuilt ==
  ASSUME Base, Built, file > 1, NextFile, status' = "running"
  PROVE  Built'
<1>1. /\ status = "running" /\ at > Len(Files[file]) /\ tx' = "none" /\ copied' = {}
      /\ file < 6 /\ file' = file + 1 /\ at' = 1
      /\ UNCHANGED <<objs, content, defaultRead, readable>>
  BY FilesAre DEF NextFile, EndSession, catalog
<1>2. file \in 1..6 /\ at \in Nat
  BY LengthOf, FilesAre DEF Base, ControlOK
<1>3. /\ Made(file, at)' = Made(file + 1, 1) /\ Loaded(file, at)' = Loaded(file + 1, 1)
  BY <1>1, Zenon
<1>4. Made(file, at)' = Made(file, at) /\ Loaded(file, at)' = Loaded(file, at)
  BY <1>1, <1>2, <1>3, FileAdds
<1>5. copied = {}
  BY <1>1 DEF Base, TxOK, Built
<1>6. defaultRead
  <2>1. file = 2 => at > 5
    BY <1>1, FilesAre, Lengths
  <2> QED  BY <1>2, <2>1 DEF Built
<1> QED  BY <1>1, <1>4, <1>5, <1>6 DEF Built

\* Nothing is left that would keep Drop_DB.sql from dropping what it drops without CASCADE.
LEMMA DropsGoThrough ==
  ASSUME Base, Dropping, clean, file = 1, Running
  PROVE  /\ st = Drop_DB[at] /\ at \in 1..29 /\ st.op \in {"drop", "dropCascade"}
         /\ st.op = "drop" => Droppable(st.on)
<1>1. st = Drop_DB[at] /\ at \in 1..29
  BY Statement, FilesAre, Lengths DEF Base
<1>2. st.op \in {"drop", "dropCascade"}
  BY <1>1, DropStmts
<1>3. ASSUME st.op = "drop" PROVE Droppable(st.on)
  <2>1. at \in {27, 28, 29}
    BY <1>1, <1>3, DropScript
  <2>2. \A i \in 1..26 : Drop_DB[i].on \notin objs
    BY <1>1, <2>1 DEF Dropping, Running
  <2>3. /\ "load_lots" \notin objs /\ "load_schools_daycares" \notin objs
        /\ "agents" \notin objs /\ "diseases" \notin objs /\ "trades" \notin objs
    <3>1. 14 \in 1..26 /\ 15 \in 1..26 /\ 16 \in 1..26 /\ 23 \in 1..26 /\ 25 \in 1..26
      OBVIOUS
    <3>2. /\ Drop_DB[14].on = "diseases" /\ Drop_DB[15].on = "agents"
          /\ Drop_DB[16].on = "trades" /\ Drop_DB[23].on = "load_lots"
          /\ Drop_DB[25].on = "load_schools_daycares"
      BY DropScript
    <3> QED  BY <2>2, <3>1, <3>2
  <2>4. st.on \in {"load_lots()", "load_schools_daycares()", "prevalence_range"}
    BY <1>1, <2>1, DropScript
  <2>5. ASSUME NEW o \in objs, st.on \in Needs(o) PROVE FALSE
    <3>1. \/ "load_lots" \in Needs(o) \/ "load_schools_daycares" \in Needs(o)
          \/ o \in {"agents", "diseases", "trades"}
      <4>1. ASSUME st.on = "load_lots()" PROVE "load_lots" \in Needs(o)
        BY <2>5, <4>1 DEF Needs, MatViews, Source, VaccineTables
      <4>2. ASSUME st.on = "load_schools_daycares()" PROVE "load_schools_daycares" \in Needs(o)
        BY <2>5, <4>2 DEF Needs, MatViews, Source, VaccineTables
      <4>3. ASSUME st.on = "prevalence_range" PROVE o \in {"agents", "diseases", "trades"}
        BY <2>5, <4>3 DEF Needs, MatViews, Source, VaccineTables
      <4> QED  BY <2>4, <4>1, <4>2, <4>3
    <3> QED  BY <2>3, <2>5, <3>1 DEF Base, Closed
  <2>6. Dependents({st.on}) = {st.on}
    BY <2>5 DEF Dependents
  <2> QED  BY <2>6 DEF Droppable
<1> QED  BY <1>1, <1>2, <1>3

LEMMA DropDropping ==
  ASSUME Base, Dropping, clean, file = 1, Drop
  PROVE  Dropping'
<1>1. /\ Running /\ Remove(Cascade(st.on)) /\ at' = at + 1
      /\ UNCHANGED <<file, status, clean>>
  BY DEF Drop, Stmt, Autocommit, Advance
<1>2. st = Drop_DB[at] /\ at \in 1..29
  BY <1>1, DropsGoThrough
<1>3. objs' \subseteq objs /\ st.on \notin objs'
  BY <1>1 DEF Remove, Cascade, Dependents
<1>4. \A i \in 1..at - 1 : Drop_DB[i].on \notin objs
  BY <1>1 DEF Dropping, Running
<1>5. \A i \in 1..at' - 1 : i \in 1..at - 1 \/ i = at
  BY <1>1, <1>2
<1> QED  BY <1>2, <1>3, <1>4, <1>5 DEF Dropping

\* After Drop_DB.sql, or in an empty database.
LEMMA StartBuilt ==
  ASSUME objs' \subseteq Leftover, readable' \subseteq objs', file' = 2, at' = 1,
         tx' = "none", copied' = {}
  PROVE  Built'
<1>1. Made(file, at)' = Made(2, 1) /\ Loaded(file, at)' = Loaded(2, 1)
  BY Zenon
<1>2. Leftover \cap (Relations \cup Tables \cup MatViews) = {}
  BY DEF Leftover, Relations, Tables, LookupTables, SubmitTables, MatViews, Views
<1> QED  BY <1>1, <1>2, NothingMadeFirst DEF Built

LEMMA AllDropped ==
  ASSUME Base, Dropping, clean, file = 1, NextFile
  PROVE  Built' /\ file' = 2 /\ status' = status
<1>1. /\ status = "running" /\ at > Len(Files[file]) /\ tx' = "none" /\ copied' = {}
      /\ file' = 2 /\ at' = 1 /\ status' = status
      /\ UNCHANGED <<objs, content, defaultRead, readable>>
  BY FilesAre DEF NextFile, EndSession, catalog
<1>2. at = 30
  BY <1>1, FilesAre, Lengths DEF Base, ControlOK
<1>3. \A i \in 1..29 : Drop_DB[i].on \notin objs
  <2>1. \A i \in 1..at - 1 : Drop_DB[i].on \notin objs
    BY <1>1 DEF Dropping
  <2> QED  BY <1>2, <2>1
<1>4. objs \cap Dropped = {}
  BY <1>3 DEF Dropped
<1>5. ASSUME NEW o \in objs PROVE o \in Leftover
  <2>1. o \in Installed \cup Tables /\ o \notin Dropped
    BY <1>4 DEF Base, CatalogOK
  <2>2. Needs(o) \cap Dropped = {}
    BY <1>4 DEF Base, Closed
  <2> QED  BY <2>1, <2>2, RemainsIsLeftover
<1>6. readable' \subseteq objs'
  BY <1>1 DEF Base, CatalogOK
<1> QED  BY <1>1, <1>5, <1>6, StartBuilt

\* The end of the last file.
LEMMA RunCompletes ==
  ASSUME Base, Built, file = 6, NextFile
  PROVE  Complete' /\ status' = "completed"
<1>1. /\ status = "running" /\ at > Len(Files[file]) /\ status' = "completed"
      /\ UNCHANGED <<objs, content, defaultRead, readable>>
  BY FilesAre DEF NextFile, EndSession, catalog
<1>2. at = 13
  BY <1>1, FilesAre, Lengths DEF Base, ControlOK
<1>3. Made(file, at) = Installed /\ Loaded(file, at) = Filled
  BY <1>2, AllAtEnd
<1>4. copied = {}
  BY <1>2 DEF Base, TxOK, Built
<1>5. Leftover \subseteq Installed
  <2>1. \A g \in 1..6 : \A j \in 1..Len(Files[g]) :
          Files[g][j].op = "make" => Files[g][j].on \in Installed
    BY MakesAre
  <2>2. /\ 2 \in 1..6 /\ 4 \in 1..6
        /\ \A j \in 1..3 : j \in 1..Len(Files[2]) /\ Files[2][j] = Add_Roles[j]
        /\ 7 \in 1..Len(Files[4]) /\ Files[4][7] = Create_Submit_DB[7]
        /\ Create_Submit_DB[7].op = "make"
    BY FilesAre, Lengths, SubmitNames, SubmitStmts
  <2> QED  BY <2>1, <2>2, RoleNames, SubmitNames DEF Leftover
<1>6. objs = Installed
  BY <1>3, <1>5 DEF Built
<1>7. \A r \in objs \cap Tables : content[r] = IF r \in Filled THEN "full" ELSE "empty"
  BY <1>3, <1>4 DEF Built, Fresh
<1>8. \A r \in MatViews : content[r] = "full"
  BY <1>3, <1>4 DEF Built, Filled
<1>9. Complete
  BY <1>6, <1>7, <1>8 DEF Complete, Built
<1> QED  BY <1>1, <1>9 DEF Complete

CleanInv == Dropping /\ Building /\ CleanRunCompletes

\* A statement of a run that stays undisturbed.
LEMMA StatementClean ==
  ASSUME Base, CleanInv,
         \/ Drop \/ Make \/ GrantSelect \/ AlterDefault \/ Insert \/ Copy \/ Refresh
         \/ StartTransaction \/ Commit \/ Error \/ ErrorInFailed
  PROVE  CleanInv'
<1>1. Running /\ UNCHANGED <<file, status, clean>>
  BY DEF Drop, Make, GrantSelect, AlterDefault, Insert, Copy, Refresh, StartTransaction,
         Commit, Error, ErrorInFailed, Stmt, Autocommit, Advance, SkipStmt
<1>2. status = "running" /\ status' = "running"
  BY <1>1 DEF Running
<1>3. CleanRunCompletes'
  BY <1>2 DEF CleanRunCompletes
<1>4. CASE ~clean
  BY <1>1, <1>3, <1>4 DEF CleanInv, Dropping, Building
<1>5. CASE clean /\ file = 1
  <2>1. Dropping /\ file' = 1
    BY <1>1, <1>5 DEF CleanInv
  <2>2. st.op \in {"drop", "dropCascade"} /\ (st.op = "drop" => Droppable(st.on))
    BY <1>1, <1>5, <2>1, DropsGoThrough
  <2>3. tx # "failed"
    BY <1>5 DEF Base, TxOK
  <2>4. Drop
    BY <2>2, <2>3 DEF Make, GrantSelect, AlterDefault, Insert, Copy, Refresh,
         StartTransaction, Commit, Error, ErrorInFailed, Stmt, Impossible
  <2>5. Dropping'
    BY <1>5, <2>1, <2>4, DropDropping
  <2> QED  BY <1>3, <2>1, <2>5 DEF CleanInv, Building
<1>6. CASE clean /\ file > 1
  <2>1. Built
    BY <1>2, <1>6 DEF CleanInv, Building
  <2>2. ~ErrorInFailed
    BY <2>1 DEF Built, ErrorInFailed
  <2>3. Built'
    BY <1>6, <2>1, <2>2, DropBuilt, MakeBuilt, GrantBuilt, AlterDefaultBuilt, InsertBuilt,
       CopyBuilt, RefreshBuilt, StartTransactionBuilt, CommitBuilt, ErrorBuilt
  <2>4. file' # 1
    BY <1>1, <1>6
  <2> QED  BY <1>3, <2>3, <2>4 DEF CleanInv, Dropping, Building
<1>7. file = 1 \/ file > 1
  BY DEF Base, ControlOK
<1> QED  BY <1>4, <1>5, <1>6, <1>7

LEMMA NextFileClean ==
  ASSUME Base, CleanInv, NextFile
  PROVE  CleanInv'
<1>1. status = "running" /\ clean' = clean
  BY DEF NextFile
<1>2. CASE ~clean
  BY <1>1, <1>2 DEF CleanInv, Dropping, Building, CleanRunCompletes
<1>3. CASE clean /\ file = 1
  BY <1>1, <1>3, AllDropped DEF CleanInv, Dropping, Building, CleanRunCompletes
<1>4. CASE clean /\ file > 1
  <2>1. Built
    BY <1>1, <1>4 DEF CleanInv, Building
  <2>2. CASE file = 6
    BY <2>1, <2>2, RunCompletes DEF CleanInv, Dropping, Building, CleanRunCompletes
  <2>3. CASE file # 6
    <3>1. file' = file + 1 /\ status' = status
      BY <1>1, <2>3, FilesAre DEF NextFile, EndSession, Base, ControlOK
    <3>2. Built'
      BY <1>1, <1>4, <2>1, <3>1, NextFileBuilt
    <3>3. file' # 1
      BY <1>4, <3>1 DEF Base, ControlOK
    <3> QED  BY <1>1, <3>1, <3>2, <3>3 DEF CleanInv, Dropping, Building, CleanRunCompletes
  <2> QED  BY <2>2, <2>3
<1>5. file = 1 \/ file > 1
  BY DEF Base, ControlOK
<1> QED  BY <1>2, <1>3, <1>4, <1>5

\* Whatever the catalog is like, if the run begins with Drop_DB.sql; else it must be empty.
LEMMA StartClean ==
  ASSUME Base, NEW first \in Starts, Start(first)
  PROVE  CleanInv'
<1>1. /\ status # "running" /\ status' = "running" /\ file' = first /\ at' = 1
      /\ clean' = (first = 1 \/ objs = {})
      /\ UNCHANGED <<objs, content, defaultRead, readable, tx, copied>>
  BY DEF Start, catalog
<1>2. tx = "none" /\ copied = {} /\ readable \subseteq objs
  BY <1>1 DEF Base, ControlOK, TxOK, CatalogOK
<1>3. first = 1 \/ first = 2
  BY SetupAssumption
<1>4. CASE first = 1
  BY <1>1, <1>4 DEF CleanInv, Dropping, Building, CleanRunCompletes
<1>5. CASE first = 2 /\ objs = {}
  <2>1. Built'
    BY <1>1, <1>2, <1>5, StartBuilt
  <2> QED  BY <1>1, <1>5, <2>1 DEF CleanInv, Dropping, Building, CleanRunCompletes
<1>6. CASE first = 2 /\ objs # {}
  <2>1. clean' = (first = 1 \/ objs = {})
    BY <1>1
  <2>2. ~(first = 1 \/ objs = {})
    BY <1>6
  <2>3. ~clean'
    BY <2>1, <2>2
  <2> QED  BY <2>3 DEF CleanInv, Dropping, Building, CleanRunCompletes
<1> QED  BY <1>3, <1>4, <1>5, <1>6

LEMMA NextClean ==
  ASSUME Base, CleanInv, [Next]_vars
  PROVE  CleanInv'
<1>1. CASE UNCHANGED vars
  <2>1. UNCHANGED <<objs, content, defaultRead, readable, file, at, status, tx, copied, clean>>
    BY <1>1 DEF vars, catalog
  <2>2. Dropping' /\ CleanRunCompletes'
    BY <2>1 DEF CleanInv, Dropping, CleanRunCompletes, Complete
  <2>3. Built => Built'
    BY <2>1 DEF Built
  <2> QED  BY <2>1, <2>2, <2>3 DEF CleanInv, Building
<1>2. ASSUME ~clean' PROVE CleanInv'
  BY <1>2 DEF CleanInv, Dropping, Building, CleanRunCompletes
<1>3. CASE StatementFails \/ ConnectionLost \/ Killed \/ (\E t \in SubmitTables : Submit(t))
  BY <1>2, <1>3 DEF StatementFails, ConnectionLost, Killed, Submit, Fault, Use
<1>4. ASSUME NEW table, NEW loader, NEW bak, NEW idx, Load(table, loader, bak, idx)
      PROVE  CleanInv'
  BY <1>2, <1>4 DEF Load, Use
<1> QED  BY <1>1, <1>3, <1>4, StatementClean, NextFileClean, StartClean DEF Next

\* A run that starts from Drop_DB.sql, whatever is there, or from an empty database, and
\* meets no failure but those of its own statements, builds the whole database.
THEOREM CleanRunBuildsAll == Spec => []CleanRunCompletes
<1>1. Init => CleanInv
  BY DEF Init, CleanInv, Dropping, Building, CleanRunCompletes
<1>2. Base /\ CleanInv /\ [Next]_vars => CleanInv'
  BY NextClean
<1>3. CleanInv => CleanRunCompletes
  BY DEF CleanInv
<1> QED  BY <1>1, <1>2, <1>3, BaseInvariant, PTL DEF Spec
=============================================================================
