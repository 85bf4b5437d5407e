----------------------------- MODULE FileUpload -----------------------------
(***************************************************************************)
(* Uploads into "Submission_Attachment" of 3_Create_Submit_DB.sql: the     *)
(* BEFORE INSERT row trigger file_upload_check() counts the rows that have *)
(* the new row's "Transaction_Id" and raises when there are already two;   *)
(* the row is stored afterwards, under the primary key on "Id".  Sessions  *)
(* insert concurrently, one or more rows per READ COMMITTED transaction.   *)
(* Nothing makes one session's count wait for another session's insert.    *)
(***************************************************************************)
EXTENDS Naturals, FiniteSets

CONSTANTS
  Sessions,   \* database sessions of the clients that store attachments
  Ids,        \* values of "Id"; chosen by the client, the column has no default
  Tids,       \* values of "Transaction_Id"
  NoRow       \* no insert under way

Rows == [Id : Ids, Transaction_Id : Tids, by : Sessions]   \* by: the inserter, ghost

ASSUME FileUploadAssumption == NoRow \notin Rows

VARIABLES
  attachments,  \* committed rows of "Submission_Attachment"
  pending,      \* per session, the uncommitted rows of its transaction
  new,          \* per session, the row that passed the trigger and is not stored yet
  overlapped    \* history: transaction ids with uploads of two sessions in flight at once

vars == <<attachments, pending, new, overlapped>>

Limit == 2

InFlight(s) == pending[s] \cup ({new[s]} \ {NoRow})
Of(rows, t) == {r \in rows : r.Transaction_Id = t}

\* What a statement of s sees: committed rows and those of its own transaction.
Visible(s) == attachments \cup pending[s]

counter__committed(s, r) ==  \* mutant: a count kept beside the table, updated at commit
  Cardinality(Of(attachments, r.Transaction_Id))

\* SELECT count(*) ... WHERE "Transaction_Id" = NEW."Transaction_Id"
counter_(s, r) == Cardinality(Of(Visible(s), r.Transaction_Id))

SameId(rows, r) == {x \in rows : x.Id = r.Id}

\* The transaction of s ends without a trace.
Abort(s) ==
  /\ pending' = [pending EXCEPT ![s] = {}]
  /\ new' = [new EXCEPT ![s] = NoRow]
  /\ UNCHANGED <<attachments, overlapped>>

Overlaps(s, r) == \E o \in Sessions \ {s} : Of(InFlight(o), r.Transaction_Id) # {}
-----------------------------------------------------------------------------
Insert_one_more(s, r) ==  \* mutant: IF counter_ > 2
  /\ new[s] = NoRow /\ r.by = s
  /\ counter_(s, r) <= Limit
  /\ new' = [new EXCEPT ![s] = r]
  /\ overlapped' = IF Overlaps(s, r) THEN overlapped \cup {r.Transaction_Id}
                                     ELSE overlapped
  /\ UNCHANGED <<attachments, pending>>

\* The trigger lets the new row through.
Insert(s, r) ==
  /\ new[s] = NoRow /\ r.by = s
  /\ counter_(s, r) < Limit
  /\ new' = [new EXCEPT ![s] = r]
  /\ overlapped' = IF Overlaps(s, r) THEN overlapped \cup {r.Transaction_Id}
                                     ELSE overlapped
  /\ UNCHANGED <<attachments, pending>>

\* RAISE EXCEPTION 'CONFLICT: ...': the transaction is aborted, earlier rows included.
Refuse(s, r) ==
  /\ new[s] = NoRow /\ r.by = s
  /\ counter_(s, r) >= Limit
  /\ Abort(s)

Store_no_key(s) ==  \* mutant: the table is created without its primary key
  /\ new[s] # NoRow
  /\ pending' = [pending EXCEPT ![s] = @ \cup {new[s]}]
  /\ new' = [new EXCEPT ![s] = NoRow]
  /\ UNCHANGED <<attachments, overlapped>>

\* The row enters the table and the primary key's index.  An uncommitted row of
\* another session with the same "Id" is waited for until that session ends.
Store(s) ==
  /\ new[s] # NoRow
  /\ SameId(Visible(s), new[s]) = {}
  /\ \A o \in Sessions \ {s} : SameId(pending[o], new[s]) = {}
  /\ pending' = [pending EXCEPT ![s] = @ \cup {new[s]}]
  /\ new' = [new EXCEPT ![s] = NoRow]
  /\ UNCHANGED <<attachments, overlapped>>

\* Violation of "Submission_Attachment_pkey".
Duplicate(s) ==
  /\ new[s] # NoRow
  /\ SameId(Visible(s), new[s]) # {}
  /\ Abort(s)

Commit(s) ==
  /\ new[s] = NoRow /\ pending[s] # {}
  /\ attachments' = attachments \cup pending[s]
  /\ pending' = [pending EXCEPT ![s] = {}]
  /\ UNCHANGED <<new, overlapped>>

\* The client rolls back or goes away, or the server picks the transaction as the
\* victim of a deadlock of two inserts that wait for each other's "Id".
Disconnect(s) == InFlight(s) # {} /\ Abort(s)
-----------------------------------------------------------------------------
Init ==
  /\ attachments = {} /\ overlapped = {}
  /\ pending = [s \in Sessions |-> {}]
  /\ new = [s \in Sessions |-> NoRow]

Next == \E s \in Sessions :
          \/ \E r \in Rows : Insert(s, r) \/ Refuse(s, r)
          \/ Store(s) \/ Duplicate(s) \/ Commit(s) \/ Disconnect(s)

Spec == Init /\ [][Next]_vars
-----------------------------------------------------------------------------
\* The table is a relation with the key "Id", the rows included that are not committed.
KeyedById ==
  \A r, x \in attachments \cup UNION {pending[s] : s \in Sessions} :
    r.Id = x.Id => r = x

\* The types; the table keeps its key, whichever sessions insert at once.
TypeOK ==
  /\ attachments \subseteq Rows /\ KeyedById
  /\ pending \in [Sessions -> SUBSET Rows]
  /\ new \in [Sessions -> Rows \cup {NoRow}]
  /\ overlapped \subseteq Tids

AllInFlight == UNION {InFlight(s) : s \in Sessions}

\* "There cannot be more than two files associated with a transaction id".  Fails:
\* two sessions that count before either commits both pass the trigger.
AtMostTwoFiles == \A t \in Tids : Cardinality(Of(attachments, t)) <= Limit

\* The trigger does keep the limit, stored and in-flight rows together, for every
\* transaction id whose uploads never were in flight in two sessions at once.
SerialLimit ==
  \A t \in Tids \ overlapped : Cardinality(Of(attachments \cup AllInFlight, t)) <= Limit

\* However uploads overlap, one session never gets more than two files into a
\* transaction id: the most there can be is two for each session.
SessionLimit ==
  \A s \in Sessions, t \in Tids :
    Cardinality({r \in Of(attachments \cup InFlight(s), t) : r.by = s}) <= Limit
-----------------------------------------------------------------------------
(* The inductive invariant behind SerialLimit and SessionLimit.            *)

FiniteRows == IsFiniteSet(attachments) /\ \A s \in Sessions : IsFiniteSet(pending[s])

Owned == \A s \in Sessions : \A r \in InFlight(s) : r.by = s

\* A transaction id that never had overlapping uploads is in flight in one session.
Sole ==
  \A t \in Tids \ overlapped : \A s, o \in Sessions :
    Of(InFlight(s), t) # {} /\ Of(InFlight(o), t) # {} => s = o

IInv == /\ TypeOK /\ FiniteRows /\ Owned /\ Sole
        /\ SerialLimit /\ SessionLimit
=============================================================================
