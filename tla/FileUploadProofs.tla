-------------------------- MODULE FileUploadProofs --------------------------
(* Theorems about module FileUpload, for every set of sessions and rows. *)
EXTENDS FileUpload, FiniteSetTheorems, TLAPS

Types ==
  /\ attachments \subseteq Rows
  /\ pending \in [Sessions -> SUBSET Rows]
  /\ new \in [Sessions -> Rows \cup {NoRow}]
  /\ overlapped \subseteq Tids

\* A set of at most two rows keeps the limit when it loses rows ...
LEMMA Fewer ==
  ASSUME NEW S, IsFiniteSet(S), Cardinality(S) <= Limit, NEW T \in SUBSET S
  PROVE  Cardinality(T) <= Limit
<1>1. IsFiniteSet(T) /\ Cardinality(T) <= Cardinality(S)
  BY FS_Subset
<1>2. Cardinality(S) \in Nat /\ Cardinality(T) \in Nat
  BY <1>1, FS_CardinalityType
<1> QED  BY <1>1, <1>2 DEF Limit

\* ... and one of fewer than two keeps it when it gains one.
LEMMA OneMore ==
  ASSUME NEW S, IsFiniteSet(S), Cardinality(S) < Limit, NEW x,
         NEW T \in SUBSET (S \cup {x})
  PROVE  Cardinality(T) <= Limit
<1>1. IsFiniteSet(S \cup {x})
  BY FS_AddElement
<1>2. Cardinality(S) \in Nat /\ Cardinality(S \cup {x}) \in Nat
  BY <1>1, FS_CardinalityType
<1>3. \/ Cardinality(S \cup {x}) = Cardinality(S)
      \/ Cardinality(S \cup {x}) = Cardinality(S) + 1
  BY FS_AddElement
<1>4. Cardinality(S \cup {x}) <= Limit
  BY <1>2, <1>3 DEF Limit
<1> QED  BY <1>1, <1>4, Fewer

LEMMA InFlightFinite ==
  ASSUME FiniteRows, NEW s \in Sessions
  PROVE  IsFiniteSet(attachments \cup InFlight(s)) /\ IsFiniteSet(Visible(s))
<1>1. IsFiniteSet(attachments \cup pending[s])
  BY FS_Union DEF FiniteRows
<1>2. IsFiniteSet((attachments \cup pending[s]) \cup {new[s]})
  BY <1>1, FS_AddElement
<1>3. attachments \cup InFlight(s) \in SUBSET ((attachments \cup pending[s]) \cup {new[s]})
  BY DEF InFlight
<1> QED  BY <1>1, <1>2, <1>3, FS_Subset DEF Visible

\* The rows that SerialLimit and SessionLimit count are finitely many.
LEMMA SerialFinite ==
  ASSUME IInv, NEW t \in Tids \ overlapped
  PROVE  IsFiniteSet(Of(attachments \cup AllInFlight, t))
<1>1. CASE \E s \in Sessions : Of(InFlight(s), t) # {}
  <2>1. PICK s \in Sessions : Of(InFlight(s), t) # {}
    BY <1>1
  <2>2. \A o \in Sessions : o # s => Of(InFlight(o), t) = {}
    BY <2>1 DEF IInv, Sole
  <2>3. Of(attachments \cup AllInFlight, t) \in SUBSET (attachments \cup InFlight(s))
    BY <2>2 DEF Of, AllInFlight
  <2> QED  BY <2>3, InFlightFinite, FS_Subset DEF IInv
<1>2. CASE \A s \in Sessions : Of(InFlight(s), t) = {}
  <2>1. Of(attachments \cup AllInFlight, t) \in SUBSET attachments
    BY <1>2 DEF Of, AllInFlight
  <2> QED  BY <2>1, FS_Subset DEF IInv, FiniteRows
<1> QED  BY <1>1, <1>2

Mine(s, t) == {r \in Of(attachments \cup InFlight(s), t) : r.by = s}

LEMMA MineFinite ==
  ASSUME IInv, NEW s \in Sessions, NEW t
  PROVE  IsFiniteSet(Mine(s, t))
<1>1. Mine(s, t) \in SUBSET (attachments \cup InFlight(s))
  BY DEF Mine, Of
<1> QED  BY <1>1, InFlightFinite, FS_Subset DEF IInv

(***************************************************************************)
(* Every action but Insert takes rows nowhere they were not before: each   *)
(* session's in-flight rows shrink, and rows that become committed were in *)
(* flight in the session that committed.  That keeps everything but types, *)
(* finiteness and the key.                                                 *)
(***************************************************************************)
NoNewRow ==
  /\ \A s \in Sessions : InFlight(s)' \subseteq InFlight(s)
  /\ \E s \in Sessions : attachments' \subseteq attachments \cup InFlight(s)
  /\ overlapped' = overlapped

LEMMA NoNewRowInv ==
  ASSUME IInv, NoNewRow
  PROVE  Owned' /\ Sole' /\ SerialLimit' /\ SessionLimit'
<1>1. Owned'
  BY DEF IInv, Owned, NoNewRow
<1>2. Sole'
  BY DEF IInv, Sole, NoNewRow, Of
<1>3. ASSUME NEW t \in Tids \ overlapped'
      PROVE  Cardinality(Of(attachments \cup AllInFlight, t)') <= Limit
  <2>1. Of(attachments \cup AllInFlight, t)' \in SUBSET Of(attachments \cup AllInFlight, t)
    BY DEF NoNewRow, Of, AllInFlight
  <2>2. t \in Tids \ overlapped
    BY <1>3 DEF NoNewRow
  <2>3. Cardinality(Of(attachments \cup AllInFlight, t)) <= Limit
    BY <2>2 DEF IInv, SerialLimit
  <2>4. IsFiniteSet(Of(attachments \cup AllInFlight, t))
    BY <2>2, SerialFinite
  <2> QED  BY <2>1, <2>3, <2>4, Fewer
<1>4. ASSUME NEW s \in Sessions, NEW t \in Tids
      PROVE  Cardinality(Mine(s, t)') <= Limit
  <2>1. Mine(s, t)' \in SUBSET Mine(s, t)
    BY DEF NoNewRow, Mine, Of, IInv, Owned
  <2>2. Cardinality(Mine(s, t)) <= Limit
    BY DEF IInv, SessionLimit, Mine
  <2> QED  BY <2>1, <2>2, MineFinite, Fewer
<1> QED  BY <1>1, <1>2, <1>3, <1>4 DEF SerialLimit, SessionLimit, Mine

LEMMA AbortInv ==
  ASSUME IInv, NEW s \in Sessions, Abort(s)
  PROVE  IInv'
<1>1. /\ pending'[s] = {} /\ new'[s] = NoRow
      /\ \A o \in Sessions : o # s => pending'[o] = pending[o] /\ new'[o] = new[o]
      /\ attachments' = attachments /\ overlapped' = overlapped
  BY DEF IInv, TypeOK, Types, Abort
<1>2. Types'
  BY DEF IInv, TypeOK, Types, Abort
<1>3. FiniteRows'
  BY <1>1, FS_EmptySet DEF IInv, FiniteRows
<1>4. NoNewRow
  BY <1>1 DEF NoNewRow, InFlight
<1>5. KeyedById'
  BY <1>1 DEF IInv, TypeOK, KeyedById
<1> QED  BY <1>2, <1>3, <1>4, <1>5, NoNewRowInv DEF IInv, TypeOK, Types

LEMMA CommitInv ==
  ASSUME IInv, NEW s \in Sessions, Commit(s)
  PROVE  IInv'
<1>1. /\ pending'[s] = {} /\ new' = new
      /\ \A o \in Sessions : o # s => pending'[o] = pending[o]
      /\ attachments' = attachments \cup pending[s] /\ overlapped' = overlapped
  BY DEF IInv, TypeOK, Types, Commit
<1>2. Types'
  BY DEF IInv, TypeOK, Types, Commit
<1>3. FiniteRows'
  BY <1>1, FS_EmptySet, FS_Union DEF IInv, FiniteRows
<1>4. NoNewRow
  BY <1>1 DEF NoNewRow, InFlight
<1>5. KeyedById'
  <2>1. (attachments \cup UNION {pending[o] : o \in Sessions})'
          \subseteq attachments \cup UNION {pending[o] : o \in Sessions}
    BY <1>1
  <2> QED  BY <2>1 DEF IInv, TypeOK, KeyedById
<1> QED  BY <1>2, <1>3, <1>4, <1>5, NoNewRowInv DEF IInv, TypeOK, Types

LEMMA StoreInv ==
  ASSUME IInv, NEW s \in Sessions, Store(s)
  PROVE  IInv'
<1>1. /\ pending'[s] = pending[s] \cup {new[s]} /\ new'[s] = NoRow
      /\ \A o \in Sessions : o # s => pending'[o] = pending[o] /\ new'[o] = new[o]
      /\ attachments' = attachments /\ overlapped' = overlapped
      /\ new[s] \in Rows
  BY DEF IInv, TypeOK, Types, Store
<1>2. Types'
  BY <1>1 DEF IInv, TypeOK, Types, Store
<1>3. FiniteRows'
  <2>1. IsFiniteSet(pending[s] \cup {new[s]})
    BY FS_AddElement DEF IInv, FiniteRows
  <2> QED  BY <1>1, <2>1 DEF IInv, FiniteRows
<1>4. NoNewRow
  BY <1>1 DEF NoNewRow, InFlight, Store
<1>5. KeyedById'
  <2> DEFINE stored == attachments \cup UNION {pending[o] : o \in Sessions}
  <2>1. \A x \in stored : x.Id # new[s].Id
    BY DEF Store, SameId, Visible
  <2>2. stored' \subseteq stored \cup {new[s]}
    BY <1>1
  <2>3. \A r, x \in stored \cup {new[s]} : r.Id = x.Id => r = x
    BY <2>1 DEF IInv, TypeOK, KeyedById
  <2> QED  BY <2>2, <2>3 DEF KeyedById
<1> QED  BY <1>2, <1>3, <1>4, <1>5, NoNewRowInv DEF IInv, TypeOK, Types

\* The only step that adds a row.  If its transaction id is in flight nowhere else,
\* what the trigger has counted is every row of it.
LEMMA InsertInv ==
  ASSUME IInv, NEW s \in Sessions, NEW r \in Rows, Insert(s, r)
  PROVE  IInv'
<1>1. /\ new'[s] = r /\ \A o \in Sessions : o # s => new'[o] = new[o]
      /\ pending' = pending /\ attachments' = attachments
      /\ overlapped \subseteq overlapped'
      /\ r.Transaction_Id \in Tids /\ r.by = s /\ r # NoRow /\ new[s] = NoRow
  BY FileUploadAssumption DEF IInv, TypeOK, Types, Insert, Rows
<1>2. /\ InFlight(s) = pending[s]
      /\ InFlight(s)' = pending[s] \cup {r}
      /\ \A o \in Sessions : o # s => InFlight(o)' = InFlight(o)
  BY <1>1 DEF InFlight, IInv, TypeOK, Types, Rows
<1>3. Types'
  BY <1>1 DEF IInv, TypeOK, Types, Insert
<1>4. FiniteRows' /\ KeyedById'
  BY <1>1 DEF IInv, TypeOK, FiniteRows, KeyedById
<1>5. Owned'
  BY <1>1, <1>2 DEF IInv, Owned
<1>6. ASSUME r.Transaction_Id \notin overlapped', NEW o \in Sessions, o # s
      PROVE  Of(InFlight(o), r.Transaction_Id) = {}
  <2>1. ~Overlaps(s, r)
    BY <1>6 DEF Insert
  <2> QED  BY <1>6, <2>1 DEF Overlaps
<1>7. Sole'
  <2> SUFFICES ASSUME NEW t \in Tids \ overlapped',
                      NEW o \in Sessions, NEW q \in Sessions, o # q
               PROVE  Of(InFlight(o), t)' = {} \/ Of(InFlight(q), t)' = {}
    BY DEF Sole
  <2>1. t \in Tids \ overlapped
    BY <1>1
  <2>2. CASE t = r.Transaction_Id
    BY <1>2, <1>6, <2>2 DEF Of
  <2>3. CASE t # r.Transaction_Id
    <3>1. \A p \in Sessions : Of(InFlight(p), t)' = Of(InFlight(p), t)
      BY <1>2, <2>3 DEF Of
    <3> QED  BY <2>1, <3>1 DEF IInv, Sole
  <2> QED  BY <2>2, <2>3
<1>8. /\ IsFiniteSet(Of(Visible(s), r.Transaction_Id))
      /\ Cardinality(Of(Visible(s), r.Transaction_Id)) < Limit
  <2>1. Of(Visible(s), r.Transaction_Id) \in SUBSET Visible(s)
    BY DEF Of
  <2> QED  BY <2>1, InFlightFinite, FS_Subset DEF IInv, Insert, counter_
<1>9. ASSUME NEW t \in Tids \ overlapped'
      PROVE  Cardinality(Of(attachments \cup AllInFlight, t)') <= Limit
  <2>1. t \in Tids \ overlapped
    BY <1>1
  <2>2. CASE t = r.Transaction_Id
    <3>1. Of(attachments \cup AllInFlight, t)' \in SUBSET (Of(Visible(s), t) \cup {r})
      BY <1>1, <1>2, <1>6, <2>2 DEF Of, AllInFlight, Visible
    <3> QED  BY <1>8, <2>2, <3>1, OneMore
  <2>3. CASE t # r.Transaction_Id
    <3>1. Of(attachments \cup AllInFlight, t)' = Of(attachments \cup AllInFlight, t)
      BY <1>1, <1>2, <2>3 DEF Of, AllInFlight
    <3> QED  BY <2>1, <3>1 DEF IInv, SerialLimit
  <2> QED  BY <2>2, <2>3
<1>10. ASSUME NEW o \in Sessions, NEW t \in Tids
       PROVE  Cardinality(Mine(o, t)') <= Limit
  <2>1. CASE o = s /\ t = r.Transaction_Id
    <3>1. Mine(o, t)' \in SUBSET (Of(Visible(s), t) \cup {r})
      BY <1>1, <1>2, <2>1 DEF Mine, Of, Visible
    <3> QED  BY <1>8, <2>1, <3>1, OneMore
  <2>2. CASE ~(o = s /\ t = r.Transaction_Id)
    <3>1. Mine(o, t)' = Mine(o, t)
      BY <1>1, <1>2, <2>2 DEF Mine, Of
    <3> QED  BY <3>1 DEF IInv, SessionLimit, Mine
  <2> QED  BY <2>1, <2>2
<1> QED  BY <1>3, <1>4, <1>5, <1>7, <1>9, <1>10
         DEF IInv, TypeOK, Types, SerialLimit, SessionLimit, Mine

LEMMA InitInv == Init => IInv
<1> SUFFICES ASSUME Init PROVE IInv
  OBVIOUS
<1>1. Types /\ FiniteRows
  BY FS_EmptySet DEF Init, Types, FiniteRows
<1>2. \A s \in Sessions : InFlight(s) = {}
  BY DEF Init, InFlight
<1>3. Owned /\ Sole /\ KeyedById
  BY <1>2 DEF Init, Owned, Sole, Of, KeyedById
<1>4. \A t : Of(attachments \cup AllInFlight, t) = {}
  BY <1>2 DEF Init, Of, AllInFlight
<1>5. \A s \in Sessions, t \in Tids : Mine(s, t) = {}
  BY <1>2 DEF Init, Of, Mine
<1>6. SerialLimit /\ SessionLimit
  BY <1>4, <1>5, FS_EmptySet DEF SerialLimit, SessionLimit, Mine, Limit
<1> QED  BY <1>1, <1>3, <1>6 DEF IInv, TypeOK, Types

LEMMA NextInv == IInv /\ [Next]_vars => IInv'
<1> SUFFICES ASSUME IInv, [Next]_vars PROVE IInv'
  OBVIOUS
<1>1. ASSUME NEW s \in Sessions, NEW r \in Rows, Insert(s, r) PROVE IInv'
  BY <1>1, InsertInv
<1>2. ASSUME NEW s \in Sessions, NEW r \in Rows, Refuse(s, r) PROVE IInv'
  BY <1>2, AbortInv DEF Refuse
<1>3. ASSUME NEW s \in Sessions, Store(s) PROVE IInv'
  BY <1>3, StoreInv
<1>4. ASSUME NEW s \in Sessions, Duplicate(s) \/ Disconnect(s) PROVE IInv'
  BY <1>4, AbortInv DEF Duplicate, Disconnect
<1>5. ASSUME NEW s \in Sessions, Commit(s) PROVE IInv'
  BY <1>5, CommitInv
<1>6. CASE UNCHANGED vars
  BY <1>6 DEF vars, IInv, TypeOK, FiniteRows, Owned, Sole, SerialLimit, SessionLimit,
              KeyedById, InFlight, AllInFlight
<1> QED  BY <1>1, <1>2, <1>3, <1>4, <1>5, <1>6 DEF Next

\* The inductive invariant, from which the properties below follow.
THEOREM Invariance == Spec => []IInv
<1>1. Init => IInv  BY InitInv
<1>2. IInv /\ [Next]_vars => IInv'  BY NextInv
<1> QED  BY <1>1, <1>2, PTL DEF Spec

\* Stored and uncommitted rows, and what a session has counted, are of their types, and
\* the table keeps its key.
THEOREM TypeCorrect == Spec => []TypeOK
<1>1. IInv => TypeOK  BY DEF IInv
<1> QED  BY <1>1, Invariance, PTL

\* The trigger keeps the two-file limit for every transaction id whose uploads never
\* overlapped, whatever overlaps elsewhere and however many sessions there are.
THEOREM LimitWithoutOverlap == Spec => []SerialLimit
<1>1. IInv => SerialLimit  BY DEF IInv
<1> QED  BY <1>1, Invariance, PTL

\* One session never gets more than two files into a transaction id, overlap or not.
THEOREM LimitPerSession == Spec => []SessionLimit
<1>1. IInv => SessionLimit  BY DEF IInv
<1> QED  BY <1>1, Invariance, PTL
=============================================================================
