---------------------------- MODULE ScriptsProofs ----------------------------
(* Theorems about module MCScripts, which puts the scripts side by side, and *)
(* so about UserProvided (U), EnvCollector (E), RemoveContainer (R),         *)
(* Properties (P) and Geocode (G), for every value of their constants;       *)
(* those about Provision are in ProvisionProofs.                             *)
EXTENDS MCScripts, ProvisionProofs, FiniteSetTheorems

-----------------------------------------------------------------------------
(* Each script takes its own steps, or stands still.                       *)

LEMMA StandStill ==
  [Next_s]_all => /\ [Next]_vars /\ [U!Next]_cups /\ [E!Next]_env /\ [R!Next]_rm
                  /\ [P!Next]_props /\ [G!Next]_awk
BY Zenon DEF Next_s, all, Provisions, Uploads, Collects, Removes, Reads, Converts

LEMMA Bounds ==
  /\ MaxFaults \in Nat /\ Timeout \in Nat /\ MaxClock \in Nat /\ MaxRestarts \in Nat
  /\ MaxLines \in Nat /\ MaxRecords \in Nat
BY ScriptsAssumption, ProvisionAssumption

LEMMA ProvisionSpec == FairSpec_s => Spec
<1>1. Init_s => Init
  BY DEF Init_s
<1> QED  BY <1>1, StandStill, PTL DEF FairSpec_s, Spec
-----------------------------------------------------------------------------
(* Numbers of the elements of a set.                                       *)

\* How many elements of S are i or less: the number of i in S.
Rank(S, i) == Cardinality({j \in S : j <= i})

LEMMA RankBounds ==
  ASSUME NEW S, IsFiniteSet(S), S \subseteq Nat, NEW i \in S
  PROVE  Rank(S, i) \in 1..Cardinality(S)
<1> DEFINE Upto == {j \in S : j <= i}
<1>1. IsFiniteSet(Upto) /\ Cardinality(Upto) <= Cardinality(S)
  BY FS_Subset
<1>2. Cardinality(Upto) \in Nat /\ Cardinality(S) \in Nat /\ Cardinality(Upto) # 0
  BY <1>1, FS_CardinalityType, FS_EmptySet
<1> QED  BY <1>1, <1>2 DEF Rank

LEMMA RankGrows ==
  ASSUME NEW S, IsFiniteSet(S), S \subseteq Nat, NEW i \in S, NEW k \in S, i < k
  PROVE  Rank(S, i) < Rank(S, k)
<1> DEFINE Upto(n) == {j \in S : j <= n}
<1>1. IsFiniteSet(Upto(k)) /\ IsFiniteSet(Upto(i))
  BY FS_Subset
<1>2. Upto(i) \subseteq Upto(k) /\ Upto(i) # Upto(k)
  <2>1. \A j \in S : j <= i => j <= k
    OBVIOUS
  <2>2. k <= k /\ ~(k <= i)
    OBVIOUS
  <2> QED  BY <2>1, <2>2
<1>3. /\ Cardinality(Upto(i)) <= Cardinality(Upto(k))
      /\ Cardinality(Upto(i)) # Cardinality(Upto(k))
  BY <1>1, <1>2, FS_Subset, Zenon
<1>4. Cardinality(Upto(i)) \in Nat /\ Cardinality(Upto(k)) \in Nat
  BY <1>1, FS_CardinalityType
<1> QED  BY <1>3, <1>4 DEF Rank

LEMMA RankInjective ==
  ASSUME NEW S, IsFiniteSet(S), S \subseteq Nat, NEW i \in S, NEW k \in S,
         Rank(S, i) = Rank(S, k)
  PROVE  i = k
<1> DEFINE m == Rank(S, i)
           n == Rank(S, k)
<1>1. m \in 1..Cardinality(S) /\ Cardinality(S) \in Nat
  BY RankBounds, FS_CardinalityType, Zenon
<1>2. (i < k => m < n) /\ (k < i => n < m)
  BY RankGrows, Zenon
<1> HIDE DEF m, n
<1>3. i # k => i < k \/ k < i
  OBVIOUS
<1> QED  BY <1>1, <1>2, <1>3 DEF m, n

LEMMA RankOnto ==
  ASSUME NEW S, IsFiniteSet(S), S \subseteq Nat
  PROVE  \A n \in 1..Cardinality(S) : \E i \in S : Rank(S, i) = n
<1> DEFINE last == Cardinality(S)
           rank == [i \in S |-> Rank(S, i)]
<1>1. last \in Nat /\ IsFiniteSet(1..last) /\ Cardinality(1..last) = last
  BY FS_CardinalityType, FS_Interval
<1>2. rank \in [S -> 1..last]
  BY RankBounds, Zenon
<1>3. \A i, k \in S : rank[i] = rank[k] => i = k
  BY RankInjective, Zenon
<1>4. rank \in Injection(S, 1..last)
  BY <1>2, <1>3, Zenon DEF Injection, IsInjective
<1>5. rank \in Surjection(S, 1..last)
  BY <1>1, <1>4, FS_Injection, Zenon
<1> QED  BY <1>5, Zenon DEF Surjection
-----------------------------------------------------------------------------
(* create_user_provided_service.sh                                         *)

LEMMA ThreeLines == Lines \in Nat /\ Lines >= 3
BY ScriptsAssumption

\* The first n lines of run r.
Part(r, n) == [i \in 1..n |-> <<r, i>>]

CupsTypes ==
  /\ cupsStep \in [Runs -> U!Steps] /\ written \in [Runs -> Nat]
  /\ overlapped \subseteq Runs /\ undisturbed \subseteq Runs /\ cupsFaults \in Nat

\* A run that has not overlapped is alone.
CupsAlone == \A r \in U!Active : r \in overlapped \/ \A o \in U!Active : o = r

\* How far a run has come with its file.
CupsProgress ==
  \A r \in Runs : /\ cupsStep[r] \in {"new", "remove"} => written[r] = 0
                  /\ cupsStep[r] = "write" => written[r] < Lines

\* What is in the file of a run that is alone.
CredsFollow ==
  \A r \in U!Active : r \notin overlapped /\ r \notin WithFile =>
    /\ cupsStep[r] = "write" /\ written[r] > 0 => creds = Part(r, written[r])
    /\ cupsStep[r] \in {"list", "create", "update"} => creds = U!Own(r)

\* What such a run knows of the service, unless something has hit it.
UpsFollows ==
  \A r \in U!Active : r \notin overlapped /\ r \in undisturbed /\ ~similar =>
    /\ cupsStep[r] = "create" => ups = <<>>
    /\ cupsStep[r] = "update" => ups # <<>>
    /\ cupsStep[r] = "cleanup" => ups = U!Own(r)

\* A service whose name contains env_setup keeps the real one from being created.
UpsHidden == similar /\ cupsFaults = 0 => ups = <<>> /\ \A r \in Runs : cupsStep[r] # "create"

CupsIInv == /\ CupsTypes /\ CupsAlone /\ CupsProgress /\ CredsFollow
        /\ U!UpsWhole /\ UpsFollows /\ UpsHidden
-----------------------------------------------------------------------------
(* The file.                                                               *)

LEMMA PartGrows ==
  ASSUME NEW r, NEW n \in Nat
  PROVE  Part(r, n) \o << <<r, n + 1>> >> = Part(r, n + 1)
<1> DEFINE line == <<r, n + 1>>
           longer == Part(r, n) \o <<line>>
<1>1. /\ Part(r, n) \in Seq({r} \X Nat) /\ Len(Part(r, n)) = n
      /\ \A i \in 1..n : Part(r, n)[i] = <<r, i>>
  BY DEF Part
<1>2. /\ <<line>> \in Seq({r} \X Nat) /\ Len(<<line>>) = 1 /\ <<line>>[1] = line
  OBVIOUS
<1> HIDE DEF line
<1>3. /\ longer \in Seq({r} \X Nat) /\ Len(longer) = n + 1
      /\ \A i \in 1..n : longer[i] = Part(r, n)[i]
      /\ longer[n + 1] = line
  BY <1>1, <1>2
<1>4. \A i \in 1..n + 1 : longer[i] = <<r, i>>
  BY <1>1, <1>3 DEF line
<1>5. longer = [i \in 1..n + 1 |-> longer[i]]
  BY <1>3
<1>6. ASSUME NEW f, f = [i \in 1..n + 1 |-> f[i]], \A i \in 1..n + 1 : f[i] = <<r, i>>
      PROVE  f = Part(r, n + 1)
  BY <1>6 DEF Part
<1> QED  BY <1>4, <1>5, <1>6 DEF line

LEMMA FirstPart == ASSUME NEW r PROVE <<>> \o << <<r, 1>> >> = Part(r, 1)
BY DEF Part

LEMMA WholePart == ASSUME NEW r PROVE Part(r, Lines) = U!Own(r)
BY DEF Part, U!Own

LEMMA OwnValid ==
  ASSUME NEW r
  PROVE  U!ValidJson(U!Own(r)) /\ U!Own(r) # <<>>
<1>1. /\ U!Own(r) \in Seq({r} \X (1..Lines)) /\ Len(U!Own(r)) = Lines /\ DOMAIN U!Own(r) = 1..Lines
      /\ \A k \in 1..Lines : U!Own(r)[k][2] = k
  BY ThreeLines DEF U!Own
<1>2. U!ValidJson(U!Own(r))
  BY ThreeLines, <1>1 DEF U!ValidJson
<1>3. U!Own(r) # <<>>
  BY ThreeLines, <1>1
<1> QED  BY <1>2, <1>3
-----------------------------------------------------------------------------
(* The steps.                                                              *)

\* After a step of run a, a is the only run that can be alone.
LEMMA CupsActor ==
  ASSUME CupsIInv, NEW a \in U!Active, NEW x \in U!Steps,
         cupsStep' = [cupsStep EXCEPT ![a] = x], UNCHANGED overlapped
  PROVE  /\ a \in Runs /\ cupsStep'[a] = x
         /\ \A o \in Runs \ {a} : cupsStep'[o] = cupsStep[o]
         /\ cupsStep' \in [Runs -> U!Steps]
         /\ CupsAlone'
         /\ \A r \in U!Active' : r \notin overlapped' => r = a
<1>1. /\ a \in Runs /\ cupsStep'[a] = x
      /\ \A o \in Runs \ {a} : cupsStep'[o] = cupsStep[o]
      /\ cupsStep' \in [Runs -> U!Steps]
  BY DEF CupsIInv, CupsTypes, U!Active
<1>2. U!Active' \subseteq U!Active
  BY <1>1 DEF U!Active
<1>3. CupsAlone'
  BY <1>2 DEF CupsIInv, CupsAlone
<1>4. \A r \in U!Active' : r \notin overlapped' => r = a
  BY <1>2 DEF CupsIInv, CupsAlone
<1> QED  BY <1>1, <1>3, <1>4

LEMMA CupsStartInv == ASSUME CupsIInv, NEW a \in Runs, U!Start(a) PROVE CupsIInv'
<1>1. /\ cupsStep[a] = "new"
      /\ cupsStep' = [cupsStep EXCEPT ![a] = IF a \in WithFile THEN "list" ELSE "remove"]
      /\ overlapped' = overlapped \cup (IF U!Active = {} THEN {} ELSE U!Active \cup {a})
      /\ UNCHANGED <<creds, ups, similar, written, undisturbed, cupsFaults>>
  BY DEF U!Start, U!Go
<1>2. /\ cupsStep'[a] \in {"list", "remove"} /\ (a \notin WithFile => cupsStep'[a] = "remove")
      /\ \A o \in Runs \ {a} : cupsStep'[o] = cupsStep[o]
  BY <1>1 DEF CupsIInv, CupsTypes
<1>3. CupsTypes'
  BY <1>1, <1>2 DEF CupsIInv, CupsTypes, U!Active, U!Steps
<1>4. U!Active' = U!Active \cup {a}
  BY <1>2 DEF U!Active
<1>5. \A r \in U!Active' : r \notin overlapped' => r = a /\ U!Active' = {a}
  BY <1>1, <1>4
<1>6. CupsAlone'
  BY <1>5 DEF CupsAlone
<1>7. CupsProgress'
  BY <1>1, <1>2 DEF CupsIInv, CupsProgress
<1>8. CredsFollow' /\ UpsFollows'
  BY <1>2, <1>5 DEF CredsFollow, UpsFollows
<1>9. U!UpsWhole'
  BY <1>1 DEF CupsIInv, U!UpsWhole
<1>10. UpsHidden'
  BY <1>1, <1>2 DEF CupsIInv, UpsHidden
<1> QED  BY <1>3, <1>6, <1>7, <1>8, <1>9, <1>10 DEF CupsIInv

\* The parts of IInv that a step of run a leaves alone when it leaves the service, the
\* counts and the ghosts alone.
LEMMA CupsKeeps ==
  ASSUME CupsIInv, NEW a \in U!Active, NEW x \in U!Steps, cupsStep' = [cupsStep EXCEPT ![a] = x],
         UNCHANGED <<similar, written, overlapped>>, x \notin {"new", "remove", "write"},
         undisturbed' \subseteq undisturbed, cupsFaults' \in Nat, cupsFaults' >= cupsFaults,
         U!UpsWhole', CredsFollow', UpsFollows',
         similar' /\ cupsFaults' = 0 => ups' = <<>> /\ x # "create"
  PROVE  CupsIInv'
<1>1. /\ a \in Runs /\ cupsStep'[a] = x /\ cupsStep' \in [Runs -> U!Steps] /\ CupsAlone'
      /\ \A o \in Runs \ {a} : cupsStep'[o] = cupsStep[o]
  BY CupsActor
<1>2. CupsTypes'
  BY <1>1 DEF CupsIInv, CupsTypes
<1>3. CupsProgress'
  BY <1>1 DEF CupsIInv, CupsProgress
<1>4. UpsHidden'
  BY <1>1 DEF CupsIInv, CupsTypes, UpsHidden
<1> QED  BY <1>1, <1>2, <1>3, <1>4 DEF CupsIInv

LEMMA CupsRemoveInv == ASSUME CupsIInv, NEW a \in Runs, U!Remove(a) PROVE CupsIInv'
<1>1. /\ cupsStep[a] = "remove" /\ cupsStep' = [cupsStep EXCEPT ![a] = "write"]
      /\ UNCHANGED <<ups, similar, written, overlapped, undisturbed, cupsFaults>>
  BY DEF U!Remove, U!Go
<1>2. /\ a \in U!Active /\ cupsStep'[a] = "write" /\ cupsStep' \in [Runs -> U!Steps] /\ CupsAlone'
      /\ \A o \in Runs \ {a} : cupsStep'[o] = cupsStep[o]
      /\ \A r \in U!Active' : r \notin overlapped' => r = a
  <2>1. a \in U!Active /\ "write" \in U!Steps
    BY <1>1 DEF U!Active, U!Steps
  <2> QED  BY <1>1, <2>1, CupsActor
<1>3. written'[a] = 0
  BY <1>1 DEF CupsIInv, CupsProgress
<1>4. CupsTypes' /\ U!UpsWhole'
  BY <1>1, <1>2 DEF CupsIInv, CupsTypes, U!UpsWhole
<1>5. CupsProgress'
  BY ThreeLines, <1>1, <1>2, <1>3 DEF CupsIInv, CupsProgress
<1>6. CredsFollow' /\ UpsFollows'
  BY <1>2, <1>3 DEF CredsFollow, UpsFollows
<1>7. UpsHidden'
  BY <1>1, <1>2 DEF CupsIInv, UpsHidden
<1> QED  BY <1>2, <1>4, <1>5, <1>6, <1>7 DEF CupsIInv

LEMMA CupsWriteInv == ASSUME CupsIInv, NEW a \in Runs, U!Write(a) PROVE CupsIInv'
<1> DEFINE x == IF written[a] + 1 = Lines THEN "list" ELSE "write"
<1>1. /\ cupsStep[a] = "write" /\ cupsStep' = [cupsStep EXCEPT ![a] = x]
      /\ creds' = (IF written[a] = 0 THEN <<>> ELSE creds) \o << <<a, written[a] + 1>> >>
      /\ written' = [written EXCEPT ![a] = @ + 1]
      /\ UNCHANGED <<ups, similar, overlapped, undisturbed, cupsFaults>>
  BY DEF U!Write, U!Go
<1>2. /\ a \in U!Active /\ cupsStep'[a] = x /\ cupsStep' \in [Runs -> U!Steps] /\ CupsAlone'
      /\ \A o \in Runs \ {a} : cupsStep'[o] = cupsStep[o]
      /\ \A r \in U!Active' : r \notin overlapped' => r = a
  <2>1. a \in U!Active /\ x \in U!Steps
    BY <1>1 DEF U!Active, U!Steps
  <2> QED  BY <1>1, <2>1, CupsActor
<1>3. /\ written[a] \in Nat /\ written[a] < Lines /\ written'[a] = written[a] + 1
      /\ \A o \in Runs \ {a} : written'[o] = written[o]
      /\ written' \in [Runs -> Nat]
  BY <1>1 DEF CupsIInv, CupsTypes, CupsProgress
<1>4. CupsTypes' /\ U!UpsWhole'
  BY <1>1, <1>2, <1>3 DEF CupsIInv, CupsTypes, U!UpsWhole
<1>5. CupsProgress'
  BY ThreeLines, <1>1, <1>2, <1>3 DEF CupsIInv, CupsProgress
<1>6. a \notin overlapped /\ a \notin WithFile => creds' = Part(a, written'[a])
  <2>1. CASE written[a] = 0
    BY <1>1, <1>3, <2>1, FirstPart
  <2>2. CASE written[a] > 0
    <3>1. a \notin overlapped /\ a \notin WithFile => creds = Part(a, written[a])
      BY <1>1, <1>2, <2>2 DEF CupsIInv, CredsFollow
    <3> QED  BY <1>1, <1>3, <2>2, <3>1, PartGrows
  <2> QED  BY <1>3, <2>1, <2>2
<1>7. x = "list" => written'[a] = Lines
  BY <1>3
<1>8. CredsFollow'
  BY <1>1, <1>2, <1>6, <1>7, WholePart DEF CredsFollow
<1>9. UpsFollows'
  BY <1>2 DEF UpsFollows
<1>10. UpsHidden'
  BY <1>1, <1>2 DEF CupsIInv, UpsHidden
<1> QED  BY <1>2, <1>4, <1>5, <1>8, <1>9, <1>10 DEF CupsIInv

LEMMA CupsListInv == ASSUME CupsIInv, NEW a \in Runs, U!List(a) PROVE CupsIInv'
<1> DEFINE x == IF ups # <<>> \/ similar THEN "update" ELSE "create"
<1>1. /\ cupsStep[a] = "list" /\ cupsStep' = [cupsStep EXCEPT ![a] = x]
      /\ UNCHANGED <<creds, ups, similar, written, overlapped, undisturbed, cupsFaults>>
  BY DEF U!List, U!Go
<1>2. a \in U!Active /\ x \in U!Steps /\ x \notin {"new", "remove", "write"}
  BY <1>1 DEF U!Active, U!Steps, CupsIInv, CupsTypes
<1>3. /\ cupsStep'[a] = x
      /\ \A r \in U!Active' : r \notin overlapped' => r = a
  BY <1>1, <1>2, CupsActor
<1>4. CredsFollow'
  BY <1>1, <1>2, <1>3 DEF CupsIInv, CredsFollow
<1>5. UpsFollows'
  BY <1>1, <1>3 DEF UpsFollows
<1>6. U!UpsWhole' /\ (similar' /\ cupsFaults' = 0 => ups' = <<>> /\ x # "create")
  BY <1>1 DEF CupsIInv, U!UpsWhole, UpsHidden
<1>7. undisturbed' \subseteq undisturbed /\ cupsFaults' \in Nat /\ cupsFaults' >= cupsFaults
  BY <1>1 DEF CupsIInv, CupsTypes
<1> HIDE DEF x
<1> QED  BY <1>1, <1>2, <1>4, <1>5, <1>6, <1>7, CupsKeeps

\* A fault of run a: nothing is known of its work any more.
LEMMA CupsFaultInv ==
  ASSUME CupsIInv, NEW a \in U!Active, NEW x \in U!Steps, U!Fault(a),
         cupsStep' = [cupsStep EXCEPT ![a] = x], x \notin {"new", "remove", "write"},
         x \in {"list", "create", "update"} => cupsStep[a] = "list",
         UNCHANGED <<creds, ups, similar, written, overlapped>>
  PROVE  CupsIInv'
<1>1. /\ undisturbed' = undisturbed \ {a} /\ undisturbed' \subseteq undisturbed /\ cupsFaults' \in Nat
      /\ cupsFaults' >= cupsFaults /\ cupsFaults' # 0
  BY DEF U!Fault, CupsIInv, CupsTypes
<1>2. /\ cupsStep'[a] = x
      /\ \A r \in U!Active' : r \notin overlapped' => r = a
  BY CupsActor
<1>3. CredsFollow'
  <2>1. x # "write"
    OBVIOUS
  <2>2. x \in {"list", "create", "update"} /\ a \notin overlapped /\ a \notin WithFile
          => creds = U!Own(a)
    BY DEF CupsIInv, CredsFollow, U!Active
  <2> QED  BY <1>2, <2>1, <2>2 DEF CredsFollow
<1>4. UpsFollows'
  BY <1>1, <1>2 DEF UpsFollows
<1>5. U!UpsWhole'
  BY DEF CupsIInv, U!UpsWhole
<1> QED  BY <1>1, <1>3, <1>4, <1>5, CupsKeeps

LEMMA CupsFaultsInv ==
  ASSUME CupsIInv, NEW a \in Runs, U!ListFails(a) \/ U!UploadFails(a) \/ U!Kill(a)
  PROVE  CupsIInv'
<1>1. CASE U!ListFails(a)
  <2>1. /\ cupsStep[a] = "list" /\ cupsStep' = [cupsStep EXCEPT ![a] = "create"] /\ U!Fault(a)
        /\ UNCHANGED <<creds, ups, similar, written, overlapped>>
    BY <1>1 DEF U!ListFails, U!Go
  <2>2. a \in U!Active /\ "create" \in U!Steps
    BY <2>1 DEF U!Active, U!Steps
  <2> QED  BY <2>1, <2>2, CupsFaultInv
<1>2. CASE U!UploadFails(a)
  <2>1. /\ cupsStep[a] \in {"create", "update"} /\ cupsStep' = [cupsStep EXCEPT ![a] = "cleanup"]
        /\ U!Fault(a) /\ UNCHANGED <<creds, ups, similar, written, overlapped>>
    BY <1>2 DEF U!UploadFails, U!Go
  <2>2. a \in U!Active /\ "cleanup" \in U!Steps
    BY <2>1 DEF U!Active, U!Steps
  <2> QED  BY <2>1, <2>2, CupsFaultInv
<1>3. CASE U!Kill(a)
  <2>1. /\ a \in U!Active /\ cupsStep' = [cupsStep EXCEPT ![a] = "dead"] /\ U!Fault(a)
        /\ UNCHANGED <<creds, ups, similar, written, overlapped>>
    BY <1>3 DEF U!Kill
  <2>2. "dead" \in U!Steps
    BY DEF U!Steps
  <2> QED  BY <2>1, <2>2, CupsFaultInv
<1> QED  BY <1>1, <1>2, <1>3

LEMMA CupsUploadInv ==
  ASSUME CupsIInv, NEW a \in Runs, U!Create(a) \/ U!Update(a)
  PROVE  CupsIInv'
<1>1. /\ cupsStep[a] \in {"create", "update"} /\ cupsStep' = [cupsStep EXCEPT ![a] = "cleanup"]
      /\ UNCHANGED <<creds, similar, written, overlapped, undisturbed, cupsFaults>>
      /\ ups' \in {ups, U!File(a)}
  BY DEF U!Create, U!Update, U!Upload, U!Go
<1>2. a \in U!Active /\ "cleanup" \in U!Steps
  BY <1>1 DEF U!Active, U!Steps
<1>3. /\ cupsStep'[a] = "cleanup"
      /\ \A r \in U!Active' : r \notin overlapped' => r = a
  BY <1>1, <1>2, CupsActor
<1>4. a \notin overlapped => U!File(a) = U!Own(a)
  BY <1>1, <1>2 DEF CupsIInv, CredsFollow, U!File
<1>5. ASSUME a \notin overlapped, a \in undisturbed, ~similar
      PROVE  ups' = U!Own(a)
  <2>1. U!File(a) = U!Own(a) /\ U!ValidJson(U!File(a))
    BY <1>4, <1>5, OwnValid
  <2>2. /\ cupsStep[a] = "create" => ups = <<>>
        /\ cupsStep[a] = "update" => ups # <<>>
    BY <1>2, <1>5 DEF CupsIInv, UpsFollows
  <2>3. CASE U!Create(a)
    BY <2>1, <2>2, <2>3 DEF U!Create, U!Upload, U!Go
  <2>4. CASE U!Update(a)
    BY <2>1, <2>2, <2>4 DEF U!Update, U!Upload, U!Go
  <2> QED  BY <2>3, <2>4
<1>6. CredsFollow' /\ UpsFollows'
  BY <1>1, <1>3, <1>5 DEF CredsFollow, UpsFollows
<1>7. U!UpsWhole'
  BY <1>1, <1>4 DEF CupsIInv, U!UpsWhole
<1>8. similar' /\ cupsFaults' = 0 => ups' = <<>>
  <2>1. SUFFICES ASSUME similar, cupsFaults = 0 PROVE ups' = <<>>
    BY <1>1
  <2>2. ups = <<>> /\ cupsStep[a] # "create"
    BY <2>1 DEF CupsIInv, UpsHidden
  <2>3. U!Update(a)
    BY <2>2 DEF U!Create, U!Upload, U!Go
  <2> QED  BY <2>2, <2>3 DEF U!Update, U!Upload
<1>9. undisturbed' \subseteq undisturbed /\ cupsFaults' \in Nat /\ cupsFaults' >= cupsFaults
  BY <1>1 DEF CupsIInv, CupsTypes
<1> QED  BY <1>1, <1>2, <1>6, <1>7, <1>8, <1>9, CupsKeeps

LEMMA CupsCleanupInv == ASSUME CupsIInv, NEW a \in Runs, U!Cleanup(a) PROVE CupsIInv'
<1>1. /\ cupsStep[a] = "cleanup" /\ cupsStep' = [cupsStep EXCEPT ![a] = "end"]
      /\ UNCHANGED <<creds, ups, similar, written, overlapped, undisturbed, cupsFaults>>
  BY DEF U!Cleanup, U!Go
<1>2. a \in U!Active /\ "end" \in U!Steps
  BY <1>1 DEF U!Active, U!Steps
<1>3. /\ cupsStep'[a] = "end"
      /\ \A r \in U!Active' : r \notin overlapped' => r = a
  BY <1>1, <1>2, CupsActor
<1>4. CredsFollow' /\ UpsFollows'
  BY <1>3 DEF CredsFollow, UpsFollows, U!Active
<1>5. U!UpsWhole' /\ (similar' /\ cupsFaults' = 0 => ups' = <<>>)
  BY <1>1 DEF CupsIInv, U!UpsWhole, UpsHidden
<1>6. undisturbed' \subseteq undisturbed /\ cupsFaults' \in Nat /\ cupsFaults' >= cupsFaults
  BY <1>1 DEF CupsIInv, CupsTypes
<1> QED  BY <1>1, <1>2, <1>4, <1>5, <1>6, CupsKeeps

LEMMA CupsInit == U!Init => CupsIInv
<1> SUFFICES ASSUME U!Init PROVE CupsIInv
  OBVIOUS
<1>1. /\ cupsStep = [r \in Runs |-> "new"] /\ written = [r \in Runs |-> 0] /\ ups = <<>>
      /\ overlapped = {} /\ undisturbed = Runs /\ cupsFaults = 0
  BY DEF U!Init
<1>2. CupsTypes
  BY <1>1 DEF CupsTypes, U!Steps
<1>3. U!Active = {}
  BY <1>1 DEF U!Active
<1>4. CupsAlone /\ CredsFollow /\ UpsFollows
  BY <1>3 DEF CupsAlone, CredsFollow, UpsFollows
<1>5. CupsProgress /\ UpsHidden
  BY <1>1 DEF CupsProgress, UpsHidden
<1>6. U!UpsWhole
  BY <1>1 DEF U!UpsWhole
<1> QED  BY <1>2, <1>4, <1>5, <1>6 DEF CupsIInv

LEMMA CupsNext == CupsIInv /\ [U!Next]_cups => CupsIInv'
<1> SUFFICES ASSUME CupsIInv, [U!Next]_cups PROVE CupsIInv'
  OBVIOUS
<1>1. CASE UNCHANGED cups
  BY <1>1 DEF cups, CupsIInv, CupsTypes, CupsAlone, CupsProgress, CredsFollow,
     U!UpsWhole, UpsFollows,
              UpsHidden, U!Active
<1>2. CASE U!Next
  BY <1>2, CupsStartInv, CupsRemoveInv, CupsWriteInv, CupsListInv, CupsUploadInv,
     CupsCleanupInv, CupsFaultsInv
     DEF U!Next
<1> QED  BY <1>1, <1>2
\* Whatever runs, is killed or fails.
LEMMA CupsInvariance == FairSpec_s => []CupsIInv
<1>1. Init_s => CupsIInv
  BY CupsInit DEF Init_s
<1>2. CupsIInv /\ [U!Next]_cups => CupsIInv'
  BY CupsNext
<1> QED  BY <1>1, <1>2, StandStill, PTL DEF FairSpec_s

\* create_user_provided_service.sh: runs that never overlapped leave one run's whole
\* configuration in the service, whatever was killed before.
THEOREM UpsIsWhole == FairSpec_s => []UpsWhole
<1>1. CupsIInv => UpsWhole
  BY DEF CupsIInv, UpsWhole
<1> QED  BY <1>1, CupsInvariance, PTL

\* create_user_provided_service.sh: an undisturbed run ends with its own configuration
\* in the service; while a similar name hides that there is none, no run creates it.
THEOREM EffectOfRun == FairSpec_s => RunTakesEffect
<1> DEFINE Ended == \A r \in undisturbed \ overlapped :
                       cupsStep[r] = "cleanup" /\ cupsStep'[r] = "end" =>
                         /\ ~similar => ups' = U!Own(r)
                         /\ similar /\ cupsFaults = 0 => ups' = <<>>
<1>1. CupsIInv /\ [U!Next]_cups => [Ended]_U!vars
  <2> SUFFICES ASSUME CupsIInv, U!Next, NEW r \in undisturbed \ overlapped,
                      cupsStep[r] = "cleanup", cupsStep'[r] = "end"
               PROVE  /\ ~similar => ups' = U!Own(r)
                      /\ similar /\ cupsFaults = 0 => ups' = <<>>
    BY DEF U!vars, cups
  <2>1. r \in Runs /\ r \in U!Active
    BY DEF CupsIInv, CupsTypes, U!Active
  <2>2. /\ ~similar => ups = U!Own(r)
        /\ similar /\ cupsFaults = 0 => ups = <<>>
    BY <2>1 DEF CupsIInv, UpsFollows, UpsHidden
  <2>3. ASSUME NEW a \in Runs, NEW x, x # "end", cupsStep' = [cupsStep EXCEPT ![a] = x]
        PROVE  FALSE
    BY <2>1, <2>3 DEF CupsIInv, CupsTypes
  <2>4. PICK a \in Runs : U!Cleanup(a)
    BY <2>3 DEF U!Next, U!Start, U!Remove, U!Write, U!List, U!Create, U!Update, U!Upload,
                U!ListFails, U!UploadFails, U!Kill, U!Go
  <2> QED  BY <2>2, <2>4 DEF U!Cleanup
<1> QED  BY <1>1, CupsInvariance, StandStill, PTL
         DEF FairSpec_s, RunTakesEffect, U!RunTakesEffect
-----------------------------------------------------------------------------
(* env.js                                                                  *)

\* The types that the proofs need.
AnswersOK ==
  /\ answers \in [E!Commands -> {"none", "failed", "given", "bare"}]
  /\ promise \in [E!Commands -> {"pending", "resolved", "rejected"}]

ObjectsOK == store \in Objects /\ object \in Objects

\* What is in the shared object.
StoreSound == E!Promised!Whole(store)

\* A promise is resolved by an answer that was understood.
ResolvedAnswered ==
  \A c \in E!Commands : promise[c] = "resolved" => answers[c] \in {"given", "bare"}

\* The file, at each stage of the process.
FileFollows ==
  /\ node = "running" => local = OldFile
  /\ node = "writing" => local = Torn /\ E!Promised!Whole(object)
  /\ local \in {OldFile, Torn} \/ E!Promised!Whole(local)

\* Once the file is being written all answers are there, and stay.
WritingAnswered ==
  node = "writing" \/ local # OldFile =>
    \A c \in E!Commands : answers[c] \in {"given", "bare"}

EnvIInv == AnswersOK /\ ObjectsOK /\ StoreSound /\ ResolvedAnswered /\ FileFollows /\ WritingAnswered
-----------------------------------------------------------------------------
(* What Whole says, with the answers as a parameter.                       *)

WholeWith(f, a) ==
  /\ \A c \in E!Commands : a[c] = "given" => \A k \in E!KeysOf(c) :
       k \in DOMAIN f \/ \E d \in E!Commands : a[d] = "bare" /\ k \in E!KeysOf(d)
  /\ \A k \in DOMAIN f : f[k] \in E!Commands /\ a[f[k]] = "given" /\ k \in E!KeysOf(f[k])

LEMMA WholeIs == ASSUME NEW f PROVE E!Promised!Whole(f) <=> WholeWith(f, answers)
<1>1. \A a : \A k : k \in E!Promised!KeysWith(a)
                       <=> \E c \in E!Commands : answers[c] = a /\ k \in E!KeysOf(c)
  BY DEF E!Promised!KeysWith
<1>2. \A k, c : c \in E!Promised!Given(k)
                  <=> c \in E!Commands /\ answers[c] = "given" /\ k \in E!KeysOf(c)
  BY DEF E!Promised!Given
<1> QED  BY <1>1, <1>2 DEF E!Promised!Whole, WholeWith

LEMMA WholeIsPrimed ==
  ASSUME NEW f
  PROVE (E!Promised!Whole(f))' <=> WholeWith(f', answers')
<1>1. \A a : \A k : k \in (E!Promised!KeysWith(a))'
                       <=> \E c \in E!Commands : answers'[c] = a /\ k \in E!KeysOf(c)
  BY DEF E!Promised!KeysWith
<1>2. \A k, c : c \in (E!Promised!Given(k))'
                  <=> c \in E!Commands /\ answers'[c] = "given" /\ k \in E!KeysOf(c)
  BY DEF E!Promised!Given
<1> QED  BY <1>1, <1>2 DEF E!Promised!Whole, WholeWith
-----------------------------------------------------------------------------
LEMMA EnvInit == E!Init => EnvIInv
<1> SUFFICES ASSUME E!Init PROVE EnvIInv
  OBVIOUS
<1>1. AnswersOK /\ ResolvedAnswered /\ WritingAnswered
  BY DEF E!Init, AnswersOK, ResolvedAnswered, WritingAnswered
<1>2. E!Nothing \in [{} -> E!Commands] /\ {} \in SUBSET (Bound \cup UpsKeys)
  BY DEF E!Nothing
<1>3. ObjectsOK
  BY <1>2 DEF E!Init, ObjectsOK, Objects
<1>4. StoreSound
  <2>1. E!Promised!KeysWith("given") = {}
    BY DEF E!Init, E!Promised!KeysWith
  <2> QED  BY <1>2, <2>1 DEF E!Init, StoreSound, E!Promised!Whole
<1>5. FileFollows
  BY DEF E!Init, FileFollows
<1> QED  BY <1>1, <1>3, <1>4, <1>5 DEF EnvIInv
-----------------------------------------------------------------------------
LEMMA ContentsAre ==
  ASSUME NEW f
  PROVE  f \in Objects <=> \E D \in SUBSET (Bound \cup UpsKeys) : f \in [D -> E!Commands]
BY DEF Objects

LEMMA KeysAreKeys ==
  ASSUME NEW c \in E!Commands
  PROVE E!KeysOf(c) \subseteq Bound \cup UpsKeys
BY DEF E!KeysOf, E!Commands

\* An answer comes while the process is not writing yet.
LEMMA AnswerKeeps ==
  ASSUME EnvIInv, NEW c \in E!Commands, NEW a \in {"failed", "given", "bare"}, E!Alive,
         E!Answered(c, a), UNCHANGED <<object, local>>, node' \in {node, "threw"},
         store' \in Objects, WholeWith(store', answers'),
         UNCHANGED promise \/ (\E p \in {"resolved", "rejected"} :
                                 E!Settle(c, p) /\ (p = "resolved" => a # "failed"))
  PROVE  EnvIInv'
<1>1. /\ answers[c] = "none" /\ answers' = [answers EXCEPT ![c] = a]
      /\ answers'[c] = a /\ \A d \in E!Commands \ {c} : answers'[d] = answers[d]
  BY DEF E!Answered, EnvIInv, AnswersOK
<1>2. node = "running" /\ local = OldFile
  BY <1>1 DEF E!Alive, EnvIInv, WritingAnswered, FileFollows
<1>3. AnswersOK'
  BY <1>1 DEF EnvIInv, AnswersOK, E!Settle
<1>4. ObjectsOK' /\ StoreSound'
  BY WholeIsPrimed DEF EnvIInv, ObjectsOK, StoreSound
<1>5. ResolvedAnswered'
  BY <1>1 DEF EnvIInv, AnswersOK, ResolvedAnswered, E!Settle
<1>6. FileFollows' /\ WritingAnswered'
  BY <1>2 DEF FileFollows, WritingAnswered
<1> QED  BY <1>3, <1>4, <1>5, <1>6 DEF EnvIInv

LEMMA GiveInv == ASSUME EnvIInv, NEW c \in E!Commands, E!Give(c) PROVE EnvIInv'
<1>1. /\ E!Alive /\ E!Answered(c, "given") /\ E!Settle(c, "resolved")
      /\ UNCHANGED <<node, object, local>>
      /\ store' = E!Put(E!KeysOf(c), c)
  BY DEF E!Give
<1>2. /\ answers[c] = "none" /\ answers'[c] = "given"
      /\ \A d \in E!Commands \ {c} : answers'[d] = answers[d]
  BY <1>1 DEF E!Answered, EnvIInv, AnswersOK
<1>3. /\ DOMAIN store' = DOMAIN store \cup E!KeysOf(c)
      /\ \A k \in DOMAIN store' : store'[k] = IF k \in E!KeysOf(c) THEN c ELSE store[k]
  BY <1>1 DEF E!Put
<1>4. PICK D \in SUBSET (Bound \cup UpsKeys) : store \in [D -> E!Commands]
  BY ContentsAre DEF EnvIInv, ObjectsOK
<1>5. store' \in [D \cup E!KeysOf(c) -> E!Commands]
  BY <1>1, <1>4 DEF E!Put
<1>6. store' \in Objects
  BY <1>5, KeysAreKeys, ContentsAre
<1>7. WholeWith(store, answers)
  BY WholeIs DEF EnvIInv, StoreSound
<1>8. WholeWith(store', answers')
  <2>1. ASSUME NEW d \in E!Commands, answers'[d] = "given", NEW k \in E!KeysOf(d)
        PROVE  k \in DOMAIN store' \/ \E e \in E!Commands : answers'[e] = "bare" /\ k \in E!KeysOf(e)
    <3>1. CASE d = c
      BY <1>3, <3>1
    <3>2. CASE d # c
      <4>1. k \in DOMAIN store \/ \E e \in E!Commands : answers[e] = "bare" /\ k \in E!KeysOf(e)
        BY <1>2, <1>7, <2>1, <3>2 DEF WholeWith
      <4> QED  BY <1>2, <1>3, <4>1
    <3> QED  BY <3>1, <3>2
  <2>2. ASSUME NEW k \in DOMAIN store'
        PROVE  store'[k] \in E!Commands /\ answers'[store'[k]] = "given" /\ k \in E!KeysOf(store'[k])
    BY <1>2, <1>3, <1>7 DEF WholeWith
  <2> QED  BY <2>1, <2>2 DEF WholeWith
<1> QED  BY <1>1, <1>6, <1>8, AnswerKeeps

LEMMA GiveBareInv == ASSUME EnvIInv, NEW c \in E!Commands, E!GiveBare(c) PROVE EnvIInv'
<1> DEFINE lost == IF c = Ups THEN {} ELSE {c}
<1>1. /\ E!Alive /\ E!Answered(c, "bare") /\ E!Settle(c, "resolved")
      /\ UNCHANGED <<node, object, local>>
      /\ store' = [k \in DOMAIN store \ lost |-> store[k]]
  BY DEF E!GiveBare
<1>2. /\ answers[c] = "none" /\ answers'[c] = "bare" /\ lost \subseteq E!KeysOf(c)
      /\ \A d \in E!Commands \ {c} : answers'[d] = answers[d]
  BY <1>1 DEF E!Answered, EnvIInv, AnswersOK, E!KeysOf
<1>3. PICK D \in SUBSET (Bound \cup UpsKeys) : store \in [D -> E!Commands]
  BY ContentsAre DEF EnvIInv, ObjectsOK
<1>4. store' \in [D \ lost -> E!Commands]
  BY <1>1, <1>3
<1>5. store' \in Objects
  BY <1>4, ContentsAre
<1>6. WholeWith(store, answers)
  BY WholeIs DEF EnvIInv, StoreSound
<1>7. WholeWith(store', answers')
  <2>1. ASSUME NEW d \in E!Commands, answers'[d] = "given", NEW k \in E!KeysOf(d)
        PROVE  k \in DOMAIN store' \/ \E e \in E!Commands : answers'[e] = "bare" /\ k \in E!KeysOf(e)
    <3>1. k \in DOMAIN store \/ \E e \in E!Commands : answers[e] = "bare" /\ k \in E!KeysOf(e)
      BY <1>2, <1>6, <2>1 DEF WholeWith
    <3>2. CASE k \in lost
      BY <1>2, <3>2
    <3>3. CASE k \in DOMAIN store \ lost
      BY <1>1, <3>3
    <3> QED  BY <1>2, <3>1, <3>2, <3>3
  <2>2. ASSUME NEW k \in DOMAIN store'
        PROVE  store'[k] \in E!Commands /\ answers'[store'[k]] = "given" /\ k \in E!KeysOf(store'[k])
    BY <1>1, <1>2, <1>6 DEF WholeWith
  <2> QED  BY <2>1, <2>2 DEF WholeWith
<1> QED  BY <1>1, <1>5, <1>7, AnswerKeeps

LEMMA FailThrowInv ==
  ASSUME EnvIInv, NEW c \in E!Commands, E!Fail(c) \/ E!Throw(c)
  PROVE EnvIInv'
<1>1. /\ E!Alive /\ E!Answered(c, "failed") /\ node' \in {node, "threw"}
      /\ UNCHANGED <<store, object, local>>
      /\ UNCHANGED promise \/ E!Settle(c, "rejected")
  BY DEF E!Fail, E!Throw
<1>2. /\ answers[c] = "none" /\ answers'[c] = "failed"
      /\ \A d \in E!Commands \ {c} : answers'[d] = answers[d]
  BY <1>1 DEF E!Answered, EnvIInv, AnswersOK
<1>3. WholeWith(store, answers)
  BY WholeIs DEF EnvIInv, StoreSound
<1>4. WholeWith(store', answers')
  BY <1>1, <1>2, <1>3 DEF WholeWith
<1> QED  BY <1>1, <1>4, AnswerKeeps DEF EnvIInv, ObjectsOK

LEMMA StartWritingInv == ASSUME EnvIInv, E!StartWriting PROVE EnvIInv'
<1>1. /\ UNCHANGED <<answers, store, promise>> /\ object' = store /\ local' = Torn
      /\ node' = "writing" /\ \A c \in E!Commands : promise[c] = "resolved"
  BY DEF E!StartWriting
<1>2. AnswersOK' /\ ObjectsOK' /\ ResolvedAnswered' /\ WritingAnswered'
  BY <1>1 DEF EnvIInv, AnswersOK, ObjectsOK, ResolvedAnswered, WritingAnswered
<1>3. WholeWith(store', answers') /\ WholeWith(object', answers')
  BY <1>1, WholeIs DEF EnvIInv, StoreSound
<1>4. StoreSound' /\ FileFollows'
  BY <1>1, <1>3, WholeIsPrimed DEF StoreSound, FileFollows
<1> QED  BY <1>2, <1>4 DEF EnvIInv

LEMMA FinishWritingInv == ASSUME EnvIInv, E!FinishWriting PROVE EnvIInv'
<1>1. /\ UNCHANGED <<answers, store, promise, object>> /\ local' = object
      /\ node = "writing" /\ node' = "exited"
  BY DEF E!FinishWriting
<1>2. AnswersOK' /\ ObjectsOK' /\ ResolvedAnswered' /\ WritingAnswered'
  BY <1>1 DEF EnvIInv, AnswersOK, ObjectsOK, ResolvedAnswered, WritingAnswered
<1>3. WholeWith(store', answers') /\ WholeWith(local', answers')
  BY <1>1, WholeIs DEF EnvIInv, StoreSound, FileFollows
<1>4. StoreSound' /\ FileFollows'
  BY <1>1, <1>3, WholeIsPrimed DEF StoreSound, FileFollows
<1> QED  BY <1>2, <1>4 DEF EnvIInv

\* The process ends without another write, or nothing happens.
LEMMA EnvStopInv ==
  ASSUME EnvIInv, UNCHANGED <<answers, store, promise, object, local>>,
         node' \in {node, "exited", "threw", "killed"}
  PROVE  EnvIInv'
<1>1. AnswersOK' /\ ObjectsOK' /\ ResolvedAnswered' /\ WritingAnswered'
  BY DEF EnvIInv, AnswersOK, ObjectsOK, ResolvedAnswered, WritingAnswered
<1>2. /\ WholeWith(store', answers')
      /\ node' = "writing" => WholeWith(object', answers')
      /\ local' \in {OldFile, Torn} \/ WholeWith(local', answers')
  BY WholeIs DEF EnvIInv, StoreSound, FileFollows
<1>3. StoreSound' /\ FileFollows'
  BY <1>2, WholeIsPrimed DEF EnvIInv, StoreSound, FileFollows
<1> QED  BY <1>1, <1>3 DEF EnvIInv

LEMMA EnvNext == EnvIInv /\ [E!Next]_env => EnvIInv'
<1> SUFFICES ASSUME EnvIInv, [E!Next]_env PROVE EnvIInv'
  OBVIOUS
<1>1. CASE \E c \in E!Commands : E!Callback(c)
  BY <1>1, GiveInv, GiveBareInv, FailThrowInv DEF E!Callback
<1>2. CASE E!Exit \/ E!WriteFails \/ E!Kill \/ UNCHANGED env
  BY <1>2, EnvStopInv DEF E!Exit, E!WriteFails, E!Kill, env
<1> QED  BY <1>1, <1>2, StartWritingInv, FinishWritingInv DEF E!Next, E!Own
\* Whatever the commands answer, in any order.
LEMMA EnvInvariance == FairSpec_s => []EnvIInv
<1>1. Init_s => EnvIInv
  BY EnvInit DEF Init_s
<1>2. EnvIInv /\ [E!Next]_env => EnvIInv'
  BY EnvNext
<1> QED  BY <1>1, <1>2, StandStill, PTL DEF FairSpec_s

\* env.js: a written local.json is what the answers say in any order, except for a
\* credential that has the name of a service.
THEOREM OrderIndependent == FairSpec_s => []OrderDoesNotMatter
<1>1. EnvIInv => OrderDoesNotMatter
  <2> SUFFICES ASSUME EnvIInv, local \notin {OldFile, Torn},
                      NEW k \in DOMAIN local \ (Bound \cap UpsKeys)
               PROVE  local[k] = IF k \in Bound THEN k ELSE Ups
    BY DEF OrderDoesNotMatter, E!OrderDoesNotMatter
  <2>1. local[k] \in E!Commands /\ k \in E!KeysOf(local[k])
    BY WholeIs DEF EnvIInv, FileFollows, WholeWith
  <2> QED  BY <2>1 DEF E!Commands, E!KeysOf
<1> QED  BY EnvInvariance, <1>1, PTL

\* Every step of the script is one that Collect allows, or changes neither an answer
\* nor the file.
LEMMA StepPromised ==
  ASSUME EnvIInv, [E!Next]_env
  PROVE  [E!Promised!Next]_<<answers, local>>
<1>1. ASSUME NEW c \in E!Commands, E!Callback(c)
      PROVE  E!Promised!Answer(c)
  BY <1>1 DEF E!Callback, E!Give, E!GiveBare, E!Fail, E!Throw, E!Answered,
              E!Promised!Answer
<1>2. CASE E!StartWriting
  <2>1. /\ node = "running" /\ \A c \in E!Commands : promise[c] = "resolved"
        /\ local' = Torn /\ UNCHANGED answers
    BY <1>2 DEF E!StartWriting
  <2> QED  BY <2>1 DEF EnvIInv, ResolvedAnswered, FileFollows, E!Promised!Open,
                       E!Promised!Next
<1>3. CASE E!FinishWriting
  <2>1. node = "writing" /\ local' = object /\ UNCHANGED answers
    BY <1>3 DEF E!FinishWriting
  <2>2. local = Torn /\ E!Promised!Whole(object) /\ object # Torn
    BY <2>1, ScriptsAssumption DEF EnvIInv, FileFollows, ObjectsOK
  <2>3. E!Promised!Whole(local')
    BY <2>1, <2>2, WholeIs
  <2> QED  BY <2>1, <2>2, <2>3 DEF E!Promised!Write, E!Promised!Next
<1>4. CASE E!Exit \/ E!WriteFails \/ E!Kill \/ UNCHANGED env
  BY <1>4 DEF E!Exit, E!WriteFails, E!Kill, env
<1> QED  BY <1>1, <1>2, <1>3, <1>4 DEF E!Next, E!Own, E!Promised!Next

\* env.js keeps the promise of Collect: one write, of everything that was given, after
\* the last of the answers, and none if an answer was an error.
THEOREM Collecting == FairSpec_s => CollectSpec
<1>1. Init_s => E!Promised!Init
  BY DEF Init_s, E!Init, E!Promised!Init
<1>2. EnvIInv /\ [E!Next]_env => [E!Promised!Next]_<<answers, local>>
  BY StepPromised
<1> QED  BY <1>1, <1>2, EnvInvariance, StandStill, PTL
         DEF FairSpec_s, CollectSpec, E!CollectSpec, E!Promised!Spec
-----------------------------------------------------------------------------
(* Types: create_user_provided_service.sh, env.js and rm_psql.sh           *)

\* create_user_provided_service.sh: lines are only written by runs, and counted.
LEMMA CupsTypesKept ==
  ASSUME CupsIInv, U!TypeOK, [U!Next]_cups
  PROVE  U!TypeOK'
<1>0. \A r \in Runs : U!Own(r) \in Seq(U!Line) /\ U!File(r) \in Seq(U!Line)
  <2>1. \A r \in Runs : U!Own(r) \in [1..Lines -> U!Line]
    BY DEF U!Own, U!Line
  <2>2. \A r \in Runs : U!Own(r) \in Seq(U!Line)
    BY <2>1, ThreeLines
  <2> QED  BY <2>2 DEF U!TypeOK, U!File
<1>1. CASE UNCHANGED cups
  BY <1>1 DEF cups, U!TypeOK
<1>2. ASSUME NEW r \in Runs, U!Fault(r), UNCHANGED <<creds, ups, similar, written, overlapped>>,
             cupsStep' \in [Runs -> U!Steps]
      PROVE  U!TypeOK'
  BY <1>2, Bounds DEF U!TypeOK, U!Fault
<1>3. ASSUME NEW r \in Runs, NEW from, NEW to \in U!Steps, U!Go(r, from, to)
      PROVE  cupsStep' \in [Runs -> U!Steps]
  BY <1>3 DEF U!TypeOK, U!Go
<1>4. ASSUME NEW r \in Runs, U!Kill(r) \/ U!ListFails(r) \/ U!UploadFails(r)
      PROVE  U!TypeOK'
  <2>1. cupsStep' \in [Runs -> U!Steps]
    BY <1>4 DEF U!Kill, U!ListFails, U!UploadFails, U!Go, U!TypeOK, U!Steps
  <2> QED  BY <1>2, <1>4, <2>1 DEF U!Kill, U!ListFails, U!UploadFails
<1>5. ASSUME NEW r \in Runs, U!Start(r) \/ U!Remove(r) \/ U!List(r) \/ U!Cleanup(r)
      PROVE  U!TypeOK'
  <2>1. cupsStep' \in [Runs -> U!Steps]
    BY <1>5 DEF U!Start, U!Remove, U!List, U!Cleanup, U!Go, U!TypeOK, U!Steps
  <2>2. /\ creds' \in {creds, <<>>} /\ overlapped' \subseteq overlapped \cup U!Active \cup {r}
        /\ UNCHANGED <<ups, similar, written, undisturbed, cupsFaults>>
    BY <1>5 DEF U!Start, U!Remove, U!List, U!Cleanup
  <2>3. creds' \in Seq(U!Line)
    <3>1. creds \in Seq(U!Line) /\ <<>> \in Seq(U!Line)
      BY DEF U!TypeOK
    <3> QED  BY <2>2, <3>1
  <2>4. overlapped' \subseteq Runs
    BY <2>2 DEF U!TypeOK, U!Active
  <2> QED  BY <2>1, <2>2, <2>3, <2>4 DEF U!TypeOK
<1>6. ASSUME NEW r \in Runs, U!Create(r) \/ U!Update(r)
      PROVE  U!TypeOK'
  <2>1. cupsStep' \in [Runs -> U!Steps]
    BY <1>6 DEF U!Create, U!Update, U!Upload, U!Go, U!TypeOK, U!Steps
  <2>2. /\ ups' \in {ups, U!File(r)}
        /\ UNCHANGED <<creds, similar, written, overlapped, undisturbed, cupsFaults>>
    BY <1>6 DEF U!Create, U!Update, U!Upload
  <2> QED  BY <1>0, <2>1, <2>2 DEF U!TypeOK
<1>7. ASSUME NEW r \in Runs, U!Write(r)
      PROVE  U!TypeOK'
  <2>1. cupsStep' \in [Runs -> U!Steps] /\ cupsStep[r] = "write"
    BY <1>7 DEF U!Write, U!Go, U!TypeOK, U!Steps
  <2>2. written[r] \in Nat /\ written[r] < Lines
    BY <2>1, ThreeLines DEF CupsIInv, CupsProgress, U!TypeOK
  <2> DEFINE line == <<r, written[r] + 1>>
  <2>3. line \in U!Line
    BY <2>2, ThreeLines DEF U!Line
  <2>4. written' \in [Runs -> 0..Lines]
    BY <1>7, <2>2, ThreeLines DEF U!Write, U!TypeOK
  <2>5. /\ creds' = (IF written[r] = 0 THEN <<>> ELSE creds) \o <<line>>
        /\ UNCHANGED <<ups, similar, overlapped, undisturbed, cupsFaults>>
    BY <1>7 DEF U!Write
  <2> HIDE DEF line
  <2>6. <<line>> \in Seq(U!Line)
    BY <2>3
  <2>7. creds' \in Seq(U!Line)
    <3>1. creds \in Seq(U!Line) /\ <<>> \in Seq(U!Line)
      BY DEF U!TypeOK
    <3>2. \A s \in Seq(U!Line) : s \o <<line>> \in Seq(U!Line)
      BY <2>6
    <3> QED  BY <2>5, <3>1, <3>2
  <2> QED  BY <2>1, <2>4, <2>5, <2>7 DEF U!TypeOK
<1> QED  BY <1>1, <1>4, <1>5, <1>6, <1>7 DEF U!Next

LEMMA CupsTypesOK == FairSpec_s => []U!TypeOK
<1>1. Init_s => U!TypeOK
  BY Bounds, ThreeLines DEF Init_s, U!Init, U!TypeOK, U!Steps
<1>2. CupsIInv /\ U!TypeOK /\ [U!Next]_cups => U!TypeOK'
  BY CupsTypesKept
<1> QED  BY <1>1, <1>2, CupsInvariance, StandStill, PTL DEF FairSpec_s

\* env.js: what Whole says of a file makes it an object.
LEMMA EnvTypesOK == FairSpec_s => []E!TypeOK
<1> DEFINE Rest == /\ node \in {"running", "writing", "exited", "threw", "killed"}
                   /\ envFaults \in 0..MaxFaults
<1>1. Init_s => Rest
  BY Bounds DEF Init_s, E!Init
<1>2. Rest /\ [E!Next]_env => Rest'
  <2> SUFFICES ASSUME Rest, [E!Next]_env PROVE Rest'
    OBVIOUS
  <2>1. CASE \E c \in E!Commands : E!Callback(c)
    <3>1. PICK c \in E!Commands : E!Give(c) \/ E!GiveBare(c) \/ E!Fail(c) \/ E!Throw(c)
      BY <2>1 DEF E!Callback
    <3>2. node' \in {node, "threw"} /\ envFaults' \in {envFaults, envFaults + 1}
          /\ (envFaults' = envFaults \/ envFaults < MaxFaults)
      BY <3>1 DEF E!Give, E!GiveBare, E!Fail, E!Throw, E!Answered
    <3> QED  BY <3>2, Bounds
  <2>2. CASE E!StartWriting \/ E!FinishWriting \/ E!Exit \/ UNCHANGED env
    BY <2>2 DEF E!StartWriting, E!FinishWriting, E!Exit, env
  <2>3. CASE E!WriteFails \/ E!Kill
    BY <2>3, Bounds DEF E!WriteFails, E!Kill
  <2> QED  BY <2>1, <2>2, <2>3 DEF E!Next, E!Own
<1>3. EnvIInv => E!IsObject(store) /\ E!IsObject(object)
  BY DEF EnvIInv, ObjectsOK, Objects, E!IsObject
<1>4. EnvIInv => local \in {OldFile, Torn} \/ E!IsObject(local)
  <2> SUFFICES ASSUME EnvIInv, local \notin {OldFile, Torn} PROVE E!IsObject(local)
    OBVIOUS
  <2>1. WholeWith(local, answers)
    BY WholeIs DEF EnvIInv, FileFollows
  <2> QED  BY <2>1, KeysAreKeys DEF WholeWith, E!IsObject
<1>5. EnvIInv /\ Rest => E!TypeOK
  BY <1>3, <1>4 DEF EnvIInv, AnswersOK, E!TypeOK
<1> QED  BY <1>1, <1>2, <1>5, EnvInvariance, StandStill, PTL DEF FairSpec_s

\* rm_psql.sh: NOW does not get further than one interval after TIMEOUT.
LEMMA RmTypesOK == FairSpec_s => []R!TypeOK
<1> DEFINE Polling == rmStep \in {"decide", "remove"} => now <= Timeout
<1>1. Init_s => R!TypeOK /\ Polling
  BY Bounds DEF Init_s, R!Init, R!TypeOK, R!States
<1>2. R!TypeOK /\ Polling /\ [R!Next]_rm => R!TypeOK' /\ Polling'
  <2> SUFFICES ASSUME R!TypeOK, Polling, [R!Next]_rm PROVE R!TypeOK' /\ Polling'
    OBVIOUS
  <2>0. now \in Nat /\ Timeout \in Nat
    BY Bounds DEF R!TypeOK
  <2>1. CASE R!Inspect \/ R!InspectFails \/ R!GiveUp
    BY <2>0, <2>1, Bounds DEF R!TypeOK, R!Inspect, R!InspectFails, R!GiveUp, R!Go, R!States
  <2>2. CASE R!Lost \/ R!Found
    BY <2>0, <2>2, Bounds DEF R!TypeOK, R!Lost, R!Found, R!Go
  <2>3. CASE R!Again
    BY <2>0, <2>3, Bounds DEF R!TypeOK, R!Again, R!Go
  <2>4. CASE R!Remove
    BY <2>0, <2>4, Bounds DEF R!TypeOK, R!Remove, R!Go, R!States
  <2>5. CASE R!Lives \/ R!Tick \/ UNCHANGED rm
    BY <2>0, <2>5, Bounds DEF R!TypeOK, R!Lives, R!Tick, R!States, rm
  <2> QED  BY <2>1, <2>2, <2>3, <2>4, <2>5 DEF R!Next, R!Script
<1> QED  BY <1>1, <1>2, StandStill, PTL DEF FairSpec_s
-----------------------------------------------------------------------------
(* read_properties.sh                                                      *)

\* What lies between two = of a line.
PropFields == {key, hostkey, text}

LEMMA FoundRanks ==
  ASSUME properties \in Seq(P!FileLines), NEW n
  PROVE  /\ IsFiniteSet(P!Found(n)) /\ P!Found(n) \subseteq 1..Len(properties)
         /\ P!Cardinality(P!Found(n)) = Cardinality(P!Found(n))
         /\ Cardinality(P!Found(n)) \in 0..Len(properties)
         /\ \A i : P!Nth(P!Found(n), i) = Rank(P!Found(n), i)
<1>1. \A S : P!Cardinality(S) = Cardinality(S)
  BY Zenon DEF P!Cardinality, Cardinality
<1>2. P!Found(n) \subseteq 1..Len(properties)
  BY DEF P!Found
<1>3. Len(properties) \in Nat
  OBVIOUS
<1>4. IsFiniteSet(1..Len(properties)) /\ Cardinality(1..Len(properties)) = Len(properties)
  BY <1>3, FS_Interval
<1>5. /\ IsFiniteSet(P!Found(n))
      /\ Cardinality(P!Found(n)) <= Cardinality(1..Len(properties))
  BY <1>2, <1>4, FS_Subset
<1>6. Cardinality(P!Found(n)) \in Nat
  BY <1>5, FS_CardinalityType
<1>7. \A i : P!Nth(P!Found(n), i) = Rank(P!Found(n), i)
  BY <1>1, Zenon DEF P!Nth, Rank
<1> QED  BY <1>1, <1>2, <1>3, <1>4, <1>5, <1>6, <1>7

\* The line with number k, among those that grep lets through.
LEMMA LineOfRank ==
  ASSUME properties \in Seq(P!FileLines), NEW n, NEW i \in P!Found(n)
  PROVE  /\ P!Nth(P!Found(n), i) \in 1..Cardinality(P!Found(n))
         /\ (CHOOSE j \in P!Found(n) : P!Nth(P!Found(n), j) = P!Nth(P!Found(n), i)) = i
<1>1. P!Found(n) \subseteq Nat
  BY FoundRanks
<1>2. \A j \in P!Found(n) : Rank(P!Found(n), j) \in 1..Cardinality(P!Found(n))
  BY <1>1, FoundRanks, RankBounds
<1>3. \A j \in P!Found(n) : Rank(P!Found(n), j) = Rank(P!Found(n), i) => j = i
  BY <1>1, FoundRanks, RankInjective
<1> QED  BY <1>2, <1>3, FoundRanks, Zenon

LEMMA CutIsField == \A l \in P!FileLines : P!cut(l) \in PropFields
BY DEF P!FileLines, P!cut, PropFields

LEMMA LinesAreLines ==
  ASSUME properties \in Seq(P!FileLines), NEW i \in 1..Len(properties)
  PROVE  properties[i] \in P!FileLines
OBVIOUS

\* The reader only reads; the pipelines only add lines.
LEMMA PropsTypesOK == FairSpec_s => []P!TypeOK
<1>1. Init_s => P!TypeOK
  BY Bounds DEF Init_s, P!Init, P!TypeOK
<1>2. P!TypeOK /\ [P!Next]_props => P!TypeOK'
  <2> SUFFICES ASSUME P!TypeOK, [P!Next]_props PROVE P!TypeOK'
    OBVIOUS
  <2>0. properties \in Seq(P!FileLines) /\ Len(properties) <= MaxLines
    BY DEF P!TypeOK
  <2>1. ASSUME NEW n \in {key, hostkey}, P!Read(n) PROVE P!TypeOK'
    <3> DEFINE last == Cardinality(P!Found(n))
               out(k) == P!cut(properties[CHOOSE i \in P!Found(n) : P!Nth(P!Found(n), i) = k])
    <3>1. /\ last \in 0..Len(properties)
          /\ printed' = [k \in 1..last |-> out(k)]
          /\ asked' = n /\ UNCHANGED properties
      BY <2>0, <2>1, FoundRanks DEF P!Read, P!getProperty
    <3>2. \A k \in 1..last : out(k) \in PropFields
      <4> SUFFICES ASSUME NEW k \in 1..last PROVE out(k) \in PropFields
        OBVIOUS
      <4>1. P!Found(n) \subseteq Nat /\ P!Found(n) \subseteq 1..Len(properties)
        BY <2>0, FoundRanks
      <4>2. \E i \in P!Found(n) : P!Nth(P!Found(n), i) = k
        BY <2>0, <4>1, FoundRanks, RankOnto
      <4>3. (CHOOSE i \in P!Found(n) : P!Nth(P!Found(n), i) = k) \in 1..Len(properties)
        BY <4>1, <4>2, Zenon
      <4> QED  BY <2>0, <4>3, LinesAreLines, CutIsField, Zenon
    <3> HIDE DEF last, out
    <3>3. printed' \in Seq(PropFields) /\ Len(printed') = last
      BY <3>1, <3>2
    <3> QED  BY <2>0, <3>1, <3>3, Bounds DEF P!TypeOK, PropFields
  <2>2. ASSUME NEW l \in P!FileLines, P!AppendLine(l) PROVE P!TypeOK'
    BY <2>0, <2>2, Bounds DEF P!TypeOK, P!AppendLine
  <2>3. CASE UNCHANGED props
    BY <2>3 DEF props, P!TypeOK
  <2> QED  BY <2>1, <2>2, <2>3 DEF P!Next
<1> QED  BY <1>1, <1>2, StandStill, PTL DEF FairSpec_s

\* read_properties.sh: no definition of the name is overlooked, in a file of any length.
THEOREM NoDefinitionOverlooked == FairSpec_s => DefinitionsPrinted
<1> DEFINE All == /\ \A i \in P!Defined(asked') :
                       \E k \in DOMAIN printed' : printed'[k] = properties[i][2]
                  /\ P!Mentioned(asked') = {} => printed' = <<>>
<1>1. P!TypeOK /\ [P!Next]_props => [P!Reads => All]_P!vars
  <2> SUFFICES ASSUME P!TypeOK, P!Next, UNCHANGED properties PROVE All
    BY DEF P!vars, props, P!Reads
  <2>0. properties \in Seq(P!FileLines) /\ Len(properties) \in Nat
    BY DEF P!TypeOK
  <2>1. ASSUME NEW l \in P!FileLines, P!AppendLine(l) PROVE FALSE
    BY <2>0, <2>1 DEF P!AppendLine
  <2>2. PICK n \in {key, hostkey} : P!Read(n)
    BY <2>1 DEF P!Next
  <2> DEFINE found == P!Found(n)
  <2>3. asked' = n /\ printed' = [k \in 1..Cardinality(found) |->
          P!cut(properties[CHOOSE i \in found : P!Nth(found, i) = k])]
    BY <2>0, <2>2, FoundRanks DEF P!Read, P!getProperty
  <2>4. ASSUME NEW i \in P!Defined(n)
        PROVE  \E k \in DOMAIN printed' : printed'[k] = properties[i][2]
    <3>1. /\ i \in DOMAIN properties /\ Len(properties[i]) > 1 /\ properties[i][1] = n
      BY DEF P!Defined
    <3>2. 1 \in DOMAIN properties[i]
      BY <2>0, <3>1, LinesAreLines DEF P!FileLines
    <3>3. i \in found
      BY <3>1, <3>2 DEF P!Found, P!grep, KeyInHostkey
    <3>4. /\ P!Nth(found, i) \in 1..Cardinality(found)
          /\ (CHOOSE j \in found : P!Nth(found, j) = P!Nth(found, i)) = i
      BY <2>0, <3>3, LineOfRank
    <3>5. P!cut(properties[i]) = properties[i][2]
      BY <3>1 DEF P!cut
    <3> HIDE DEF found
    <3> QED  BY <2>3, <3>4, <3>5
  <2>5. ASSUME P!Mentioned(n) = {} PROVE printed' = <<>>
    <3>1. found = {}
      BY <2>5 DEF P!Mentioned, P!Found, P!grep
    <3>2. Cardinality(found) = 0
      BY <3>1, FS_EmptySet
    <3> QED  BY <2>3, <3>2
  <2> QED  BY <2>3, <2>4, <2>5
<1> QED  BY <1>1, PropsTypesOK, StandStill, PTL DEF FairSpec_s, DefinitionsPrinted, P!DefinitionsPrinted
-----------------------------------------------------------------------------
(* gen_geo_etl.awk                                                         *)

LEMMA NamesFilled ==
  ASSUME NEW table, NEW k, NEW v
  PROVE  /\ G!Full(table, k, v) = IF k \in DOMAIN table THEN table[k] ELSE G!Null
         /\ G!Full(table, k, v) \in G!Names(table)
BY DEF G!Full, G!Names

LEMMA FieldsFilled ==
  ASSUME NEW r \in G!Records
  PROVE  /\ G!OrNull(r.ST_TYPE) \in G!Filled /\ G!OrNull(G!ST_DIR(r)) \in G!Filled
         /\ G!OrNull(G!ROUTE(r)) \in G!Filled
         /\ G!OrNull(G!Number(r.no)) \in {G!Null} \cup (G!Digits \cap Numbers)
<1>1. r.ST_TYPE \in Types /\ r.dir \in Directions /\ r.route \in Routes /\ r.no \in Numbers
  BY DEF G!Records
<1> QED  BY <1>1 DEF G!OrNull, G!Filled, G!ST_DIR, G!ROUTE, G!Number

\* The row that is printed for a record.
LEMMA NewRow ==
  ASSUME NEW r \in G!Records, G!Main(r), ~G!Skipped(r)
  PROVE  \E row \in G!Row : rows' = Append(rows, row) /\ G!Describes(row, r)
<1> DEFINE row == [province |-> PROV_FULL',
              type |-> G!OrNull(r.ST_TYPE), typeFull |-> ST_TYPE_FULL',
              dir |-> G!OrNull(G!ST_DIR(r)), dirFull |-> ST_DIR_FULL',
              no |-> G!OrNull(G!Number(r.no)), route |-> G!OrNull(G!ROUTE(r))]
<1>1. /\ rows' = Append(rows, row)
      /\ PROV_FULL' = G!Full(G!ProvinceNames, r.PROV_ABBR, PROV_FULL)
      /\ ST_TYPE_FULL' = G!Full(G!StreetTypeNames, r.ST_TYPE, ST_TYPE_FULL)
      /\ ST_DIR_FULL' = G!Full(G!DirectionNames(r.PROV_ABBR), G!ST_DIR(r), ST_DIR_FULL)
  BY Zenon DEF G!Main, G!getFullProv, G!getFullStreetType, G!getFullStreetDir
<1>2. /\ PROV_FULL' \in G!Names(G!ProvinceNames)
      /\ ST_TYPE_FULL' \in G!Names(G!StreetTypeNames)
      /\ ST_DIR_FULL' \in G!Names(G!DirectionNames(r.PROV_ABBR))
  BY <1>1, NamesFilled
<1>3. ST_DIR_FULL' \in G!Names(G!DirectionNames("QC")) \cup G!Names(G!DirectionNames("ON"))
  <2>1. r.PROV_ABBR # "QC" => G!DirectionNames(r.PROV_ABBR) = G!DirectionNames("ON")
    BY DEF G!DirectionNames
  <2> QED  BY <1>2, <2>1
<1>4. row \in G!Row
  BY <1>2, <1>3, FieldsFilled DEF G!Row
<1>5. PROV_FULL' = G!Null <=> r.PROV_ABBR \notin DOMAIN G!ProvinceNames
  BY <1>1, NamesFilled DEF G!ProvinceNames, G!Null
<1>6. ST_TYPE_FULL' # G!Null <=> r.ST_TYPE \in DOMAIN G!StreetTypeNames
  BY <1>1, NamesFilled DEF G!StreetTypeNames, G!Null
<1> DEFINE street == r.REC_TYPE \in {"1", "2"} /\ r.dir \in DOMAIN G!DirectionNames("QC")
           lang == IF r.PROV_ABBR = "QC" THEN "QC" ELSE "ON"
<1>7. /\ ST_DIR_FULL' # G!Null <=> street
      /\ street => ST_DIR_FULL' = G!DirectionNames(lang)[r.dir]
  BY <1>1, NamesFilled DEF G!DirectionNames, G!ST_DIR, G!Null
<1>8. LET no == G!OrNull(G!Number(r.no)) IN no # G!Null => no = r.no
  BY DEF G!OrNull, G!Number
<1>9. LET route == G!OrNull(G!ROUTE(r))
      IN  route # G!Null => r.REC_TYPE \in {"2", "4"} /\ route = r.route
  BY DEF G!OrNull, G!ROUTE
<1>10. G!Describes(row, r)
  BY <1>5, <1>6, <1>7, <1>8, <1>9 DEF G!Describes
<1> QED  BY <1>1, <1>4, <1>10

LEMMA MainKeeps ==
  ASSUME NEW r \in G!Records, G!Main(r)
  PROVE  /\ Len(records) < MaxRecords /\ records' = Append(records, r)
         /\ G!Skipped(r) => rows' = rows
         /\ UNCHANGED phase
BY DEF G!Main

LEMMA AwkTypesOK == FairSpec_s => []G!TypeOK
<1>1. Init_s => G!TypeOK
  <2>1. <<>> \in Seq(G!Records) /\ <<>> \in Seq(G!Row)
    OBVIOUS
  <2>2. Len(<<>>) <= MaxRecords
    BY Bounds
  <2> QED  BY <2>1, <2>2 DEF Init_s, G!Init, G!TypeOK
<1>2. G!TypeOK /\ [G!Next]_awk => G!TypeOK'
  <2> SUFFICES ASSUME G!TypeOK, [G!Next]_awk PROVE G!TypeOK'
    OBVIOUS
  <2>1. ASSUME NEW r \in G!Records, G!Main(r) PROVE G!TypeOK'
    <3>1. records' \in Seq(G!Records) /\ Len(records') <= MaxRecords
      BY <2>1, MainKeeps, Bounds DEF G!TypeOK
    <3>2. rows' \in Seq(G!Row)
      BY <2>1, MainKeeps, NewRow DEF G!TypeOK
    <3> QED  BY <2>1, <3>1, <3>2, MainKeeps DEF G!TypeOK
  <2>2. CASE G!End \/ UNCHANGED awk
    BY <2>2 DEF G!TypeOK, G!End, awk
  <2> QED  BY <2>1, <2>2 DEF G!Next
<1> QED  BY <1>1, <1>2, StandStill, PTL DEF FairSpec_s

LEMMA CardOfKept == G!Cardinality(G!Kept) = Cardinality(G!Kept)
                    /\ \A i : G!RowOf(i) = Rank(G!Kept, i)
<1>1. \A S : G!Cardinality(S) = Cardinality(S)
  BY Zenon DEF G!Cardinality, Cardinality
<1> QED  BY <1>1, Zenon DEF G!RowOf, Rank

LEMMA KeptFinite ==
  ASSUME records \in Seq(G!Records)
  PROVE  /\ IsFiniteSet(G!Kept) /\ Cardinality(G!Kept) \in Nat
         /\ G!Kept \subseteq 1..Len(records) /\ G!Kept \subseteq Nat
         /\ \A i \in G!Kept : Rank(G!Kept, i) \in 1..Cardinality(G!Kept)
<1>1. G!Kept \subseteq 1..Len(records) /\ Len(records) \in Nat
  BY DEF G!Kept
<1>2. IsFiniteSet(1..Len(records))
  BY <1>1, FS_Interval
<1>3. IsFiniteSet(G!Kept)
  BY <1>1, <1>2, FS_Subset
<1>4. G!Kept \subseteq Nat
  BY <1>1
<1> QED  BY <1>1, <1>3, <1>4, FS_CardinalityType, RankBounds, Zenon

\* A record that was skipped moves no row.
LEMMA SkippedRows ==
  ASSUME G!TypeOK, G!RowsDescribeRecords, NEW r \in G!Records, G!Main(r), G!Skipped(r)
  PROVE  G!RowsDescribeRecords'
<1>1. records \in Seq(G!Records) /\ records' = Append(records, r) /\ rows' = rows
  BY MainKeeps DEF G!TypeOK
<1>2. G!Kept' = G!Kept
  BY <1>1 DEF G!Kept, G!Skipped
<1>3. \A i \in G!Kept : records'[i] = records[i]
  BY <1>1, KeptFinite
<1>4. G!Cardinality(G!Kept)' = G!Cardinality(G!Kept) /\ \A i : G!RowOf(i)' = G!RowOf(i)
  BY <1>2, Zenon DEF G!RowOf
<1> QED  BY <1>1, <1>2, <1>3, <1>4, Zenon DEF G!RowsDescribeRecords

\* The row of a record that was not is the last one, and the others stay where they were.
LEMMA AnotherRow ==
  ASSUME G!TypeOK, G!RowsDescribeRecords, NEW r \in G!Records, G!Main(r), ~G!Skipped(r)
  PROVE  G!RowsDescribeRecords'
<1> DEFINE n == Len(records) + 1
           kept == G!Kept
<1>1. /\ records \in Seq(G!Records) /\ records' = Append(records, r)
      /\ rows \in Seq(G!Row) /\ n \in Nat
  BY MainKeeps DEF G!TypeOK
<1>2. PICK row \in G!Row : rows' = Append(rows, row) /\ G!Describes(row, r)
  BY NewRow
<1>3. G!Kept' = kept \cup {n} /\ n \notin kept
  BY <1>1 DEF G!Kept, G!Skipped
<1>4. \A i \in kept : records'[i] = records[i] /\ i < n /\ i \in Nat
  BY <1>1, KeptFinite
<1>5. records'[n] = r
  BY <1>1
<1>6. /\ IsFiniteSet(kept) /\ Cardinality(kept) = Len(rows)
      /\ \A i \in kept : /\ Rank(kept, i) \in 1..Len(rows)
                         /\ G!Describes(rows[Rank(kept, i)], records[i])
  BY <1>1, KeptFinite, CardOfKept DEF G!RowsDescribeRecords
<1>7. G!Cardinality(G!Kept)' = Cardinality(kept \cup {n})
      /\ \A i : G!RowOf(i)' = Rank(kept \cup {n}, i)
  <2>1. \A S : G!Cardinality(S) = Cardinality(S)
    BY Zenon DEF G!Cardinality, Cardinality
  <2> QED  BY <1>3, <2>1, Zenon DEF G!RowOf, Rank
<1>8. Cardinality(kept \cup {n}) = Len(rows) + 1
  BY <1>3, <1>6, FS_AddElement
<1>9. \A i \in kept : Rank(kept \cup {n}, i) = Rank(kept, i)
  <2> SUFFICES ASSUME NEW i \in kept
               PROVE  {j \in kept \cup {n} : j <= i} = {j \in kept : j <= i}
    BY Zenon DEF Rank
  <2>1. ~(n <= i)
    BY <1>1, <1>4
  <2> QED  BY <2>1
<1>10. Rank(kept \cup {n}, n) = Len(rows) + 1
  <2>1. \A j \in kept \cup {n} : j <= n
    BY <1>1, <1>4
  <2>2. {j \in kept \cup {n} : j <= n} = kept \cup {n}
    BY <2>1
  <2> QED  BY <1>8, <2>2, Zenon DEF Rank
<1> HIDE DEF n, kept
<1>11. /\ Len(rows') = Len(rows) + 1 /\ rows'[Len(rows) + 1] = row
       /\ \A k \in 1..Len(rows) : rows'[k] = rows[k]
  BY <1>1, <1>2
<1>12. \A i \in kept : G!Describes(rows'[Rank(kept \cup {n}, i)], records'[i])
  BY <1>4, <1>6, <1>9, <1>11, Zenon
<1>13. G!Describes(rows'[Rank(kept \cup {n}, n)], records'[n])
  BY <1>2, <1>5, <1>10, <1>11, Zenon
<1>14. \A i \in G!Kept' : G!Describes(rows'[G!RowOf(i)'], records'[i])
  BY <1>3, <1>7, <1>12, <1>13, Zenon
<1>15. Len(rows') = G!Cardinality(G!Kept)'
  BY <1>7, <1>8, <1>11, Zenon
<1> QED  BY <1>14, <1>15, Zenon DEF G!RowsDescribeRecords

\* gen_geo_etl.awk: one row for each record that is kept, in order, and nothing of
\* another record in it, however long the file is.
THEOREM RowsAreRecords == FairSpec_s => []RowsDescribeRecords
<1>1. Init_s => G!RowsDescribeRecords
  <2> SUFFICES ASSUME Init_s PROVE G!RowsDescribeRecords
    OBVIOUS
  <2>1. records = <<>> /\ rows = <<>>
    BY DEF Init_s, G!Init
  <2>2. G!Kept = {}
    BY <2>1 DEF G!Kept
  <2>3. Cardinality(G!Kept) = 0
    BY <2>2, FS_EmptySet
  <2>4. Len(rows) = G!Cardinality(G!Kept)
    BY <2>1, <2>3, CardOfKept
  <2> QED  BY <2>2, <2>4 DEF G!RowsDescribeRecords
<1>2. G!TypeOK /\ G!RowsDescribeRecords /\ [G!Next]_awk => G!RowsDescribeRecords'
  <2>1. CASE UNCHANGED awk \/ G!End
    <3>1. UNCHANGED <<records, rows>>
      BY <2>1 DEF awk, G!End
    <3>2. G!Kept' = G!Kept
      BY <3>1 DEF G!Kept
    <3> QED  BY <3>1, <3>2, Zenon DEF G!RowsDescribeRecords, G!RowOf
  <2> QED  BY <2>1, SkippedRows, AnotherRow DEF G!Next
<1> QED  BY <1>1, <1>2, AwkTypesOK, StandStill, PTL DEF FairSpec_s, RowsDescribeRecords
-----------------------------------------------------------------------------

\* What is proved of one-time-setup.js and create-services.sh holds of the specification
\* that puts all scripts side by side: exit status 0 means a key, and no service is left out.
THEOREM ProvisioningHolds == FairSpec_s => [](ExitZeroMeansKey /\ ShellCreatesAll)
BY ProvisionSpec, ZeroMeansKey, NoServiceLeftOut, PTL

\* The states of all scripts, whichever of them is run and whatever fails.
THEOREM ScriptsTypesCorrect == FairSpec_s => []ScriptsTypeOK
BY ProvisionSpec, TypeCorrect, CupsTypesOK, EnvTypesOK, RmTypesOK, PropsTypesOK, AwkTypesOK,
   PTL DEF ScriptsTypeOK
=============================================================================
