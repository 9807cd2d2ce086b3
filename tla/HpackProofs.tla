---------------------------- MODULE HpackProofs ----------------------------
(***************************************************************************)
(* Machine-checked proofs about header blocks.  HpackTable: its operations *)
(* keep the table sound for every table, every line and every size.        *)
(* HpackCodec: what is written is read back, for every prefix code, every  *)
(* string and every integer.                                               *)
(*                                                                         *)
(* The recursions go over the lines of a table, the groups of an integer,  *)
(* the symbols of a string and the bits of its code; induction is done with*)
(* sets of naturals.                                                       *)
(***************************************************************************)
EXTENDS HpackTable, HpackCodec, SequenceTheorems, FiniteSetTheorems, WellFoundedInduction, TLAPS

\* Every set of naturals that is not empty has a least element.
LEMMA Smallest ==
  ASSUME NEW T, T \subseteq Nat, T # {}
  PROVE  \E m \in T : \A k \in T : m <= k
<1> DEFINE Less == {p \in Nat \X Nat : p[1] < p[2]}
<1>1. IsWellFoundedOn(Less, Nat)
  <2>1. Less = OpToRel(<, Nat)
    BY DEF OpToRel
  <2> QED BY <2>1, NatLessThanWellFounded
<1>2. PICK m \in T : \A k \in T : <<k, m>> \notin Less
  <2> HIDE DEF Less
  <2> QED BY <1>1, WFMin
<1>3. ASSUME NEW k \in T PROVE m <= k
  <2>1. k \in Nat /\ m \in Nat
    OBVIOUS
  <2>2. k < m => <<k, m>> \in Less
    BY <2>1
  <2> QED BY <1>2, <2>1, <2>2
<1> QED BY <1>3

\* Induction over the naturals, for a set.
LEMMA Induction ==
  ASSUME NEW S, 0 \in S, \A n \in Nat : n \in S => n + 1 \in S
  PROVE  Nat \subseteq S
<1> SUFFICES ASSUME ~(Nat \subseteq S) PROVE FALSE
  OBVIOUS
<1> DEFINE T == Nat \ S
<1>1. PICK m \in T : \A k \in T : m <= k
  BY Smallest
<1>2. m - 1 \in Nat /\ m - 1 \notin T
  BY <1>1
<1> QED BY <1>1, <1>2

\* Positions of the lines of a field.
Positions(t, f) == {j \in 1..size(t) : t.entries[j][1] = f}

\* A table is a record of these fields, with the types they have.
TableShape(t) ==
  /\ DOMAIN t = {"entries", "values", "fields", "max_size"}
  /\ t.entries \in Seq({t.entries[i] : i \in DOMAIN t.entries})
  /\ \A e \in DOMAIN t.values : t.values[e] \in Nat /\ e[2] # NoValue
  /\ \A f \in DOMAIN t.fields : t.fields[f] \in [index : Nat, count : Nat]
  /\ t.max_size \in Nat

\* TableSound without its bound on the size (hpack.h:84-169).
Agrees(t) ==
  /\ \A e \in DOMAIN t.values : t.values[e] < size(t) /\ Line(t, t.values[e]) = e
  /\ \A f \in DOMAIN t.fields :
       /\ t.fields[f].index < size(t) /\ Line(t, t.fields[f].index)[1] = f
       /\ \A i \in 0..(t.fields[f].index - 1) : Line(t, i)[1] # f
  /\ \A i \in 1..size(t) :
       LET f == t.entries[i][1] IN
       /\ f \in DOMAIN t.fields
       /\ t.fields[f].count = Cardinality(Positions(t, f))

\* TableSound is agreement and the bound.
LEMMA AgreesSound ==
  ASSUME NEW t
  PROVE TableSound(t) <=> Agrees(t) /\ size(t) <= (IF t.max_size = 0 THEN 1 ELSE t.max_size)
  BY DEF TableSound, Agrees, Positions

\* A table has a natural number of lines.
LEMMA ShapeSize ==
  ASSUME NEW t, TableShape(t)
  PROVE  size(t) \in Nat /\ DOMAIN t.entries = 1..size(t)
  BY LenProperties DEF TableShape, size

\* The lines of a field are finitely many.
LEMMA PositionsFinite ==
  ASSUME NEW t, TableShape(t), NEW f
  PROVE  IsFiniteSet(Positions(t, f)) /\ Cardinality(Positions(t, f)) \in Nat
<1>1. size(t) \in Nat
  BY ShapeSize
<1>2. IsFiniteSet(1..size(t))
  BY <1>1, FS_Interval
<1>3. Positions(t, f) \subseteq 1..size(t)
  BY DEF Positions
<1> QED
  BY <1>2, <1>3, FS_Subset, FS_CardinalityType

\* What push_back does to the lines and the two maps.
LEMMA PushBackShape ==
  ASSUME NEW t, TableShape(t), NEW e
  PROVE  LET u == push_back(t, e) IN
         /\ TableShape(u)
         /\ size(u) = size(t) + 1
         /\ u.max_size = t.max_size
         /\ \A i \in 1..size(t) : u.entries[i] = t.entries[i]
         /\ u.entries[size(t) + 1] = e
         /\ u.values = IF e[2] = NoValue THEN t.values ELSE MapInsert(t.values, e, size(t))
         /\ u.fields = IF e[1] \in DOMAIN t.fields THEN Counted(t.fields, e[1], 1)
                       ELSE MapInsert(t.fields, e[1], [index |-> size(t), count |-> 1])
<1> DEFINE S == {t.entries[i] : i \in DOMAIN t.entries}
<1> DEFINE u == push_back(t, e)
<1>1. /\ u.entries = Append(t.entries, e)
      /\ u.values = IF e[2] = NoValue THEN t.values ELSE MapInsert(t.values, e, size(t))
      /\ u.fields = IF e[1] \in DOMAIN t.fields THEN Counted(t.fields, e[1], 1)
                    ELSE MapInsert(t.fields, e[1], [index |-> size(t), count |-> 1])
      /\ u.max_size = t.max_size
      /\ DOMAIN u = {"entries", "values", "fields", "max_size"}
  <2>1. DOMAIN t = {"entries", "values", "fields", "max_size"}
    BY DEF TableShape
  <2> QED
    BY <2>1 DEF push_back
<1> HIDE DEF u
<1>2. t.entries \in Seq(S) /\ size(t) \in Nat
  BY ShapeSize DEF TableShape
<1>3. t.entries \in Seq(S \cup {e}) /\ e \in S \cup {e}
  BY <1>2, SeqMonotonic
<1>4. /\ u.entries \in Seq(S \cup {e}) /\ Len(u.entries) = size(t) + 1
      /\ \A i \in 1..size(t) : u.entries[i] = t.entries[i]
      /\ u.entries[size(t) + 1] = e
  BY <1>1, <1>2, <1>3, AppendProperties DEF size
<1>5. DOMAIN u.entries = 1..(size(t) + 1)
  BY <1>4, LenProperties
<1>6. u.entries \in Seq({u.entries[i] : i \in DOMAIN u.entries})
  BY <1>4, <1>5, LenProperties
<1>7. \A x \in DOMAIN u.values : u.values[x] \in Nat /\ x[2] # NoValue
  <2>1. CASE e[2] = NoValue
    BY <1>1, <2>1 DEF TableShape
  <2>2. CASE e[2] # NoValue
    <3>1. u.values = MapInsert(t.values, e, size(t))
      BY <1>1, <2>2
    <3>2. /\ DOMAIN u.values = DOMAIN t.values \cup {e}
          /\ \A x \in DOMAIN t.values : u.values[x] = t.values[x]
          /\ e \notin DOMAIN t.values => u.values[e] = size(t)
      BY <3>1 DEF MapInsert
    <3> QED
      BY <1>2, <2>2, <3>2 DEF TableShape
  <2> QED BY <2>1, <2>2
<1>8. \A x \in DOMAIN u.fields : u.fields[x] \in [index : Nat, count : Nat]
  <2> DEFINE R == [index : Nat, count : Nat]
  <2>0. \A f \in DOMAIN t.fields : t.fields[f] \in R
    BY DEF TableShape
  <2>1. CASE e[1] \in DOMAIN t.fields
    <3>1. u.fields = Counted(t.fields, e[1], 1)
      BY <1>1, <2>1
    <3>2. /\ DOMAIN u.fields = DOMAIN t.fields
          /\ \A x \in DOMAIN t.fields \ {e[1]} : u.fields[x] = t.fields[x]
          /\ u.fields[e[1]] = [index |-> t.fields[e[1]].index, count |-> t.fields[e[1]].count + 1]
      BY <2>0, <2>1, <3>1 DEF Counted
    <3>3. u.fields[e[1]] \in R
      BY <2>0, <2>1, <3>2
    <3>4. \A x \in DOMAIN u.fields : u.fields[x] \in R
      <4> HIDE DEF R
      <4> QED BY <2>0, <3>2, <3>3
    <3> QED BY <3>4
  <2>2. CASE e[1] \notin DOMAIN t.fields
    <3>1. u.fields = MapInsert(t.fields, e[1], [index |-> size(t), count |-> 1])
      BY <1>1, <2>2
    <3>2. [index |-> size(t), count |-> 1] \in R
      BY <1>2
    <3>3. /\ DOMAIN u.fields = DOMAIN t.fields \cup {e[1]}
          /\ \A x \in DOMAIN t.fields : u.fields[x] = t.fields[x]
          /\ u.fields[e[1]] = [index |-> size(t), count |-> 1]
      BY <2>2, <3>1 DEF MapInsert
    <3>4. \A x \in DOMAIN u.fields : u.fields[x] \in R
      <4> HIDE DEF R
      <4> QED BY <2>0, <3>2, <3>3
    <3> QED BY <3>4
  <2> QED BY <2>1, <2>2
<1>9. u.max_size = t.max_size /\ t.max_size \in Nat
  BY <1>1 DEF TableShape
<1>10. TableShape(u)
  BY <1>1, <1>6, <1>7, <1>8, <1>9 DEF TableShape
<1>11. size(u) = size(t) + 1
  BY <1>4 DEF size
<1> QED
  BY <1>1, <1>4, <1>10, <1>11 DEF u

\* push_back keeps the maps in agreement with the lines.
LEMMA PushBackAgrees ==
  ASSUME NEW t, TableShape(t), Agrees(t), NEW e
  PROVE  Agrees(push_back(t, e))
<1> DEFINE u == push_back(t, e)
<1> DEFINE n == size(t)
<1>1. /\ TableShape(u) /\ size(u) = n + 1
      /\ \A i \in 1..n : u.entries[i] = t.entries[i]
      /\ u.entries[n + 1] = e
      /\ u.values = IF e[2] = NoValue THEN t.values ELSE MapInsert(t.values, e, n)
      /\ u.fields = IF e[1] \in DOMAIN t.fields THEN Counted(t.fields, e[1], 1)
                    ELSE MapInsert(t.fields, e[1], [index |-> n, count |-> 1])
  BY PushBackShape
<1> HIDE DEF u
<1>2. n \in Nat
  BY ShapeSize
<1> HIDE DEF n
<1>3. /\ \A i \in 0..(n - 1) : Line(u, i) = Line(t, i)
      /\ Line(u, n) = e
  BY <1>1, <1>2 DEF Line
<1>4. \A x \in DOMAIN u.values : u.values[x] < size(u) /\ Line(u, u.values[x]) = x
  <2>1. \A x \in DOMAIN t.values : t.values[x] \in 0..(n - 1) /\ Line(t, t.values[x]) = x
    BY <1>2 DEF Agrees, TableShape, n
  <2>2. CASE e[2] = NoValue
    BY <1>1, <1>2, <1>3, <2>1, <2>2
  <2>3. CASE e[2] # NoValue
    <3>1. u.values = MapInsert(t.values, e, n)
      BY <1>1, <2>3
    <3>2. /\ DOMAIN u.values = DOMAIN t.values \cup {e}
          /\ \A x \in DOMAIN t.values : u.values[x] = t.values[x]
          /\ e \notin DOMAIN t.values => u.values[e] = n
      BY <3>1 DEF MapInsert
    <3> QED BY <1>1, <1>2, <1>3, <2>1, <3>2
  <2> QED BY <2>2, <2>3
<1>5. /\ DOMAIN u.fields = DOMAIN t.fields \cup {e[1]}
      /\ \A f \in DOMAIN t.fields : u.fields[f].index = t.fields[f].index
      /\ \A f \in DOMAIN t.fields \ {e[1]} : u.fields[f].count = t.fields[f].count
      /\ e[1] \in DOMAIN t.fields => u.fields[e[1]].count = t.fields[e[1]].count + 1
      /\ e[1] \notin DOMAIN t.fields => u.fields[e[1]] = [index |-> n, count |-> 1]
  <2>0. \A f \in DOMAIN t.fields : t.fields[f] \in [index : Nat, count : Nat]
    BY DEF TableShape
  <2>1. CASE e[1] \in DOMAIN t.fields
    <3>1. u.fields = Counted(t.fields, e[1], 1)
      BY <1>1, <2>1
    <3>2. /\ DOMAIN u.fields = DOMAIN t.fields
          /\ \A x \in DOMAIN t.fields \ {e[1]} : u.fields[x] = t.fields[x]
          /\ u.fields[e[1]] = [index |-> t.fields[e[1]].index, count |-> t.fields[e[1]].count + 1]
      BY <2>0, <2>1, <3>1 DEF Counted
    <3> QED BY <2>1, <3>2
  <2>2. CASE e[1] \notin DOMAIN t.fields
    <3>1. u.fields = MapInsert(t.fields, e[1], [index |-> n, count |-> 1])
      BY <1>1, <2>2
    <3>2. /\ DOMAIN u.fields = DOMAIN t.fields \cup {e[1]}
          /\ \A x \in DOMAIN t.fields : u.fields[x] = t.fields[x]
          /\ u.fields[e[1]] = [index |-> n, count |-> 1]
      BY <2>2, <3>1 DEF MapInsert
    <3> QED BY <2>2, <3>2
  <2> QED BY <2>1, <2>2
<1>6. \A f \in DOMAIN t.fields : t.fields[f].index \in 0..(n - 1)
  BY <1>2 DEF TableShape, Agrees, n
<1>7. ASSUME NEW f \in DOMAIN u.fields
      PROVE  /\ u.fields[f].index < size(u) /\ Line(u, u.fields[f].index)[1] = f
             /\ \A i \in 0..(u.fields[f].index - 1) : Line(u, i)[1] # f
  <2>1. CASE f \in DOMAIN t.fields
    <3>1. /\ u.fields[f].index \in 0..(n - 1) /\ Line(t, u.fields[f].index)[1] = f
          /\ \A i \in 0..(u.fields[f].index - 1) : Line(t, i)[1] # f
      BY <1>5, <1>6, <2>1 DEF Agrees
    <3> QED BY <1>1, <1>2, <1>3, <3>1
  <2>2. CASE f \notin DOMAIN t.fields
    <3>1. f = e[1] /\ u.fields[f].index = n
      BY <1>5, <2>2
    <3>2. ASSUME NEW i \in 0..(n - 1) PROVE Line(u, i)[1] # f
      <4>1. i + 1 \in 1..n
        BY <1>2
      <4>2. t.entries[i + 1][1] \in DOMAIN t.fields
        BY <4>1 DEF Agrees, n
      <4> QED BY <1>3, <2>2, <4>2 DEF Line
    <3> QED BY <1>1, <1>2, <1>3, <3>1, <3>2
  <2> QED BY <2>1, <2>2
<1>8. ASSUME NEW i \in 1..size(u)
      PROVE  /\ u.entries[i][1] \in DOMAIN u.fields
             /\ u.fields[u.entries[i][1]].count = Cardinality(Positions(u, u.entries[i][1]))
  <2> DEFINE f == u.entries[i][1]
  <2>1. i \in 1..n \/ i = n + 1
    BY <1>1, <1>2
  <2>2. f \in DOMAIN t.fields \/ f = e[1]
    BY <1>1, <2>1 DEF Agrees, n
  <2>3. f \in DOMAIN u.fields
    BY <1>5, <2>2
  <2>4. f # e[1] => Positions(u, f) = Positions(t, f)
    BY <1>1, <1>2 DEF Positions, n
  <2>5. f = e[1] => Positions(u, f) = Positions(t, f) \cup {n + 1} /\ n + 1 \notin Positions(t, f)
    BY <1>1, <1>2 DEF Positions, n
  <2>6. \A g \in DOMAIN t.fields : t.fields[g].count = Cardinality(Positions(t, g))
    <3> SUFFICES ASSUME NEW g \in DOMAIN t.fields
                 PROVE  t.fields[g].count = Cardinality(Positions(t, g))
      OBVIOUS
    <3>1. t.fields[g].index + 1 \in 1..n /\ t.entries[t.fields[g].index + 1][1] = g
      BY <1>2, <1>6 DEF Agrees, Line
    <3> QED BY <3>1 DEF Agrees, n
  <2>7. f = e[1] => Cardinality(Positions(u, f)) = Cardinality(Positions(t, f)) + 1
    BY <2>5, PositionsFinite, FS_AddElement
  <2>8. CASE f # e[1]
    BY <1>5, <2>2, <2>3, <2>4, <2>6, <2>8
  <2>9. CASE f = e[1] /\ f \in DOMAIN t.fields
    BY <1>5, <2>3, <2>6, <2>7, <2>9
  <2>10. CASE f = e[1] /\ f \notin DOMAIN t.fields
    <3>1. Positions(t, f) = {}
      BY <2>10 DEF Positions, Agrees
    <3>2. Cardinality(Positions(u, f)) = 1
      BY <2>7, <2>10, <3>1, FS_EmptySet
    <3> QED BY <1>5, <2>3, <2>10, <3>2
  <2> QED BY <2>8, <2>9, <2>10
<1> QED
  BY <1>4, <1>7, <1>8 DEF Agrees, u

\* What pop_back does to the lines and the two maps.
LEMMA PopBackShape ==
  ASSUME NEW t, TableShape(t), Agrees(t), size(t) # 0
  PROVE  LET u == pop_back(t)
             e == t.entries[size(t)]
         IN
         /\ TableShape(u)
         /\ size(u) = size(t) - 1
         /\ u.max_size = t.max_size
         /\ \A i \in 1..(size(t) - 1) : u.entries[i] = t.entries[i]
         /\ u.values = IF e[2] = NoValue THEN t.values ELSE MapErase(t.values, e)
         /\ u.fields = IF t.fields[e[1]].count = 1 THEN MapErase(t.fields, e[1])
                       ELSE Counted(t.fields, e[1], -1)
<1> DEFINE S == {t.entries[i] : i \in DOMAIN t.entries}
<1> DEFINE u == pop_back(t)
<1> DEFINE e == t.entries[size(t)]
<1>1. /\ u.entries = SubSeq(t.entries, 1, size(t) - 1)
      /\ u.values = IF e[2] = NoValue THEN t.values ELSE MapErase(t.values, e)
      /\ u.fields = IF t.fields[e[1]].count = 1 THEN MapErase(t.fields, e[1])
                    ELSE Counted(t.fields, e[1], -1)
      /\ u.max_size = t.max_size
      /\ DOMAIN u = {"entries", "values", "fields", "max_size"}
  <2>1. DOMAIN t = {"entries", "values", "fields", "max_size"}
    BY DEF TableShape
  <2> QED
    BY <2>1 DEF pop_back
<1> HIDE DEF u
<1>2. t.entries \in Seq(S) /\ size(t) \in Nat \ {0} /\ Len(t.entries) = size(t)
  BY ShapeSize DEF TableShape, size
<1>3. /\ u.entries \in Seq(S) /\ Len(u.entries) = size(t) - 1
      /\ \A i \in 1..(size(t) - 1) : u.entries[i] = t.entries[i]
  <2>1. 1 \in 1..(size(t) + 1) /\ size(t) - 1 \in 0..size(t) /\ 1 <= size(t)
    BY <1>2
  <2>2. CASE size(t) = 1
    BY <1>1, <1>2, <2>2, SubSeqEmpty, EmptySeq
  <2>3. CASE size(t) # 1
    <3>1. 1 \in 1..Len(t.entries) /\ size(t) - 1 \in 1..Len(t.entries)
      BY <1>2, <2>3
    <3>2. /\ SubSeq(t.entries, 1, size(t) - 1) \in Seq(S)
          /\ Len(SubSeq(t.entries, 1, size(t) - 1)) = size(t) - 1
          /\ \A i \in 1..(size(t) - 1) : SubSeq(t.entries, 1, size(t) - 1)[i] = t.entries[i]
      BY <1>2, <3>1
    <3> QED BY <1>1, <3>2
  <2> QED BY <2>2, <2>3
<1>4. u.entries \in Seq({u.entries[i] : i \in DOMAIN u.entries})
  BY <1>3, LenProperties
<1>5. \A x \in DOMAIN u.values : u.values[x] \in Nat /\ x[2] # NoValue
  <2>1. CASE e[2] = NoValue
    BY <1>1, <2>1 DEF TableShape
  <2>2. CASE e[2] # NoValue
    <3>1. u.values = MapErase(t.values, e)
      BY <1>1, <2>2
    <3>2. /\ DOMAIN u.values = DOMAIN t.values \ {e}
          /\ \A x \in DOMAIN t.values \ {e} : u.values[x] = t.values[x]
      BY <3>1 DEF MapErase
    <3> QED
      BY <1>2, <2>2, <3>2 DEF TableShape
  <2> QED BY <2>1, <2>2
<1>6. e[1] \in DOMAIN t.fields /\ t.fields[e[1]].count \in Nat \ {0}
  <2>1. size(t) \in 1..size(t)
    BY <1>2
  <2>2. e[1] \in DOMAIN t.fields /\ t.fields[e[1]].count = Cardinality(Positions(t, e[1]))
    BY <2>1 DEF Agrees
  <2>3. size(t) \in Positions(t, e[1])
    BY <2>1 DEF Positions
  <2>4. Cardinality(Positions(t, e[1])) \in Nat \ {0}
    BY <2>3, PositionsFinite, FS_EmptySet
  <2> QED BY <2>2, <2>4
<1>7. \A x \in DOMAIN u.fields : u.fields[x] \in [index : Nat, count : Nat]
  <2> DEFINE R == [index : Nat, count : Nat]
  <2>0. \A f \in DOMAIN t.fields : t.fields[f] \in R
    BY DEF TableShape
  <2>1. CASE t.fields[e[1]].count # 1
    <3>1. u.fields = Counted(t.fields, e[1], -1)
      BY <1>1, <2>1
    <3>2. /\ DOMAIN u.fields = DOMAIN t.fields
          /\ \A x \in DOMAIN t.fields \ {e[1]} : u.fields[x] = t.fields[x]
          /\ u.fields[e[1]] = [index |-> t.fields[e[1]].index, count |-> t.fields[e[1]].count + (-1)]
      BY <1>6, <2>0, <3>1 DEF Counted
    <3>3. u.fields[e[1]] \in R
      BY <1>6, <2>0, <2>1, <3>2
    <3>4. \A x \in DOMAIN u.fields : u.fields[x] \in R
      <4> HIDE DEF R
      <4> QED BY <2>0, <3>2, <3>3
    <3> QED BY <3>4
  <2>2. CASE t.fields[e[1]].count = 1
    <3>1. u.fields = MapErase(t.fields, e[1])
      BY <1>1, <2>2
    <3>2. /\ DOMAIN u.fields = DOMAIN t.fields \ {e[1]}
          /\ \A x \in DOMAIN t.fields \ {e[1]} : u.fields[x] = t.fields[x]
      BY <3>1 DEF MapErase
    <3>4. \A x \in DOMAIN u.fields : u.fields[x] \in R
      <4> HIDE DEF R
      <4> QED BY <2>0, <3>2
    <3> QED BY <3>4
  <2> QED BY <2>1, <2>2
<1>8. u.max_size = t.max_size /\ t.max_size \in Nat
  BY <1>1 DEF TableShape
<1>9. TableShape(u)
  BY <1>1, <1>4, <1>5, <1>7, <1>8 DEF TableShape
<1>10. size(u) = size(t) - 1
  BY <1>3 DEF size
<1> QED
  BY <1>1, <1>3, <1>9, <1>10 DEF u

\* pop_back keeps the maps in agreement with the lines.
LEMMA PopBackAgrees ==
  ASSUME NEW t, TableShape(t), Agrees(t), size(t) # 0
  PROVE  Agrees(pop_back(t))
<1> DEFINE u == pop_back(t)
<1> DEFINE n == size(t)
<1> DEFINE e == t.entries[n]
<1>1. /\ TableShape(u) /\ size(u) = n - 1
      /\ \A i \in 1..(n - 1) : u.entries[i] = t.entries[i]
      /\ u.values = IF e[2] = NoValue THEN t.values ELSE MapErase(t.values, e)
      /\ u.fields = IF t.fields[e[1]].count = 1 THEN MapErase(t.fields, e[1])
                       ELSE Counted(t.fields, e[1], -1)
  BY PopBackShape
<1> HIDE DEF u
<1>2. n \in Nat \ {0} /\ n \in 1..n
  BY ShapeSize
<1> HIDE DEF n
<1>3. \A i \in 0..(n - 2) : Line(u, i) = Line(t, i)
  BY <1>1, <1>2 DEF Line
<1>4. /\ e[1] \in DOMAIN t.fields
      /\ \A f \in DOMAIN t.fields :
           /\ t.fields[f].index \in 0..(n - 1) /\ Line(t, t.fields[f].index)[1] = f
           /\ \A i \in 0..(t.fields[f].index - 1) : Line(t, i)[1] # f
           /\ t.fields[f].count = Cardinality(Positions(t, f))
           /\ t.fields[f].index + 1 \in Positions(t, f)
  <2>1. e[1] \in DOMAIN t.fields
    BY <1>2 DEF Agrees, n
  <2> SUFFICES ASSUME NEW f \in DOMAIN t.fields
               PROVE  /\ t.fields[f].index \in 0..(n - 1) /\ Line(t, t.fields[f].index)[1] = f
                      /\ \A i \in 0..(t.fields[f].index - 1) : Line(t, i)[1] # f
                      /\ t.fields[f].count = Cardinality(Positions(t, f))
                      /\ t.fields[f].index + 1 \in Positions(t, f)
    BY <2>1
  <2>2. t.fields[f].index \in 0..(n - 1) /\ Line(t, t.fields[f].index)[1] = f
    BY <1>2 DEF TableShape, Agrees, n
  <2>3. \A i \in 0..(t.fields[f].index - 1) : Line(t, i)[1] # f
    BY DEF Agrees
  <2>4. t.fields[f].index + 1 \in 1..n /\ t.entries[t.fields[f].index + 1][1] = f
    BY <1>2, <2>2 DEF Line
  <2>5. t.fields[f].count = Cardinality(Positions(t, f))
    BY <2>4 DEF Agrees, n
  <2> QED BY <2>2, <2>3, <2>4, <2>5 DEF Positions, n
<1>5. Line(t, n - 1) = e
  BY <1>2 DEF Line
<1>6. \A x \in DOMAIN u.values : u.values[x] < size(u) /\ Line(u, u.values[x]) = x
  <2>1. \A x \in DOMAIN t.values :
           t.values[x] \in 0..(n - 1) /\ Line(t, t.values[x]) = x /\ x[2] # NoValue
    BY <1>2 DEF Agrees, TableShape, n
  <2>2. \A x \in DOMAIN t.values \ {e} : t.values[x] \in 0..(n - 2)
    BY <1>2, <1>5, <2>1
  <2>3. /\ DOMAIN u.values = DOMAIN t.values \ {e}
        /\ \A x \in DOMAIN u.values : u.values[x] = t.values[x]
    <3>1. CASE e[2] = NoValue
      BY <1>1, <2>1, <3>1
    <3>2. CASE e[2] # NoValue
      BY <1>1, <3>2 DEF MapErase
    <3> QED BY <3>1, <3>2
  <2> QED BY <1>1, <1>2, <1>3, <2>1, <2>2, <2>3
<1>7. \A f : Positions(u, f) = Positions(t, f) \ {n}
  BY <1>1, <1>2 DEF Positions, n
<1>8. \A f : /\ f = e[1] => Cardinality(Positions(u, f)) = Cardinality(Positions(t, f)) - 1
             /\ f # e[1] => Positions(u, f) = Positions(t, f)
  <2> SUFFICES ASSUME NEW f
               PROVE  /\ f = e[1] => Cardinality(Positions(u, f)) = Cardinality(Positions(t, f)) - 1
                      /\ f # e[1] => Positions(u, f) = Positions(t, f)
    OBVIOUS
  <2>1. f = e[1] <=> n \in Positions(t, f)
    BY <1>2 DEF Positions, n
  <2>2. IsFiniteSet(Positions(t, f))
    BY PositionsFinite
  <2>3. f = e[1] => Cardinality(Positions(t, f) \ {n}) = Cardinality(Positions(t, f)) - 1
    BY <2>1, <2>2, FS_RemoveElement
  <2>4. f # e[1] => Positions(t, f) \ {n} = Positions(t, f)
    BY <2>1
  <2> QED BY <1>7, <2>3, <2>4
<1>9. /\ DOMAIN u.fields = DOMAIN t.fields \ (IF t.fields[e[1]].count = 1 THEN {e[1]} ELSE {})
      /\ \A f \in DOMAIN u.fields :
           /\ u.fields[f].index = t.fields[f].index
           /\ u.fields[f].count = IF f = e[1] THEN t.fields[f].count - 1 ELSE t.fields[f].count
  <2>0. \A f \in DOMAIN t.fields : t.fields[f] \in [index : Nat, count : Nat]
    BY DEF TableShape
  <2>1. CASE t.fields[e[1]].count # 1
    <3>1. u.fields = Counted(t.fields, e[1], -1)
      BY <1>1, <2>1
    <3>2. /\ DOMAIN u.fields = DOMAIN t.fields
          /\ \A x \in DOMAIN t.fields \ {e[1]} : u.fields[x] = t.fields[x]
          /\ u.fields[e[1]] = [index |-> t.fields[e[1]].index, count |-> t.fields[e[1]].count + (-1)]
      BY <1>4, <2>0, <3>1 DEF Counted
    <3>3. u.fields[e[1]].index = t.fields[e[1]].index /\ u.fields[e[1]].count = t.fields[e[1]].count - 1
      BY <1>4, <2>0, <3>2
    <3> QED BY <2>1, <3>2, <3>3
  <2>2. CASE t.fields[e[1]].count = 1
    BY <1>1, <2>2 DEF MapErase
  <2> QED BY <2>1, <2>2
<1>10. ASSUME NEW f \in DOMAIN u.fields
       PROVE  u.fields[f].index \in 0..(n - 2)
  <2>1. f \in DOMAIN t.fields /\ u.fields[f].index = t.fields[f].index
    BY <1>9
  <2>2. CASE f # e[1]
    BY <1>2, <1>4, <1>5, <2>1, <2>2
  <2>3. CASE f = e[1]
    <3>1. Cardinality(Positions(t, f)) # 1
      BY <1>4, <1>9, <2>1, <2>3
    <3>2. Positions(t, f) # {n}
      BY <3>1, FS_Singleton
    <3>3. n \in Positions(t, f)
      BY <1>2, <2>3 DEF Positions, n
    <3>4. PICK j \in Positions(t, f) : j # n
      BY <3>2, <3>3
    <3>5. j \in 1..(n - 1) /\ Line(t, j - 1)[1] = f
      BY <1>2, <3>4 DEF Positions, Line, n
    <3>6. ~ (t.fields[f].index > j - 1)
      BY <1>2, <1>4, <2>1, <3>5
    <3> QED BY <1>2, <1>4, <2>1, <3>5, <3>6
  <2> QED BY <2>2, <2>3
<1>11. ASSUME NEW f \in DOMAIN u.fields
       PROVE  /\ u.fields[f].index < size(u) /\ Line(u, u.fields[f].index)[1] = f
              /\ \A i \in 0..(u.fields[f].index - 1) : Line(u, i)[1] # f
  <2> DEFINE k == u.fields[f].index
  <2>1. /\ k \in 0..(n - 2) /\ Line(t, k)[1] = f
        /\ \A i \in 0..(k - 1) : Line(t, i)[1] # f
    BY <1>4, <1>9, <1>10
  <2> HIDE DEF k
  <2>2. k \in 0..(n - 2) /\ Line(u, k) = Line(t, k) /\ k < size(u)
    BY <1>1, <1>2, <1>3, <2>1
  <2>3. ASSUME NEW i \in 0..(k - 1) PROVE Line(u, i)[1] # f
    <3>1. i \in 0..(n - 2)
      BY <1>2, <2>2
    <3> QED BY <1>3, <2>1, <3>1
  <2> QED BY <2>1, <2>2, <2>3 DEF k
<1>12. ASSUME NEW i \in 1..size(u)
       PROVE  /\ u.entries[i][1] \in DOMAIN u.fields
              /\ u.fields[u.entries[i][1]].count = Cardinality(Positions(u, u.entries[i][1]))
  <2> DEFINE f == u.entries[i][1]
  <2>1. i \in 1..n /\ i # n /\ u.entries[i] = t.entries[i]
    BY <1>1, <1>2
  <2>2. f \in DOMAIN t.fields
    BY <2>1 DEF Agrees, n
  <2>3. i \in Positions(t, f)
    BY <2>1 DEF Positions, n
  <2>4. f = e[1] => n \in Positions(t, f)
    BY <1>2 DEF Positions, n
  <2>5. f = e[1] => Cardinality(Positions(t, f)) # 1
    <3> SUFFICES ASSUME f = e[1], Cardinality(Positions(t, f)) = 1 PROVE FALSE
      OBVIOUS
    <3>1. i \in Positions(u, f)
      BY <1>7, <2>1, <2>3
    <3>2. Cardinality(Positions(u, f)) = 0
      BY <1>4, <1>8
    <3> QED BY <1>1, <3>1, <3>2, PositionsFinite, FS_EmptySet
  <2>6. f \in DOMAIN u.fields
    BY <1>4, <1>9, <2>2, <2>5
  <2> QED BY <1>4, <1>8, <1>9, <2>2, <2>6
<1> QED
  BY <1>6, <1>11, <1>12 DEF Agrees, u

\* clear leaves an empty table, which agrees.
LEMMA ClearAgrees ==
  ASSUME NEW t, TableShape(t)
  PROVE  LET u == clear(t) IN
         TableShape(u) /\ Agrees(u) /\ size(u) = 0 /\ u.max_size = t.max_size
<1> DEFINE u == clear(t)
<1>1. /\ u.entries = <<>> /\ u.values = <<>> /\ u.fields = <<>> /\ u.max_size = t.max_size
      /\ DOMAIN u = {"entries", "values", "fields", "max_size"}
  <2>1. DOMAIN t = {"entries", "values", "fields", "max_size"}
    BY DEF TableShape
  <2> QED BY <2>1 DEF clear
<1>2. u.entries \in Seq({u.entries[i] : i \in DOMAIN u.entries}) /\ size(u) = 0
  BY <1>1, EmptySeq DEF size
<1>3. DOMAIN u.values = {} /\ DOMAIN u.fields = {}
  BY <1>1
<1> HIDE DEF u
<1>4. TableShape(u)
  BY <1>1, <1>2, <1>3 DEF TableShape
<1>5. Agrees(u)
  BY <1>2, <1>3 DEF Agrees
<1> QED BY <1>1, <1>2, <1>4, <1>5 DEF u

\* A sound table, and its types.
TableInv(t) == TableShape(t) /\ TableSound(t)

\* insert keeps a table sound, also when it has to clear it first
\* (hpack.h:118-134).
LEMMA TableInsertInv ==
  ASSUME NEW t, TableInv(t), NEW e
  PROVE  TableInv(insert(t, e)) /\ insert(t, e).max_size = t.max_size
<1> DEFINE v == IF size(t) >= t.max_size THEN clear(t) ELSE t
<1>1. TableShape(t) /\ Agrees(t) /\ size(t) \in Nat /\ t.max_size \in Nat
  BY AgreesSound, ShapeSize DEF TableInv, TableShape
<1>2. /\ TableShape(v) /\ Agrees(v) /\ v.max_size = t.max_size
      /\ size(v) + 1 <= (IF t.max_size = 0 THEN 1 ELSE t.max_size)
  BY <1>1, ClearAgrees
<1>3. insert(t, e) = push_back(v, e)
  BY DEF insert
<1> HIDE DEF v
<1> DEFINE u == push_back(v, e)
<1>4. /\ TableShape(u) /\ Agrees(u) /\ u.max_size = t.max_size /\ size(u) = size(v) + 1
  BY <1>2, PushBackShape, PushBackAgrees
<1> HIDE DEF u
<1>5. TableSound(u)
  BY <1>2, <1>4, AgreesSound
<1> QED BY <1>3, <1>4, <1>5 DEF TableInv, u

\* A new table is sound.
LEMMA NewTableInv ==
  ASSUME NEW max \in Nat
  PROVE  TableInv(NewTable(max)) /\ NewTable(max).max_size = max
<1> DEFINE u == NewTable(max)
<1>1. /\ u.entries = <<>> /\ u.values = <<>> /\ u.fields = <<>> /\ u.max_size = max
      /\ DOMAIN u = {"entries", "values", "fields", "max_size"}
  BY DEF NewTable
<1>2. u.entries \in Seq({u.entries[i] : i \in DOMAIN u.entries}) /\ size(u) = 0
  BY <1>1, EmptySeq DEF size
<1>3. DOMAIN u.values = {} /\ DOMAIN u.fields = {}
  BY <1>1
<1> HIDE DEF u
<1>4. TableShape(u)
  BY <1>1, <1>2, <1>3 DEF TableShape
<1>5. Agrees(u)
  BY <1>2, <1>3 DEF Agrees
<1>6. TableSound(u)
  BY <1>1, <1>2, <1>5, AgreesSound
<1> QED BY <1>1, <1>4, <1>6 DEF u, TableInv

\* Shrunk is what its recursion says: induction shows that there is such a function.
LEMMA ShrunkDef ==
  ASSUME NEW t, size(t) \in Nat
  PROVE  Shrunk(t) = [k \in 0..size(t) |-> IF k = 0 THEN t ELSE pop_back(Shrunk(t)[k - 1])]
<1> DEFINE N == size(t)
<1> DEFINE F(f, m) == f = [k \in 0..m |-> IF k = 0 THEN t ELSE pop_back(f[k - 1])]
<1> DEFINE S == {m \in Nat : \E f : F(f, m)}
<1>1. 0 \in S
  <2>1. F([k \in 0..0 |-> t], 0)
    OBVIOUS
  <2> QED BY <2>1
<1>2. ASSUME NEW m \in Nat, m \in S PROVE m + 1 \in S
  <2>1. PICK f : F(f, m)
    BY <1>2
  <2> DEFINE g == [k \in 0..(m + 1) |-> IF k = m + 1 THEN pop_back(f[m]) ELSE f[k]]
  <2>2. g = [k \in 0..(m + 1) |-> IF k = 0 THEN t ELSE pop_back(g[k - 1])]
    <3> SUFFICES ASSUME NEW k \in 0..(m + 1)
                 PROVE  g[k] = IF k = 0 THEN t ELSE pop_back(g[k - 1])
      OBVIOUS
    <3>1. CASE k = 0
      BY <2>1, <3>1
    <3>2. CASE k = m + 1
      <4>1. g[k - 1] = f[m]
        BY <3>2
      <4> QED BY <3>2, <4>1
    <3>3. CASE k # 0 /\ k # m + 1
      <4>1. k \in 0..m /\ k - 1 \in 0..m
        BY <3>3
      <4>2. g[k] = f[k] /\ g[k - 1] = f[k - 1] /\ f[k] = pop_back(f[k - 1])
        BY <2>1, <3>3, <4>1
      <4> QED BY <3>3, <4>2
    <3> QED BY <3>1, <3>2, <3>3
  <2>3. F(g, m + 1)
    BY <2>2
  <2>4. \E h : F(h, m + 1)
    <3> HIDE DEF F, g
    <3> QED BY <2>3
  <2> QED BY <2>4
<1>3. N \in S
  <2>1. \A n \in Nat : n \in S => n + 1 \in S
    BY <1>2
  <2> HIDE DEF S
  <2> QED BY <1>1, <2>1, Induction
<1>4. PICK g : F(g, N)
  BY <1>3
<1>5. Shrunk(t) = CHOOSE h : F(h, N)
  BY DEF Shrunk
<1>6. F(Shrunk(t), N)
  <2>1. \E h : F(h, N)
    BY <1>4
  <2> HIDE DEF F
  <2> QED BY <1>5, <2>1
<1> QED BY <1>6

\* Every table on the way of a shrinking one agrees: by induction on the lines dropped.
LEMMA ShrunkAgrees ==
  ASSUME NEW t, TableShape(t), Agrees(t), NEW k \in 0..size(t)
  PROVE  LET u == Shrunk(t)[k] IN
         TableShape(u) /\ Agrees(u) /\ size(u) = size(t) - k /\ u.max_size = t.max_size
<1> DEFINE P(u, n) == TableShape(u) /\ Agrees(u) /\ size(u) = size(t) - n /\ u.max_size = t.max_size
<1> DEFINE S == {n \in Nat : n <= size(t) => P(Shrunk(t)[n], n)}
<1>1. size(t) \in Nat
  BY ShapeSize
<1>2. \A n \in 0..size(t) : Shrunk(t)[n] = IF n = 0 THEN t ELSE pop_back(Shrunk(t)[n - 1])
  <2>1. Shrunk(t) = [n \in 0..size(t) |-> IF n = 0 THEN t ELSE pop_back(Shrunk(t)[n - 1])]
    BY <1>1, ShrunkDef
  <2> QED BY <2>1
<1>3. 0 \in S
  <2>1. Shrunk(t)[0] = t
    BY <1>1, <1>2
  <2> QED BY <1>1, <2>1
<1>4. ASSUME NEW n \in Nat, n \in S PROVE n + 1 \in S
  <2> SUFFICES ASSUME n + 1 <= size(t) PROVE P(Shrunk(t)[n + 1], n + 1)
    OBVIOUS
  <2> DEFINE v == Shrunk(t)[n]
  <2>1. P(v, n)
    BY <1>1, <1>4
  <2>2. Shrunk(t)[n + 1] = pop_back(v)
    <3>1. n + 1 \in 0..size(t) /\ n + 1 # 0 /\ (n + 1) - 1 = n
      BY <1>1
    <3> QED BY <1>2, <3>1
  <2> HIDE DEF v
  <2>3. size(v) # 0
    BY <1>1, <2>1
  <2>4. /\ TableShape(pop_back(v)) /\ size(pop_back(v)) = size(v) - 1
        /\ pop_back(v).max_size = v.max_size
    BY <2>1, <2>3, PopBackShape
  <2>5. Agrees(pop_back(v))
    BY <2>1, <2>3, PopBackAgrees
  <2>6. size(pop_back(v)) = size(t) - (n + 1)
    BY <1>1, <2>1, <2>4
  <2> QED BY <2>1, <2>2, <2>4, <2>5, <2>6
<1>5. k \in S
  <2>1. \A n \in Nat : n \in S => n + 1 \in S
    BY <1>4
  <2> HIDE DEF S
  <2> QED BY <1>1, <1>3, <2>1, Induction
<1> QED BY <1>1, <1>5

\* update_size keeps a table sound for every new size (hpack.h:150-169).
LEMMA UpdateSizeInv ==
  ASSUME NEW t, TableInv(t), NEW n \in Nat
  PROVE  TableInv(update_size(t, n)) /\ update_size(t, n).max_size = n
<1>1. TableShape(t) /\ Agrees(t) /\ size(t) \in Nat
  BY AgreesSound, ShapeSize DEF TableInv
<1> DEFINE excess == IF size(t) > n THEN size(t) - n ELSE 0
<1> DEFINE v == Shrunk(t)[excess]
<1>2. CASE t.max_size = n
  BY <1>2 DEF update_size
<1>3. CASE t.max_size # n
  <2>1. excess \in 0..size(t) /\ size(t) - excess <= n
    BY <1>1
  <2>2. update_size(t, n) = [v EXCEPT !.max_size = n]
    BY <1>3 DEF update_size
  <2> HIDE DEF excess
  <2>3. TableShape(v) /\ Agrees(v) /\ size(v) = size(t) - excess
    BY <1>1, <2>1, ShrunkAgrees
  <2> HIDE DEF v
  <2> DEFINE u == [v EXCEPT !.max_size = n]
  <2>4. /\ u.entries = v.entries /\ u.values = v.values /\ u.fields = v.fields
        /\ u.max_size = n /\ DOMAIN u = {"entries", "values", "fields", "max_size"}
    <3>1. DOMAIN v = {"entries", "values", "fields", "max_size"}
      BY <2>3 DEF TableShape
    <3> QED BY <3>1
  <2> HIDE DEF u
  <2>5. TableShape(u)
    BY <2>3, <2>4 DEF TableShape
  <2>6. size(u) = size(v) /\ \A i : Line(u, i) = Line(v, i)
    BY <2>4 DEF size, Line
  <2>7. \A f : Positions(u, f) = Positions(v, f)
    BY <2>4, <2>6 DEF Positions
  <2>8. Agrees(u)
    BY <2>3, <2>4, <2>6, <2>7 DEF Agrees
  <2>9. size(u) <= (IF u.max_size = 0 THEN 1 ELSE u.max_size)
    BY <1>1, <2>1, <2>3, <2>4, <2>6
  <2>10. TableInv(u) /\ u.max_size = n
    BY <2>4, <2>5, <2>8, <2>9, AgreesSound DEF TableInv
  <2> QED BY <2>2, <2>10 DEF u
<1> QED BY <1>2, <1>3

\* A response line keeps the table sound.
LEMMA EncoderInv ==
  ASSUME NEW t, TableInv(t), NEW e, NEW add \in BOOLEAN
  PROVE  LET u == copy_http_header_response(t, e, add).table IN
         TableInv(u) /\ u.max_size = t.max_size
BY TableInsertInv DEF copy_http_header_response

\* A header representation of the peer keeps the table sound, or throws.
LEMMA DecoderInv ==
  ASSUME NEW t, TableInv(t), NEW rep,
         rep.kind \in {"size", "indexed", "literal"},
         rep.kind = "size" => rep.index \in Nat
  PROVE  LET u == Decoded(t, rep).table IN
         TableInv(u) /\ u.max_size \in Nat /\ Decoded(t, rep).throws \in BOOLEAN
<1>1. t.max_size \in Nat
  BY DEF TableInv, TableShape
<1>2. CASE rep.kind = "size"
  <2>1. TableInv(update_size(t, rep.index)) /\ update_size(t, rep.index).max_size = rep.index
    BY <1>2, UpdateSizeInv
  <2>2. Decoded(t, rep).table = update_size(t, rep.index) /\ Decoded(t, rep).throws = FALSE
    BY <1>2 DEF Decoded
  <2> QED BY <1>2, <2>1, <2>2
<1>3. CASE rep.kind = "indexed"
  <2>1. Decoded(t, rep).table = t /\ Decoded(t, rep).throws \in BOOLEAN
    BY <1>3 DEF Decoded
  <2> QED BY <1>1, <2>1
<1>4. CASE rep.kind = "literal"
  <2>1. /\ Decoded(t, rep).throws \in BOOLEAN
        /\ \/ Decoded(t, rep).table = t
           \/ \E e : Decoded(t, rep).table = insert(t, e)
    BY <1>4 DEF Decoded
  <2> QED BY <1>1, <2>1, TableInsertInv
<1> QED BY <1>2, <1>3, <1>4

-----------------------------------------------------------------------------
\* The groups of an integer are those of the recursion.
LEMMA GroupsDef ==
  ASSUME NEW n \in Nat, NEW v \in 0..n
  PROVE  Groups(n)[v] = IF v < 128 THEN <<v>> ELSE <<0>> \o Groups(n)[v \div 128]
<1> DEFINE B(f, i) == IF i < 128 THEN <<i>> ELSE <<0>> \o f[i \div 128]
           F(f) == f = [i \in 0..n |-> B(f, i)]
           S == {k \in Nat : \E f : \A i \in 0..n : i < k => f[i] = B(f, i)}
<1>1. \A i \in 0..n : i >= 128 => i \div 128 \in 0..(i - 1)
  OBVIOUS
<1>2. 0 \in S
  <2>1. \A i \in 0..n : i < 0 => {}[i] = B({}, i)
    OBVIOUS
  <2> HIDE DEF B
  <2> QED BY <2>1
<1>3. ASSUME NEW k \in Nat, k \in S PROVE k + 1 \in S
  <2>1. PICK f : \A i \in 0..n : i < k => f[i] = B(f, i)
    BY <1>3
  <2>2. PICK b : b = B(f, k)
    OBVIOUS
  <2>3. PICK g : g = [i \in 0..n |-> IF i = k THEN b ELSE f[i]]
    OBVIOUS
  <2>4. ASSUME NEW i \in 0..n, i < k + 1 PROVE g[i] = B(g, i)
    <3>1. i >= 128 => g[i \div 128] = f[i \div 128]
      <4>1. SUFFICES ASSUME i >= 128 PROVE g[i \div 128] = f[i \div 128]
        OBVIOUS
      <4>2. PICK j \in 0..(i - 1) : j = i \div 128
        BY <1>1, <4>1
      <4>3. j \in 0..n /\ j # k
        BY <2>4
      <4> QED BY <2>3, <4>2, <4>3
    <3>2. ~(i < 128) => i >= 128
      OBVIOUS
    <3>3. B(g, i) = B(f, i)
      BY <3>1, <3>2, Zenon
    <3> HIDE DEF B
    <3>4. CASE i = k
      BY <2>2, <2>3, <3>3, <3>4
    <3>5. CASE i # k
      BY <2>1, <2>3, <2>4, <3>3, <3>5
    <3> QED BY <3>4, <3>5
  <2> HIDE DEF B
  <2> QED BY <2>4
<1>4. n + 1 \in S
  <2>1. \A k \in Nat : k \in S => k + 1 \in S
    BY <1>3
  <2> HIDE DEF S
  <2> QED BY <1>2, <2>1, Induction
<1>5. \E f : F(f)
  <2>1. PICK f : \A i \in 0..n : i < n + 1 => f[i] = B(f, i)
    BY <1>4
  <2>2. PICK g : g = [i \in 0..n |-> f[i]]
    OBVIOUS
  <2>3. ASSUME NEW i \in 0..n PROVE g[i] = B(g, i)
    <3>1. i >= 128 => g[i \div 128] = f[i \div 128]
      <4>1. SUFFICES ASSUME i >= 128 PROVE g[i \div 128] = f[i \div 128]
        OBVIOUS
      <4>2. PICK j \in 0..(i - 1) : j = i \div 128
        BY <1>1, <4>1
      <4>3. j \in 0..n
        OBVIOUS
      <4> QED BY <2>2, <4>2, <4>3
    <3>2. ~(i < 128) => i >= 128
      OBVIOUS
    <3>3. B(g, i) = B(f, i)
      BY <3>1, <3>2, Zenon
    <3> HIDE DEF B
    <3> QED BY <2>1, <2>2, <3>3
  <2>4. F(g)
    <3> HIDE DEF B
    <3> QED BY <2>2, <2>3
  <2> HIDE DEF F
  <2> QED BY <2>4
<1>6. Groups(n) = CHOOSE f : F(f)
  BY Zenon DEF Groups
<1>7. F(Groups(n))
  <2> HIDE DEF F
  <2> QED BY <1>5, <1>6
<1>8. PICK f : f = Groups(n)
  OBVIOUS
<1>9. f = [i \in 0..n |-> B(f, i)]
  BY <1>7, <1>8, Zenon
<1>10. f[v] = B(f, v)
  <2> HIDE DEF B
  <2> QED BY <1>9
<1> QED BY <1>8, <1>10, Zenon

\* The first group ends the integer: it holds a small value, or is zero.
LEMMA GroupsAre ==
  ASSUME NEW n \in Nat
  PROVE  Groups(n)[n] \in Seq(Nat) /\ Len(Groups(n)[n]) >= 1
         /\ Groups(n)[n][1] = IF n < 128 THEN n ELSE 0
<1>1. PICK G : G = Groups(n)
  OBVIOUS
<1>2. \A v \in 0..n : G[v] = IF v < 128 THEN <<v>> ELSE <<0>> \o G[v \div 128]
  BY <1>1, GroupsDef
<1> DEFINE S == {k \in Nat : \A v \in 0..n : v < k => G[v] \in Seq(Nat)}
<1>3. 0 \in S
  OBVIOUS
<1>4. ASSUME NEW k \in Nat, k \in S PROVE k + 1 \in S
  <2>1. ASSUME NEW v \in 0..n, v < k + 1 PROVE G[v] \in Seq(Nat)
    <3>1. CASE v < 128
      <4>1. G[v] = <<v>>
        BY <1>2, <3>1
      <4> QED BY <4>1
    <3>2. CASE ~(v < 128)
      <4>1. PICK j \in Nat : j = v \div 128 /\ j < v
        BY <3>2
      <4>2. G[j] \in Seq(Nat)
        BY <1>4, <2>1, <4>1
      <4>3. G[v] = <<0>> \o G[j]
        BY <1>2, <3>2, <4>1
      <4> QED BY <4>2, <4>3
    <3> QED BY <3>1, <3>2
  <2> QED BY <2>1
<1>5. Nat \subseteq S
  <2> HIDE DEF S
  <2> QED BY <1>3, <1>4, Induction
<1>6. \A v \in 0..n : G[v] \in Seq(Nat)
  <2>1. n + 1 \in S
    <3> HIDE DEF S
    <3> QED BY <1>5
  <2>2. \A v \in 0..n : v < n + 1
    OBVIOUS
  <2> QED BY <2>1, <2>2
<1>9. G[n] = IF n < 128 THEN <<n>> ELSE <<0>> \o G[n \div 128]
  <2>1. n \in 0..n
    OBVIOUS
  <2> QED BY <1>2, <2>1
<1>7. CASE n < 128
  <2>1. G[n] = <<n>>
    BY <1>7, <1>9
  <2> QED BY <1>1, <1>7, <2>1
<1>8. CASE ~(n < 128)
  <2>1. PICK j \in 0..n : j = n \div 128
    BY <1>8
  <2>2. PICK g \in Seq(Nat) : g = G[j]
    BY <1>6
  <2>3. G[n] = <<0>> \o g
    BY <1>8, <1>9, <2>1, <2>2
  <2> QED BY <1>1, <1>8, <2>3
<1> QED BY <1>7, <1>8

\* An integer is read back exactly when it is below the mask.
LEMMA IntegerTrip ==
  ASSUME NEW N \in 4..7, NEW n \in Nat
  PROVE  LET s == encode_integer(N, 0, n) IN
         (decode_integer(N, s) = [value |-> n, read |-> Len(s)]) <=> (n < 2^N - 1)
<1>1. PICK s : s = encode_integer(N, 0, n)
  OBVIOUS
<1>2. PICK mask \in {15, 31, 63, 127} : mask = 2^N - 1
  <2>1. 2^4 = 16 /\ 2^5 = 32 /\ 2^6 = 64 /\ 2^7 = 128
    OBVIOUS
  <2>2. CASE N = 4
    BY <2>1, <2>2
  <2>3. CASE N = 5
    BY <2>1, <2>3
  <2>4. CASE N = 6
    BY <2>1, <2>4
  <2>5. CASE N = 7
    BY <2>1, <2>5
  <2> QED BY <2>2, <2>3, <2>4, <2>5
<1>3. CASE n < mask
  <2>1. s = <<n>>
    BY <1>1, <1>2, <1>3 DEF encode_integer
  <2>2. s[1] % (mask + 1) = n /\ Len(s) = 1
    BY <1>3, <2>1
  <2>3. decode_integer(N, s) = [value |-> n, read |-> 1]
    BY <1>2, <1>3, <2>2 DEF decode_integer
  <2> QED BY <1>1, <1>2, <1>3, <2>2, <2>3
<1>4. CASE ~(n < mask)
  <2>1. PICK v \in Nat : v = n - mask
    BY <1>4
  <2>2. PICK g \in Seq(Nat) : g = Groups(v)[v] /\ Len(g) >= 1 /\ g[1] = IF v < 128 THEN v ELSE 0
    BY GroupsAre
  <2>3. s = <<mask>> \o g
    <3>1. s = <<0 + mask>> \o Groups(v)[v]
      BY <1>1, <1>2, <1>4, <2>1 DEF encode_integer
    <3> QED BY <2>2, <3>1
  <2>4. Len(s) = 1 + Len(g) /\ s[1] = mask /\ s[2] = g[1]
    BY <2>2, <2>3
  <2>5. s[1] % (mask + 1) = mask /\ Len(s) >= 2 /\ Len(s) \in Nat
    BY <2>2, <2>4
  <2>6. s[2] < 128 /\ s[2] \in Nat
    BY <2>2, <2>4
  <2> DEFINE ends == {i \in 2..Len(s) : s[i] < 128}
  <2>7. ends # {} /\ 2 \in ends
    BY <2>5, <2>6
  <2>8. PICK last : last = CHOOSE i \in ends : \A j \in ends : i <= j
    OBVIOUS
  <2>9. last = 2
    <3>1. \A j \in ends : 2 <= j
      BY <2>5
    <3>2. \A i \in ends : i <= 2 => i = 2
      BY <2>5
    <3> HIDE DEF ends
    <3> QED BY <2>7, <2>8, <3>1, <3>2
  <2>10. decode_integer(N, s) = [value |-> s[last] % 128, read |-> last]
    <3>1. decode_integer(N, s) =
            IF s[1] % ((2^N - 1) + 1) < 2^N - 1 \/ Len(s) = 1
            THEN [value |-> s[1] % ((2^N - 1) + 1), read |-> 1]
            ELSE [value |-> s[IF ends = {} THEN Len(s)
                              ELSE CHOOSE i \in ends : \A j \in ends : i <= j] % 128,
                  read |-> IF ends = {} THEN Len(s)
                           ELSE CHOOSE i \in ends : \A j \in ends : i <= j]
      BY Zenon DEF decode_integer
    <3>2. decode_integer(N, s) =
            IF s[1] % (mask + 1) < mask \/ Len(s) = 1
            THEN [value |-> s[1] % (mask + 1), read |-> 1]
            ELSE [value |-> s[last] % 128, read |-> last]
      BY <1>2, <2>7, <2>8, <3>1, Zenon
    <3>3. PICK x : x = s[1] % (mask + 1)
      OBVIOUS
    <3>4. x = mask
      BY <2>5, <3>3, Zenon
    <3>6. Len(s) # 1
      BY <2>2, <2>4
    <3>5. ~(x < mask)
      BY <3>4
    <3> QED BY <3>2, <3>3, <3>5, <3>6, Zenon
  <2>11. s[last] % 128 # n
    <3>1. \A x \in Nat : x < 128 => x % 128 = x
      OBVIOUS
    <3>3. g[1] % 128 = g[1]
      BY <2>4, <2>6, <3>1
    <3>2. g[1] # n
      BY <2>1, <2>2, <1>4
    <3> QED BY <2>4, <2>9, <3>2, <3>3
  <2>12. decode_integer(N, s).value # n
    BY <2>10, <2>11
  <2> QED BY <1>1, <1>2, <1>4, <2>12
<1> QED BY <1>3, <1>4

-----------------------------------------------------------------------------
\* Whole octets give back their bits.
LEMMA BitsOfOctets ==
  ASSUME NEW b \in Seq({0, 1}), Len(b) % 8 = 0
  PROVE  Bits(Octets(b)) = b
<1>1. PICK n \in Nat : n = Len(b) \div 8 /\ Len(b) = 8 * n
  OBVIOUS
<1>2. PICK o : o = Octets(b)
  OBVIOUS
<1>3. Len(o) = n
  BY <1>1, <1>2 DEF Octets
<1>4. ASSUME NEW k \in 1..n
      PROVE  o[k] = 128 * b[8*k - 7] + 64 * b[8*k - 6] + 32 * b[8*k - 5] + 16 * b[8*k - 4]
                      + 8 * b[8*k - 3] + 4 * b[8*k - 2] + 2 * b[8*k - 1] + b[8*k]
  BY <1>1, <1>2 DEF Octets
<1>5. ASSUME NEW k \in 1..n
      PROVE  /\ Bit(o[k], 1) = b[8*k - 7] /\ Bit(o[k], 2) = b[8*k - 6]
             /\ Bit(o[k], 3) = b[8*k - 5] /\ Bit(o[k], 4) = b[8*k - 4]
             /\ Bit(o[k], 5) = b[8*k - 3] /\ Bit(o[k], 6) = b[8*k - 2]
             /\ Bit(o[k], 7) = b[8*k - 1] /\ Bit(o[k], 8) = b[8*k]
  <2>1. \A i \in 1..Len(b) : b[i] \in 0..1
    OBVIOUS
  <2>2. /\ 8*k - 7 \in 1..Len(b) /\ 8*k - 6 \in 1..Len(b) /\ 8*k - 5 \in 1..Len(b)
        /\ 8*k - 4 \in 1..Len(b) /\ 8*k - 3 \in 1..Len(b) /\ 8*k - 2 \in 1..Len(b)
        /\ 8*k - 1 \in 1..Len(b) /\ 8*k \in 1..Len(b)
    BY <1>1
  <2>3. /\ b[8*k - 7] \in 0..1 /\ b[8*k - 6] \in 0..1 /\ b[8*k - 5] \in 0..1 /\ b[8*k - 4] \in 0..1
        /\ b[8*k - 3] \in 0..1 /\ b[8*k - 2] \in 0..1 /\ b[8*k - 1] \in 0..1 /\ b[8*k] \in 0..1
    BY <2>1, <2>2
  <2>4. PICK p \in 0..1, q \in 0..1, r \in 0..1, s \in 0..1 :
          p = b[8*k - 7] /\ q = b[8*k - 6] /\ r = b[8*k - 5] /\ s = b[8*k - 4]
    BY <2>3
  <2>5. PICK t \in 0..1, u \in 0..1, v \in 0..1, w \in 0..1 :
          t = b[8*k - 3] /\ u = b[8*k - 2] /\ v = b[8*k - 1] /\ w = b[8*k]
    BY <2>3
  <2>6. PICK x : x = o[k]
    OBVIOUS
  <2>7. x = 128*p + 64*q + 32*r + 16*s + 8*t + 4*u + 2*v + w
    BY <1>4, <2>4, <2>5, <2>6
  <2>8. /\ Bit(x, 1) = p /\ Bit(x, 2) = q /\ Bit(x, 3) = r /\ Bit(x, 4) = s
        /\ Bit(x, 5) = t /\ Bit(x, 6) = u /\ Bit(x, 7) = v /\ Bit(x, 8) = w
    <3>1. x \div 128 = p /\ x \div 64 = 2*p + q /\ x \div 32 = 4*p + 2*q + r
          /\ x \div 16 = 8*p + 4*q + 2*r + s
      BY ONLY <2>7, p \in 0..1, q \in 0..1, r \in 0..1, s \in 0..1,
              t \in 0..1, u \in 0..1, v \in 0..1, w \in 0..1
    <3>2. x \div 8 = 16*p + 8*q + 4*r + 2*s + t /\ x \div 1 = x
          /\ x \div 4 = 32*p + 16*q + 8*r + 4*s + 2*t + u
          /\ x \div 2 = 64*p + 32*q + 16*r + 8*s + 4*t + 2*u + v
      BY ONLY <2>7, p \in 0..1, q \in 0..1, r \in 0..1, s \in 0..1,
              t \in 0..1, u \in 0..1, v \in 0..1, w \in 0..1
    <3>3. Bit(x, 1) = p /\ Bit(x, 2) = q /\ Bit(x, 3) = r /\ Bit(x, 4) = s
      BY <3>1 DEF Bit
    <3>4. Bit(x, 5) = t /\ Bit(x, 6) = u /\ Bit(x, 7) = v /\ Bit(x, 8) = w
      BY <2>7, <3>2 DEF Bit
    <3> QED BY <3>3, <3>4
  <2> QED BY <2>4, <2>5, <2>6, <2>8
<1>6. ASSUME NEW i \in 1..Len(b) PROVE Bit(o[((i - 1) \div 8) + 1], ((i - 1) % 8) + 1) = b[i]
  <2>0. PICK m \in Nat : m = i - 1
    OBVIOUS
  <2>1. PICK k \in Nat, r \in 0..7 : k = m \div 8 /\ r = m % 8 /\ m = 8 * k + r
    OBVIOUS
  <2>2. PICK j \in 1..n : j = k + 1
    BY <1>1, <2>0, <2>1
  <2>3. i = 8*j - 7 + r
    BY <2>0, <2>1, <2>2
  <2>4. Bit(o[j], r + 1) = b[8*j - 7 + r]
    <3>1. CASE r = 0
      BY <1>5, <3>1
    <3>2. CASE r = 1
      BY <1>5, <3>2
    <3>3. CASE r = 2
      BY <1>5, <3>3
    <3>4. CASE r = 3
      BY <1>5, <3>4
    <3>5. CASE r = 4
      BY <1>5, <3>5
    <3>6. CASE r = 5
      BY <1>5, <3>6
    <3>7. CASE r = 6
      BY <1>5, <3>7
    <3>8. CASE r = 7
      BY <1>5, <3>8
    <3> QED BY <3>1, <3>2, <3>3, <3>4, <3>5, <3>6, <3>7, <3>8
  <2> QED BY <2>0, <2>1, <2>2, <2>3, <2>4
<1>7. Bits(o) = [i \in 1..Len(b) |-> b[i]]
  <2>1. Bits(o) = [i \in 1..Len(b) |-> Bit(o[((i - 1) \div 8) + 1], ((i - 1) % 8) + 1)]
    BY <1>1, <1>3 DEF Bits
  <2> QED BY <1>6, <2>1
<1>8. b = [i \in 1..Len(b) |-> b[i]]
  OBVIOUS
<1> QED BY <1>2, <1>7, <1>8, Zenon

\* A code is a sequence of bits.
LEMMA CodeIs ==
  ASSUME NEW s \in Symbols
  PROVE  /\ Code(s) \in Seq({0, 1}) /\ Len(Code(s)) \in Nat \ {0}
         /\ Len(Code(s)) = static_huffman[s][2] /\ DOMAIN Code(s) = 1..Len(Code(s))
<1>1. static_huffman[s] \in Nat \X (Nat \ {0})
  BY HuffmanAssumption
<1>2. PICK code \in Nat, len \in Nat \ {0} : code = static_huffman[s][1] /\ len = static_huffman[s][2]
  BY <1>1
<1>3. Code(s) = [i \in 1..len |-> (code \div 2^(len - i)) % 2]
  BY <1>2 DEF Code
<1>4. ASSUME NEW i \in 1..len PROVE (code \div 2^(len - i)) % 2 \in {0, 1}
  <2>1. PICK m \in Nat : m = len - i
    OBVIOUS
  <2>2. PICK w \in Int : w = 2^m
    OBVIOUS
  <2>3. (code \div w) % 2 \in {0, 1}
    OBVIOUS
  <2> QED BY <2>1, <2>2, <2>3
<1>5. PICK f : f = [i \in 1..len |-> (code \div 2^(len - i)) % 2]
  OBVIOUS
<1>6. f \in [1..len -> {0, 1}]
  BY <1>4, <1>5
<1>7. f \in Seq({0, 1}) /\ Len(f) = len /\ DOMAIN f = 1..len
  BY <1>6
<1> QED BY <1>2, <1>3, <1>5, <1>7

\* The codes of a string are those of the recursion.
LEMMA CodesDef ==
  ASSUME NEW C, NEW s \in Seq(C)
  PROVE  /\ Codes(s)[0] = <<>>
         /\ \A i \in 1..Len(s) : Codes(s)[i] = Codes(s)[i - 1] \o Code(s[i])
<1> DEFINE B(f, i) == IF i = 0 THEN <<>> ELSE f[i - 1] \o Code(s[i])
           F(f) == f = [i \in 0..Len(s) |-> B(f, i)]
           S == {k \in Nat : \E f : \A i \in 0..Len(s) : i < k => f[i] = B(f, i)}
<1>1. Len(s) \in Nat
  OBVIOUS
<1>2. 0 \in S
  <2>1. \A i \in 0..Len(s) : i < 0 => {}[i] = B({}, i)
    BY <1>1
  <2> HIDE DEF B
  <2> QED BY <2>1
<1>3. ASSUME NEW k \in Nat, k \in S PROVE k + 1 \in S
  <2>1. PICK f : \A i \in 0..Len(s) : i < k => f[i] = B(f, i)
    BY <1>3
  <2>2. PICK b : b = B(f, k)
    OBVIOUS
  <2>3. PICK g : g = [i \in 0..Len(s) |-> IF i = k THEN b ELSE f[i]]
    OBVIOUS
  <2>4. ASSUME NEW i \in 0..Len(s), i < k + 1 PROVE g[i] = B(g, i)
    <3>1. i # 0 => g[i - 1] = f[i - 1]
      BY <1>1, <2>3, <2>4
    <3>2. B(g, i) = B(f, i)
      BY <3>1, Zenon
    <3> HIDE DEF B
    <3>3. CASE i = k
      BY <2>2, <2>3, <3>2, <3>3
    <3>4. CASE i # k
      BY <1>1, <2>1, <2>3, <2>4, <3>2, <3>4
    <3> QED BY <3>3, <3>4
  <2> HIDE DEF B
  <2> QED BY <2>4
<1>4. Len(s) + 1 \in S
  <2>1. \A k \in Nat : k \in S => k + 1 \in S
    BY <1>3
  <2> HIDE DEF S
  <2> QED BY <1>1, <1>2, <2>1, Induction
<1>5. \E f : F(f)
  <2>1. PICK f : \A i \in 0..Len(s) : i < Len(s) + 1 => f[i] = B(f, i)
    BY <1>4
  <2>2. PICK g : g = [i \in 0..Len(s) |-> f[i]]
    OBVIOUS
  <2>3. ASSUME NEW i \in 0..Len(s) PROVE g[i] = B(g, i)
    <3>1. i # 0 => g[i - 1] = f[i - 1]
      BY <1>1, <2>2
    <3>2. B(g, i) = B(f, i)
      BY <3>1, Zenon
    <3> HIDE DEF B
    <3> QED BY <1>1, <2>1, <2>2, <3>2
  <2>4. F(g)
    <3> HIDE DEF B
    <3> QED BY <2>2, <2>3
  <2> HIDE DEF F
  <2> QED BY <2>4
<1>6. Codes(s) = CHOOSE f : F(f)
  BY Zenon DEF Codes
<1>7. F(Codes(s))
  <2> HIDE DEF F
  <2> QED BY <1>5, <1>6
<1>8. PICK f : f = Codes(s)
  OBVIOUS
<1>9. f = [i \in 0..Len(s) |-> B(f, i)]
  BY <1>7, <1>8, Zenon
<1>10. f[0] = <<>>
  BY <1>1, <1>9
<1>11. ASSUME NEW i \in 1..Len(s) PROVE f[i] = f[i - 1] \o Code(s[i])
  BY <1>1, <1>9
<1> QED BY <1>8, <1>10, <1>11

\* Appending bits leaves those before them.
LEMMA BitsAppended ==
  ASSUME NEW b \in Seq({0, 1}), NEW c \in Seq({0, 1})
  PROVE  /\ b \o c \in Seq({0, 1}) /\ Len(b \o c) = Len(b) + Len(c)
         /\ \A i \in 1..Len(b) : (b \o c)[i] = b[i]
         /\ \A i \in 1..Len(c) : (b \o c)[Len(b) + i] = c[i]
<1>1. b \o c \in Seq({0, 1}) /\ Len(b \o c) = Len(b) + Len(c)
  OBVIOUS
<1>2. \A i \in 1..Len(b) : (b \o c)[i] = b[i]
  OBVIOUS
<1>3. \A i \in 1..Len(c) : (b \o c)[Len(b) + i] = c[i]
  OBVIOUS
<1> QED BY <1>1, <1>2, <1>3

\* The codes of the first symbols stay where they are.
LEMMA CodesGrow ==
  ASSUME NEW s \in Seq(Characters)
  PROVE  /\ \A i \in 0..Len(s) : Codes(s)[i] \in Seq({0, 1})
         /\ \A i \in 0..Len(s) : /\ Len(Codes(s)[i]) <= Len(Codes(s)[Len(s)])
                                 /\ \A q \in 1..Len(Codes(s)[i]) : Codes(s)[Len(s)][q] = Codes(s)[i][q]
<1>1. PICK D : D = Codes(s)
  OBVIOUS
<1>2. PICK n \in Nat : n = Len(s)
  OBVIOUS
<1>3. D[0] = <<>> /\ \A i \in 1..n : D[i] = D[i - 1] \o Code(s[i])
  BY <1>1, <1>2, CodesDef
<1>4. \A i \in 1..n : Code(s[i]) \in Seq({0, 1})
  <2>0. Characters \subseteq Symbols
    BY HuffmanAssumption
  <2>1. \A i \in 1..n : s[i] \in Symbols
    BY <1>2, <2>0
  <2> QED BY <2>1, CodeIs
<1>5. \A i \in 0..n : D[i] \in Seq({0, 1})
  <2> DEFINE S == {k \in Nat : k <= n => D[k] \in Seq({0, 1})}
  <2>0. <<>> \in Seq({0, 1})
    OBVIOUS
  <2>1. 0 \in S
    BY <1>3, <2>0
  <2>2. ASSUME NEW k \in Nat, k \in S PROVE k + 1 \in S
    <3>1. SUFFICES ASSUME k + 1 <= n PROVE D[k + 1] \in Seq({0, 1})
      OBVIOUS
    <3>2. PICK i \in 1..n : i = k + 1
      BY <3>1
    <3>7. D[i] = D[i - 1] \o Code(s[i])
      BY <1>3, Zenon
    <3>3. i - 1 = k
      BY <3>2
    <3>4. PICK d \in Seq({0, 1}) : d = D[k]
      <4>1. k <= n
        BY <3>1
      <4>2. D[k] \in Seq({0, 1})
        BY <2>2, <4>1, Zenon
      <4> QED BY <4>2
    <3>5. PICK c \in Seq({0, 1}) : c = Code(s[i])
      BY <1>4
    <3>6. d \o c \in Seq({0, 1})
      BY BitsAppended
    <3> QED BY <3>2, <3>3, <3>4, <3>5, <3>6, <3>7
  <2>3. Nat \subseteq S
    <3> HIDE DEF S
    <3> QED BY <2>1, <2>2, Induction
  <2> QED BY <2>3
<1>6. ASSUME NEW i \in 0..n
      PROVE  Len(D[i]) <= Len(D[n]) /\ \A q \in 1..Len(D[i]) : D[n][q] = D[i][q]
  <2> DEFINE Kept(m) == Len(D[i]) <= Len(D[m]) /\ \A q \in 1..Len(D[i]) : D[m][q] = D[i][q]
             S == {k \in Nat : i + k <= n => Kept(i + k)}
  <2>1. 0 \in S
    <3>1. i + 0 = i /\ Len(D[i]) \in Nat
      BY <1>5
    <3> QED BY <3>1
  <2>2. ASSUME NEW k \in Nat, k \in S PROVE k + 1 \in S
    <3>1. SUFFICES ASSUME i + (k + 1) <= n PROVE Kept(i + (k + 1))
      OBVIOUS
    <3>2. PICK m \in 1..n : m = i + (k + 1)
      BY <3>1
    <3>3. m - 1 = i + k /\ m - 1 \in 0..n /\ i + k <= n
      BY <3>2
    <3>4. Kept(m - 1)
      BY <2>2, <3>3
    <3>5. PICK e \in Seq({0, 1}) : e = D[m - 1]
      BY <1>5, <3>3
    <3>6. PICK c \in Seq({0, 1}) : c = Code(s[m])
      BY <1>4
    <3>7. D[m] = e \o c
      BY <1>3, <3>5, <3>6
    <3>8. Len(D[m]) = Len(e) + Len(c) /\ \A q \in 1..Len(e) : D[m][q] = e[q]
      BY <3>7, BitsAppended
    <3>9. Len(D[i]) \in Nat /\ Len(e) \in Nat /\ Len(c) \in Nat
      BY <1>5
    <3>10. Kept(m)
      BY <3>4, <3>5, <3>8, <3>9
    <3> QED BY <3>2, <3>10
  <2>3. n - i \in S
    <3>1. n - i \in Nat
      OBVIOUS
    <3> HIDE DEF S
    <3> QED BY <2>1, <2>2, <3>1, Induction
  <2>4. i + (n - i) = n /\ n <= n
    OBVIOUS
  <2> HIDE DEF Kept
  <2>5. Kept(n)
    BY <2>3, <2>4
  <2> QED BY <2>5 DEF Kept
<1> QED BY <1>1, <1>2, <1>5, <1>6

-----------------------------------------------------------------------------
\* A walk that reaches a leaf ends at one, further on.
LEMMA LeafIs ==
  ASSUME NEW b \in Seq({0, 1}), NEW i \in 1..(Len(b) + 1), Leaves(b, i) # {}
  PROVE  /\ Leaf(b, i) \in Leaves(b, i) /\ Leaf(b, i) \in i..Len(b)
         /\ \A k \in Leaves(b, i) : Leaf(b, i) <= k
<1>1. Leaves(b, i) \subseteq i..Len(b) /\ Leaves(b, i) \subseteq Nat
  BY DEF Leaves
<1>2. \E m \in Leaves(b, i) : \A k \in Leaves(b, i) : m <= k
  BY <1>1, Smallest
<1>3. Leaf(b, i) \in Leaves(b, i) /\ \A k \in Leaves(b, i) : Leaf(b, i) <= k
  BY <1>2, Zenon DEF Leaf
<1> QED BY <1>1, <1>3

\* What the walks find are the values of the recursion.
LEMMA WalksDef ==
  ASSUME NEW b \in Seq({0, 1}), NEW i \in 1..(Len(b) + 1)
  PROVE  Walks(b)[i] =
           IF Leaves(b, i) = {} THEN IF InTree(b, i) THEN <<>> ELSE <<NullRead>>
           ELSE IF created_huffman_tree[SubSeq(b, i, Leaf(b, i))] = EOS THEN <<>>
                ELSE <<created_huffman_tree[SubSeq(b, i, Leaf(b, i))]>> \o Walks(b)[Leaf(b, i) + 1]
<1> DEFINE N == Len(b) + 1
           X(k) == created_huffman_tree[SubSeq(b, k, Leaf(b, k))]
           B(f, k) == IF Leaves(b, k) = {} THEN IF InTree(b, k) THEN <<>> ELSE <<NullRead>>
                      ELSE IF X(k) = EOS THEN <<>> ELSE <<X(k)>> \o f[Leaf(b, k) + 1]
           F(f) == f = [k \in 1..N |-> B(f, k)]
           S == {m \in Nat : \E f : \A k \in 1..N : k > N - m => f[k] = B(f, k)}
<1>1. N \in Nat
  OBVIOUS
<1>2. \A k \in 1..N : Leaves(b, k) # {} => Leaf(b, k) + 1 \in (k + 1)..N
  <2>1. ASSUME NEW k \in 1..N, Leaves(b, k) # {} PROVE Leaf(b, k) + 1 \in (k + 1)..N
    <3>1. Leaf(b, k) \in k..Len(b)
      BY <2>1, LeafIs
    <3> QED BY <3>1
  <2> QED BY <2>1
<1>3. 0 \in S
  <2>1. \A k \in 1..N : k > N - 0 => {}[k] = B({}, k)
    BY <1>1
  <2> HIDE DEF B
  <2> QED BY <2>1
<1>4. ASSUME NEW m \in Nat, m \in S PROVE m + 1 \in S
  <2>1. PICK f : \A k \in 1..N : k > N - m => f[k] = B(f, k)
    BY <1>4
  <2>2. PICK y : y = B(f, N - m)
    OBVIOUS
  <2>3. PICK g : g = [k \in 1..N |-> IF k = N - m THEN y ELSE f[k]]
    OBVIOUS
  <2>4. ASSUME NEW k \in 1..N, k > N - (m + 1) PROVE g[k] = B(g, k)
    <3>1. \A j \in 1..N : j > N - m => g[j] = f[j]
      BY <1>1, <2>3
    <3>2. Leaves(b, k) # {} => g[Leaf(b, k) + 1] = f[Leaf(b, k) + 1]
      <4>1. SUFFICES ASSUME Leaves(b, k) # {} PROVE g[Leaf(b, k) + 1] = f[Leaf(b, k) + 1]
        OBVIOUS
      <4>2. PICK x : x = Leaf(b, k) + 1
        OBVIOUS
      <4>3. x \in 1..N /\ x > N - m
        BY <1>1, <1>2, <2>4, <4>1, <4>2
      <4> QED BY <3>1, <4>2, <4>3
    <3>3. B(g, k) = B(f, k)
      BY <3>2, Zenon
    <3>4. g[k] = B(f, k)
      <4> HIDE DEF B
      <4>1. CASE k = N - m
        BY <1>1, <2>2, <2>3, <4>1
      <4>2. CASE k # N - m
        <5>1. k > N - m
          BY <1>1, <2>4, <4>2
        <5> QED BY <2>1, <3>1, <5>1
      <4> QED BY <4>1, <4>2
    <3> HIDE DEF B
    <3> QED BY <3>3, <3>4
  <2> HIDE DEF B
  <2> QED BY <2>4
<1>5. N \in S
  <2>1. \A m \in Nat : m \in S => m + 1 \in S
    BY <1>4
  <2> HIDE DEF S
  <2> QED BY <1>1, <1>3, <2>1, Induction
<1>6. \E f : F(f)
  <2>1. PICK f : \A k \in 1..N : k > N - N => f[k] = B(f, k)
    BY <1>5
  <2>2. \A k \in 1..N : f[k] = B(f, k)
    <3> HIDE DEF B
    <3> QED BY <1>1, <2>1
  <2>3. PICK g : g = [k \in 1..N |-> f[k]]
    OBVIOUS
  <2>4. ASSUME NEW k \in 1..N PROVE g[k] = B(g, k)
    <3>1. Leaves(b, k) # {} => g[Leaf(b, k) + 1] = f[Leaf(b, k) + 1]
      <4>1. SUFFICES ASSUME Leaves(b, k) # {} PROVE g[Leaf(b, k) + 1] = f[Leaf(b, k) + 1]
        OBVIOUS
      <4>2. PICK x : x = Leaf(b, k) + 1
        OBVIOUS
      <4>3. x \in 1..N
        BY <1>1, <1>2, <4>1, <4>2
      <4> QED BY <2>3, <4>2, <4>3
    <3>2. B(g, k) = B(f, k)
      BY <3>1, Zenon
    <3> HIDE DEF B
    <3> QED BY <2>2, <2>3, <3>2
  <2>5. F(g)
    <3> HIDE DEF B
    <3> QED BY <2>3, <2>4
  <2> HIDE DEF F
  <2> QED BY <2>5
<1>7. Walks(b) = CHOOSE f : F(f)
  BY Zenon DEF Walks
<1>8. F(Walks(b))
  <2> HIDE DEF F
  <2> QED BY <1>6, <1>7
<1>9. PICK f : f = Walks(b)
  OBVIOUS
<1>10. f = [k \in 1..N |-> B(f, k)]
  BY <1>8, <1>9, Zenon
<1>11. f[i] = B(f, i)
  <2> HIDE DEF B
  <2> QED BY <1>10
<1> QED BY <1>9, <1>11, Zenon

\* What a symbol is read as.
ReadAs(s) == IF s = 5 THEN 6 ELSE s

\* The leaf of a code has its symbol, the last one that was set.
LEMMA TreeIs ==
  ASSUME NEW s \in Characters
  PROVE  /\ s \in Symbols /\ Code(s) \in DOMAIN created_huffman_tree
         /\ created_huffman_tree[Code(s)] = ReadAs(s) /\ ReadAs(s) # EOS
<1>1. s \in Symbols /\ s # EOS /\ Symbols \subseteq Nat
  BY HuffmanAssumption
<1>2. {5, 6} \subseteq Symbols /\ Code(5) = Code(6)
  BY HuffmanAssumption
<1>3. Code(s) \in DOMAIN created_huffman_tree
  BY <1>1 DEF created_huffman_tree
<1>4. PICK c : c = Code(s)
  OBVIOUS
<1>5. created_huffman_tree[c] =
        CHOOSE t \in Symbols : Code(t) = c /\ \A u \in Symbols : Code(u) = c => u <= t
  BY <1>1, <1>4 DEF created_huffman_tree
\* No other symbol has this code.
<1>6. ASSUME NEW t \in Symbols, Code(t) = c PROVE s = t \/ {s, t} = {5, 6}
  <2>1. StartsWith(Code(s), Code(t))
    BY <1>4, <1>6 DEF StartsWith
  <2>2. t = s \/ {t, s} = {5, 6}
    BY <1>1, <2>1, HuffmanAssumption
  <2> QED BY <2>2
<1>7. ReadAs(s) \in Symbols /\ Code(ReadAs(s)) = c /\ ReadAs(s) # EOS
  <2>1. CASE s = 5
    BY <1>2, <1>4, <2>1 DEF ReadAs, EOS
  <2>2. CASE s # 5
    BY <1>1, <1>4, <2>2 DEF ReadAs
  <2> QED BY <2>1, <2>2
<1>8. ASSUME NEW u \in Symbols, Code(u) = c PROVE u <= ReadAs(s)
  <2>1. CASE s = u
    BY <1>1, <2>1 DEF ReadAs
  <2>2. CASE {s, u} = {5, 6}
    <3>1. (s = 5 \/ s = 6) /\ (u = 5 \/ u = 6)
      BY <2>2
    <3> QED BY <3>1 DEF ReadAs
  <2> QED BY <1>6, <1>8, <2>1, <2>2
<1>9. ASSUME NEW t \in Symbols, Code(t) = c, \A u \in Symbols : Code(u) = c => u <= t
      PROVE  t = ReadAs(s)
  <2>1. ReadAs(s) <= t /\ t <= ReadAs(s)
    BY <1>7, <1>8, <1>9
  <2>2. t \in Nat /\ ReadAs(s) \in Nat
    BY <1>1, <1>7
  <2> QED BY <2>1, <2>2
<1>10. \E t \in Symbols : Code(t) = c /\ \A u \in Symbols : Code(u) = c => u <= t
  BY <1>7, <1>8
<1>11. created_huffman_tree[c] = ReadAs(s)
  BY <1>5, <1>9, <1>10
<1> QED BY <1>1, <1>3, <1>4, <1>7, <1>11

\* Where a code begins, the walk ends with it.
LEMMA WalkOne ==
  ASSUME NEW b \in Seq({0, 1}), NEW s \in Characters, NEW p \in 1..(Len(b) + 1),
         p - 1 + Len(Code(s)) <= Len(b),
         \A i \in 1..Len(Code(s)) : b[p - 1 + i] = Code(s)[i]
  PROVE  Walks(b)[p] = <<ReadAs(s)>> \o Walks(b)[p + Len(Code(s))]
<1>1. PICK c \in Seq({0, 1}) : c = Code(s) /\ Len(c) \in Nat \ {0} /\ DOMAIN c = 1..Len(c)
  <2>1. s \in Symbols
    BY TreeIs
  <2>2. Code(s) \in Seq({0, 1}) /\ Len(Code(s)) \in Nat \ {0} /\ DOMAIN Code(s) = 1..Len(Code(s))
    BY <2>1, CodeIs
  <2> QED BY <2>2, Zenon
<1>2. PICK e \in Nat : e = p - 1 + Len(c)
  <2>1. PICK n \in Nat : n = Len(c)
    BY <1>1
  <2>2. Len(b) \in Nat
    OBVIOUS
  <2>3. p \in Nat \ {0}
    BY <2>2
  <2>4. p - 1 + n \in Nat
    BY <2>1, <2>3
  <2> QED BY <2>1, <2>4
<1>3. e \in p..Len(b) /\ Len(b) \in Nat
  BY <1>1, <1>2
<1>4. ASSUME NEW j \in p..Len(b)
      PROVE  /\ SubSeq(b, p, j) = [i \in 1..(j - p + 1) |-> b[p - 1 + i]]
             /\ DOMAIN SubSeq(b, p, j) = 1..(j - p + 1)
             /\ \A i \in 1..(j - p + 1) : SubSeq(b, p, j)[i] = b[p - 1 + i]
  <2>1. SubSeq(b, p, j) = [i \in 1..(j - p + 1) |-> b[i + p - 1]]
    OBVIOUS
  <2>2. \A i \in 1..(j - p + 1) : i + p - 1 = p - 1 + i
    OBVIOUS
  <2> QED BY <2>1, <2>2
<1>5. SubSeq(b, p, e) = c
  <2>1. e - p + 1 = Len(c)
    BY <1>1, <1>2
  <2>2. SubSeq(b, p, e) = [i \in 1..Len(c) |-> b[p - 1 + i]]
    BY <1>3, <1>4, <2>1
  <2>3. \A i \in 1..Len(c) : b[p - 1 + i] = c[i]
    BY <1>1
  <2>4. c = [i \in 1..Len(c) |-> c[i]]
    BY <1>1
  <2> QED BY <2>2, <2>3, <2>4
<1>6. e \in Leaves(b, p)
  BY <1>1, <1>3, <1>5, TreeIs DEF Leaves
<1>7. ASSUME NEW j \in Leaves(b, p), j < e PROVE FALSE
  <2>1. j \in p..Len(b) /\ SubSeq(b, p, j) \in DOMAIN created_huffman_tree
    BY DEF Leaves
  <2>2. PICK t \in Symbols : SubSeq(b, p, j) = Code(t)
    BY <2>1 DEF created_huffman_tree
  <2>3. DOMAIN Code(t) = 1..(j - p + 1) /\ \A i \in 1..(j - p + 1) : Code(t)[i] = b[p - 1 + i]
    BY <1>4, <2>1, <2>2
  <2>4. j - p + 1 < Len(c) /\ 1..(j - p + 1) \subseteq 1..Len(c) /\ j - p + 1 \in Nat
    BY <1>1, <1>2, <1>7, <2>1
  <2>5. StartsWith(Code(s), Code(t))
    BY <1>1, <2>3, <2>4 DEF StartsWith
  <2>6. t = s \/ {t, s} = {5, 6}
    BY <2>5, TreeIs, HuffmanAssumption
  <2>7. Code(t) = c
    <3>1. CASE t = s
      BY <1>1, <3>1
    <3>2. CASE {t, s} = {5, 6}
      <4>1. Code(5) = Code(6) /\ (t = 5 \/ t = 6) /\ (s = 5 \/ s = 6)
        BY <3>2, HuffmanAssumption
      <4> QED BY <1>1, <4>1
    <3> QED BY <2>6, <3>1, <3>2
  <2>8. 1..(j - p + 1) = 1..Len(c)
    BY <1>1, <2>3, <2>7
  <2>9. Len(c) \in 1..Len(c) /\ Len(c) \notin 1..(j - p + 1)
    BY <1>1, <2>4
  <2> QED BY <2>8, <2>9
<1>8. Leaf(b, p) = e
  <2>1. Leaf(b, p) \in Leaves(b, p) /\ Leaf(b, p) \in p..Len(b) /\ Leaf(b, p) <= e
    BY <1>6, LeafIs
  <2>2. ~(Leaf(b, p) < e)
    BY <1>7, <2>1
  <2> QED BY <1>2, <2>1, <2>2
<1>9. created_huffman_tree[SubSeq(b, p, Leaf(b, p))] = ReadAs(s) /\ ReadAs(s) # EOS
  BY <1>1, <1>5, <1>8, TreeIs
<1>10. Walks(b)[p] = <<ReadAs(s)>> \o Walks(b)[e + 1]
  BY <1>6, <1>8, <1>9, WalksDef
<1>11. e + 1 = p + Len(Code(s))
  BY <1>1, <1>2
<1> QED BY <1>10, <1>11

\* Fewer than eight ones are no code, but the code of EOS begins with them.
LEMMA WalkEnds ==
  ASSUME NEW b \in Seq({0, 1}), NEW p \in 1..(Len(b) + 1), Len(b) + 1 - p < 8,
         \A k \in p..Len(b) : b[k] = 1
  PROVE  Walks(b)[p] = <<>>
<1>1. ASSUME NEW j \in Leaves(b, p) PROVE FALSE
  <2>1. j \in p..Len(b) /\ SubSeq(b, p, j) \in DOMAIN created_huffman_tree
    BY DEF Leaves
  <2>2. PICK t \in Symbols : SubSeq(b, p, j) = Code(t)
    BY <2>1 DEF created_huffman_tree
  <2>3. SubSeq(b, p, j) = [i \in 1..(j - p + 1) |-> b[i + p - 1]]
    BY <2>1
  <2>4. DOMAIN Code(t) = 1..(j - p + 1) /\ \A i \in 1..(j - p + 1) : Code(t)[i] = b[i + p - 1]
    BY <2>2, <2>3
  <2>5. Len(b) \in Nat /\ j \in Int /\ p \in Int
    BY <2>1
  <2>6. \A i \in 1..(j - p + 1) : i + p - 1 \in p..Len(b)
    BY <2>1, <2>5
  <2>7. \A i \in DOMAIN Code(t) : Code(t)[i] = 1
    BY <2>4, <2>6
  <2>8. static_huffman[t][2] <= 7
    <3>1. Len(Code(t)) = static_huffman[t][2] /\ Len(Code(t)) \in Nat
          /\ DOMAIN Code(t) = 1..Len(Code(t))
      BY CodeIs
    <3>2. PICK m \in Nat : m = j - p + 1 /\ m <= 7
      BY <2>1, <2>5
    <3>3. PICK k \in Nat : k = Len(Code(t))
      BY <3>1
    <3>4. 1..k = 1..m
      BY <2>4, <3>1, <3>2, <3>3
    <3>5. k = m
      <4>1. k # 0 => k \in 1..m
        BY <3>4
      <4>2. m # 0 => m \in 1..k
        BY <3>4
      <4> QED BY <4>1, <4>2
    <3> QED BY <3>1, <3>2, <3>3, <3>5
  <2>9. static_huffman[t][2] > 7 \/ \E i \in DOMAIN Code(t) : Code(t)[i] = 0
    BY HuffmanAssumption
  <2>10. static_huffman[t][2] \in Nat
    BY CodeIs
  <2> QED BY <2>7, <2>8, <2>9, <2>10
<1>2. Leaves(b, p) = {}
  BY <1>1
<1>3. StartsWith(Code(EOS), SubSeq(b, p, Len(b)))
  <2>1. PICK n \in Nat : n = Len(b)
    OBVIOUS
  <2>2. PICK m \in 0..7 : m = n - p + 1
    <3>1. n - p + 1 \in 0..7
      BY <2>1
    <3> QED BY <3>1
  <2>3. SubSeq(b, p, n) = [i \in 1..m |-> b[i + p - 1]]
    <3>1. SubSeq(b, p, n) = [i \in 1..(n - p + 1) |-> b[i + p - 1]]
      BY <2>1
    <3> QED BY <2>2, <3>1
  <2>4. ASSUME NEW i \in 1..m PROVE b[i + p - 1] = 1
    <3>1. i + p - 1 \in p..Len(b)
      BY <2>1, <2>2
    <3> QED BY <3>1
  <2>5. \A i \in 1..m : i \in 1..7
    OBVIOUS
  <2>6. \A i \in 1..7 : i \in DOMAIN Code(EOS) /\ Code(EOS)[i] = 1
    <3>1. EOS \in Symbols /\ static_huffman[EOS][2] >= 7 /\ \A i \in 1..7 : Code(EOS)[i] = 1
      BY HuffmanAssumption
    <3>2. DOMAIN Code(EOS) = 1..Len(Code(EOS)) /\ Len(Code(EOS)) = static_huffman[EOS][2]
          /\ Len(Code(EOS)) \in Nat
      BY <3>1, CodeIs
    <3>3. PICK k \in Nat : k = Len(Code(EOS)) /\ k >= 7
      BY <3>1, <3>2
    <3> QED BY <3>1, <3>2, <3>3
  <2>7. PICK d : d = SubSeq(b, p, Len(b))
    OBVIOUS
  <2>8. DOMAIN d = 1..m /\ \A i \in 1..m : d[i] = 1
    BY <2>1, <2>3, <2>4, <2>7
  <2>9. StartsWith(Code(EOS), d)
    BY <2>5, <2>6, <2>8 DEF StartsWith
  <2> QED BY <2>7, <2>9
<1>4. InTree(b, p)
  <2>1. EOS \in Symbols
    BY HuffmanAssumption
  <2> QED BY <1>3, <2>1, Zenon DEF InTree
<1> QED BY <1>2, <1>4, WalksDef

\* Every string of characters is read back.
LEMMA StringTrip ==
  ASSUME NEW s \in Seq(Characters)
  PROVE  get_huffman_string(add_huffman_string(s)) = [i \in 1..Len(s) |-> ReadAs(s[i])]
<1>1. PICK D : D = Codes(s)
  OBVIOUS
<1>2. PICK n \in Nat : n = Len(s)
  OBVIOUS
<1>3. PICK code \in Seq({0, 1}) : code = D[n]
  <2>1. D[n] \in Seq({0, 1})
    BY <1>1, <1>2, CodesGrow
  <2> QED BY <2>1
<1>4. PICK m \in 0..7 : m = (8 - (Len(code) % 8)) % 8
  <2>1. PICK x \in Nat : x = Len(code)
    OBVIOUS
  <2>2. (8 - (x % 8)) % 8 \in 0..7
    OBVIOUS
  <2> QED BY <2>1, <2>2
<1>5. PICK pad : pad = [i \in 1..m |-> 1]
  OBVIOUS
<1>6. pad \in Seq({0, 1}) /\ Len(pad) = m
  BY <1>5
<1>7. PICK b : b = code \o pad
  OBVIOUS
<1>8. /\ b \in Seq({0, 1}) /\ Len(b) = Len(code) + m
      /\ \A i \in 1..Len(code) : b[i] = code[i]
      /\ \A i \in 1..m : b[Len(code) + i] = pad[i]
  BY <1>6, <1>7, BitsAppended
<1>9. get_huffman_string(add_huffman_string(s)) = Walks(b)[1]
  <2>1. add_huffman_string(s) = Octets(b)
    BY <1>1, <1>2, <1>3, <1>4, <1>5, <1>7, Zenon DEF add_huffman_string
  <2>2. Len(b) % 8 = 0
    <3>1. PICK x \in Nat : x = Len(code)
      OBVIOUS
    <3>2. (x + ((8 - (x % 8)) % 8)) % 8 = 0
      OBVIOUS
    <3> QED BY <1>4, <1>8, <3>1, <3>2
  <2>3. Bits(Octets(b)) = b
    BY <1>8, <2>2, BitsOfOctets
  <2> QED BY <2>1, <2>3, Zenon DEF get_huffman_string
\* From where symbol i ends, the rest is read.
<1> DEFINE Rest(i) == [k \in 1..(n - i) |-> ReadAs(s[i + k])]
           S == {j \in Nat : j <= n => Walks(b)[Len(D[n - j]) + 1] = Rest(n - j)}
<1>10. 0 \in S
  <2>1. n - 0 = n /\ Len(code) \in Nat
    OBVIOUS
  <2>2. Len(code) + 1 \in 1..(Len(b) + 1) /\ Len(b) + 1 - (Len(code) + 1) < 8
    BY <1>4, <1>8, <2>1
  <2>3. ASSUME NEW k \in (Len(code) + 1)..Len(b) PROVE b[k] = 1
    <3>1. PICK i \in 1..m : k = Len(code) + i
      <4>1. k - Len(code) \in 1..m /\ k = Len(code) + (k - Len(code))
        BY <1>8, <2>1
      <4> QED BY <4>1
    <3> QED BY <1>5, <1>8, <3>1
  <2>4. Walks(b)[Len(code) + 1] = <<>>
    BY <1>8, <2>2, <2>3, WalkEnds
  <2>5. Rest(n) = <<>>
    <3>1. n - n = 0 /\ 1..0 = {}
      OBVIOUS
    <3> QED BY <3>1
  <2> QED BY <1>3, <2>1, <2>4, <2>5
<1>11. ASSUME NEW j \in Nat, j \in S PROVE j + 1 \in S
  <2>1. SUFFICES ASSUME j + 1 <= n
                 PROVE  Walks(b)[Len(D[n - (j + 1)]) + 1] = Rest(n - (j + 1))
    OBVIOUS
  <2>2. PICK i \in 1..n : i = n - j
    BY <2>1
  <2>3. n - (j + 1) = i - 1 /\ j <= n /\ i - 1 \in 0..n /\ i \in 0..n
    BY <2>1, <2>2
  <2>4. Walks(b)[Len(D[i]) + 1] = Rest(i)
    BY <1>11, <2>2, <2>3, Zenon
  <2>5. s[i] \in Characters
    BY <1>2
  <2>6. PICK c \in Seq({0, 1}) : c = Code(s[i])
    BY <2>5, TreeIs, CodeIs
  <2>7. PICK d \in Seq({0, 1}) : d = D[i - 1]
    <3>1. D[i - 1] \in Seq({0, 1})
      BY <1>1, <1>2, <2>3, CodesGrow
    <3> QED BY <3>1
  <2>8. D[i] = d \o c
    <3>1. D[i] = D[i - 1] \o Code(s[i])
      BY <1>1, <1>2, CodesDef
    <3> QED BY <2>6, <2>7, <3>1
  <2>9. /\ Len(D[i]) = Len(d) + Len(c)
        /\ \A q \in 1..Len(c) : D[i][Len(d) + q] = c[q]
    BY <2>8, BitsAppended
  <2>10. Len(D[i]) <= Len(code) /\ \A q \in 1..Len(D[i]) : code[q] = D[i][q]
    BY <1>1, <1>2, <1>3, <2>3, CodesGrow
  <2>11. Len(d) \in Nat /\ Len(c) \in Nat /\ Len(code) \in Nat
    OBVIOUS
  <2>12. Len(d) + 1 \in 1..(Len(b) + 1) /\ (Len(d) + 1) - 1 + Len(c) <= Len(b)
    BY <1>8, <2>9, <2>10, <2>11
  <2>13. ASSUME NEW q \in 1..Len(c) PROVE b[(Len(d) + 1) - 1 + q] = c[q]
    <3>0. PICK x \in Nat : x = Len(d) + q
      BY <2>11
    <3>1. x = (Len(d) + 1) - 1 + q /\ x \in 1..Len(code) /\ x \in 1..Len(D[i])
      BY <2>9, <2>10, <2>11, <3>0
    <3>2. b[x] = code[x] /\ code[x] = D[i][x] /\ D[i][x] = c[q]
      BY <1>8, <2>9, <2>10, <3>0, <3>1
    <3> QED BY <3>1, <3>2
  <2>14. Walks(b)[Len(d) + 1] = <<ReadAs(s[i])>> \o Walks(b)[(Len(d) + 1) + Len(c)]
    BY <1>8, <2>5, <2>6, <2>12, <2>13, WalkOne
  <2>15. (Len(d) + 1) + Len(c) = Len(D[i]) + 1
    BY <2>9, <2>11
  <2>16. <<ReadAs(s[i])>> \o Rest(i) = Rest(i - 1)
    <3>0. PICK g \in Nat : g = n - i
      OBVIOUS
    <3>1. PICK r : r = Rest(i)
      OBVIOUS
    <3>2. r = [k \in 1..g |-> ReadAs(s[i + k])]
      BY <3>0, <3>1
    <3>3. PICK V : V = {ReadAs(s[k]) : k \in 1..n}
      OBVIOUS
    <3>4. r \in Seq(V) /\ Len(r) = g
      <4>1. \A k \in 1..g : ReadAs(s[i + k]) \in V
        BY <3>0, <3>3
      <4>3. r \in [1..g -> V]
        BY <3>2, <4>1
      <4> QED BY <4>3
    <3>5. PICK z \in V : z = ReadAs(s[i])
      BY <3>3
    <3>6. PICK w : w = <<z>> \o r
      OBVIOUS
    <3>7. w = [k \in 1..(1 + g) |-> IF k = 1 THEN z ELSE r[k - 1]]
      <4>1. PICK h \in Seq(V) : h = <<z>> /\ Len(h) = 1 /\ h[1] = z
        <5>1. <<z>> \in Seq(V)
          OBVIOUS
        <5> QED BY <5>1
      <4>2. w = h \o r
        BY <3>6, <4>1
      <4>3. w \in Seq(V) /\ Len(w) = 1 + g
        BY <3>4, <4>1, <4>2
      <4>4. ASSUME NEW k \in 1..(1 + g) PROVE w[k] = IF k = 1 THEN z ELSE r[k - 1]
        BY <3>4, <4>1, <4>2
      <4>5. w = [k \in 1..(1 + g) |-> w[k]]
        BY <4>3
      <4> QED BY <4>4, <4>5
    <3>8. ASSUME NEW k \in 1..(1 + g)
          PROVE  (IF k = 1 THEN z ELSE r[k - 1]) = ReadAs(s[(i - 1) + k])
      <4>1. CASE k = 1
        <5>1. (i - 1) + k = i
          BY <4>1
        <5> QED BY <3>5, <4>1, <5>1
      <4>2. CASE k # 1
        <5>1. k - 1 \in 1..g /\ i + (k - 1) = (i - 1) + k
          BY <4>2
        <5> QED BY <3>2, <4>2, <5>1
      <4> QED BY <4>1, <4>2
    <3>9. w = [k \in 1..(1 + g) |-> ReadAs(s[(i - 1) + k])]
      BY <3>7, <3>8
    <3>10. 1 + g = n - (i - 1)
      BY <3>0
    <3> QED BY <3>1, <3>5, <3>6, <3>9, <3>10
  <2> HIDE DEF Rest
  <2> QED BY <2>3, <2>4, <2>7, <2>14, <2>15, <2>16
<1>12. n \in S
  <2> HIDE DEF S
  <2> QED BY <1>10, <1>11, Induction
<1>13. Walks(b)[Len(D[0]) + 1] = Rest(0)
  <2>1. n - n = 0 /\ n <= n
    OBVIOUS
  <2> QED BY <1>12, <2>1, Zenon
<1>14. Len(D[0]) + 1 = 1
  <2>1. D[0] = <<>>
    BY <1>1, CodesDef
  <2> QED BY <2>1
<1>15. Rest(0) = [k \in 1..n |-> ReadAs(s[k])]
  <2>1. n - 0 = n /\ \A k \in 1..n : 0 + k = k
    OBVIOUS
  <2> QED BY <2>1
<1> QED BY <1>2, <1>9, <1>13, <1>14, <1>15

-----------------------------------------------------------------------------
\* Types of the codec.
CodecTypes == text \in Seq(Characters) /\ number \in Nat

\* CodecRoundTrip is an invariant: every string of characters without the symbol
\* 5 comes back from its Huffman code, and every integer below the mask of its
\* prefix comes back (hpack.cpp:50-106, hpack.h:266-299).
THEOREM CodecTripsRound == CodecSpec => []CodecRoundTrip
<1>1. ASSUME CodecInit PROVE CodecTypes
  BY <1>1 DEF CodecInit, CodecTypes
<1>2. ASSUME CodecTypes, [CodecNext]_codecVars PROVE CodecTypes'
  <2>1. CASE Type
    BY <1>2, <2>1 DEF CodecTypes, Type
  <2>2. CASE Count
    <3>1. Numbers \subseteq Nat
      BY HuffmanAssumption
    <3> QED BY <1>2, <2>2, <3>1 DEF CodecTypes, Count
  <2>3. CASE UNCHANGED codecVars
    BY <1>2, <2>3 DEF CodecTypes, codecVars
  <2> QED BY <1>2, <2>1, <2>2, <2>3 DEF CodecNext
<1>3. ASSUME CodecTypes PROVE CodecRoundTrip
  <2>1. ASSUME 5 \notin Range(text)
        PROVE  get_huffman_string(add_huffman_string(text)) = text
    <3>1. get_huffman_string(add_huffman_string(text)) = [i \in 1..Len(text) |-> ReadAs(text[i])]
      BY <1>3, StringTrip, Zenon DEF CodecTypes
    <3>2. ASSUME NEW i \in 1..Len(text) PROVE ReadAs(text[i]) = text[i]
      <4>1. text[i] \in Range(text)
        BY <1>3 DEF CodecTypes, Range
      <4> QED BY <2>1, <4>1 DEF ReadAs
    <3>3. text = [i \in 1..Len(text) |-> text[i]]
      BY <1>3 DEF CodecTypes
    <3> QED BY <3>1, <3>2, <3>3
  <2>2. ASSUME NEW N \in 4..7
        PROVE  LET s == encode_integer(N, 0, number) IN
               number < 2^N - 1 => decode_integer(N, s) = [value |-> number, read |-> Len(s)]
    BY <1>3, IntegerTrip, Zenon DEF CodecTypes
  <2> QED BY <2>1, <2>2, Zenon DEF CodecRoundTrip
<1> QED BY <1>1, <1>2, <1>3, PTL DEF CodecSpec
=============================================================================
