-------------------------- MODULE LineEditorProofs --------------------------
(***************************************************************************)
(* What the list of pasted blocks keeps in step with, for lines, histories *)
(* and entries of any length and any number of pastes: every marker has a  *)
(* block, a line without mishap is sent as meant, and a choice of the      *)
(* popup replaces what it completes.                                       *)
(***************************************************************************)
EXTENDS LineEditor, TLAPS, SequenceTheorems, FiniteSetTheorems, FunctionTheorems, WellFoundedInduction

Token == Plain \cup Markers

\* The number of markers in a text.
Count(b) == Cardinality(Marks(b))

\* The markers of b are those of the list behind its first k blocks.
InStep(b, list, k) == \A i \in Marks(b) : b[i] = list[k + Nth(b, i)]

----------------------------------------------------------------------------
(* The markers of a text.                                                  *)

\* A text has finitely many of them.
LEMMA CountType ==
    ASSUME NEW S, NEW b \in Seq(S)
    PROVE  Count(b) \in Nat /\ IsFiniteSet(Marks(b)) /\ Marks(b) \subseteq 1 .. Len(b)
<1>1. Marks(b) \subseteq 1 .. Len(b) /\ Len(b) \in Nat
  BY DEF Marks
<1>2. IsFiniteSet(1 .. Len(b))
  BY <1>1, FS_Interval
<1>3. IsFiniteSet(Marks(b))
  BY <1>1, <1>2, FS_Subset
<1> QED
  BY <1>1, <1>3, FS_CardinalityType DEF Count

\* One text behind another: its markers are further back.
LEMMA MarksConcat ==
    ASSUME NEW S, NEW s \in Seq(S), NEW t \in Seq(S)
    PROVE  Marks(s \o t) = Marks(s) \cup {Len(s) + i : i \in Marks(t)}
<1>1. Len(s) \in Nat /\ Len(t) \in Nat /\ s \o t \in Seq(S) /\ Len(s \o t) = Len(s) + Len(t)
  OBVIOUS
<1>2. \A i \in 1 .. Len(s) : (s \o t)[i] = s[i]
  OBVIOUS
<1>3. \A i \in 1 .. Len(t) : (s \o t)[Len(s) + i] = t[i]
  OBVIOUS
<1>4. ASSUME NEW i \in Marks(s \o t)
      PROVE  i \in Marks(s) \cup {Len(s) + j : j \in Marks(t)}
  <2>1. i \in 1 .. Len(s) + Len(t) /\ IsMarker((s \o t)[i])
    BY <1>1 DEF Marks
  <2>2. CASE i <= Len(s)
    BY <1>2, <2>1, <2>2 DEF Marks
  <2>3. CASE ~ i <= Len(s)
    <3>1. i - Len(s) \in 1 .. Len(t) /\ i = Len(s) + (i - Len(s))
      BY <1>1, <2>1, <2>3
    <3>2. i - Len(s) \in Marks(t)
      BY <1>3, <2>1, <3>1 DEF Marks
    <3> QED
      BY <3>1, <3>2
  <2> QED
    BY <2>2, <2>3
<1>5. ASSUME NEW i \in Marks(s) PROVE i \in Marks(s \o t)
  BY <1>1, <1>2, <1>5 DEF Marks
<1>6. ASSUME NEW i \in Marks(t) PROVE Len(s) + i \in Marks(s \o t)
  <2>1. i \in 1 .. Len(t) /\ IsMarker(t[i])
    BY DEF Marks
  <2>2. Len(s) + i \in 1 .. Len(s \o t)
    BY <1>1, <2>1
  <2> QED
    BY <1>1, <1>3, <2>1, <2>2 DEF Marks
<1> QED
  BY <1>4, <1>5, <1>6

\* The numbers add up.
LEMMA CountConcat ==
    ASSUME NEW S, NEW s \in Seq(S), NEW t \in Seq(S)
    PROVE  Count(s \o t) = Count(s) + Count(t)
<1> DEFINE T == {Len(s) + i : i \in Marks(t)}
           f == [i \in Marks(t) |-> Len(s) + i]
<1>1. Len(s) \in Nat /\ Marks(t) \subseteq 1 .. Len(t) /\ IsFiniteSet(Marks(t)) /\ Marks(s) \subseteq 1 .. Len(s)
  BY CountType
<1>2. f \in Bijection(Marks(t), T)
  <2>1. f \in [Marks(t) -> T]
    OBVIOUS
  <2>2. \A i, j \in Marks(t) : f[i] = f[j] => i = j
    BY <1>1
  <2>3. \A x \in T : \E i \in Marks(t) : f[i] = x
    OBVIOUS
  <2> QED
    BY <2>1, <2>2, <2>3, Fun_IsBij
<1>3. IsFiniteSet(T) /\ Cardinality(T) = Count(t)
  BY <1>1, <1>2, FS_Bijection DEF ExistsBijection, Count
<1>4. Marks(s) \cap T = {}
  BY <1>1
<1>5. IsFiniteSet(Marks(s)) /\ Count(s) \in Nat /\ Count(t) \in Nat
  BY CountType
<1>6. Cardinality(Marks(s) \cap T) = 0
  BY <1>4, FS_EmptySet
<1>7. Cardinality(Marks(s) \cup T) = Cardinality(Marks(s)) + Cardinality(T) - Cardinality(Marks(s) \cap T)
  BY <1>3, <1>5, FS_Union
<1>8. Marks(s \o t) = Marks(s) \cup T
  BY MarksConcat
<1> QED
  BY <1>3, <1>5, <1>6, <1>7, <1>8 DEF Count

----------------------------------------------------------------------------
(* The largest and the smallest of some positions.                         *)

\* A set of natural numbers has a least one.
LEMMA LeastNat ==
    ASSUME NEW T, T \subseteq Nat, T # {}
    PROVE  \E x \in T : \A y \in T : x <= y
<1> DEFINE Less == {p \in Nat \X Nat : p[1] < p[2]}
<1>1. IsWellFoundedOn(Less, Nat)
  BY NatLessThanWellFounded DEF OpToRel
<1> HIDE DEF Less
<1>2. PICK x \in T : \A y \in T : ~ (<<y, x>> \in Less)
  BY <1>1, WFMin
<1>3. \A y \in T : ~ (y < x)
  BY <1>2 DEF Less
<1> QED
  BY <1>3

\* The smallest position is one of them.
LEMMA MinType ==
    ASSUME NEW T, T \subseteq Nat, T # {}
    PROVE  Min(T) \in T /\ \A y \in T : Min(T) <= y
BY LeastNat DEF Min

\* So is the largest, below a bound.
LEMMA MaxType ==
    ASSUME NEW n \in Nat, NEW T, T \subseteq 0 .. n, T # {}
    PROVE  Max(T) \in T /\ \A y \in T : Max(T) >= y
<1> DEFINE D == {n - x : x \in T}
<1>0. \A x \in T : n - x \in Nat
  OBVIOUS
<1>1. D \subseteq Nat /\ D # {}
  BY <1>0
<1>2. PICK d \in D : \A e \in D : d <= e
  BY <1>1, LeastNat
<1>3. PICK x \in T : d = n - x
  OBVIOUS
<1>4. \A y \in T : x >= y
  <2> TAKE y \in T
  <2>1. n - y \in D
    OBVIOUS
  <2>2. n - x <= n - y
    BY <1>2, <1>3, <2>1
  <2>3. x \in 0 .. n /\ y \in 0 .. n
    OBVIOUS
  <2> QED
    BY <2>2, <2>3
<1> QED
  BY <1>4 DEF Max

----------------------------------------------------------------------------
(* Texts cut and put together.                                             *)

\* A text is what stands before a position and what stands after it.
LEMMA Cut ==
    ASSUME NEW S, NEW b \in Seq(S), NEW c \in 0 .. Len(b)
    PROVE  /\ SubSeq(b, 1, c) \in Seq(S) /\ Len(SubSeq(b, 1, c)) = c
           /\ SubSeq(b, c + 1, Len(b)) \in Seq(S) /\ Len(SubSeq(b, c + 1, Len(b))) = Len(b) - c
           /\ b = SubSeq(b, 1, c) \o SubSeq(b, c + 1, Len(b))
<1>1. Len(b) \in Nat /\ c \in Nat /\ c <= Len(b)
  OBVIOUS
<1>2. \A i \in 1 .. c : b[i] \in S
  BY <1>1, ElementOfSeq
<1>3. \A i \in c + 1 .. Len(b) : b[i] \in S
  <2> TAKE i \in c + 1 .. Len(b)
  <2>1. i \in 1 .. Len(b)
    BY <1>1
  <2> QED
    BY <2>1, ElementOfSeq
<1>4. SubSeq(b, 1, c) \in Seq(S) /\ Len(SubSeq(b, 1, c)) = c
  BY <1>1, <1>2, SubSeqProperties
<1>5. SubSeq(b, c + 1, Len(b)) \in Seq(S) /\ Len(SubSeq(b, c + 1, Len(b))) = Len(b) - c
  BY <1>1, <1>3, SubSeqProperties
<1>6. 1 \in 1 .. Len(b) + 1 /\ c \in 1 - 1 .. Len(b) /\ Len(b) \in c .. Len(b)
  BY <1>1
<1>7. SubSeq(b, 1, c) \o SubSeq(b, c + 1, Len(b)) = SubSeq(b, 1, Len(b))
  BY <1>6, ConcatAdjacentSubSeq
<1> QED
  BY <1>4, <1>5, <1>7, SubSeqFull

\* Text without markers has none to count.
LEMMA PlainCount ==
    ASSUME NEW s \in Seq(Plain)
    PROVE  Marks(s) = {} /\ Count(s) = 0
<1>1. \A i \in 1 .. Len(s) : s[i] \in Plain
  BY ElementOfSeq
<1>2. Marks(s) = {}
  BY <1>1, EditorAssumption DEF Marks, IsMarker
<1> QED
  BY <1>2, FS_EmptySet DEF Count

\* One character.
LEMMA OneCount ==
    ASSUME NEW x
    PROVE  Count(<<x>>) = IF x \in Markers THEN 1 ELSE 0
<1>1. Marks(<<x>>) = IF x \in Markers THEN {1} ELSE {}
  BY DEF Marks, IsMarker
<1> QED
  BY <1>1, FS_EmptySet, FS_Singleton DEF Count

\* Up to a position in the first of two texts only the first counts.
LEMMA NthFront ==
    ASSUME NEW S, NEW s \in Seq(S), NEW t \in Seq(S), NEW i \in 1 .. Len(s)
    PROVE  Nth(s \o t, i) = Nth(s, i)
<1>1. 1 \in 1 .. Len(s)
  OBVIOUS
<1>2. SubSeq(s \o t, 1, i) = SubSeq(s, 1, i)
  BY <1>1, SubSeqOfConcat1
<1> QED
  BY <1>2 DEF Nth

\* Up to a position in the second, all of the first.
LEMMA NthBack ==
    ASSUME NEW S, NEW s \in Seq(S), NEW t \in Seq(S), NEW i \in 1 .. Len(t)
    PROVE  Nth(s \o t, Len(s) + i) = Count(s) + Nth(t, i)
<1> DEFINE u == SubSeq(t, 1, i)
           w == SubSeq(t, i + 1, Len(t))
<1>1. i \in 0 .. Len(t) /\ Len(s) \in Nat /\ i \in Nat
  OBVIOUS
<1>2. u \in Seq(S) /\ w \in Seq(S) /\ t = u \o w /\ Len(u) = i
  BY <1>1, Cut
<1> HIDE DEF u, w
<1>3. s \o t = (s \o u) \o w /\ s \o u \in Seq(S) /\ Len(s \o u) = Len(s) + i
  <2>1. s \o u \in Seq(S) /\ Len(s \o u) = Len(s) + i
    BY <1>2, ConcatProperties
  <2>2. (s \o u) \o w = s \o (u \o w)
    BY <1>2, ConcatAssociative
  <2> QED
    BY <1>2, <2>1, <2>2
<1>4. SubSeq((s \o u) \o w, 1, Len(s) + i) = SubSeq(s \o u, 1, Len(s) + i)
  <2>1. 1 \in 1 .. Len(s \o u) /\ Len(s) + i \in 1 .. Len(s \o u)
    BY <1>1, <1>3
  <2> QED
    BY <1>2, <1>3, <2>1, SubSeqOfConcat1
<1>5. SubSeq(s \o u, 1, Len(s) + i) = s \o u
  BY <1>3, SubSeqFull
<1>6. Count(s \o u) = Count(s) + Count(u)
  BY <1>2, CountConcat
<1>7. Nth(s \o t, Len(s) + i) = Count(s \o u)
  BY <1>3, <1>4, <1>5 DEF Nth, Count
<1>8. Nth(t, i) = Count(u)
  BY DEF Nth, Count, u
<1> QED
  BY <1>6, <1>7, <1>8

\* The markers of a text are numbered from 1.
LEMMA NthRange ==
    ASSUME NEW S, NEW b \in Seq(S), NEW i \in Marks(b)
    PROVE  Nth(b, i) \in 1 .. Count(b)
<1> DEFINE u == SubSeq(b, 1, i)
           w == SubSeq(b, i + 1, Len(b))
<1>1. i \in 1 .. Len(b) /\ i \in 0 .. Len(b) /\ IsMarker(b[i]) /\ i \in Nat
  BY CountType DEF Marks
<1>2. u \in Seq(S) /\ w \in Seq(S) /\ b = u \o w /\ Len(u) = i
  BY <1>1, Cut
<1>3. u[i] = b[i]
  BY <1>1
<1> HIDE DEF u, w
<1>4. i \in Marks(u)
  BY <1>1, <1>2, <1>3 DEF Marks
<1>5. Count(u) \in Nat /\ Count(w) \in Nat /\ IsFiniteSet(Marks(u))
  BY <1>2, CountType
<1>6. Count(u) # 0
  BY <1>4, <1>5, FS_EmptySet DEF Count
<1>7. Count(b) = Count(u) + Count(w)
  BY <1>2, CountConcat
<1>8. Nth(b, i) = Count(u)
  BY DEF Nth, Count, u
<1> QED
  BY <1>5, <1>6, <1>7, <1>8

----------------------------------------------------------------------------
(* The list beside the text.                                               *)

\* Two texts are in step with a list one behind the other.
LEMMA InStepConcat ==
    ASSUME NEW S, NEW s \in Seq(S), NEW t \in Seq(S), NEW list, NEW k \in Nat
    PROVE  InStep(s \o t, list, k) <=> InStep(s, list, k) /\ InStep(t, list, k + Count(s))
<1>1. Marks(s \o t) = Marks(s) \cup {Len(s) + i : i \in Marks(t)}
  BY MarksConcat
<1>2. /\ Marks(s) \subseteq 1 .. Len(s) /\ Marks(t) \subseteq 1 .. Len(t)
      /\ Count(s) \in Nat /\ Len(s) \in Nat /\ Len(t) \in Nat
  BY CountType
<1>3. \A i \in Marks(s) : Nth(s \o t, i) = Nth(s, i) /\ (s \o t)[i] = s[i]
  <2> TAKE i \in Marks(s)
  <2>1. i \in 1 .. Len(s)
    BY <1>2
  <2>2. (s \o t)[i] = s[i]
    BY <2>1
  <2> QED
    BY <2>1, <2>2, NthFront
<1>4. \A i \in Marks(t) : /\ k + Nth(s \o t, Len(s) + i) = (k + Count(s)) + Nth(t, i)
                         /\ (s \o t)[Len(s) + i] = t[i]
  <2> TAKE i \in Marks(t)
  <2>1. i \in 1 .. Len(t)
    BY <1>2
  <2>2. (s \o t)[Len(s) + i] = t[i]
    BY <2>1
  <2>3. Nth(s \o t, Len(s) + i) = Count(s) + Nth(t, i)
    BY <2>1, NthBack
  <2>4. Nth(t, i) \in Nat
    BY <1>2, NthRange
  <2> QED
    BY <1>2, <2>2, <2>3, <2>4
<1>5. ASSUME InStep(s \o t, list, k)
      PROVE  InStep(s, list, k) /\ InStep(t, list, k + Count(s))
  <2>1. InStep(s, list, k)
    BY <1>1, <1>3, <1>5 DEF InStep
  <2>2. \A i \in Marks(t) : Len(s) + i \in Marks(s \o t)
    BY <1>1
  <2>3. InStep(t, list, k + Count(s))
    BY <1>4, <1>5, <2>2 DEF InStep
  <2> QED
    BY <2>1, <2>3
<1>6. ASSUME InStep(s, list, k), InStep(t, list, k + Count(s))
      PROVE  InStep(s \o t, list, k)
  <2>1. ASSUME NEW j \in Marks(s \o t) PROVE (s \o t)[j] = list[k + Nth(s \o t, j)]
    <3>1. CASE j \in Marks(s)
      BY <1>3, <1>6, <3>1 DEF InStep
    <3>2. CASE j \notin Marks(s)
      <4>1. PICK i \in Marks(t) : j = Len(s) + i
        BY <1>1, <2>1, <3>2
      <4>2. t[i] = list[(k + Count(s)) + Nth(t, i)]
        BY <1>6 DEF InStep
      <4> QED
        BY <1>4, <4>1, <4>2
    <3> QED
      BY <3>1, <3>2
  <2> QED
    BY <2>1 DEF InStep
<1> QED
  BY <1>5, <1>6

\* The same from the front of the list.
LEMMA InStepFront ==
    ASSUME NEW S, NEW s \in Seq(S), NEW t \in Seq(S), NEW list
    PROVE  InStep(s \o t, list, 0) <=> InStep(s, list, 0) /\ InStep(t, list, Count(s))
<1>1. PICK k : k = 0
  OBVIOUS
<1>2. InStep(s \o t, list, k) <=> InStep(s, list, k) /\ InStep(t, list, k + Count(s))
  BY <1>1, InStepConcat
<1>3. k + Count(s) = Count(s)
  BY <1>1, CountType
<1> QED
  BY <1>1, <1>2, <1>3

\* Text without markers is in step with anything.
LEMMA InStepPlain ==
    ASSUME NEW s, Marks(s) = {}, NEW list, NEW k
    PROVE  InStep(s, list, k)
BY DEF InStep

\* Text put between two others changes nothing for the list.
LEMMA InsertPlain ==
    ASSUME NEW s \in Seq(Token), NEW t \in Seq(Plain), NEW u \in Seq(Token)
    PROVE  /\ (s \o t) \o u \in Seq(Token)
           /\ Len((s \o t) \o u) = Len(s) + Len(t) + Len(u)
           /\ Count((s \o t) \o u) = Count(s \o u)
           /\ \A list : InStep((s \o t) \o u, list, 0) <=> InStep(s \o u, list, 0)
<1>1. Count(t) = 0 /\ Marks(t) = {}
  BY PlainCount
<1>2. t \in Seq(Token)
  BY SeqMonotonic DEF Token
<1>3. s \o t \in Seq(Token) /\ Len(s \o t) = Len(s) + Len(t)
  BY <1>2, ConcatProperties
<1>4. (s \o t) \o u \in Seq(Token) /\ Len((s \o t) \o u) = Len(s \o t) + Len(u)
  BY <1>3, ConcatProperties
<1>5. Count(s) \in Nat /\ Count(u) \in Nat
  BY CountType
<1>6. Count(s \o t) = Count(s)
  BY <1>1, <1>2, <1>5, CountConcat
<1>7. Count((s \o t) \o u) = Count(s) + Count(u) /\ Count(s \o u) = Count(s) + Count(u)
  BY <1>3, <1>6, CountConcat
<1>8. ASSUME NEW list PROVE InStep((s \o t) \o u, list, 0) <=> InStep(s \o u, list, 0)
  <2>1. InStep(t, list, Count(s))
    BY <1>1, InStepPlain
  <2>2. InStep(s \o t, list, 0) <=> InStep(s, list, 0) /\ InStep(t, list, Count(s))
    BY <1>2, InStepFront
  <2>3. InStep((s \o t) \o u, list, 0) <=> InStep(s \o t, list, 0) /\ InStep(u, list, Count(s \o t))
    BY <1>3, InStepFront
  <2>4. InStep(s \o u, list, 0) <=> InStep(s, list, 0) /\ InStep(u, list, Count(s))
    BY InStepFront
  <2> QED
    BY <1>6, <2>1, <2>2, <2>3, <2>4
<1> QED
  BY <1>3, <1>4, <1>7, <1>8

\* A list without one of its entries.
LEMMA RemoveAtType ==
    ASSUME NEW S, NEW l \in Seq(S), NEW p \in 1 .. Len(l)
    PROVE  /\ RemoveAt(l, p) \in Seq(S) /\ Len(RemoveAt(l, p)) = Len(l) - 1
           /\ \A j \in 1 .. p - 1 : RemoveAt(l, p)[j] = l[j]
           /\ \A j \in p .. Len(l) - 1 : RemoveAt(l, p)[j] = l[j + 1]
<1> DEFINE u == SubSeq(l, 1, p - 1)
           w == SubSeq(l, p + 1, Len(l))
<1>1. Len(l) \in Nat /\ p \in Nat /\ p - 1 \in 0 .. Len(l) /\ p \in 0 .. Len(l)
  OBVIOUS
<1>2. u \in Seq(S) /\ Len(u) = p - 1
  BY <1>1, Cut
<1>3. w \in Seq(S) /\ Len(w) = Len(l) - p
  BY <1>1, Cut
<1>4. \A j \in 1 .. p - 1 : u[j] = l[j]
  BY <1>1
<1>5. \A j \in 1 .. Len(l) - p : w[j] = l[p + j]
  BY <1>1
<1> HIDE DEF u, w
<1>6. u \o w \in Seq(S) /\ Len(u \o w) = Len(l) - 1
  <2>1. u \o w \in Seq(S) /\ Len(u \o w) = Len(u) + Len(w)
    BY <1>2, <1>3, ConcatProperties
  <2>2. Len(u) + Len(w) = Len(l) - 1
    BY <1>1, <1>2, <1>3
  <2> QED
    BY <2>1, <2>2
<1>7. \A i \in 1 .. Len(u) + Len(w) : (u \o w)[i] = IF i <= Len(u) THEN u[i] ELSE w[i - Len(u)]
  BY <1>2, <1>3, ConcatProperties
<1>8. ASSUME NEW j \in 1 .. p - 1 PROVE (u \o w)[j] = l[j]
  BY <1>1, <1>2, <1>3, <1>4, <1>7
<1>9. ASSUME NEW j \in p .. Len(l) - 1 PROVE (u \o w)[j] = l[j + 1]
  <2>1. j \in 1 .. Len(u) + Len(w) /\ ~ (j <= Len(u)) /\ j - Len(u) \in 1 .. Len(l) - p
    BY <1>1, <1>2, <1>3
  <2>2. p + (j - Len(u)) = j + 1
    BY <1>1, <1>2, <2>1
  <2> QED
    BY <1>5, <1>7, <2>1, <2>2
<1>10. RemoveAt(l, p) = u \o w
  BY DEF RemoveAt, u, w
<1> QED
  BY <1>6, <1>8, <1>9, <1>10

\* A marker and its entry in the list go together.
LEMMA DropMarker ==
    ASSUME NEW s \in Seq(Token), NEW x \in Markers, NEW u \in Seq(Token),
           NEW list \in Seq(Markers), InStep((s \o <<x>>) \o u, list, 0),
           Count(s) + 1 + Count(u) <= Len(list)
    PROVE  InStep(s \o u, RemoveAt(list, Count(s) + 1), 0)
<1> DEFINE p == Count(s) + 1
           rest == RemoveAt(list, p)
<1>1. Count(s) \in Nat /\ Count(u) \in Nat /\ Len(list) \in Nat
  BY CountType
<1>2. <<x>> \in Seq(Token) /\ s \o <<x>> \in Seq(Token) /\ Count(s \o <<x>>) = Count(s) + 1
  <2>1. x \in Token
    BY DEF Token
  <2>2. <<x>> \in Seq(Token)
    BY <2>1
  <2>3. s \o <<x>> \in Seq(Token)
    BY <2>2, ConcatProperties
  <2>4. Count(<<x>>) = 1
    BY OneCount
  <2> QED
    BY <2>2, <2>3, <2>4, CountConcat
<1>3. InStep(s, list, 0) /\ InStep(u, list, Count(s) + 1)
  <2>1. InStep(s \o <<x>>, list, 0) /\ InStep(u, list, Count(s \o <<x>>))
    BY <1>2, InStepFront
  <2>2. InStep(s, list, 0)
    BY <1>2, <2>1, InStepFront
  <2> QED
    BY <1>2, <2>1, <2>2
<1>4. p \in 1 .. Len(list) /\ p - 1 = Count(s)
  <2>1. PICK m : m = Count(s)
    OBVIOUS
  <2>2. PICK n : n = Count(u)
    OBVIOUS
  <2>3. m \in Nat /\ n \in Nat /\ m + 1 + n <= Len(list)
    BY <1>1, <2>1, <2>2
  <2>4. m + 1 \in 1 .. Len(list) /\ (m + 1) - 1 = m
    BY <1>1, <2>3
  <2> QED
    BY <2>1, <2>4
<1>5. /\ \A j \in 1 .. p - 1 : rest[j] = list[j]
      /\ \A j \in p .. Len(list) - 1 : rest[j] = list[j + 1]
  BY <1>4, RemoveAtType
<1> HIDE DEF rest
<1>6. InStep(s, rest, 0)
  <2>1. ASSUME NEW i \in Marks(s) PROVE s[i] = rest[0 + Nth(s, i)]
    <3>1. Nth(s, i) \in 1 .. Count(s)
      BY NthRange
    <3>2. 0 + Nth(s, i) \in 1 .. p - 1
      BY <1>1, <3>1
    <3>3. s[i] = list[0 + Nth(s, i)]
      BY <1>3 DEF InStep
    <3> QED
      BY <1>5, <3>2, <3>3
  <2> QED
    BY <2>1 DEF InStep
<1>7. InStep(u, rest, Count(s))
  <2>1. ASSUME NEW i \in Marks(u) PROVE u[i] = rest[Count(s) + Nth(u, i)]
    <3>1. Nth(u, i) \in 1 .. Count(u)
      BY NthRange
    <3>2. /\ Count(s) + Nth(u, i) \in p .. Len(list) - 1
          /\ (Count(s) + Nth(u, i)) + 1 = (Count(s) + 1) + Nth(u, i)
      <4>1. PICK m : m = Count(s)
        OBVIOUS
      <4>2. PICK n : n = Count(u)
        OBVIOUS
      <4>3. PICK j : j = Nth(u, i)
        OBVIOUS
      <4>4. m \in Nat /\ n \in Nat /\ m + 1 + n <= Len(list) /\ j \in 1 .. n /\ p = m + 1
        BY <1>1, <3>1, <4>1, <4>2, <4>3
      <4>5. m + j \in m + 1 .. Len(list) - 1 /\ (m + j) + 1 = (m + 1) + j
        BY <1>1, <4>4
      <4> QED
        BY <4>1, <4>3, <4>4, <4>5
    <3>3. u[i] = list[(Count(s) + 1) + Nth(u, i)]
      BY <1>3 DEF InStep
    <3> QED
      BY <1>5, <3>2, <3>3
  <2> QED
    BY <2>1 DEF InStep
<1> QED
  BY <1>6, <1>7, InStepFront DEF rest, p

\* A marker in front of nothing but text is the last of the list.
LEMMA AddMarker ==
    ASSUME NEW s \in Seq(Token), NEW x \in Markers, NEW u \in Seq(Token), Count(u) = 0,
           NEW list \in Seq(Markers), InStep(s \o u, list, 0), Count(s) = Len(list)
    PROVE  InStep((s \o <<x>>) \o u, Append(list, x), 0)
<1> DEFINE longer == Append(list, x)
<1>1. Count(s) \in Nat /\ Marks(u) = {} /\ Len(list) \in Nat
  <2>1. Count(s) \in Nat /\ IsFiniteSet(Marks(u)) /\ Len(list) \in Nat
    BY CountType
  <2> QED
    BY <2>1, FS_EmptySet DEF Count
<1>2. <<x>> \in Seq(Token) /\ s \o <<x>> \in Seq(Token)
  <2>1. <<x>> \in Seq(Token)
    BY DEF Token
  <2> QED
    BY <2>1, ConcatProperties
<1>3. \A j \in 1 .. Len(list) : longer[j] = list[j]
  BY AppendProperties
<1>4. longer[Len(list) + 1] = x
  BY AppendProperties
<1> HIDE DEF longer
<1>5. InStep(s, longer, 0)
  <2>1. InStep(s, list, 0)
    BY InStepFront
  <2>2. ASSUME NEW i \in Marks(s) PROVE s[i] = longer[0 + Nth(s, i)]
    <3>1. Nth(s, i) \in 1 .. Count(s)
      BY NthRange
    <3>2. 0 + Nth(s, i) \in 1 .. Len(list)
      BY <1>1, <3>1
    <3>3. s[i] = list[0 + Nth(s, i)]
      BY <2>1 DEF InStep
    <3> QED
      BY <1>3, <3>2, <3>3
  <2> QED
    BY <2>2 DEF InStep
<1>6. InStep(<<x>>, longer, Count(s))
  <2>1. Marks(<<x>>) = {1} /\ <<x>>[1] = x
    BY DEF Marks, IsMarker
  <2>2. Nth(<<x>>, 1) = 1
    <3>1. <<x>> \in Seq({x}) /\ Len(<<x>>) = 1
      OBVIOUS
    <3>2. SubSeq(<<x>>, 1, 1) = <<x>>
      BY <3>1, SubSeqFull
    <3> QED
      BY <3>2, OneCount DEF Nth, Count
  <2>3. Count(s) + 1 = Len(list) + 1
    BY <1>1
  <2> QED
    BY <1>4, <2>1, <2>2, <2>3 DEF InStep
<1>7. InStep(s \o <<x>>, longer, 0)
  <2>1. InStep(s \o <<x>>, longer, 0) <=> InStep(s, longer, 0) /\ InStep(<<x>>, longer, Count(s))
    BY <1>2, InStepFront
  <2> QED
    BY <1>5, <1>6, <2>1
<1>8. InStep(u, longer, Count(s \o <<x>>))
  BY <1>1, InStepPlain
<1>9. InStep((s \o <<x>>) \o u, longer, 0)
         <=> InStep(s \o <<x>>, longer, 0) /\ InStep(u, longer, Count(s \o <<x>>))
  BY <1>2, InStepFront
<1> QED
  BY <1>7, <1>8, <1>9 DEF longer

----------------------------------------------------------------------------
(* Words.                                                                  *)

\* What is put behind the end of a word does not change the word.
LEMMA WordKept ==
    ASSUME NEW S, NEW s \in Seq(S), NEW u \in Seq(S), NEW e \in 0 .. Len(s), NEW a \in 0 .. e
    PROVE  SubSeq(s \o u, a + 1, e) = SubSeq(s, a + 1, e)
<1>1. Len(s) \in Nat /\ e \in Nat /\ a \in Nat /\ a <= e /\ e <= Len(s)
  OBVIOUS
<1>2. CASE a = e
  <2>1. e < a + 1 /\ a + 1 \in Int /\ e \in Int
    BY <1>1, <1>2
  <2> QED
    BY <2>1, SubSeqEmpty
<1>3. CASE a # e
  <2>1. a + 1 \in 1 .. Len(s) /\ e \in 1 .. Len(s)
    BY <1>1, <1>3
  <2> QED
    BY <2>1, SubSeqOfConcat1
<1> QED
  BY <1>2, <1>3

\* A word of a text, with what stands before it and after it.
LEMMA CutWord ==
    ASSUME NEW S, NEW b \in Seq(S), NEW e \in 0 .. Len(b), NEW a \in 0 .. e
    PROVE  /\ SubSeq(b, a + 1, e) \in Seq(S) /\ Len(SubSeq(b, a + 1, e)) = e - a
           /\ SubSeq(b, 1, a) \o SubSeq(b, a + 1, e) = SubSeq(b, 1, e)
<1>1. Len(b) \in Nat /\ e \in Nat /\ a \in Nat /\ a <= e /\ e <= Len(b)
  OBVIOUS
<1>2. \A i \in a + 1 .. e : b[i] \in S
  <2> TAKE i \in a + 1 .. e
  <2>1. i \in 1 .. Len(b)
    BY <1>1
  <2> QED
    BY <2>1, ElementOfSeq
<1>3. SubSeq(b, a + 1, e) \in Seq(S) /\ Len(SubSeq(b, a + 1, e)) = e - a
  BY <1>1, <1>2, SubSeqProperties
<1>4. 1 \in 1 .. Len(b) + 1 /\ a \in 1 - 1 .. Len(b) /\ e \in a .. Len(b)
  BY <1>1
<1>5. SubSeq(b, 1, a) \o SubSeq(b, a + 1, e) = SubSeq(b, 1, e)
  BY <1>4, ConcatAdjacentSubSeq
<1> QED
  BY <1>3, <1>5

\* A word and more, in the place of the word, is the rest behind the word.
LEMMA ExtendWord ==
    ASSUME NEW b \in Seq(Token), NEW e \in 0 .. Len(b), NEW a \in 0 .. e, NEW t \in Seq(Token)
    PROVE  /\ SubSeq(b, 1, a) \o (SubSeq(b, a + 1, e) \o t) = SubSeq(b, 1, e) \o t
           /\ a + Len(SubSeq(b, a + 1, e) \o t) = e + Len(t)
<1>1. /\ SubSeq(b, a + 1, e) \in Seq(Token) /\ Len(SubSeq(b, a + 1, e)) = e - a
      /\ SubSeq(b, 1, a) \o SubSeq(b, a + 1, e) = SubSeq(b, 1, e)
  BY CutWord
<1>2. SubSeq(b, 1, a) \in Seq(Token)
  <2>1. a \in 0 .. Len(b)
    OBVIOUS
  <2> QED
    BY <2>1, Cut
<1>3. Len(SubSeq(b, a + 1, e) \o t) = (e - a) + Len(t)
  BY <1>1, ConcatProperties
<1>4. a + ((e - a) + Len(t)) = e + Len(t)
  <2>1. a \in Nat /\ e \in Nat /\ Len(t) \in Nat
    OBVIOUS
  <2> QED
    BY <2>1
<1>5. SubSeq(b, 1, a) \o (SubSeq(b, a + 1, e) \o t) = (SubSeq(b, 1, a) \o SubSeq(b, a + 1, e)) \o t
  <2>1. PICK u \in Seq(Token) : u = SubSeq(b, 1, a)
    BY <1>2
  <2>2. PICK w \in Seq(Token) : w = SubSeq(b, a + 1, e)
    BY <1>1
  <2>3. u \o (w \o t) = (u \o w) \o t
    BY ConcatAssociative
  <2> QED
    BY <2>1, <2>2, <2>3
<1> QED
  BY <1>1, <1>3, <1>4, <1>5

\* A text is a prefix of itself and more.
LEMMA PrefixConcat ==
    ASSUME NEW S, NEW s \in Seq(S), NEW t \in Seq(S)
    PROVE  IsPrefix(s, s \o t)
<1>1. s \o t \in Seq(S) /\ Len(s \o t) = Len(s) + Len(t) /\ Len(s) \in Nat /\ Len(t) \in Nat
  BY ConcatProperties
<1>2. CASE Len(s) = 0
  <2>1. SubSeq(s, 1, Len(s)) = <<>> /\ SubSeq(s \o t, 1, Len(s)) = <<>>
    BY <1>2, SubSeqEmpty
  <2> QED
    BY <1>1, <2>1 DEF IsPrefix
<1>3. CASE Len(s) # 0
  <2>1. 1 \in 1 .. Len(s) /\ Len(s) \in 1 .. Len(s)
    BY <1>1, <1>3
  <2>2. SubSeq(s \o t, 1, Len(s)) = SubSeq(s, 1, Len(s))
    BY <2>1, SubSeqOfConcat1
  <2> QED
    BY <1>1, <2>2 DEF IsPrefix
<1> QED
  BY <1>2, <1>3

----------------------------------------------------------------------------
(* The invariant.                                                          *)

\* The line: history holds no markers, and nothing is saved but while it is browsed.
LineInv ==
    /\ buffer \in Seq(Token) /\ cursor \in 0 .. Len(buffer)
    /\ history \in Seq(Seq(Plain)) /\ index \in 0 .. Len(history)
    /\ saved \in Seq(Token) /\ (index = 0 => saved = <<>>)
    /\ blocks \in Seq(Markers)
    /\ mode \in {"Command", "Ai"}

\* The list: long enough for the line and the one saved, and without mishap their
\* markers, in order.
ListInv ==
    "cleared" \notin mishaps =>
        /\ Count(buffer) + Count(saved) <= Len(blocks)
        /\ mishaps = {} =>
             /\ Count(buffer) + Count(saved) = Len(blocks)
             /\ InStep(buffer, blocks, 0) /\ InStep(saved, blocks, 0)
             /\ index # 0 => Count(buffer) = 0

\* A choice adds to the word it replaces, which ends before the cursor.
Extends(c, a, e) == \E more \in Seq(Plain) : c = SubSeq(buffer, a + 1, e) \o more

\* Or it is a slash command over the beginning of a line, where no marker can be.
PopupInv ==
    /\ popup \in [visible : BOOLEAN, start : Nat, end : Nat, candidates : SUBSET Seq(Token), exact : BOOLEAN]
    /\ popup.visible =>
         /\ popup.start <= popup.end /\ popup.end <= Len(buffer)
         /\ \/ /\ popup.end <= cursor
               /\ \A c \in popup.candidates : Extends(c, popup.start, popup.end)
            \/ /\ popup.start = 0 /\ popup.candidates \subseteq Seq(Plain)
               /\ mishaps = {} => Marks(SubSeq(buffer, 1, popup.end)) = {}

IInv == LineInv /\ ListInv /\ PopupInv /\ PopupCompletesWord /\ SubmitsAsMeant

----------------------------------------------------------------------------
(* Where the keys put the cursor.                                          *)

\* The line the cursor is in begins before it,
LEMMA LineStartType ==
    ASSUME NEW c \in 0 .. Len(buffer), Len(buffer) \in Nat
    PROVE  LineStart(c) \in 0 .. c
<1> DEFINE T == Newlines(1, c) \cup {0}
<1>1. T \subseteq 0 .. c /\ T # {} /\ c \in Nat
  BY DEF Newlines
<1>2. Max(T) \in T
  BY <1>1, MaxType
<1> QED
  BY <1>1, <1>2 DEF LineStart

\* and ends behind it.
LEMMA LineEndType ==
    ASSUME NEW c \in 0 .. Len(buffer), Len(buffer) \in Nat
    PROVE  LineEnd(c) \in c .. Len(buffer)
<1> DEFINE T == Newlines(c + 1, Len(buffer)) \cup {Len(buffer) + 1}
<1>1. T \subseteq c + 1 .. Len(buffer) + 1 /\ T \subseteq Nat /\ T # {} /\ c \in Nat
  BY DEF Newlines
<1>2. Min(T) \in T
  BY <1>1, MinType
<1>3. Min(T) - 1 \in c .. Len(buffer)
  BY <1>1, <1>2
<1> QED
  BY <1>3 DEF LineEnd

\* So does the word.
LEMMA WordStartType ==
    ASSUME cursor \in Nat
    PROVE  WordStart \in 0 .. cursor
<1> DEFINE T == {i \in 1 .. cursor : Blank(buffer[i])} \cup {0}
<1>1. T \subseteq 0 .. cursor /\ T # {}
  OBVIOUS
<1>2. Max(T) \in T
  BY <1>1, MaxType
<1> QED
  BY <1>1, <1>2 DEF WordStart

\* A column of another line is in that line.
LEMMA InLineType ==
    ASSUME cursor \in 0 .. Len(buffer), Len(buffer) \in Nat, NEW e \in 0 .. Len(buffer), NEW start \in 0 .. e
    PROVE  InLine(start, e) \in 0 .. Len(buffer)
<1>1. LineStart(cursor) \in 0 .. cursor
  BY LineStartType
<1> QED
  BY <1>1 DEF InLine, Least

----------------------------------------------------------------------------
(* Edits of the line.                                                      *)

\* Text without a marker, put between two characters.
LEMMA InsertText ==
    ASSUME LineInv, ListInv, NEW c \in 0 .. Len(buffer), NEW t \in Seq(Plain),
           buffer' = (Before(c) \o t) \o After(c), cursor' = c + Len(t),
           UNCHANGED <<history, index, saved, blocks, mishaps, mode>>
    PROVE  LineInv' /\ ListInv'
<1>1. /\ Before(c) \in Seq(Token) /\ After(c) \in Seq(Token) /\ buffer = Before(c) \o After(c)
      /\ Len(Before(c)) = c /\ Len(After(c)) = Len(buffer) - c
  BY Cut DEF Before, After, LineInv
<1>2. /\ buffer' \in Seq(Token) /\ Len(buffer') = Len(Before(c)) + Len(t) + Len(After(c))
      /\ Count(buffer') = Count(buffer)
      /\ \A list : InStep(buffer', list, 0) <=> InStep(buffer, list, 0)
  BY <1>1, InsertPlain
<1>3. cursor' \in 0 .. Len(buffer')
  <2>1. Len(buffer) \in Nat /\ Len(t) \in Nat
    BY DEF LineInv
  <2> QED
    BY <1>1, <1>2, <2>1
<1>4. LineInv'
  BY <1>2, <1>3 DEF LineInv
<1>5. Count(saved)' = Count(saved) /\ (Count(buffer))' = Count(buffer')
  BY DEF Count, Marks
<1>6. /\ InStep(saved, blocks, 0)' <=> InStep(saved, blocks, 0)
      /\ InStep(buffer, blocks, 0)' <=> InStep(buffer', blocks, 0)
  BY DEF InStep, Marks, Nth
<1>7. ListInv'
  BY <1>2, <1>5, <1>6 DEF ListInv
<1> QED
  BY <1>4, <1>7

\* Text without a marker in the place of the beginning, which has none unless there
\* was a mishap.
LEMMA ReplaceFront ==
    ASSUME LineInv, ListInv, NEW e \in 0 .. Len(buffer), NEW t \in Seq(Plain),
           mishaps = {} => Marks(Before(e)) = {},
           buffer' = t \o After(e), cursor' = Len(t),
           UNCHANGED <<history, index, saved, blocks, mishaps, mode>>
    PROVE  LineInv' /\ ListInv'
<1>1. /\ Before(e) \in Seq(Token) /\ After(e) \in Seq(Token) /\ buffer = Before(e) \o After(e)
      /\ Len(Before(e)) = e /\ Len(After(e)) = Len(buffer) - e
  BY Cut DEF Before, After, LineInv
<1>2. t \in Seq(Token) /\ Marks(t) = {} /\ Count(t) = 0
  BY PlainCount, SeqMonotonic DEF Token
<1>3. buffer' \in Seq(Token) /\ Len(buffer') = Len(t) + Len(After(e))
  BY <1>1, <1>2, ConcatProperties
<1>4. cursor' \in 0 .. Len(buffer')
  <2>1. Len(After(e)) \in Nat /\ Len(t) \in Nat
    BY <1>1
  <2> QED
    BY <1>3, <2>1
<1>5. LineInv'
  BY <1>3, <1>4 DEF LineInv
<1>6. Count(After(e)) \in Nat /\ Count(Before(e)) \in Nat /\ Count(saved) \in Nat /\ Len(blocks) \in Nat
  BY <1>1, CountType DEF LineInv
<1>7. Count(buffer') = Count(After(e)) /\ Count(buffer) = Count(Before(e)) + Count(After(e))
  <2>1. Count(t \o After(e)) = Count(t) + Count(After(e))
    BY <1>1, <1>2, CountConcat
  <2>2. Count(Before(e) \o After(e)) = Count(Before(e)) + Count(After(e))
    BY <1>1, CountConcat
  <2> QED
    BY <1>1, <1>2, <1>6, <2>1, <2>2
<1>8. ASSUME mishaps = {}
      PROVE  /\ Count(buffer') = Count(buffer)
             /\ InStep(buffer, blocks, 0) => InStep(buffer', blocks, 0)
  <2>1. Count(Before(e)) = 0
    BY <1>8, FS_EmptySet DEF Count
  <2>2. InStep(buffer, blocks, 0) => InStep(After(e), blocks, 0)
    BY <1>1, <2>1, InStepFront
  <2>3. InStep(t \o After(e), blocks, 0) <=> InStep(t, blocks, 0) /\ InStep(After(e), blocks, 0)
    BY <1>1, <1>2, InStepFront
  <2>4. InStep(t, blocks, 0)
    BY <1>2, InStepPlain
  <2> QED
    BY <1>6, <1>7, <2>1, <2>2, <2>3, <2>4
<1>9. Count(saved)' = Count(saved) /\ (Count(buffer))' = Count(buffer')
  BY DEF Count, Marks
<1>10. /\ InStep(saved, blocks, 0)' <=> InStep(saved, blocks, 0)
       /\ InStep(buffer, blocks, 0)' <=> InStep(buffer', blocks, 0)
  BY DEF InStep, Marks, Nth
<1>11. Count(buffer') <= Count(buffer) /\ Count(buffer) \in Nat /\ Count(buffer') \in Nat
  BY <1>6, <1>7
<1>12. ListInv'
  BY <1>6, <1>8, <1>9, <1>10, <1>11 DEF ListInv
<1> QED
  BY <1>5, <1>12

\* A word that ends at the cursor or before it stays where it is.
LEMMA WordStays ==
    ASSUME LineInv, NEW t \in Seq(Token), buffer' = (Before(cursor) \o t) \o After(cursor),
           NEW e \in 0 .. cursor, NEW a \in 0 .. e
    PROVE  SubSeq(buffer', a + 1, e) = SubSeq(buffer, a + 1, e)
<1>1. /\ Before(cursor) \in Seq(Token) /\ After(cursor) \in Seq(Token)
      /\ buffer = Before(cursor) \o After(cursor) /\ Len(Before(cursor)) = cursor
  BY Cut DEF Before, After, LineInv
<1>2. t \o After(cursor) \in Seq(Token) /\ buffer' = Before(cursor) \o (t \o After(cursor))
  BY <1>1, ConcatProperties, ConcatAssociative
<1> HIDE DEF Before, After
<1>3. SubSeq(buffer, a + 1, e) = SubSeq(Before(cursor), a + 1, e)
  BY <1>1, WordKept
<1>4. SubSeq(buffer', a + 1, e) = SubSeq(Before(cursor), a + 1, e)
  BY <1>1, <1>2, WordKept
<1> QED
  BY <1>3, <1>4

\* A beginning without markers gets none from text without markers.
LEMMA FrontStaysPlain ==
    ASSUME NEW s \in Seq(Token), NEW t \in Seq(Plain), NEW u \in Seq(Token),
           NEW e \in 0 .. Len(s \o u), Marks(SubSeq(s \o u, 1, e)) = {}
    PROVE  Marks(SubSeq((s \o t) \o u, 1, e)) = {}
<1>1. /\ t \in Seq(Token) /\ Len(s) \in Nat /\ Len(t) \in Nat /\ Len(u) \in Nat /\ e \in Nat
      /\ s \o u \in Seq(Token) /\ Len(s \o u) = Len(s) + Len(u)
  BY SeqMonotonic, ConcatProperties DEF Token
<1>2. /\ (s \o t) \o u \in Seq(Token) /\ Len((s \o t) \o u) = Len(s) + Len(t) + Len(u)
      /\ s \o t \in Seq(Token) /\ Len(s \o t) = Len(s) + Len(t)
  BY <1>1, ConcatProperties
<1>3. e \in 0 .. Len((s \o t) \o u)
  BY <1>1, <1>2
<1>4. DOMAIN SubSeq(s \o u, 1, e) = 1 .. e /\ DOMAIN SubSeq((s \o t) \o u, 1, e) = 1 .. e
  BY <1>1, <1>2, <1>3, Cut, LenProperties
<1>5. \A i \in 1 .. e : /\ SubSeq(s \o u, 1, e)[i] = (s \o u)[i]
                        /\ SubSeq((s \o t) \o u, 1, e)[i] = ((s \o t) \o u)[i]
  BY <1>1, <1>2, <1>3
<1>6. \A i \in 1 .. e : ~ IsMarker((s \o u)[i])
  BY <1>4, <1>5 DEF Marks
<1>7. ASSUME NEW i \in 1 .. e PROVE ~ IsMarker(((s \o t) \o u)[i])
  <2>1. /\ i \in 1 .. Len(s) + Len(u) /\ i \in 1 .. Len(s \o t) + Len(u)
        /\ (s \o u)[i] = IF i <= Len(s) THEN s[i] ELSE u[i - Len(s)]
    BY <1>1, <1>2, <1>3, ConcatProperties
  <2>2. ((s \o t) \o u)[i] = IF i <= Len(s \o t) THEN (s \o t)[i] ELSE u[i - Len(s \o t)]
    BY <1>2, <2>1, ConcatProperties
  <2>3. CASE i <= Len(s)
    <3>1. (s \o t)[i] = s[i]
      BY <1>1, <2>3, ConcatProperties
    <3> QED
      BY <1>1, <1>2, <1>6, <2>1, <2>2, <2>3, <3>1
  <2>4. CASE i > Len(s) /\ i <= Len(s \o t)
    <3>1. (s \o t)[i] = t[i - Len(s)] /\ i - Len(s) \in 1 .. Len(t)
      BY <1>1, <1>2, <2>4, ConcatProperties
    <3>2. t[i - Len(s)] \in Plain
      BY <3>1, ElementOfSeq
    <3> QED
      BY <2>2, <2>4, <3>1, <3>2, EditorAssumption DEF IsMarker
  <2>5. CASE i > Len(s \o t)
    <3>1. i - Len(t) \in 1 .. e /\ ~ (i - Len(t) <= Len(s)) /\ (i - Len(t)) - Len(s) = i - Len(s \o t)
      BY <1>1, <1>2, <2>5
    <3>2. (s \o u)[i - Len(t)] = u[(i - Len(t)) - Len(s)]
      BY <1>1, <1>3, <3>1, ConcatProperties
    <3>3. ~ IsMarker((s \o u)[i - Len(t)])
      BY <1>6, <3>1
    <3>4. ((s \o t) \o u)[i] = u[i - Len(s \o t)]
      BY <1>1, <1>2, <2>2, <2>5
    <3> QED
      BY <3>1, <3>2, <3>3, <3>4
  <2> QED
    BY <1>1, <1>2, <2>3, <2>4, <2>5
<1> QED
  BY <1>4, <1>5, <1>7 DEF Marks

\* A character with what stands before and after it.
LEMMA CutOne ==
    ASSUME NEW S, NEW b \in Seq(S), NEW p \in 1 .. Len(b)
    PROVE  /\ b = (SubSeq(b, 1, p - 1) \o <<b[p]>>) \o SubSeq(b, p + 1, Len(b))
           /\ RemoveAt(b, p) = SubSeq(b, 1, p - 1) \o SubSeq(b, p + 1, Len(b))
<1>1. Len(b) \in Nat /\ p \in Nat /\ p \in 0 .. Len(b) /\ p - 1 \in 0 .. p /\ (p - 1) + 1 = p
  OBVIOUS
<1>2. SubSeq(b, p, p) = <<b[p]>>
  <2>1. \A i \in p .. p : b[i] \in S
    BY <1>1, ElementOfSeq
  <2>2. /\ SubSeq(b, p, p) \in Seq(S) /\ Len(SubSeq(b, p, p)) = 1
        /\ \A i \in 1 .. 1 : SubSeq(b, p, p)[i] = b[p + i - 1]
    BY <1>1, <2>1, SubSeqProperties
  <2>3. <<b[p]>> \in Seq(S) /\ Len(<<b[p]>>) = 1 /\ <<b[p]>>[1] = b[p]
    BY ElementOfSeq
  <2>4. \A i \in 1 .. Len(SubSeq(b, p, p)) : SubSeq(b, p, p)[i] = <<b[p]>>[i]
    BY <1>1, <2>2, <2>3
  <2> QED
    BY <2>2, <2>3, <2>4, SeqEqual
<1>3. SubSeq(b, 1, p - 1) \o SubSeq(b, p, p) = SubSeq(b, 1, p)
  <2>1. SubSeq(b, 1, p - 1) \o SubSeq(b, (p - 1) + 1, p) = SubSeq(b, 1, p)
    BY <1>1, CutWord
  <2> QED
    BY <1>1, <2>1
<1>4. b = SubSeq(b, 1, p) \o SubSeq(b, p + 1, Len(b))
  BY <1>1, Cut
<1> QED
  BY <1>2, <1>3, <1>4 DEF RemoveAt

\* A line that is not touched.
LEMMA LineStays ==
    ASSUME LineInv, ListInv, UNCHANGED <<buffer, history, index, saved, blocks, mishaps>>,
           cursor' \in 0 .. Len(buffer), mode' \in {"Command", "Ai"}
    PROVE  LineInv' /\ ListInv'
<1>1. LineInv'
  BY DEF LineInv
<1>2. Count(buffer)' = Count(buffer) /\ Count(saved)' = Count(saved)
  BY DEF Count, Marks
<1>3. /\ InStep(buffer, blocks, 0)' <=> InStep(buffer, blocks, 0)
      /\ InStep(saved, blocks, 0)' <=> InStep(saved, blocks, 0)
  BY DEF InStep, Marks, Nth
<1>4. ListInv'
  BY <1>2, <1>3 DEF ListInv
<1> QED
  BY <1>1, <1>4

\* A popup that is closed, or not open.
LEMMA PopupCloses ==
    ASSUME popup' = Closed \/ (PopupInv /\ ~ popup.visible /\ UNCHANGED popup)
    PROVE  PopupInv' /\ PopupCompletesWord'
<1>1. CASE popup' = Closed
  BY <1>1 DEF PopupInv, PopupCompletesWord, Closed
<1>2. CASE PopupInv /\ ~ popup.visible /\ UNCHANGED popup
  BY <1>2 DEF PopupInv, PopupCompletesWord
<1> QED
  BY <1>1, <1>2

----------------------------------------------------------------------------
(* Each action preserves the invariant.                                    *)

\* Typing, and "!" and "?".
LEMMA TypeStep ==
    ASSUME IInv, Type
    PROVE  IInv'
<1>1. LineInv /\ ListInv /\ faithful /\ cursor \in 0 .. Len(buffer)
  BY DEF IInv, LineInv, SubmitsAsMeant
<1>2. KeyDone
  BY DEF Type
<1>3. PopupInv' /\ PopupCompletesWord' /\ SubmitsAsMeant' /\ UNCHANGED mishaps
  BY <1>1, <1>2, PopupCloses DEF KeyDone, SubmitsAsMeant
<1>4. ASSUME NEW ch \in Plain, Insert(ch), UNCHANGED mode
      PROVE  LineInv' /\ ListInv'
  <2>1. <<ch>> \in Seq(Plain) /\ Len(<<ch>>) = 1
    OBVIOUS
  <2>2. /\ buffer' = (Before(cursor) \o <<ch>>) \o After(cursor)
        /\ cursor' = cursor + Len(<<ch>>)
        /\ UNCHANGED <<history, index, saved, blocks, mode, mishaps>>
    BY <1>3, <1>4 DEF Insert, ReplaceRange
  <2> QED
    BY <1>1, <2>1, <2>2, InsertText
<1>5. CASE \E ch \in Chars : Insert(ch) /\ UNCHANGED mode
  <2>1. Chars \subseteq Plain
    BY EditorAssumption DEF Plain
  <2> QED
    BY <1>3, <1>4, <1>5, <2>1 DEF IInv
<1>6. CASE Insert("\n") /\ UNCHANGED mode
  <2>1. "\n" \in Plain
    BY DEF Plain
  <2> QED
    BY <1>3, <1>4, <1>6, <2>1 DEF IInv
<1>7. CASE mode' \in {"Command", "Ai"} \ {mode} /\ UNCHANGED lineVars
  BY <1>1, <1>3, <1>7, LineStays DEF IInv, lineVars
<1> QED
  BY <1>5, <1>6, <1>7 DEF Type

\* Backspace and Delete: a marker goes with its block.
LEMMA RemoveStep ==
    ASSUME IInv, "cleared" \notin mishaps, NEW p \in Nat, RemoveChar(p)
    PROVE  IInv'
<1>1. LineInv /\ ListInv /\ faithful /\ p \in 1 .. Len(buffer) /\ buffer \in Seq(Token) /\ Len(buffer) \in Nat
  BY DEF IInv, LineInv, SubmitsAsMeant, RemoveChar
<1>2. PopupInv' /\ PopupCompletesWord' /\ SubmitsAsMeant' /\ UNCHANGED mishaps
  BY <1>1, PopupCloses DEF KeyDone, SubmitsAsMeant, RemoveChar
<1> DEFINE s == SubSeq(buffer, 1, p - 1)
           u == SubSeq(buffer, p + 1, Len(buffer))
           x == buffer[p]
<1>3. /\ s \in Seq(Token) /\ Len(s) = p - 1 /\ u \in Seq(Token) /\ Len(u) = Len(buffer) - p
      /\ buffer = (s \o <<x>>) \o u /\ buffer' = s \o u /\ x \in Token
  <2>1. p - 1 \in 0 .. Len(buffer) /\ p \in 0 .. Len(buffer)
    BY <1>1
  <2>2. s \in Seq(Token) /\ Len(s) = p - 1
    BY <1>1, <2>1, Cut
  <2>3. u \in Seq(Token) /\ Len(u) = Len(buffer) - p
    BY <1>1, <2>1, Cut
  <2>4. buffer = (s \o <<x>>) \o u /\ RemoveAt(buffer, p) = s \o u
    BY <1>1, CutOne
  <2>5. x \in Token
    BY <1>1, ElementOfSeq
  <2> QED
    BY <2>2, <2>3, <2>4, <2>5 DEF RemoveChar
<1>4. /\ BlockIndex(p) = Count(s) + 1
      /\ IsMarker(x) => BlockIndex(p) <= Len(blocks) /\ blocks' = RemoveAt(blocks, BlockIndex(p))
      /\ ~ IsMarker(x) => blocks' = blocks
  BY DEF RemoveChar, BlocksWithout, BlockIndex, Before, Count
<1> HIDE DEF s, u, x
<1>5. Count(s) \in Nat /\ Count(u) \in Nat /\ Count(saved) \in Nat /\ Len(blocks) \in Nat
  <2>1. saved \in Seq(Token) /\ Len(blocks) \in Nat
    BY <1>1 DEF LineInv
  <2> QED
    BY <1>3, <2>1, CountType
<1>6. cursor' = p - 1 /\ UNCHANGED <<history, index, saved, mode>>
  BY DEF RemoveChar
<1>7. buffer' \in Seq(Token) /\ cursor' \in 0 .. Len(buffer') /\ Count(buffer') = Count(s) + Count(u)
  <2>1. s \o u \in Seq(Token) /\ Len(s \o u) = Len(s) + Len(u)
    BY <1>3, ConcatProperties
  <2>2. p - 1 \in 0 .. (p - 1) + (Len(buffer) - p)
    BY <1>1
  <2>3. Count(s \o u) = Count(s) + Count(u)
    BY <1>3, CountConcat
  <2> QED
    BY <1>3, <1>6, <2>1, <2>2, <2>3
<1>8. /\ Count(buffer)' = Count(buffer') /\ Count(saved)' = Count(saved)
      /\ InStep(buffer, blocks, 0)' <=> InStep(buffer', blocks', 0)
      /\ InStep(saved, blocks, 0)' <=> InStep(saved, blocks', 0)
  BY <1>6 DEF Count, InStep, Marks, Nth
<1>9. /\ Count(buffer) + Count(saved) <= Len(blocks)
      /\ mishaps = {} => /\ Count(buffer) + Count(saved) = Len(blocks)
                         /\ InStep(buffer, blocks, 0) /\ InStep(saved, blocks, 0)
                         /\ index # 0 => Count(buffer) = 0
  BY <1>1 DEF ListInv
<1>10. CASE IsMarker(x)
  <2>1. /\ x \in Markers /\ Count(s) + 1 <= Len(blocks)
        /\ blocks' = RemoveAt(blocks, Count(s) + 1) /\ Count(s) + 1 \in 1 .. Len(blocks)
    BY <1>4, <1>5, <1>10 DEF IsMarker
  <2>2. blocks' \in Seq(Markers) /\ Len(blocks') = Len(blocks) - 1
    BY <1>1, <2>1, RemoveAtType DEF LineInv
  <2>3. Count(buffer) = Count(s) + 1 + Count(u)
    <3>1. <<x>> \in Seq(Token) /\ s \o <<x>> \in Seq(Token)
      BY <1>3, ConcatProperties
    <3>2. Count(s \o <<x>>) = Count(s) + 1
      BY <1>3, <2>1, <3>1, CountConcat, OneCount
    <3> QED
      BY <1>3, <3>1, <3>2, CountConcat
  <2>4. Count(buffer') + Count(saved) <= Len(blocks')
    BY <1>5, <1>7, <1>9, <2>2, <2>3
  <2>5. ASSUME mishaps = {}
        PROVE  /\ Count(buffer') + Count(saved) = Len(blocks')
               /\ InStep(buffer', blocks', 0) /\ InStep(saved, blocks', 0)
               /\ index # 0 => Count(buffer') = 0
    <3>1. Count(buffer) + Count(saved) = Len(blocks) /\ InStep((s \o <<x>>) \o u, blocks, 0)
      BY <1>3, <1>9, <2>5
    <3>2. Count(buffer) # 0
      BY <1>5, <2>3
    <3>3. index = 0 /\ saved = <<>>
      BY <1>1, <1>9, <2>5, <3>2 DEF LineInv
    <3>4. Count(s) + 1 + Count(u) <= Len(blocks)
      BY <1>5, <2>3, <3>1
    <3>5. InStep(s \o u, RemoveAt(blocks, Count(s) + 1), 0)
      BY <1>1, <1>3, <2>1, <3>1, <3>4, DropMarker DEF LineInv
    <3>6. InStep(saved, blocks', 0)
      BY <3>3, InStepPlain DEF Marks
    <3>7. Count(buffer') + Count(saved) = Len(blocks')
      <4>1. PICK m : m = Count(s)
        OBVIOUS
      <4>2. PICK n : n = Count(u)
        OBVIOUS
      <4>3. PICK k : k = Count(saved)
        OBVIOUS
      <4>4. m \in Nat /\ n \in Nat /\ k \in Nat /\ m + 1 + n + k = Len(blocks) /\ Len(blocks) \in Nat
        BY <1>5, <2>3, <3>1, <4>1, <4>2, <4>3
      <4>5. m + n + k = Len(blocks) - 1
        BY <4>4
      <4> QED
        BY <1>7, <2>2, <4>1, <4>2, <4>3, <4>5
    <3> QED
      BY <1>3, <2>1, <3>3, <3>5, <3>6, <3>7
  <2>6. ListInv'
    BY <1>2, <1>6, <1>8, <2>4, <2>5 DEF ListInv
  <2>7. LineInv'
    BY <1>1, <1>6, <1>7, <2>2 DEF LineInv
  <2> QED
    BY <1>2, <2>6, <2>7 DEF IInv
<1>11. CASE ~ IsMarker(x)
  <2>1. <<x>> \in Seq(Plain) /\ blocks' = blocks
    BY <1>3, <1>4, <1>11 DEF Token, IsMarker
  <2>2. /\ Count(buffer) = Count(buffer')
        /\ \A list : InStep(buffer, list, 0) <=> InStep(buffer', list, 0)
    BY <1>3, <2>1, InsertPlain
  <2>3. ListInv'
    BY <1>2, <1>6, <1>8, <1>9, <2>1, <2>2 DEF ListInv
  <2>4. LineInv'
    BY <1>1, <1>6, <1>7, <2>1 DEF LineInv
  <2> QED
    BY <1>2, <2>3, <2>4 DEF IInv
<1> QED
  BY <1>10, <1>11

\* Ctrl-C.
LEMMA CtrlCStep ==
    ASSUME IInv, CtrlC
    PROVE  IInv'
<1>1. LineInv /\ ListInv /\ faithful
  BY DEF IInv, SubmitsAsMeant
<1>2. PopupInv' /\ PopupCompletesWord' /\ SubmitsAsMeant'
  BY <1>1, PopupCloses DEF SubmitsAsMeant, CtrlC
<1>3. /\ buffer' = <<>> /\ blocks' = <<>> /\ cursor' = 0 /\ UNCHANGED <<history, index, saved, mode>>
      /\ "cleared" \notin mishaps' => Marks(saved) = {}
  <2>1. "cleared" \notin mishaps' => index = 0 \/ Marks(saved) = {}
    BY DEF CtrlC
  <2>2. index = 0 => Marks(saved) = {}
    BY <1>1 DEF LineInv, Marks
  <2> QED
    BY <2>1, <2>2 DEF CtrlC
<1>4. LineInv'
  <2>1. <<>> \in Seq(Token) /\ <<>> \in Seq(Markers) /\ Len(<<>>) = 0 /\ 0 \in 0 .. 0
    OBVIOUS
  <2> QED
    BY <1>1, <1>3, <2>1 DEF LineInv
<1>5. Marks(<<>>) = {}
  BY DEF Marks
<1>6. ListInv'
  <2>1. ASSUME "cleared" \notin mishaps'
        PROVE  /\ Count(buffer)' = 0 /\ Count(saved)' = 0 /\ Len(blocks') = 0
               /\ InStep(buffer, blocks, 0)' /\ InStep(saved, blocks, 0)'
    BY <1>3, <1>5, <2>1, FS_EmptySet DEF Count, InStep, Marks
  <2> QED
    BY <2>1 DEF ListInv
<1> QED
  BY <1>2, <1>4, <1>6 DEF IInv

\* The cursor.
LEMMA CursorStep ==
    ASSUME IInv, MoveCursor \/ MoveUp \/ MoveDown
    PROVE  IInv'
<1>1. LineInv /\ ListInv /\ faithful /\ cursor \in 0 .. Len(buffer) /\ Len(buffer) \in Nat
  BY DEF IInv, LineInv, SubmitsAsMeant
<1>2. ASSUME NEW c \in 0 .. Len(buffer), Goto(c)
      PROVE  IInv'
  <2>1. PopupInv' /\ PopupCompletesWord' /\ SubmitsAsMeant'
    BY <1>1, <1>2, PopupCloses DEF Goto, KeyDone, SubmitsAsMeant
  <2>2. LineInv' /\ ListInv'
    <3>1. mode \in {"Command", "Ai"}
      BY <1>1 DEF LineInv
    <3> QED
      BY <1>1, <1>2, <3>1, LineStays DEF Goto, KeyDone
  <2> QED
    BY <2>1, <2>2 DEF IInv
<1>3. LineStart(cursor) \in 0 .. cursor /\ LineEnd(cursor) \in cursor .. Len(buffer)
  BY <1>1, LineStartType, LineEndType
<1>4. CASE MoveCursor
  <2>1. /\ cursor > 0 => cursor - 1 \in 0 .. Len(buffer)
        /\ cursor < Len(buffer) => cursor + 1 \in 0 .. Len(buffer)
        /\ LineStart(cursor) \in 0 .. Len(buffer) /\ LineEnd(cursor) \in 0 .. Len(buffer)
    BY <1>1, <1>3
  <2> QED
    BY <1>2, <1>4, <2>1 DEF MoveCursor
<1>5. CASE MoveUp
  <2> DEFINE e == LineStart(cursor) - 1
  <2>1. LineStart(cursor) > 0 /\ Goto(InLine(LineStart(e), e))
    BY <1>5 DEF MoveUp, CanMoveUp
  <2>2. e \in 0 .. Len(buffer)
    BY <1>1, <1>3, <2>1
  <2>3. LineStart(e) \in 0 .. e
    BY <1>1, <2>2, LineStartType
  <2>4. InLine(LineStart(e), e) \in 0 .. Len(buffer)
    BY <1>1, <2>2, <2>3, InLineType
  <2> QED
    BY <1>2, <2>1, <2>4
<1>6. CASE MoveDown
  <2> DEFINE start == LineEnd(cursor) + 1
  <2>1. LineEnd(cursor) < Len(buffer) /\ Goto(InLine(start, LineEnd(start)))
    BY <1>6 DEF MoveDown, CanMoveDown
  <2>2. start \in 0 .. Len(buffer)
    BY <1>1, <1>3, <2>1
  <2>3. LineEnd(start) \in start .. Len(buffer)
    BY <1>1, <2>2, LineEndType
  <2>4. LineEnd(start) \in 0 .. Len(buffer) /\ start \in 0 .. LineEnd(start)
    BY <1>1, <2>2, <2>3
  <2>5. InLine(start, LineEnd(start)) \in 0 .. Len(buffer)
    BY <1>1, <2>4, InLineType
  <2> QED
    BY <1>2, <2>1, <2>5
<1> QED
  BY <1>4, <1>5, <1>6

\* History: the line that is saved keeps its blocks, an entry shown has none.
LEMMA HistoryStep ==
    ASSUME IInv, HistoryUp \/ HistoryDown
    PROVE  IInv'
<1>1. /\ LineInv /\ ListInv /\ faithful /\ Len(history) \in Nat /\ index \in 0 .. Len(history)
      /\ history \in Seq(Seq(Plain)) /\ buffer \in Seq(Token) /\ saved \in Seq(Token)
  BY DEF IInv, LineInv, SubmitsAsMeant
<1>2. PopupInv' /\ PopupCompletesWord' /\ SubmitsAsMeant' /\ UNCHANGED <<mishaps, blocks, history, mode>>
  BY <1>1, PopupCloses DEF HistoryUp, HistoryDown, Show, KeyDone, SubmitsAsMeant
<1>3. \A i \in 1 .. Len(history) : /\ history[i] \in Seq(Plain) /\ history[i] \in Seq(Token)
                                   /\ Count(history[i]) = 0 /\ Marks(history[i]) = {}
  <2> TAKE i \in 1 .. Len(history)
  <2>1. history[i] \in Seq(Plain)
    BY <1>1, ElementOfSeq
  <2>2. history[i] \in Seq(Token)
    BY <2>1, SeqMonotonic DEF Token
  <2> QED
    BY <2>1, <2>2, PlainCount
<1>4. Count(buffer) \in Nat /\ Count(saved) \in Nat /\ Count(<<>>) = 0 /\ Marks(<<>>) = {}
  <2>1. Marks(<<>>) = {}
    BY DEF Marks
  <2> QED
    BY <1>1, <2>1, CountType, FS_EmptySet DEF Count
<1>5. ASSUME NEW text \in Seq(Token), NEW i \in 0 .. Len(history), Show(text, i),
             saved' \in Seq(Token), i = 0 => saved' = <<>>
      PROVE  LineInv'
  <2>1. Len(text) \in 0 .. Len(text)
    OBVIOUS
  <2> QED
    BY <1>1, <1>2, <1>5, <2>1 DEF LineInv, Show
<1>6. ASSUME NEW text \in Seq(Token), NEW other \in Seq(Token), buffer' = text, saved' = other,
             Count(text) + Count(other) <= Count(buffer) + Count(saved),
             mishaps = {} =>
                 /\ Count(text) + Count(other) = Count(buffer) + Count(saved)
                 /\ InStep(text, blocks, 0) /\ InStep(other, blocks, 0)
                 /\ index' # 0 => Count(text) = 0
      PROVE  ListInv'
  <2>1. Count(buffer)' = Count(text) /\ Count(saved)' = Count(other)
    BY <1>6 DEF Count, Marks
  <2>2. /\ InStep(buffer, blocks, 0)' <=> InStep(text, blocks, 0)
        /\ InStep(saved, blocks, 0)' <=> InStep(other, blocks, 0)
    BY <1>2, <1>6 DEF InStep, Marks, Nth
  <2>3. Count(text) \in Nat /\ Count(other) \in Nat
    BY CountType
  <2>4. Len(blocks) \in Nat
    BY <1>1 DEF LineInv
  <2>5. "cleared" \notin mishaps => Count(text) + Count(other) <= Len(blocks)
    BY <1>1, <1>4, <1>6, <2>3, <2>4 DEF ListInv
  <2> QED
    BY <1>1, <1>2, <1>6, <2>1, <2>2, <2>5 DEF ListInv
<1>7. CASE HistoryUp /\ index = 0
  <2>1. history # <<>> /\ saved' = buffer /\ Show(Last(history), Len(history)) /\ saved = <<>>
    BY <1>1, <1>7 DEF HistoryUp, LineInv
  <2>2. Len(history) \in 1 .. Len(history) /\ Last(history) = history[Len(history)]
    BY <1>1, <2>1, EmptySeq DEF Last
  <2>3. LineInv'
    BY <1>1, <1>3, <1>5, <2>1, <2>2
  <2>4. InStep(Last(history), blocks, 0)
    BY <1>3, <2>2, InStepPlain
  <2>5. buffer' = Last(history)
    BY <2>1 DEF Show
  <2>6. ListInv'
    BY <1>1, <1>3, <1>4, <1>6, <2>1, <2>2, <2>4, <2>5 DEF ListInv
  <2> QED
    BY <1>2, <2>3, <2>6 DEF IInv
<1>8. ASSUME NEW i \in 1 .. Len(history), Show(history[i], i), UNCHANGED saved, index # 0
      PROVE  IInv'
  <2>1. i \in 0 .. Len(history) /\ i # 0
    BY <1>1
  <2>2. LineInv'
    BY <1>1, <1>3, <1>5, <1>8, <2>1
  <2>3. InStep(history[i], blocks, 0)
    BY <1>3, InStepPlain
  <2>4. buffer' = history[i] /\ saved' = saved
    BY <1>8 DEF Show
  <2>5. /\ Count(history[i]) + Count(saved) <= Count(buffer) + Count(saved)
        /\ mishaps = {} => Count(history[i]) + Count(saved) = Count(buffer) + Count(saved)
    <3>1. mishaps = {} => Count(buffer) = 0
      BY <1>1, <1>8 DEF ListInv
    <3> QED
      BY <1>3, <1>4, <3>1
  <2>6. mishaps = {} => InStep(saved, blocks, 0)
    BY <1>1 DEF ListInv
  <2>7. ListInv'
    BY <1>1, <1>3, <1>6, <2>3, <2>4, <2>5, <2>6
  <2> QED
    BY <1>2, <2>2, <2>7 DEF IInv
<1>9. CASE HistoryUp /\ index # 0
  <2>1. index > 1 /\ UNCHANGED saved /\ Show(history[index - 1], index - 1)
    BY <1>9 DEF HistoryUp
  <2>2. index - 1 \in 1 .. Len(history)
    BY <1>1, <2>1
  <2> QED
    BY <1>8, <1>9, <2>1, <2>2
<1>10. CASE HistoryDown /\ index < Len(history)
  <2>1. index # 0 /\ Show(history[index + 1], index + 1) /\ UNCHANGED saved
    BY <1>10 DEF HistoryDown
  <2>2. index + 1 \in 1 .. Len(history)
    BY <1>1, <1>10
  <2> QED
    BY <1>8, <2>1, <2>2
<1>11. CASE HistoryDown /\ ~ index < Len(history)
  <2>1. index # 0 /\ Show(saved, 0) /\ saved' = <<>>
    BY <1>11 DEF HistoryDown
  <2>2. <<>> \in Seq(Token) /\ 0 \in 0 .. Len(history)
    BY <1>1
  <2>3. LineInv'
    BY <1>1, <1>5, <2>1, <2>2
  <2>4. buffer' = saved /\ index' = 0
    BY <2>1 DEF Show
  <2>5. /\ Count(saved) + Count(<<>>) <= Count(buffer) + Count(saved)
        /\ mishaps = {} => /\ Count(saved) + Count(<<>>) = Count(buffer) + Count(saved)
                           /\ InStep(saved, blocks, 0)
    <3>1. mishaps = {} => Count(buffer) = 0 /\ InStep(saved, blocks, 0)
      BY <1>1, <2>1 DEF ListInv
    <3> QED
      BY <1>4, <3>1
  <2>6. InStep(<<>>, blocks, 0)
    BY <1>4, InStepPlain
  <2>7. ListInv'
    BY <1>1, <1>6, <2>1, <2>2, <2>4, <2>5, <2>6
  <2> QED
    BY <1>2, <2>3, <2>7 DEF IInv
<1> QED
  BY <1>7, <1>9, <1>10, <1>11

\* Under a popup: what it completes stays where it is, or its line begins as it did.
LEMMA PopupStays ==
    ASSUME LineInv, PopupInv, popup.visible, NEW t \in Seq(Token),
           buffer' = (Before(cursor) \o t) \o After(cursor), cursor' = cursor + Len(t),
           popup' = [popup EXCEPT !.exact = FALSE],
           mishaps' = {} => mishaps = {} /\ (t \in Seq(Plain) \/ popup.end <= cursor)
    PROVE  PopupInv' /\ PopupCompletesWord'
<1>1. cursor \in 0 .. Len(buffer) /\ Len(buffer) \in Nat /\ buffer \in Seq(Token) /\ Len(t) \in Nat
  BY DEF LineInv
<1>2. popup \in [visible : BOOLEAN, start : Nat, end : Nat, candidates : SUBSET Seq(Token), exact : BOOLEAN]
  BY DEF PopupInv
<1>3. /\ popup' \in [visible : BOOLEAN, start : Nat, end : Nat, candidates : SUBSET Seq(Token), exact : BOOLEAN]
      /\ popup'.start = popup.start /\ popup'.end = popup.end
      /\ popup'.candidates = popup.candidates /\ popup'.exact = FALSE
      /\ popup.start \in Nat /\ popup.end \in Nat
  BY <1>2
<1>4. popup.start <= popup.end /\ popup.end <= Len(buffer)
  BY DEF PopupInv
<1>5. /\ Before(cursor) \in Seq(Token) /\ After(cursor) \in Seq(Token)
      /\ buffer = Before(cursor) \o After(cursor)
      /\ Len(Before(cursor)) = cursor /\ Len(After(cursor)) = Len(buffer) - cursor
  BY <1>1, Cut DEF Before, After
<1>6. Len(buffer') = Len(buffer) + Len(t)
  <2>1. Before(cursor) \o t \in Seq(Token) /\ Len(Before(cursor) \o t) = Len(Before(cursor)) + Len(t)
    BY <1>5, ConcatProperties
  <2>2. Len(buffer') = Len(Before(cursor) \o t) + Len(After(cursor))
    BY <1>5, <2>1, ConcatProperties
  <2> QED
    BY <1>1, <1>5, <2>1, <2>2
<1>7. popup'.start <= popup'.end /\ popup'.end <= Len(buffer')
  BY <1>1, <1>3, <1>4, <1>6
<1>8. PopupCompletesWord'
  BY <1>3 DEF PopupCompletesWord
<1>9. CASE popup.end <= cursor
  <2>1. popup.end \in 0 .. cursor /\ popup.start \in 0 .. popup.end /\ 0 \in 0 .. popup.end
    BY <1>1, <1>3, <1>4, <1>9
  <2>2. SubSeq(buffer', popup.start + 1, popup.end) = SubSeq(buffer, popup.start + 1, popup.end)
    BY <2>1, WordStays
  <2>3. SubSeq(buffer', 1, popup.end) = SubSeq(buffer, 1, popup.end)
    <3>1. PICK a : a = 0
      OBVIOUS
    <3>2. SubSeq(buffer', a + 1, popup.end) = SubSeq(buffer, a + 1, popup.end)
      BY <2>1, <3>1, WordStays
    <3>3. a + 1 = 1
      BY <3>1
    <3> QED
      BY <3>2, <3>3
  <2>4. \A c : Extends(c, popup.start, popup.end) => Extends(c, popup.start, popup.end)'
    BY <1>3, <2>2 DEF Extends
  <2>5. popup'.end <= cursor'
    BY <1>1, <1>3, <1>9
  <2>6. (Marks(SubSeq(buffer, 1, popup.end)))' = Marks(SubSeq(buffer, 1, popup.end))
    BY <1>3, <2>3 DEF Marks
  <2> QED
    BY <1>3, <1>7, <1>8, <1>9, <2>4, <2>5, <2>6 DEF PopupInv
<1>10. CASE ~ popup.end <= cursor
  <2>1. /\ popup.start = 0 /\ popup.candidates \subseteq Seq(Plain)
        /\ mishaps = {} => Marks(SubSeq(buffer, 1, popup.end)) = {}
    BY <1>10 DEF PopupInv
  <2>2. ASSUME mishaps' = {} PROVE Marks(SubSeq(buffer', 1, popup.end)) = {}
    <3>1. Marks(SubSeq(Before(cursor) \o After(cursor), 1, popup.end)) = {} /\ t \in Seq(Plain)
      BY <1>5, <1>10, <2>1, <2>2
    <3>2. popup.end \in 0 .. Len(Before(cursor) \o After(cursor))
      BY <1>1, <1>3, <1>4, <1>5
    <3> QED
      BY <1>5, <3>1, <3>2, FrontStaysPlain
  <2>3. (Marks(SubSeq(buffer, 1, popup.end)))' = Marks(SubSeq(buffer', 1, popup.end))
    BY <1>3 DEF Marks
  <2> QED
    BY <1>3, <1>7, <1>8, <2>1, <2>2, <2>3 DEF PopupInv
<1> QED
  BY <1>9, <1>10

\* A small paste, also under a popup.
LEMMA PasteTextStep ==
    ASSUME IInv, PasteText
    PROVE  IInv'
<1>1. LineInv /\ ListInv /\ PopupInv /\ faithful /\ cursor \in 0 .. Len(buffer)
  BY DEF IInv, LineInv, SubmitsAsMeant
<1> DEFINE t == <<"\n", "x">>
<1>2. t \in Seq(Plain) /\ t \in Seq(Token)
  BY DEF Plain, Token
<1>3. /\ buffer' = (Before(cursor) \o t) \o After(cursor) /\ cursor' = cursor + Len(t)
      /\ UNCHANGED <<history, index, saved, blocks, mishaps, mode, faithful>>
      /\ popup' = IF popup.visible THEN [popup EXCEPT !.exact = FALSE] ELSE popup
  BY DEF PasteText, ReplaceRange
<1> HIDE DEF t
<1>4. LineInv' /\ ListInv'
  BY <1>1, <1>2, <1>3, InsertText
<1>5. PopupInv' /\ PopupCompletesWord'
  <2>1. CASE ~ popup.visible
    BY <1>1, <1>3, <2>1, PopupCloses
  <2>2. CASE popup.visible
    BY <1>1, <1>2, <1>3, <2>2, PopupStays
  <2> QED
    BY <2>1, <2>2
<1> QED
  BY <1>1, <1>3, <1>4, <1>5 DEF IInv, SubmitsAsMeant

\* A large one: its block is the last of the list, and so is its marker unless it is out of
\* step.
LEMMA PasteBlockStep ==
    ASSUME IInv, PasteBlock
    PROVE  IInv'
<1>1. /\ LineInv /\ ListInv /\ PopupInv /\ faithful /\ cursor \in 0 .. Len(buffer)
      /\ buffer \in Seq(Token) /\ saved \in Seq(Token) /\ blocks \in Seq(Markers) /\ Len(blocks) \in Nat
  BY DEF IInv, LineInv, SubmitsAsMeant
<1>2. PICK m \in Markers : /\ ReplaceRange(cursor, cursor, <<m>>)
                           /\ blocks' = Append(blocks, m)
  BY DEF PasteBlock, Unused
<1>3. /\ UNCHANGED <<history, index, saved, mode, faithful>>
      /\ mishaps' = IF OutOfStep THEN mishaps \cup {"order"} ELSE mishaps
      /\ popup' = IF popup.visible THEN [popup EXCEPT !.exact = FALSE] ELSE popup
  BY DEF PasteBlock
<1> DEFINE s == Before(cursor)
           u == After(cursor)
<1>4. <<m>> \in Seq(Token) /\ Len(<<m>>) = 1
  BY DEF Token
<1>5. /\ s \in Seq(Token) /\ u \in Seq(Token) /\ buffer = s \o u /\ Len(s) = cursor /\ Len(u) = Len(buffer) - cursor
      /\ buffer' = (s \o <<m>>) \o u /\ cursor' = cursor + 1
  BY <1>1, <1>2, <1>4, Cut DEF Before, After, ReplaceRange
<1>6. OutOfStep <=> Marks(u) # {} \/ index # 0 \/ (popup.visible /\ cursor < popup.end)
  BY DEF OutOfStep
<1>7. Len(u) \in Nat /\ cursor \in Nat
  BY <1>1, <1>5
<1> HIDE DEF s, u
<1>8. /\ s \o <<m>> \in Seq(Token) /\ Len(s \o <<m>>) = cursor + 1
      /\ (s \o <<m>>) \o u \in Seq(Token) /\ Len((s \o <<m>>) \o u) = cursor + 1 + Len(u)
  <2>1. s \o <<m>> \in Seq(Token) /\ Len(s \o <<m>>) = cursor + 1
    BY <1>4, <1>5, ConcatProperties
  <2> QED
    BY <1>5, <2>1, ConcatProperties
<1>9. LineInv'
  <2>1. cursor' \in 0 .. Len(buffer')
    BY <1>5, <1>7, <1>8
  <2>2. blocks' \in Seq(Markers)
    BY <1>1, <1>2, AppendProperties
  <2> QED
    BY <1>1, <1>3, <1>5, <1>8, <2>1, <2>2 DEF LineInv
<1>10. Count(s) \in Nat /\ Count(u) \in Nat /\ Count(saved) \in Nat
  BY <1>1, <1>5, CountType
<1>11. Count(buffer) = Count(s) + Count(u) /\ Count(buffer') = (Count(s) + 1) + Count(u)
  <2>1. Count(s \o <<m>>) = Count(s) + 1
    BY <1>4, <1>5, CountConcat, OneCount
  <2> QED
    BY <1>5, <1>8, <2>1, CountConcat
<1>12. Len(blocks') = Len(blocks) + 1
  BY <1>1, <1>2, AppendProperties
<1>13. /\ Count(buffer)' = Count(buffer') /\ Count(saved)' = Count(saved)
       /\ InStep(buffer, blocks, 0)' <=> InStep(buffer', blocks', 0)
       /\ InStep(saved, blocks, 0)' <=> InStep(saved, blocks', 0)
  BY <1>3 DEF Count, InStep, Marks, Nth
<1>14. "cleared" \notin mishaps' => Count(buffer') + Count(saved) <= Len(blocks')
  <2>1. "cleared" \notin mishaps' => Count(buffer) + Count(saved) <= Len(blocks)
    BY <1>1, <1>3 DEF ListInv
  <2>2. PICK n : n = Count(s) + Count(u)
    OBVIOUS
  <2>3. PICK k : k = Count(saved)
    OBVIOUS
  <2>4. n \in Nat /\ k \in Nat /\ Count(buffer) = n /\ Count(buffer') = n + 1
    BY <1>10, <1>11, <2>2, <2>3
  <2> QED
    BY <1>1, <1>12, <2>1, <2>3, <2>4
<1>15. ASSUME mishaps' = {}
       PROVE  /\ Count(buffer') + Count(saved) = Len(blocks')
              /\ InStep(buffer', blocks', 0) /\ InStep(saved, blocks', 0)
              /\ index' = 0
  <2>1. mishaps = {} /\ Marks(u) = {} /\ index = 0
    BY <1>3, <1>6, <1>15
  <2>2. /\ Count(buffer) + Count(saved) = Len(blocks) /\ InStep(s \o u, blocks, 0)
        /\ saved = <<>> /\ Marks(saved) = {}
    BY <1>1, <1>5, <2>1 DEF ListInv, LineInv, Marks
  <2>3. Count(u) = 0 /\ Count(saved) = 0
    BY <2>1, <2>2, FS_EmptySet DEF Count
  <2>4. Count(s) = Len(blocks)
    BY <1>10, <1>11, <2>2, <2>3
  <2>5. InStep((s \o <<m>>) \o u, Append(blocks, m), 0)
    BY <1>1, <1>5, <2>2, <2>3, <2>4, AddMarker
  <2>6. Count(buffer') + Count(saved) = Len(blocks')
    BY <1>1, <1>11, <1>12, <2>3, <2>4
  <2> QED
    BY <1>2, <1>3, <1>5, <2>1, <2>2, <2>5, <2>6, InStepPlain
<1>16. ListInv'
  BY <1>13, <1>14, <1>15 DEF ListInv
<1>17. PopupInv' /\ PopupCompletesWord'
  <2>1. CASE ~ popup.visible
    BY <1>1, <1>3, <2>1, PopupCloses
  <2>2. CASE popup.visible
    <3>1. mishaps' = {} => mishaps = {} /\ popup.end <= cursor
      <4>1. popup.end \in Nat
        BY <1>1 DEF PopupInv
      <4> QED
        BY <1>3, <1>6, <1>7, <2>2, <4>1
    <3>2. popup' = [popup EXCEPT !.exact = FALSE]
      BY <1>3, <2>2
    <3>3. buffer' = (Before(cursor) \o <<m>>) \o After(cursor) /\ cursor' = cursor + Len(<<m>>)
      BY <1>4, <1>5 DEF s, u
    <3> QED
      BY <1>1, <1>4, <2>2, <3>1, <3>2, <3>3, PopupStays
  <2> QED
    BY <2>1, <2>2
<1> QED
  BY <1>1, <1>3, <1>9, <1>16, <1>17 DEF IInv, SubmitsAsMeant

\* What is left of a text when the blanks around it are gone.
LEMMA TrimType ==
    ASSUME NEW text \in Seq(Plain)
    PROVE  Trim(text) \in Seq(Plain)
<1> DEFINE solid == {i \in DOMAIN text : ~ Blank(text[i])}
<1>1. Len(text) \in Nat /\ solid \subseteq 1 .. Len(text)
  OBVIOUS
<1>2. CASE solid = {}
  BY <1>2 DEF Trim
<1>3. CASE solid # {}
  <2>1. solid \subseteq Nat /\ solid \subseteq 0 .. Len(text)
    BY <1>1
  <2>2. Min(solid) \in solid /\ Max(solid) \in solid
    BY <1>1, <1>3, <2>1, MinType, MaxType
  <2>3. Min(solid) \in 1 .. Len(text) /\ Max(solid) \in 1 .. Len(text)
    BY <1>1, <2>2
  <2> HIDE DEF solid
  <2>4. \A i \in Min(solid) .. Max(solid) : text[i] \in Plain
    <3> TAKE i \in Min(solid) .. Max(solid)
    <3>1. i \in 1 .. Len(text)
      BY <1>1, <2>3
    <3> QED
      BY <3>1, ElementOfSeq
  <2>5. SubSeq(text, Min(solid), Max(solid)) \in Seq(Plain)
    BY <2>3, <2>4, SubSeqProperties
  <2> QED
    BY <1>3, <2>5 DEF Trim, solid
<1> QED
  BY <1>2, <1>3

\* A list that is long enough leaves no marker in what is sent.
LEMMA ExpandedType ==
    ASSUME LineInv, Count(buffer) <= Len(blocks)
    PROVE  Expanded \in Seq(Plain)
<1>1. /\ buffer \in Seq(Token) /\ Len(buffer) \in Nat /\ DOMAIN buffer = 1 .. Len(buffer)
      /\ blocks \in Seq(Markers) /\ Len(blocks) \in Nat
  BY DEF LineInv
<1>2. ASSUME NEW i \in 1 .. Len(buffer) PROVE Expanded[i] \in Plain
  <2>1. Expanded[i] = IF IsMarker(buffer[i]) /\ Nth(buffer, i) <= Len(blocks)
                      THEN Texts[blocks[Nth(buffer, i)]] ELSE buffer[i]
    BY <1>1 DEF Expanded
  <2>2. CASE IsMarker(buffer[i])
    <3>1. i \in Marks(buffer)
      BY <1>1, <2>2 DEF Marks
    <3>2. Nth(buffer, i) \in 1 .. Count(buffer) /\ Count(buffer) \in Nat
      BY <1>1, <3>1, NthRange, CountType
    <3>3. Nth(buffer, i) \in 1 .. Len(blocks)
      BY <1>1, <3>2
    <3>4. blocks[Nth(buffer, i)] \in Markers
      BY <1>1, <3>3, ElementOfSeq
    <3>5. Nth(buffer, i) <= Len(blocks)
      BY <1>1, <3>3
    <3> QED
      BY <2>1, <2>2, <3>4, <3>5 DEF Plain
  <2>3. CASE ~ IsMarker(buffer[i])
    <3>1. buffer[i] \in Token
      BY <1>1, ElementOfSeq
    <3> QED
      BY <2>1, <2>3, <3>1 DEF Token, IsMarker
  <2> QED
    BY <2>2, <2>3
<1>3. Expanded \in [1 .. Len(buffer) -> Plain]
  <2>1. Expanded = [i \in 1 .. Len(buffer) |-> Expanded[i]]
    BY <1>1 DEF Expanded
  <2> QED
    BY <1>2, <2>1
<1> QED
  BY <1>1, <1>3, IsASeq

\* A list in step makes it what was meant.
LEMMA ExpandedMeant ==
    ASSUME LineInv, Count(buffer) <= Len(blocks), InStep(buffer, blocks, 0)
    PROVE  Expanded = Meant
<1>1. buffer \in Seq(Token) /\ Len(blocks) \in Nat
  BY DEF LineInv
<1>2. ASSUME NEW i \in Marks(buffer)
      PROVE  Nth(buffer, i) <= Len(blocks) /\ buffer[i] = blocks[Nth(buffer, i)]
  <2>1. Nth(buffer, i) \in 1 .. Count(buffer) /\ Count(buffer) \in Nat
    BY <1>1, NthRange, CountType
  <2>2. buffer[i] = blocks[0 + Nth(buffer, i)]
    BY DEF InStep
  <2>3. PICK n : n = Nth(buffer, i)
    OBVIOUS
  <2>4. n \in Nat /\ n <= Len(blocks) /\ 0 + n = n
    BY <1>1, <2>1, <2>3
  <2> QED
    BY <2>2, <2>3, <2>4
<1>3. ASSUME NEW i \in DOMAIN buffer PROVE Expanded[i] = Meant[i]
  <2>1. CASE IsMarker(buffer[i])
    <3>1. i \in Marks(buffer)
      BY <2>1 DEF Marks
    <3> QED
      BY <1>2, <2>1, <3>1 DEF Expanded, Meant
  <2>2. CASE ~ IsMarker(buffer[i])
    BY <2>2 DEF Expanded, Meant
  <2> QED
    BY <2>1, <2>2
<1> QED
  BY <1>3 DEF Expanded, Meant

\* Enter.
LEMMA EnterStep ==
    ASSUME IInv, "cleared" \notin mishaps, Enter
    PROVE  IInv'
<1>1. LineInv /\ ListInv /\ PopupInv /\ faithful
  BY DEF IInv, SubmitsAsMeant
<1>2. Count(buffer) <= Len(blocks) /\ (mishaps = {} => InStep(buffer, blocks, 0))
  <2>1. Count(buffer) \in Nat /\ Count(saved) \in Nat /\ Len(blocks) \in Nat
    BY <1>1, CountType DEF LineInv
  <2> QED
    BY <1>1, <2>1 DEF ListInv
<1>3. SubmitsAsMeant'
  BY <1>1, <1>2, ExpandedMeant DEF Enter, SubmitsAsMeant
<1>4. history' \in Seq(Seq(Plain))
  <2>1. Trim(Expanded) \in Seq(Plain)
    BY <1>1, <1>2, ExpandedType, TrimType
  <2>2. Remembered(Expanded) \in Seq(Seq(Plain))
    BY <1>1, <2>1, AppendProperties DEF Remembered, LineInv
  <2>3. <<>> \in Seq(Seq(Plain))
    BY EmptySeq
  <2> QED
    BY <2>2, <2>3 DEF Enter
<1>5. /\ buffer' = <<>> /\ cursor' = 0 /\ index' = 0 /\ saved' = <<>> /\ blocks' = <<>>
      /\ ~ popup.visible /\ UNCHANGED <<popup, mode>>
  BY DEF Enter
<1>6. LineInv'
  <2>1. <<>> \in Seq(Token) /\ <<>> \in Seq(Markers) /\ Len(<<>>) = 0 /\ 0 \in 0 .. 0
    OBVIOUS
  <2>2. Len(history') \in Nat
    BY <1>4
  <2>3. 0 \in 0 .. Len(history')
    BY <2>2
  <2> QED
    BY <1>1, <1>4, <1>5, <2>1, <2>3 DEF LineInv
<1>7. ListInv'
  <2>1. Marks(<<>>) = {}
    BY DEF Marks
  <2>2. /\ Count(buffer)' = 0 /\ Count(saved)' = 0 /\ Len(blocks') = 0
        /\ InStep(buffer, blocks, 0)' /\ InStep(saved, blocks, 0)'
    BY <1>5, <2>1, FS_EmptySet DEF Count, InStep, Marks
  <2> QED
    BY <2>2 DEF ListInv
<1>8. PopupInv' /\ PopupCompletesWord'
  BY <1>1, <1>5, PopupCloses
<1> QED
  BY <1>3, <1>6, <1>7, <1>8 DEF IInv

\* The beginning of a line, replaced.
LEMMA FrontReplaced ==
    ASSUME buffer \in Seq(Token), NEW t \in Seq(Plain), NEW e, ReplaceRange(0, e, t)
    PROVE  buffer' = t \o After(e) /\ cursor' = Len(t)
<1>1. Before(0) = <<>>
  BY SubSeqEmpty DEF Before
<1>2. <<>> \o t = t
  BY ConcatEmptySeq
<1>3. 0 + Len(t) = Len(t)
  OBVIOUS
<1> QED
  BY <1>1, <1>2, <1>3 DEF ReplaceRange

\* The word before the cursor, extended.
LEMMA ExtendStep ==
    ASSUME LineInv, ListInv, NEW e \in 0 .. Len(buffer), NEW a \in 0 .. e, NEW t \in Seq(Plain),
           ReplaceRange(a, e, SubSeq(buffer, a + 1, e) \o t),
           UNCHANGED <<history, index, saved, blocks, mishaps, mode>>
    PROVE  /\ LineInv' /\ ListInv'
           /\ buffer' = (Before(e) \o t) \o After(e) /\ cursor' = e + Len(t)
<1>1. buffer \in Seq(Token) /\ t \in Seq(Token)
  BY SeqMonotonic DEF LineInv, Token
<1>2. /\ SubSeq(buffer, 1, a) \o (SubSeq(buffer, a + 1, e) \o t) = SubSeq(buffer, 1, e) \o t
      /\ a + Len(SubSeq(buffer, a + 1, e) \o t) = e + Len(t)
  BY <1>1, ExtendWord
<1>3. buffer' = (Before(e) \o t) \o After(e) /\ cursor' = e + Len(t)
  BY <1>2 DEF ReplaceRange, Before
<1> QED
  BY <1>3, InsertText

\* Tab.
LEMMA TabStep ==
    ASSUME IInv, Tab
    PROVE  IInv'
<1>1. /\ LineInv /\ ListInv /\ PopupInv /\ faithful /\ buffer \in Seq(Token) /\ Len(buffer) \in Nat
      /\ cursor \in 0 .. Len(buffer)
  BY DEF IInv, LineInv, SubmitsAsMeant
<1>2. ~ popup.visible /\ UNCHANGED <<history, index, saved, blocks, faithful, mishaps>> /\ SubmitsAsMeant'
  BY <1>1 DEF Tab, SubmitsAsMeant
<1>3. CASE mode' \in {"Command", "Ai"} \ {mode} /\ UNCHANGED <<buffer, cursor, popup>>
  BY <1>1, <1>2, <1>3, LineStays, PopupCloses DEF IInv
<1>4. WordStart \in 0 .. cursor /\ Word \in Seq(Token)
  <2>1. WordStart \in 0 .. cursor
    BY <1>1, WordStartType
  <2> QED
    BY <1>1, <2>1, CutWord DEF Word
<1>5. CASE OneCandidate /\ UNCHANGED mode
  <2>1. <<"x", "sp">> \in Seq(Plain)
    BY DEF Plain
  <2>2. ReplaceRange(WordStart, cursor, SubSeq(buffer, WordStart + 1, cursor) \o <<"x", "sp">>)
    BY <1>5 DEF OneCandidate, Word
  <2>3. LineInv' /\ ListInv'
    BY <1>1, <1>2, <1>4, <1>5, <2>1, <2>2, ExtendStep
  <2>4. PopupInv' /\ PopupCompletesWord'
    BY <1>5, PopupCloses DEF OneCandidate
  <2> QED
    BY <1>2, <2>3, <2>4 DEF IInv
<1>6. CASE mode = "Command" /\ SeveralCandidates /\ UNCHANGED mode
  <2>1. PICK common \in {<<>>, <<"x">>} :
           /\ IF common = <<>> THEN UNCHANGED <<buffer, cursor>>
              ELSE ReplaceRange(WordStart, cursor, Word \o common)
           /\ Open(WordStart, cursor, {Word \o common \o <<"x">>, Word \o common \o <<"/">>}, common = <<>>)
    BY <1>6 DEF SeveralCandidates
  <2>2. common \in Seq(Plain) /\ <<"x">> \in Seq(Plain) /\ <<"/">> \in Seq(Plain)
    <3>1. "x" \in Plain /\ "/" \in Plain
      BY DEF Plain
    <3>2. <<"x">> \in Seq(Plain) /\ <<"/">> \in Seq(Plain) /\ <<>> \in Seq(Plain)
      BY <3>1
    <3> QED
      BY <3>2
  <2>3. common \in Seq(Token) /\ <<"x">> \in Seq(Token) /\ <<"/">> \in Seq(Token)
    BY <2>2, SeqMonotonic DEF Token
  <2>4. LineInv' /\ ListInv' /\ cursor' >= cursor /\ Len(buffer') >= Len(buffer)
        /\ SubSeq(buffer', WordStart + 1, cursor) = Word
    <3>1. CASE common = <<>>
      <4>1. UNCHANGED <<buffer, cursor>> /\ mode \in {"Command", "Ai"}
        BY <1>1, <2>1, <3>1 DEF LineInv
      <4>2. LineInv' /\ ListInv'
        BY <1>1, <1>2, <1>6, <4>1, LineStays
      <4> QED
        BY <1>1, <4>1, <4>2 DEF Word
    <3>2. CASE common # <<>>
      <4>1. ReplaceRange(WordStart, cursor, SubSeq(buffer, WordStart + 1, cursor) \o common)
        BY <2>1, <3>2 DEF Word
      <4>2. /\ LineInv' /\ ListInv' /\ cursor' = cursor + Len(common)
            /\ buffer' = (Before(cursor) \o common) \o After(cursor)
        BY <1>1, <1>2, <1>4, <1>6, <2>2, <4>1, ExtendStep
      <4>3. SubSeq(buffer', WordStart + 1, cursor) = Word
        <5>1. cursor \in 0 .. cursor
          BY <1>1
        <5> QED
          BY <1>1, <1>4, <2>3, <4>2, <5>1, WordStays DEF Word
      <4>4. Len(buffer') = Len(buffer) + Len(common)
        <5>1. /\ Before(cursor) \in Seq(Token) /\ After(cursor) \in Seq(Token)
              /\ Len(Before(cursor)) = cursor /\ Len(After(cursor)) = Len(buffer) - cursor
          BY <1>1, Cut DEF Before, After
        <5>2. Len(buffer') = Len(Before(cursor)) + Len(common) + Len(After(cursor))
          BY <2>2, <4>2, <5>1, InsertPlain
        <5>3. Len(common) \in Nat
          BY <2>2
        <5> QED
          BY <1>1, <5>1, <5>2, <5>3
      <4>5. Len(common) \in Nat
        BY <2>2
      <4>6. cursor' >= cursor /\ Len(buffer') >= Len(buffer)
        <5>1. cursor \in Nat
          BY <1>1
        <5> QED
          BY <1>1, <4>2, <4>4, <4>5, <5>1
      <4> QED
        BY <4>2, <4>3, <4>6
    <3> QED
      BY <3>1, <3>2
  <2> DEFINE C == {Word \o common \o <<"x">>, Word \o common \o <<"/">>}
  <2>5. \A c \in C : c \in Seq(Token) /\ \E more \in Seq(Plain) : c = Word \o more /\ IsPrefix(Word, c)
    <3>1. ASSUME NEW t \in Seq(Plain)
          PROVE  /\ Word \o common \o t \in Seq(Token)
                 /\ \E more \in Seq(Plain) : Word \o common \o t = Word \o more
                                             /\ IsPrefix(Word, Word \o common \o t)
      <4>1. t \in Seq(Token)
        BY SeqMonotonic DEF Token
      <4>2. common \o t \in Seq(Plain) /\ common \o t \in Seq(Token)
        BY <2>2, <2>3, <4>1, ConcatProperties
      <4>3. Word \o common \o t = Word \o (common \o t)
        BY <1>4, <2>3, <4>1, ConcatAssociative
      <4>4. Word \o (common \o t) \in Seq(Token) /\ IsPrefix(Word, Word \o (common \o t))
        BY <1>4, <4>2, ConcatProperties, PrefixConcat
      <4> QED
        BY <4>2, <4>3, <4>4
    <3> QED
      BY <2>2, <3>1
  <2>6. popup' = [visible |-> TRUE, start |-> WordStart, end |-> cursor, candidates |-> C,
                  exact |-> (common = <<>>)]
    BY <2>1 DEF Open
  <2> HIDE DEF C
  <2>7. /\ popup'.visible /\ popup'.start = WordStart /\ popup'.end = cursor /\ popup'.candidates = C
        /\ popup'.exact = (common = <<>>)
        /\ popup' \in [visible : BOOLEAN, start : Nat, end : Nat, candidates : SUBSET Seq(Token), exact : BOOLEAN]
    <3>1. WordStart \in Nat /\ cursor \in Nat /\ C \in SUBSET Seq(Token)
      BY <1>1, <1>4, <2>5
    <3> QED
      BY <2>6, <3>1
  <2>8. (\A c \in popup.candidates : Extends(c, popup.start, popup.end))'
    <3>1. \A c \in C : \E more \in Seq(Plain) : c = SubSeq(buffer', WordStart + 1, cursor) \o more
      BY <2>4, <2>5
    <3> QED
      BY <2>7, <3>1 DEF Extends
  <2>9. PopupInv'
    <3>1. WordStart <= cursor /\ cursor <= Len(buffer') /\ cursor <= cursor'
      <4>1. Len(buffer') \in Nat /\ cursor' \in Nat
        BY <2>4 DEF LineInv
      <4> QED
        BY <1>1, <1>4, <2>4, <4>1
    <3> QED
      BY <2>7, <2>8, <3>1 DEF PopupInv
  <2>10. PopupCompletesWord'
    <3>1. ASSUME common = <<>> PROVE cursor' = cursor
      BY <2>1, <3>1
    <3>2. \A c \in C : IsPrefix(SubSeq(buffer', WordStart + 1, cursor), c)
      BY <2>4, <2>5
    <3> QED
      BY <2>7, <3>1, <3>2 DEF PopupCompletesWord
  <2> QED
    BY <1>2, <2>4, <2>9, <2>10 DEF IInv
<1>7. CASE mode = "Ai" /\ SlashTab /\ UNCHANGED mode
  <2> DEFINE candidates == {c \in SlashCommands : IsPrefix(buffer, c)}
  <2>1. \A c \in SlashCommands : c \in Seq(Plain)
    <3>1. "/" \in Plain /\ "r" \in Plain /\ "x" \in Plain
      BY DEF Plain
    <3>2. <<"/", "r">> \in Seq(Plain) /\ <<"/", "x">> \in Seq(Plain)
      BY <3>1
    <3> QED
      BY <3>2 DEF SlashCommands, Reset
  <2>2. \A c \in candidates : Marks(buffer) = {}
    <3> TAKE c \in candidates
    <3>1. c \in Seq(Plain) /\ Len(buffer) <= Len(c) /\ SubSeq(buffer, 1, Len(buffer)) = SubSeq(c, 1, Len(buffer))
      BY <2>1 DEF IsPrefix
    <3>2. SubSeq(buffer, 1, Len(buffer)) = buffer
      BY <1>1, SubSeqFull
    <3>3. SubSeq(c, 1, Len(buffer)) \in Seq(Plain)
      <4>1. Len(buffer) \in 0 .. Len(c)
        BY <1>1, <3>1
      <4> QED
        BY <3>1, <4>1, Cut
    <3>4. buffer \in Seq(Plain)
      BY <3>1, <3>2, <3>3
    <3> QED
      BY <3>4, PlainCount
  <2>3. CASE (\E c \in candidates : ReplaceRange(0, Len(buffer), c \o <<"sp">>)) /\ UNCHANGED popup
    <3>1. PICK c \in candidates : ReplaceRange(0, Len(buffer), c \o <<"sp">>)
      BY <2>3
    <3>2. c \o <<"sp">> \in Seq(Plain)
      <4>1. <<"sp">> \in Seq(Plain)
        BY DEF Plain
      <4> QED
        BY <2>1, <4>1, ConcatProperties
    <3>3. Before(Len(buffer)) = buffer /\ Len(buffer) \in 0 .. Len(buffer)
      BY <1>1, SubSeqFull DEF Before
    <3>4. buffer' = (c \o <<"sp">>) \o After(Len(buffer)) /\ cursor' = Len(c \o <<"sp">>)
      BY <1>1, <3>1, <3>2, FrontReplaced
    <3>5. LineInv' /\ ListInv'
      BY <1>1, <1>2, <1>7, <2>2, <3>2, <3>3, <3>4, ReplaceFront
    <3>6. PopupInv' /\ PopupCompletesWord'
      BY <1>1, <1>2, <2>3, PopupCloses
    <3> QED
      BY <1>2, <3>5, <3>6 DEF IInv
  <2>4. CASE /\ Cardinality(candidates) > 1 /\ Open(0, Len(buffer), candidates, TRUE)
             /\ UNCHANGED <<buffer, cursor>>
    <3>1. candidates # {} /\ Marks(buffer) = {}
      <4>1. candidates # {}
        BY <2>4, FS_EmptySet
      <4> QED
        BY <2>2, <4>1
    <3>2. candidates \subseteq Seq(Plain) /\ candidates \subseteq Seq(Token)
      BY <2>1, SeqMonotonic DEF Token
    <3>3. SubSeq(buffer, 1, Len(buffer)) = buffer
      BY <1>1, SubSeqFull
    <3>4. \A c \in candidates : IsPrefix(buffer, c)
      OBVIOUS
    <3>5. popup' = [visible |-> TRUE, start |-> 0, end |-> Len(buffer), candidates |-> candidates, exact |-> TRUE]
      BY <2>4 DEF Open
    <3> HIDE DEF candidates
    <3>6. /\ popup'.visible /\ popup'.start = 0 /\ popup'.end = Len(buffer) /\ popup'.candidates = candidates
          /\ popup' \in [visible : BOOLEAN, start : Nat, end : Nat, candidates : SUBSET Seq(Token), exact : BOOLEAN]
      BY <1>1, <3>2, <3>5
    <3>7. LineInv' /\ ListInv'
      BY <1>1, <1>2, <1>7, <2>4, LineStays
    <3>8. PopupInv'
      <4>1. (Marks(SubSeq(buffer, 1, popup.end)))' = Marks(SubSeq(buffer, 1, Len(buffer)))
        BY <2>4, <3>6 DEF Marks
      <4>2. popup'.start <= popup'.end /\ popup'.end <= Len(buffer')
        BY <1>1, <2>4, <3>6
      <4>3. popup'.candidates \subseteq Seq(Plain) /\ (Marks(SubSeq(buffer, 1, popup.end)))' = {}
        BY <3>1, <3>2, <3>3, <3>6, <4>1
      <4> QED
        BY <3>6, <4>2, <4>3 DEF PopupInv
    <3>9. PopupCompletesWord'
      <4>1. SubSeq(buffer', 0 + 1, Len(buffer)) = buffer
        BY <2>4, <3>3
      <4> QED
        BY <1>7, <2>4, <3>4, <3>6, <4>1 DEF PopupCompletesWord
    <3> QED
      BY <1>2, <3>7, <3>8, <3>9 DEF IInv
  <2> QED
    BY <1>7, <2>3, <2>4 DEF SlashTab
<1> QED
  BY <1>3, <1>5, <1>6, <1>7 DEF Tab

\* The choice is put in place.
LEMMA ConfirmStep ==
    ASSUME IInv, Confirm
    PROVE  IInv'
<1>1. /\ LineInv /\ ListInv /\ PopupInv /\ faithful /\ buffer \in Seq(Token) /\ Len(buffer) \in Nat
      /\ popup.visible
  BY DEF IInv, LineInv, SubmitsAsMeant, Confirm
<1>2. /\ PopupInv' /\ PopupCompletesWord' /\ SubmitsAsMeant'
      /\ UNCHANGED <<history, index, saved, blocks, mode, mishaps>>
  BY <1>1, PopupCloses DEF Confirm, KeyDone, SubmitsAsMeant
<1>3. PICK c \in popup.candidates : ReplaceRange(popup.start, popup.end, c \o <<"sp">>)
  BY DEF Confirm
<1>4. popup.end \in 0 .. Len(buffer) /\ popup.start \in 0 .. popup.end
  BY <1>1 DEF PopupInv
<1>5. <<"sp">> \in Seq(Plain)
  BY DEF Plain
<1>6. CASE Extends(c, popup.start, popup.end)
  <2>1. PICK more \in Seq(Plain) : c = SubSeq(buffer, popup.start + 1, popup.end) \o more
    BY <1>6 DEF Extends
  <2>2. more \o <<"sp">> \in Seq(Plain)
    BY <1>5, ConcatProperties
  <2>3. c \o <<"sp">> = SubSeq(buffer, popup.start + 1, popup.end) \o (more \o <<"sp">>)
    <3>1. SubSeq(buffer, popup.start + 1, popup.end) \in Seq(Token)
      BY <1>1, <1>4, CutWord
    <3>2. more \in Seq(Token) /\ <<"sp">> \in Seq(Token)
      BY <1>5, SeqMonotonic DEF Token
    <3>3. PICK w \in Seq(Token) : w = SubSeq(buffer, popup.start + 1, popup.end)
      BY <3>1
    <3>4. (w \o more) \o <<"sp">> = w \o (more \o <<"sp">>)
      BY <3>2, ConcatAssociative
    <3> QED
      BY <2>1, <3>3, <3>4
  <2>4. LineInv' /\ ListInv'
    BY <1>1, <1>2, <1>3, <1>4, <2>2, <2>3, ExtendStep
  <2> QED
    BY <1>2, <2>4 DEF IInv
<1>7. CASE /\ popup.start = 0 /\ popup.candidates \subseteq Seq(Plain)
           /\ mishaps = {} => Marks(SubSeq(buffer, 1, popup.end)) = {}
  <2>1. c \o <<"sp">> \in Seq(Plain)
    BY <1>3, <1>5, <1>7, ConcatProperties
  <2>2. ReplaceRange(0, popup.end, c \o <<"sp">>)
    BY <1>3, <1>7
  <2>3. buffer' = (c \o <<"sp">>) \o After(popup.end) /\ cursor' = Len(c \o <<"sp">>)
    BY <1>1, <2>1, <2>2, FrontReplaced
  <2>4. mishaps = {} => Marks(Before(popup.end)) = {}
    BY <1>7 DEF Before
  <2>5. LineInv' /\ ListInv'
    BY <1>1, <1>2, <1>4, <2>1, <2>3, <2>4, ReplaceFront
  <2> QED
    BY <1>2, <2>5 DEF IInv
<1> QED
  BY <1>1, <1>6, <1>7 DEF PopupInv

\* Closing the popup.
LEMMA DismissStep ==
    ASSUME IInv, Dismiss
    PROVE  IInv'
<1>1. LineInv /\ ListInv /\ faithful /\ cursor \in 0 .. Len(buffer) /\ mode \in {"Command", "Ai"}
  BY DEF IInv, LineInv, SubmitsAsMeant
<1>2. LineInv' /\ ListInv'
  BY <1>1, LineStays DEF Dismiss, KeyDone, lineVars
<1>3. PopupInv' /\ PopupCompletesWord' /\ SubmitsAsMeant'
  BY <1>1, PopupCloses DEF Dismiss, KeyDone, SubmitsAsMeant
<1> QED
  BY <1>2, <1>3 DEF IInv

----------------------------------------------------------------------------
(* The theorems.                                                           *)

\* The invariant holds of an empty line.
LEMMA InitInv == Init => IInv
<1> SUFFICES ASSUME Init PROVE IInv
  OBVIOUS
<1>1. LineInv
  BY DEF Init, LineInv
<1>2. ListInv
  <2>1. Marks(<<>>) = {}
    BY DEF Marks
  <2>2. Count(buffer) = 0 /\ Count(saved) = 0 /\ Len(blocks) = 0 /\ InStep(buffer, blocks, 0) /\ InStep(saved, blocks, 0)
    BY <2>1, FS_EmptySet DEF Init, Count, InStep
  <2> QED
    BY <2>2 DEF ListInv, Init
<1>3. PopupInv /\ PopupCompletesWord
  BY DEF Init, PopupInv, PopupCompletesWord, Closed
<1> QED
  BY <1>1, <1>2, <1>3 DEF IInv, SubmitsAsMeant, Init

\* No step breaks it.
LEMMA NextInv == IInv /\ [Next]_vars => IInv'
<1> SUFFICES ASSUME IInv, [Next]_vars PROVE IInv'
  OBVIOUS
<1>1. CASE UNCHANGED vars
  <2>1. LineInv' /\ ListInv'
    <3>1. LineInv /\ ListInv /\ cursor \in 0 .. Len(buffer) /\ mode \in {"Command", "Ai"}
      BY DEF IInv, LineInv
    <3> QED
      BY <1>1, <3>1, LineStays DEF vars, lineVars
  <2>2. PopupInv'
    BY <1>1 DEF IInv, PopupInv, Extends, Marks, vars, lineVars
  <2>3. PopupCompletesWord' /\ SubmitsAsMeant'
    BY <1>1 DEF IInv, PopupCompletesWord, SubmitsAsMeant, vars, lineVars
  <2> QED
    BY <2>1, <2>2, <2>3 DEF IInv
<1>2. CASE Next
  <2>1. "cleared" \notin mishaps
    BY <1>2 DEF Next, Followed
  <2>2. CASE Backspace \/ Delete
    <3>1. cursor \in Nat /\ cursor + 1 \in Nat
      BY DEF IInv, LineInv
    <3> QED
      BY <2>1, <2>2, <3>1, RemoveStep DEF Backspace, Delete
  <2> QED
    BY <1>2, <2>1, <2>2, TypeStep, CtrlCStep, CursorStep, HistoryStep, PasteTextStep, PasteBlockStep,
       EnterStep, TabStep, ConfirmStep, DismissStep DEF Next, Step
<1> QED
  BY <1>1, <1>2

\* It always holds.
THEOREM LineInvariant == Spec => []IInv
BY InitInv, NextInv, PTL DEF Spec

\* Whatever is edited, browsed, pasted and completed before Enter, each paste is sent where
\* its marker stands (input.rs, submit), unless there was one of the mishaps.
THEOREM PastesAreSentAsMeant == Spec => []SubmitsAsMeant
<1>1. IInv => SubmitsAsMeant
  BY DEF IInv
<1> QED
  BY <1>1, LineInvariant, PTL

\* Backspace and Delete never index out of the list of blocks (input.rs, backspace and
\* delete), unless Ctrl-C cleared it under a saved line.
THEOREM EveryMarkerHasBlock == Spec => []MarkersHaveBlocks
<1>1. IInv => MarkersHaveBlocks
  <2> SUFFICES ASSUME IInv, "cleared" \notin mishaps PROVE Cardinality(Marks(buffer)) <= Len(blocks)
    BY DEF MarkersHaveBlocks
  <2>1. Count(buffer) \in Nat /\ Count(saved) \in Nat /\ Len(blocks) \in Nat
    BY CountType DEF IInv, LineInv
  <2>2. Count(buffer) + Count(saved) <= Len(blocks)
    BY DEF IInv, ListInv
  <2>3. Count(buffer) <= Len(blocks)
    BY <2>1, <2>2
  <2> QED
    BY <2>3 DEF Count
<1> QED
  BY <1>1, LineInvariant, PTL

\* A choice of the popup begins with what it replaces, up to the cursor (input_keys.rs, Tab).
THEOREM ChoicesCompleteWord == Spec => []PopupCompletesWord
<1>1. IInv => PopupCompletesWord
  BY DEF IInv
<1> QED
  BY <1>1, LineInvariant, PTL
=============================================================================
