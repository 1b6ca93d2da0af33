-------------------------------- MODULE BusProofs --------------------------------
(***************************************************************************)
(* The feed of action events, for any number of runs, ids, events,         *)
(* listeners and errors.                                                   *)
(***************************************************************************)
EXTENDS ExecuteActionProofs, WellFoundedInduction

--------------------------------------------------------------------------------
(* Induction, over sets of numbers and of sequences.                        *)

LEMMA AllNumbers ==
  ASSUME NEW P, 0 \in P, \A n \in Nat : n \in P => n + 1 \in P
  PROVE  \A n \in Nat : n \in P
  <1> DEFINE T == {n \in Nat : n \notin P}
  <1>1. SUFFICES ASSUME T # {} PROVE FALSE
    OBVIOUS
  <1>2. T \subseteq Nat
    OBVIOUS
  <1>3. PICK x \in T : \A y \in T : <<y, x>> \notin OpToRel(<, Nat)
    <2> HIDE DEF T
    <2> QED
      BY <1>1, <1>2, NatLessThanWellFounded, WFMin
  <1>4. x \in Nat /\ x \notin P /\ x # 0
    OBVIOUS
  <1>5. x - 1 \in Nat /\ x - 1 < x /\ x - 1 + 1 = x
    BY <1>4
  <1>6. x - 1 \notin P
    BY <1>4, <1>5
  <1>7. <<x - 1, x>> \in OpToRel(<, Nat)
    BY <1>4, <1>5 DEF OpToRel
  <1> QED
    BY <1>3, <1>5, <1>6, <1>7

LEMMA AllSequences ==
  ASSUME NEW T, NEW P, <<>> \in P, \A s \in Seq(T), x \in T : s \in P => Append(s, x) \in P
  PROVE  Seq(T) \subseteq P
  <1> DEFINE Q == {n \in Nat : \A s \in Seq(T) : Len(s) = n => s \in P}
  <1>1. 0 \in Q
    <2>1. \A s \in Seq(T) : Len(s) = 0 => s = <<>>
      BY EmptySeq
    <2> QED
      BY <2>1
  <1>2. ASSUME NEW n \in Nat, n \in Q PROVE n + 1 \in Q
    <2>1. ASSUME NEW s \in Seq(T), Len(s) = n + 1 PROVE s \in P
      <3>1. s # <<>>
        BY <2>1, EmptySeq
      <3>2. PICK t \in Seq(T), x \in T : s = Append(t, x)
        BY <3>1, SequenceEmptyOrAppend
      <3>3. Len(t) = n
        BY <2>1, <3>2, AppendProperties, LenProperties
      <3> QED
        BY <1>2, <3>2, <3>3
    <2> QED
      BY <2>1
  <1>3. \A n \in Nat : n \in Q
    <2> HIDE DEF Q
    <2> QED
      BY <1>1, <1>2, AllNumbers
  <1> QED
    BY <1>3, LenProperties

--------------------------------------------------------------------------------
(* What a filter leaves of a sequence.                                      *)

\* What it leaves of the first i members, for each i up to n.
Filters(f, s, S, n) ==
  f = [i \in 0..n |->
        IF i = 0 THEN <<>>
        ELSE IF s[i] \in S THEN Append(f[i - 1], s[i]) ELSE f[i - 1]]

LEMMA FilterStep ==
  ASSUME NEW f, NEW s, NEW S, NEW n \in Nat, Filters(f, s, S, n), NEW i \in Nat, i < n, NEW j, j = i + 1
  PROVE  f[j] = IF s[j] \in S THEN Append(f[i], s[j]) ELSE f[i]
  <1>1. j \in 0..n /\ j # 0 /\ j - 1 = i
    OBVIOUS
  <1>2. f[j] = IF j = 0 THEN <<>> ELSE IF s[j] \in S THEN Append(f[j - 1], s[j]) ELSE f[j - 1]
    BY <1>1 DEF Filters
  <1> QED
    BY <1>1, <1>2

LEMMA FiltersExist ==
  ASSUME NEW s, NEW S, NEW n \in Nat PROVE \E f : Filters(f, s, S, n)
  <1> DEFINE P == {k \in Nat : \E f : Filters(f, s, S, k)}
  <1>1. 0 \in P
    <2>1. Filters([i \in 0..0 |-> <<>>], s, S, 0)
      BY DEF Filters
    <2> QED
      BY <2>1
  <1>2. ASSUME NEW k \in Nat, k \in P PROVE k + 1 \in P
    <2>1. PICK f : Filters(f, s, S, k)
      BY <1>2
    <2> DEFINE last == IF s[k + 1] \in S THEN Append(f[k], s[k + 1]) ELSE f[k]
               g == [i \in 0..(k + 1) |-> IF i = k + 1 THEN last ELSE f[i]]
               h == [i \in 0..(k + 1) |->
                      IF i = 0 THEN <<>> ELSE IF s[i] \in S THEN Append(g[i - 1], s[i]) ELSE g[i - 1]]
    <2>2. ASSUME NEW i \in 0..(k + 1) PROVE g[i] = h[i]
      <3>1. CASE i = k + 1
        BY <3>1
      <3>2. CASE i = 0
        <4>1. f[0] = <<>>
          BY <2>1 DEF Filters
        <4> QED
          BY <3>2, <4>1
      <3>3. CASE i # 0 /\ i # k + 1
        <4>1. i \in 0..k /\ i - 1 \in 0..k /\ i - 1 \in 0..(k + 1) /\ i - 1 # k + 1
          BY <3>3
        <4>2. f[i] = IF s[i] \in S THEN Append(f[i - 1], s[i]) ELSE f[i - 1]
          BY <2>1, <3>3, <4>1 DEF Filters
        <4>3. g[i] = f[i] /\ g[i - 1] = f[i - 1]
          BY <3>3, <4>1
        <4> QED
          BY <3>3, <4>2, <4>3
      <3> QED
        BY <3>1, <3>2, <3>3
    <2>3. g = h
      BY <2>2
    <2>4. Filters(g, s, S, k + 1)
      BY <2>3 DEF Filters
    <2> QED
      BY <2>4
  <1>3. \A k \in Nat : k \in P
    <2> HIDE DEF P
    <2> QED
      BY <1>1, <1>2, AllNumbers
  <1> QED
    BY <1>3

LEMMA OnlyFilters ==
  ASSUME NEW s, NEW S, Len(s) \in Nat
  PROVE  \E f : Filters(f, s, S, Len(s)) /\ Only(s, S) = f[Len(s)]
  <1>1. PICK n \in Nat : n = Len(s)
    OBVIOUS
  <1>2. PICK f : f = CHOOSE g : Filters(g, s, S, n)
    OBVIOUS
  <1>3. Filters(f, s, S, n)
    BY <1>2, FiltersExist
  <1>4. Only(s, S) = f[n]
    BY <1>1, <1>2 DEF Only, Filters
  <1> QED
    BY <1>1, <1>3, <1>4

LEMMA OnlyOfNone == ASSUME NEW S PROVE Only(<<>>, S) = <<>>
  <1>1. Len(<<>>) = 0
    OBVIOUS
  <1>2. PICK f : Filters(f, <<>>, S, 0) /\ Only(<<>>, S) = f[0]
    BY <1>1, OnlyFilters
  <1> QED
    BY <1>2 DEF Filters

LEMMA OnlyOfMore ==
  ASSUME NEW T, NEW s \in Seq(T), NEW x \in T, NEW S
  PROVE  Only(Append(s, x), S) = IF x \in S THEN Append(Only(s, S), x) ELSE Only(s, S)
  <1>1. PICK n \in Nat : n = Len(s)
    BY LenProperties
  <1>2. PICK t : t = Append(s, x)
    OBVIOUS
  <1>3. Len(t) = n + 1 /\ t[n + 1] = x /\ \A i \in 1..n : t[i] = s[i]
    BY <1>1, <1>2, AppendProperties
  <1>4. PICK f : Filters(f, s, S, n) /\ Only(s, S) = f[n]
    BY <1>1, OnlyFilters
  <1>5. PICK g : Filters(g, t, S, n + 1) /\ Only(t, S) = g[n + 1]
    BY <1>3, OnlyFilters
  <1> DEFINE P == {i \in Nat : i <= n => f[i] = g[i]}
  <1>6. 0 \in P
    BY <1>4, <1>5 DEF Filters
  <1>7. ASSUME NEW i \in Nat, i \in P PROVE i + 1 \in P
    <2>1. SUFFICES ASSUME i + 1 <= n PROVE f[i + 1] = g[i + 1]
      OBVIOUS
    <2>2. i < n /\ i < n + 1 /\ i <= n /\ i + 1 \in 1..n /\ n + 1 \in Nat
      BY <2>1
    <2>3. f[i] = g[i] /\ t[i + 1] = s[i + 1]
      BY <1>3, <1>7, <2>2
    <2>4. f[i + 1] = IF s[i + 1] \in S THEN Append(f[i], s[i + 1]) ELSE f[i]
      BY <1>4, <2>2, FilterStep
    <2>5. g[i + 1] = IF t[i + 1] \in S THEN Append(g[i], t[i + 1]) ELSE g[i]
      BY <1>5, <2>2, FilterStep
    <2> QED
      BY <2>3, <2>4, <2>5
  <1>8. \A i \in Nat : i \in P
    <2> HIDE DEF P
    <2> QED
      BY <1>6, <1>7, AllNumbers
  <1>9. f[n] = g[n]
    BY <1>8
  <1>10. n < n + 1 /\ n + 1 \in Nat
    OBVIOUS
  <1>11. g[n + 1] = IF t[n + 1] \in S THEN Append(g[n], t[n + 1]) ELSE g[n]
    BY <1>5, <1>10, FilterStep
  <1> QED
    BY <1>2, <1>3, <1>4, <1>5, <1>9, <1>11

LEMMA ToSetOfNone == \A x : x \notin ToSet(<<>>)
  <1>1. DOMAIN <<>> = {}
    OBVIOUS
  <1> QED
    BY <1>1 DEF ToSet

LEMMA ToSetOfMore ==
  ASSUME NEW T, NEW s \in Seq(T), NEW x \in T
  PROVE  \A y : y \in ToSet(Append(s, x)) <=> y \in ToSet(s) \/ y = x
  <1>1. PICK n \in Nat : n = Len(s) /\ DOMAIN s = 1..n
    BY LenProperties
  <1>2. PICK t : t = Append(s, x)
    OBVIOUS
  <1>3. t \in Seq(T) /\ Len(t) = n + 1 /\ t[n + 1] = x /\ \A i \in 1..n : t[i] = s[i]
    BY <1>1, <1>2, AppendProperties
  <1>4. DOMAIN t = 1..(n + 1)
    BY <1>3, LenProperties
  <1>5. \A i \in 1..(n + 1) : i = n + 1 \/ i \in 1..n
    OBVIOUS
  <1>6. \A i \in 1..n : i \in 1..(n + 1)
    OBVIOUS
  <1>7. n + 1 \in 1..(n + 1)
    OBVIOUS
  <1> QED
    BY <1>1, <1>2, <1>3, <1>4, <1>5, <1>6, <1>7 DEF ToSet

\* What is left are members that are in S, and all of them.
LEMMA OnlyMembers ==
  ASSUME NEW T, NEW s \in Seq(T), NEW S
  PROVE  /\ Only(s, S) \in Seq(T)
         /\ \A x : x \in ToSet(Only(s, S)) <=> x \in ToSet(s) /\ x \in S
  <1> DEFINE Good(t) == /\ Only(t, S) \in Seq(T)
                        /\ \A x : x \in ToSet(Only(t, S)) <=> x \in ToSet(t) /\ x \in S
             P == {t \in Seq(T) : Good(t)}
  <1>1. <<>> \in P
    BY OnlyOfNone, EmptySeq, ToSetOfNone
  <1>2. ASSUME NEW t \in Seq(T), NEW y \in T, t \in P PROVE Append(t, y) \in P
    <2>1. Good(t) /\ Append(t, y) \in Seq(T)
      BY <1>2, AppendProperties
    <2>2. \A x : x \in ToSet(Append(t, y)) <=> x \in ToSet(t) \/ x = y
      BY ToSetOfMore
    <2>3. \A x : x \in ToSet(Append(Only(t, S), y)) <=> x \in ToSet(Only(t, S)) \/ x = y
      BY <2>1, ToSetOfMore
    <2>4. Only(Append(t, y), S) = IF y \in S THEN Append(Only(t, S), y) ELSE Only(t, S)
      BY OnlyOfMore
    <2>5. Append(Only(t, S), y) \in Seq(T)
      BY <2>1, AppendProperties
    <2>6. Good(Append(t, y))
      <3>1. CASE y \in S
        <4>1. PICK u : u = Only(Append(t, y), S) /\ u = Append(Only(t, S), y)
          BY <2>4, <3>1
        <4>2. \A x : x \in ToSet(u) <=> x \in ToSet(Append(t, y)) /\ x \in S
          BY <2>1, <2>2, <2>3, <3>1, <4>1
        <4> QED
          BY <2>5, <4>1, <4>2
      <3>2. CASE y \notin S
        BY <2>1, <2>2, <2>4, <3>2
      <3> QED
        BY <3>1, <3>2
    <2> QED
      BY <2>1, <2>6
  <1>3. Seq(T) \subseteq P
    <2> HIDE DEF P
    <2> QED
      BY <1>1, <1>2, AllSequences
  <1> QED
    BY <1>3

\* Only what is in the sequence matters of the set.
LEMMA OnlySame ==
  ASSUME NEW T, NEW s \in Seq(T), NEW S, NEW R, \A x \in ToSet(s) : x \in S <=> x \in R
  PROVE  Only(s, S) = Only(s, R)
  <1> DEFINE Agree(t) == \A x \in ToSet(t) : x \in S <=> x \in R
             P == {t \in Seq(T) : Agree(t) => Only(t, S) = Only(t, R)}
  <1>1. <<>> \in P
    BY OnlyOfNone, EmptySeq
  <1>2. ASSUME NEW t \in Seq(T), NEW y \in T, t \in P PROVE Append(t, y) \in P
    <2>1. Append(t, y) \in Seq(T)
      BY AppendProperties
    <2>2. \A x : x \in ToSet(Append(t, y)) <=> x \in ToSet(t) \/ x = y
      BY ToSetOfMore
    <2>3. ASSUME Agree(Append(t, y)) PROVE Only(Append(t, y), S) = Only(Append(t, y), R)
      <3>1. Agree(t) /\ (y \in S <=> y \in R)
        BY <2>2, <2>3
      <3>2. Only(t, S) = Only(t, R)
        BY <1>2, <3>1
      <3>3. /\ Only(Append(t, y), S) = IF y \in S THEN Append(Only(t, S), y) ELSE Only(t, S)
            /\ Only(Append(t, y), R) = IF y \in R THEN Append(Only(t, R), y) ELSE Only(t, R)
        BY OnlyOfMore
      <3> QED
        BY <3>1, <3>2, <3>3
    <2> QED
      BY <2>1, <2>3
  <1>3. Seq(T) \subseteq P
    <2> HIDE DEF P
    <2> QED
      BY <1>1, <1>2, AllSequences
  <1> QED
    BY <1>3

LEMMA OnlyTwice ==
  ASSUME NEW T, NEW s \in Seq(T), NEW S, NEW R
  PROVE  Only(Only(s, S), R) = Only(s, S \intersect R)
  <1> DEFINE P == {t \in Seq(T) : Only(Only(t, S), R) = Only(t, S \intersect R)}
  <1>1. <<>> \in P
    BY OnlyOfNone, EmptySeq
  <1>2. ASSUME NEW t \in Seq(T), NEW y \in T, t \in P PROVE Append(t, y) \in P
    <2>1. Append(t, y) \in Seq(T) /\ Only(t, S) \in Seq(T)
      BY AppendProperties, OnlyMembers
    <2>2. Only(Append(t, y), S) = IF y \in S THEN Append(Only(t, S), y) ELSE Only(t, S)
      BY OnlyOfMore
    <2>3. Only(Append(Only(t, S), y), R) =
            IF y \in R THEN Append(Only(Only(t, S), R), y) ELSE Only(Only(t, S), R)
      BY <2>1, OnlyOfMore
    <2>4. Only(Append(t, y), S \intersect R) =
            IF y \in S \intersect R THEN Append(Only(t, S \intersect R), y) ELSE Only(t, S \intersect R)
      BY OnlyOfMore
    <2>5. Only(Only(t, S), R) = Only(t, S \intersect R)
      BY <1>2
    <2>6. Only(Only(Append(t, y), S), R) = Only(Append(t, y), S \intersect R)
      <3>1. CASE y \in S /\ y \in R
        <4>1. Only(Append(t, y), S) = Append(Only(t, S), y)
          BY <2>2, <3>1
        <4>2. Only(Append(t, y), S \intersect R) = Append(Only(t, S \intersect R), y)
          BY <2>4, <3>1
        <4> QED
          BY <2>3, <2>5, <3>1, <4>1, <4>2
      <3>2. CASE y \in S /\ y \notin R
        <4>1. Only(Append(t, y), S) = Append(Only(t, S), y)
          BY <2>2, <3>2
        <4>2. Only(Append(t, y), S \intersect R) = Only(t, S \intersect R)
          BY <2>4, <3>2
        <4> QED
          BY <2>3, <2>5, <3>2, <4>1, <4>2
      <3>3. CASE y \notin S
        <4>1. Only(Append(t, y), S) = Only(t, S)
          BY <2>2, <3>3
        <4>2. Only(Append(t, y), S \intersect R) = Only(t, S \intersect R)
          BY <2>4, <3>3
        <4> QED
          BY <2>5, <4>1, <4>2
      <3> QED
        BY <3>1, <3>2, <3>3
    <2> QED
      BY <2>1, <2>6
  <1>3. Seq(T) \subseteq P
    <2> HIDE DEF P
    <2> QED
      BY <1>1, <1>2, AllSequences
  <1> QED
    BY <1>3

LEMMA OnlyAll ==
  ASSUME NEW T, NEW s \in Seq(T), NEW S, \A x \in ToSet(s) : x \in S
  PROVE  Only(s, S) = s
  <1> DEFINE P == {t \in Seq(T) : (\A x \in ToSet(t) : x \in S) => Only(t, S) = t}
  <1>1. <<>> \in P
    BY OnlyOfNone, EmptySeq
  <1>2. ASSUME NEW t \in Seq(T), NEW y \in T, t \in P PROVE Append(t, y) \in P
    <2>1. Append(t, y) \in Seq(T)
      BY AppendProperties
    <2>2. \A x : x \in ToSet(Append(t, y)) <=> x \in ToSet(t) \/ x = y
      BY ToSetOfMore
    <2>3. ASSUME \A x \in ToSet(Append(t, y)) : x \in S PROVE Only(Append(t, y), S) = Append(t, y)
      <3>1. (\A x \in ToSet(t) : x \in S) /\ y \in S
        BY <2>2, <2>3
      <3>2. Only(t, S) = t
        BY <1>2, <3>1
      <3> QED
        BY <3>1, <3>2, OnlyOfMore
    <2> QED
      BY <2>1, <2>3
  <1>3. Seq(T) \subseteq P
    <2> HIDE DEF P
    <2> QED
      BY <1>1, <1>2, AllSequences
  <1> QED
    BY <1>3

\* All but the first.
LEMMA OnlyRest ==
  ASSUME NEW T, NEW s \in Seq(T), s # <<>>, NEW S,
         Head(s) \notin S, \A x \in ToSet(Tail(s)) : x \in S
  PROVE  Only(s, S) = Tail(s)
  <1> DEFINE First(t) == t # <<>> /\ Head(t) \notin S /\ \A x \in ToSet(Tail(t)) : x \in S
             P == {t \in Seq(T) : First(t) => Only(t, S) = Tail(t)}
  <1>1. <<>> \in P
    BY EmptySeq
  <1>2. ASSUME NEW t \in Seq(T), NEW y \in T, t \in P PROVE Append(t, y) \in P
    <2>1. Append(t, y) \in Seq(T)
      BY AppendProperties
    <2>2. /\ Head(Append(t, y)) = IF t = <<>> THEN y ELSE Head(t)
          /\ Tail(Append(t, y)) = IF t = <<>> THEN <<>> ELSE Append(Tail(t), y)
      BY HeadTailAppend
    <2>3. Only(Append(t, y), S) = IF y \in S THEN Append(Only(t, S), y) ELSE Only(t, S)
      BY OnlyOfMore
    <2>4. ASSUME First(Append(t, y)) PROVE Only(Append(t, y), S) = Tail(Append(t, y))
      <3>1. CASE t = <<>>
        BY <2>2, <2>3, <2>4, <3>1, OnlyOfNone
      <3>2. CASE t # <<>>
        <4>1. Tail(t) \in Seq(T)
          BY <3>2, HeadTailProperties
        <4>2. \A x : x \in ToSet(Append(Tail(t), y)) <=> x \in ToSet(Tail(t)) \/ x = y
          BY <4>1, ToSetOfMore
        <4>3. First(t) /\ y \in S
          BY <2>2, <2>4, <3>2, <4>2
        <4>4. Only(t, S) = Tail(t)
          BY <1>2, <4>3
        <4> QED
          BY <2>2, <2>3, <3>2, <4>3, <4>4
      <3> QED
        BY <3>1, <3>2
    <2> QED
      BY <2>1, <2>4
  <1>3. Seq(T) \subseteq P
    <2> HIDE DEF P
    <2> QED
      BY <1>1, <1>2, AllSequences
  <1> QED
    BY <1>3

\* Members keep their order: what is related by position is so afterwards.
Ordered(s, R) == \A j \in DOMAIN s : \A i \in 1..(j - 1) : <<s[i], s[j]>> \in R

LEMMA OrderedMore ==
  ASSUME NEW T, NEW s \in Seq(T), NEW x \in T, NEW R
  PROVE  Ordered(Append(s, x), R) <=> Ordered(s, R) /\ \A y \in ToSet(s) : <<y, x>> \in R
  <1>1. PICK n \in Nat : n = Len(s) /\ DOMAIN s = 1..n
    BY LenProperties
  <1>2. PICK t : t = Append(s, x)
    OBVIOUS
  <1>3. t \in Seq(T) /\ Len(t) = n + 1 /\ t[n + 1] = x /\ \A i \in 1..n : t[i] = s[i]
    BY <1>1, <1>2, AppendProperties
  <1>4. DOMAIN t = 1..(n + 1)
    BY <1>3, LenProperties
  <1>5. ASSUME Ordered(t, R) PROVE Ordered(s, R) /\ \A i \in 1..n : <<s[i], x>> \in R
    <2>1. ASSUME NEW j \in 1..n, NEW i \in 1..(j - 1) PROVE <<s[i], s[j]>> \in R
      <3>1. j \in 1..(n + 1) /\ i \in 1..n
        OBVIOUS
      <3>2. <<t[i], t[j]>> \in R
        BY <1>4, <1>5, <3>1 DEF Ordered
      <3> QED
        BY <1>3, <3>1, <3>2
    <2>2. ASSUME NEW i \in 1..n PROVE <<s[i], x>> \in R
      <3>1. n + 1 \in 1..(n + 1) /\ i \in 1..(n + 1 - 1)
        OBVIOUS
      <3>2. <<t[i], t[n + 1]>> \in R
        BY <1>4, <1>5, <3>1 DEF Ordered
      <3> QED
        BY <1>3, <3>2
    <2> QED
      BY <1>1, <2>1, <2>2 DEF Ordered
  <1>6. ASSUME Ordered(s, R), \A i \in 1..n : <<s[i], x>> \in R,
               NEW j \in 1..(n + 1), NEW i \in 1..(j - 1)
        PROVE  <<t[i], t[j]>> \in R
    <2>1. i \in 1..n
      OBVIOUS
    <2>2. CASE j = n + 1
      BY <1>3, <1>6, <2>1, <2>2
    <2>3. CASE j # n + 1
      <3>1. j \in 1..n
        BY <2>3
      <3> QED
        BY <1>1, <1>3, <1>6, <2>1, <3>1 DEF Ordered
    <2> QED
      BY <2>2, <2>3
  <1>7. Ordered(s, R) /\ (\A i \in 1..n : <<s[i], x>> \in R) => Ordered(t, R)
    BY <1>4, <1>6 DEF Ordered
  <1>8. (\A y \in ToSet(s) : <<y, x>> \in R) <=> \A i \in 1..n : <<s[i], x>> \in R
    BY <1>1 DEF ToSet
  <1> QED
    BY <1>2, <1>5, <1>7, <1>8

LEMMA OnlyInOrder ==
  ASSUME NEW T, NEW s \in Seq(T), NEW S, NEW R, Ordered(s, R)
  PROVE  Ordered(Only(s, S), R)
  <1> DEFINE P == {t \in Seq(T) : Ordered(t, R) => Ordered(Only(t, S), R)}
  <1>1. <<>> \in P
    BY OnlyOfNone, EmptySeq
  <1>2. ASSUME NEW t \in Seq(T), NEW y \in T, t \in P PROVE Append(t, y) \in P
    <2>1. Append(t, y) \in Seq(T) /\ Only(t, S) \in Seq(T)
      BY AppendProperties, OnlyMembers
    <2>2. ASSUME Ordered(Append(t, y), R) PROVE Ordered(Only(Append(t, y), S), R)
      <3>1. Ordered(t, R) /\ \A x \in ToSet(t) : <<x, y>> \in R
        BY <2>2, OrderedMore
      <3>2. Ordered(Only(t, S), R) /\ \A x \in ToSet(Only(t, S)) : <<x, y>> \in R
        BY <1>2, <3>1, OnlyMembers
      <3>3. Ordered(Append(Only(t, S), y), R)
        BY <2>1, <3>2, OrderedMore
      <3>4. Only(Append(t, y), S) = IF y \in S THEN Append(Only(t, S), y) ELSE Only(t, S)
        BY OnlyOfMore
      <3> QED
        BY <3>2, <3>3, <3>4
    <2> QED
      BY <2>1, <2>2
  <1>3. Seq(T) \subseteq P
    <2> HIDE DEF P
    <2> QED
      BY <1>1, <1>2, AllSequences
  <1> QED
    BY <1>3

--------------------------------------------------------------------------------
(* The types of the events.                                                 *)

LEMMA OutcomeOfAnError ==
  ASSUME NEW error
  PROVE  /\ Fails(error) # Text
         /\ IsCancellationError(error) => MapDoneToOutcome(Fails(error)) = CancelledOutcome(error)
         /\ ~IsCancellationError(error) =>
              MapDoneToOutcome(Fails(error)) \in {TimeoutOutcome(error), FailedOutcome(error)}
  <1>1. PICK end : end = Fails(error)
    OBVIOUS
  <1>2. end.how = "error" /\ end.how # "text"
    BY <1>1 DEF Fails
  <1>3. end.error = error
    BY <1>1 DEF Fails
  <1>4. end # Text
    BY <1>2 DEF Text
  <1>5. IsCancellationError(error) => MapDoneToOutcome(end) = CancelledOutcome(error)
    BY <1>2, <1>3 DEF MapDoneToOutcome
  <1>6. ~IsCancellationError(error) => MapDoneToOutcome(end) \in {TimeoutOutcome(error), FailedOutcome(error)}
    BY <1>2, <1>3 DEF MapDoneToOutcome
  <1> QED
    BY <1>1, <1>4, <1>5, <1>6

\* Every end of a request is announced, by an event of a type that fits it.
LEMMA EndsAreAnnounced ==
  ASSUME NEW end \in Ends
  PROVE  OutcomeTypes[end] \in TerminalTypes(end)
  <1>1. OutcomeTypes[end] = OutcomeEventType(end)
    BY DEF OutcomeTypes
  <1>2. CASE end = Text
    <2>1. end.how = "text" /\ end.how # "error"
      BY <1>2 DEF Text
    <2>2. MapDoneToOutcome(end) = CompletedOutcome
      BY <2>1 DEF MapDoneToOutcome
    <2> QED
      BY <1>1, <1>2, <2>2, CompletedIsOk DEF OutcomeEventType, TerminalTypes
  <1>3. CASE end = PromptCanceled
    <2>1. PICK error : error = Says("Prompt canceled")
      OBVIOUS
    <2>2. end = Fails(error)
      BY <1>3, <2>1 DEF PromptCanceled
    <2>3. error.message = "Prompt canceled" /\ error.code = Absent /\ error.kind = Absent
      BY <2>1 DEF Says
    <2>4. IsCancellationError(error)
      BY <2>3 DEF IsCancellationError, Texts, CancelTexts
    <2>5. MapDoneToOutcome(end) = CancelledOutcome(error) /\ end # Text
      BY <2>2, <2>4, OutcomeOfAnError
    <2>6. OutcomeEventType(end) = "cancelled"
      BY <2>3, <2>5, ErrorsAreOk DEF OutcomeEventType
    <2> QED
      BY <1>1, <1>3, <2>5, <2>6 DEF TerminalTypes
  <1>4. ASSUME NEW error \in Errors, end = Fails(error), end # PromptCanceled
        PROVE  OutcomeTypes[end] \in TerminalTypes(end)
    <2>1. error.code = Absent /\ error.kind = Absent
      BY ErrorsAssumption
    <2>2. end # Text /\ end.error = error
      BY <1>4, OutcomeOfAnError DEF Fails
    <2>3. CASE IsCancellationError(error)
      <3>1. MapDoneToOutcome(end) = CancelledOutcome(error)
        BY <1>4, <2>3, OutcomeOfAnError
      <3>2. OutcomeEventType(end) = "cancelled"
        BY <2>1, <3>1, ErrorsAreOk DEF OutcomeEventType
      <3> QED
        BY <1>1, <1>4, <2>2, <2>3, <3>2 DEF TerminalTypes
    <2>4. CASE ~IsCancellationError(error)
      <3>1. MapDoneToOutcome(end) \in {TimeoutOutcome(error), FailedOutcome(error)}
        BY <1>4, <2>4, OutcomeOfAnError
      <3>2. OutcomeEventType(end) \in {"failed", "timeout"}
        BY <2>1, <3>1, ErrorsAreOk DEF OutcomeEventType
      <3> QED
        BY <1>1, <1>4, <2>2, <3>2 DEF TerminalTypes
    <2> QED
      BY <2>3, <2>4
  <1> QED
    BY <1>2, <1>3, <1>4 DEF Ends

LEMMA TypesOfEvents ==
  /\ StartedOutcome.event.type = "started" /\ "started" \in Types /\ DeltaType \in Types
  /\ \A end \in Ends : OutcomeTypes[end] \in Terminal /\ OutcomeTypes[end] # Absent
  /\ Terminal \subseteq Types /\ DeltaType \notin Terminal /\ "started" \notin Terminal /\ DeltaType # "started"
  <1>1. StartedOutcome.event.type = "started"
    BY DEF StartedOutcome, Parts, EventTypeByResultStatus
  <1>2. /\ "started" \in Types /\ DeltaType \in Types
        /\ Terminal \subseteq Types /\ DeltaType \notin Terminal /\ "started" \notin Terminal /\ DeltaType # "started"
    BY DEF Types, Terminal, DurableTypes, DeltaType
  <1>3. \A end : TerminalTypes(end) \subseteq Terminal /\ Absent \notin TerminalTypes(end)
    BY DEF TerminalTypes, Terminal, DurableTypes, Absent
  <1> QED
    BY <1>1, <1>2, <1>3, EndsAreAnnounced

--------------------------------------------------------------------------------
(* The ends of the requests.                                                *)

\* The request of a run is open or has ended, once it has been queued, and has
\* ended when the outcome is announced.
RunEnds(run) ==
  /\ run.phase \notin {"reserved", "refused"} => run.end \in Ends \union {Open}
  /\ run.phase \in {"announced", "released"} => run.end # Open

EndsInv == \A r \in Runs : RunEnds(runs[r])

LEMMA OneRunChanges ==
  ASSUME RegistryTypes, NEW r \in Runs, NEW run, runs' = [runs EXCEPT ![r] = run]
  PROVE  /\ Runs' = Runs /\ \A q \in Runs : runs'[q] = IF q = r THEN run ELSE runs[q]
         /\ EndsInv /\ RunEnds(run) => EndsInv'
  <1>1. DOMAIN runs' = DOMAIN runs
    OBVIOUS
  <1>2. \A q \in Runs : runs'[q] = IF q = r THEN run ELSE runs[q]
    BY DEF RegistryTypes, Runs
  <1>3. Runs' = Runs
    BY <1>1 DEF Runs
  <1>4. ASSUME EndsInv, RunEnds(run) PROVE EndsInv'
    <2>1. \A q \in Runs : RunEnds(runs'[q])
      BY <1>2, <1>4 DEF EndsInv
    <2> QED
      BY <1>3, <2>1 DEF EndsInv, RunEnds
  <1> QED
    BY <1>2, <1>3, <1>4

\* What becomes of the runs when an action is taken on.
LEMMA OneRunMore ==
  ASSUME RegistryTypes, NEW o, ReserveAndRun(o)
  PROVE  \E a \in Actions : \E run :
           /\ run.action = a /\ run.phase = "reserved"
           /\ runs' = Append(runs, run)
           /\ Len(runs) + 1 \notin Runs /\ Runs' = Runs \union {Len(runs) + 1}
           /\ runs'[Len(runs) + 1] = run /\ \A r \in Runs : runs'[r] = runs[r]
           /\ UNCHANGED <<eventVars, logVars, deltaIndex>>
  <1>1. PICK a \in Actions :
          /\ runs' = Append(runs, [action |-> a, phase |-> "reserved", end |-> NotQueued, runnable |-> Runnable(o)])
          /\ UNCHANGED <<eventVars, logVars, deltaIndex>>
    BY DEF ReserveAndRun
  <1>2. PICK run : run = [action |-> a, phase |-> "reserved", end |-> NotQueued, runnable |-> Runnable(o)]
    OBVIOUS
  <1>3. run.action = a /\ run.phase = "reserved" /\ runs' = Append(runs, run)
    BY <1>1, <1>2
  <1>4. PICK n \in Nat : n = Len(runs) /\ Runs = 1..n
    BY LenProperties DEF RegistryTypes, Runs
  <1>5. PICK T : T = RunRecords \union {run}
    OBVIOUS
  <1>6. runs \in Seq(T) /\ run \in T
    BY <1>5, SeqMonotonic DEF RegistryTypes
  <1>7. PICK new : new = Append(runs, run)
    OBVIOUS
  <1>8. new \in Seq(T) /\ Len(new) = n + 1 /\ new[n + 1] = run /\ \A i \in 1..n : new[i] = runs[i]
    BY <1>4, <1>6, <1>7, AppendProperties
  <1>9. DOMAIN new = 1..(n + 1)
    BY <1>8, LenProperties
  <1>10. n + 1 \notin 1..n /\ 1..(n + 1) = (1..n) \union {n + 1}
    OBVIOUS
  <1>11. Runs' = Runs \union {n + 1}
    BY <1>3, <1>4, <1>7, <1>9, <1>10 DEF Runs
  <1> QED
    BY <1>1, <1>3, <1>4, <1>7, <1>8, <1>10, <1>11

LEMMA EndsStep ==
  ASSUME RegistryInv, EndsInv, [BusNext]_busVars
  PROVE  EndsInv'
  <1> USE DEF RegistryInv
  <1>0. \A r \in Runs : runs[r] \in RunRecords /\ RunEnds(runs[r])
    BY RunTypes DEF EndsInv
  <1>1. CASE UNCHANGED runs
    BY <1>1 DEF EndsInv, RunEnds, Runs
  <1>2. ASSUME NEW o, ReserveAndRun(o) PROVE EndsInv'
    <2>1. PICK run : /\ run.phase = "reserved" /\ Runs' = Runs \union {Len(runs) + 1}
                     /\ runs'[Len(runs) + 1] = run /\ \A r \in Runs : runs'[r] = runs[r]
      BY <1>2, OneRunMore
    <2>2. \A r \in Runs' : RunEnds(runs'[r])
      BY <1>0, <2>1 DEF RunEnds
    <2> QED
      BY <2>2 DEF EndsInv, RunEnds
  <1>3. ASSUME NEW r \in Runs, NEW p \in Phases, Goes(r, p),
               RunEnds([runs[r] EXCEPT !.phase = p])
        PROVE  EndsInv'
    <2>1. runs' = [runs EXCEPT ![r] = [runs[r] EXCEPT !.phase = p]]
      BY <1>3 DEF Goes
    <2> QED
      BY <1>3, <2>1, OneRunChanges
  <1>4. ASSUME NEW r \in Runs, NEW end \in Ends, runs' = [runs EXCEPT ![r].end = end], runs[r].end = Open
        PROVE  EndsInv'
    <2>1. PICK run : run = [runs[r] EXCEPT !.end = end]
      OBVIOUS
    <2>2. run.phase = runs[r].phase /\ run.end = end
      BY <1>0, <2>1 DEF RunRecords
    <2>3. RunEnds(run)
      BY <1>0, <1>4, <2>2 DEF RunEnds
    <2>4. runs' = [runs EXCEPT ![r] = run]
      BY <1>4, <2>1
    <2> QED
      BY <2>3, <2>4, OneRunChanges
  <1>5. ASSUME NEW r \in Runs, Progress(r) PROVE EndsInv'
    <2>0. \A p : [runs[r] EXCEPT !.phase = p].phase = p /\ [runs[r] EXCEPT !.phase = p].end = runs[r].end
      BY <1>0 DEF RunRecords
    <2>1. CASE RequestQueued(r)
      <3>1. PICK run : run = [runs[r] EXCEPT !.phase = "queued", !.end = Open]
        OBVIOUS
      <3>2. run.phase = "queued" /\ run.end = Open
        BY <1>0, <3>1 DEF RunRecords
      <3>3. runs' = [runs EXCEPT ![r] = run]
        BY <2>1, <3>1 DEF RequestQueued
      <3> QED
        BY <3>2, <3>3, OneRunChanges DEF RunEnds
    <2>2. CASE RequestRefused(r)
      BY <1>3, <2>0, <2>2 DEF RequestRefused, RunEnds, Phases
    <2>3. CASE Bind(r)
      <3>1. Goes(r, "running") /\ runs[r].phase = "queued" /\ "running" \in Phases
        BY <2>3 DEF Bind, Phases, Bound
      <3>2. RunEnds([runs[r] EXCEPT !.phase = "running"])
        BY <1>0, <2>0, <3>1 DEF RunEnds
      <3> QED
        BY <1>3, <3>1, <3>2
    <2>4. CASE RequestEnds(r)
      BY <1>4, <2>4 DEF RequestEnds
    <2>5. CASE PublishOutcome(r)
      <3>1. Goes(r, "announced") /\ runs[r].phase = "running" /\ runs[r].end # Open /\ "announced" \in Phases
        BY <2>5 DEF PublishOutcome, Phases, Bound
      <3>2. RunEnds([runs[r] EXCEPT !.phase = "announced"])
        BY <1>0, <2>0, <3>1 DEF RunEnds
      <3> QED
        BY <1>3, <3>1, <3>2
    <2>6. CASE Release(r)
      <3>1. Goes(r, "released") /\ runs[r].phase = "announced" /\ "released" \in Phases
        BY <2>6 DEF Release, Phases
      <3>2. RunEnds([runs[r] EXCEPT !.phase = "released"])
        BY <1>0, <2>0, <3>1 DEF RunEnds
      <3> QED
        BY <1>3, <3>1, <3>2
    <2> QED
      BY <1>5, <2>1, <2>2, <2>3, <2>4, <2>5, <2>6 DEF Progress
  <1>6. ASSUME NEW a \in Actions, CancelAction(a) PROVE EndsInv'
    <2>1. active[a].request \in Runs
      BY <1>6 DEF CancelAction, RegistryInv, IdsAreHeld, HeldAsRecorded
    <2>2. PromptCanceled \in Ends
      BY DEF Ends
    <2> QED
      BY <1>4, <1>6, <2>1, <2>2 DEF CancelAction
  <1>7. CASE UNCHANGED busVars
    BY <1>1, <1>7 DEF busVars, runVars
  <1>8. CASE Prepare \/ Delivery \/ LogSettles
    BY <1>1, <1>8 DEF Prepare, Delivery, LogSettles, runVars
  <1>9. CASE Calls
    <2>1. ASSUME NEW a \in Actions, Execute(a) PROVE EndsInv'
      BY <1>2, <2>1 DEF Execute
    <2>2. CASE ExecuteDraft
      BY <1>2, <2>2 DEF ExecuteDraft
    <2>3. CASE UNCHANGED <<logVars, draft, runVars>>
      BY <1>1, <2>3 DEF runVars
    <2> QED
      BY <1>6, <1>9, <2>1, <2>2, <2>3 DEF Calls
  <1>10. ASSUME NEW r \in Runs, StreamDelta(r) PROVE EndsInv'
    BY <1>1, <1>10 DEF StreamDelta
  <1> QED
    BY <1>5, <1>7, <1>8, <1>9, <1>10 DEF BusNext

--------------------------------------------------------------------------------
(* Ends and beginnings of sequences.                                        *)

LEMMA LastOfMore ==
  ASSUME NEW T, NEW s \in Seq(T), NEW x \in T
  PROVE  Last(Append(s, x)) = x
  BY AppendProperties DEF Last

LEMMA PrefixOfMore ==
  ASSUME NEW T, NEW s \in Seq(T), NEW x \in T, NEW n \in Nat, n <= Len(s)
  PROVE  SubSeq(Append(s, x), 1, n) = SubSeq(s, 1, n)
  <1>1. PICK m \in Nat : m = Len(s)
    BY LenProperties
  <1>2. PICK t : t = Append(s, x)
    OBVIOUS
  <1>3. t \in Seq(T) /\ Len(t) = m + 1 /\ \A i \in 1..m : t[i] = s[i]
    BY <1>1, <1>2, AppendProperties
  <1>4. \A i \in 1..n : i \in 1..m /\ i \in 1..(m + 1) /\ 1 + i - 1 = i
    BY <1>1
  <1>5. \A i \in 1..n : s[i] \in T /\ t[i] \in T
    BY <1>1, <1>3, <1>4, ElementOfSeq
  <1>6. PICK p : p = SubSeq(s, 1, n)
    OBVIOUS
  <1>7. PICK q : q = SubSeq(t, 1, n)
    OBVIOUS
  <1>8. n - 1 + 1 = n /\ (1 <= n \/ n = 0) /\ 1 \in Int /\ n \in Int
    OBVIOUS
  <1>9. p \in Seq(T) /\ Len(p) = n /\ \A i \in 1..n : p[i] = s[i]
    BY <1>4, <1>5, <1>6, <1>8, SubSeqProperties
  <1>10. q \in Seq(T) /\ Len(q) = n /\ \A i \in 1..n : q[i] = t[i]
    BY <1>4, <1>5, <1>7, <1>8, SubSeqProperties
  <1>11. \A i \in 1..n : p[i] = q[i]
    BY <1>3, <1>4, <1>9, <1>10
  <1>12. p = q
    BY <1>9, <1>10, <1>11, SeqEqual
  <1> QED
    BY <1>2, <1>6, <1>7, <1>12

LEMMA RestOfMore ==
  ASSUME NEW T, NEW s \in Seq(T), NEW x \in T, NEW n \in Nat, n <= Len(s)
  PROVE  SubSeq(Append(s, x), n + 1, Len(Append(s, x))) = Append(SubSeq(s, n + 1, Len(s)), x)
  <1>1. PICK m \in Nat : m = Len(s)
    BY LenProperties
  <1>2. PICK t : t = Append(s, x)
    OBVIOUS
  <1>3. t \in Seq(T) /\ Len(t) = m + 1 /\ t[m + 1] = x /\ \A i \in 1..m : t[i] = s[i]
    BY <1>1, <1>2, AppendProperties
  <1>4. PICK k \in Nat : n + k = m
    <2>1. m - n \in Nat /\ n + (m - n) = m
      BY <1>1
    <2> QED
      BY <2>1
  <1>5. \A i \in (n + 1)..(m + 1) : i \in 1..(m + 1)
    BY <1>1
  <1>6. \A i \in (n + 1)..m : i \in 1..m
    BY <1>1
  <1>7. PICK p : p = SubSeq(s, n + 1, m)
    OBVIOUS
  <1>8. PICK q : q = SubSeq(t, n + 1, m + 1)
    OBVIOUS
  <1>9. /\ m - (n + 1) + 1 = k /\ m + 1 - (n + 1) + 1 = k + 1
        /\ (IF n + 1 <= m THEN m - (n + 1) + 1 ELSE 0) = k
        /\ n + 1 <= m + 1 /\ n + 1 \in Int /\ m \in Int /\ m + 1 \in Int
    BY <1>4
  <1>10. \A i \in (n + 1)..m : s[i] \in T
    BY <1>1, <1>6, ElementOfSeq
  <1>11. \A i \in (n + 1)..(m + 1) : t[i] \in T
    BY <1>3, <1>5, ElementOfSeq
  <1>12. p \in Seq(T) /\ Len(p) = k /\ \A i \in 1..k : p[i] = s[n + 1 + i - 1]
    BY <1>7, <1>9, <1>10, SubSeqProperties
  <1>13. q \in Seq(T) /\ Len(q) = k + 1 /\ \A i \in 1..(k + 1) : q[i] = t[n + 1 + i - 1]
    BY <1>8, <1>9, <1>11, SubSeqProperties
  <1>14. PICK r : r = Append(p, x)
    OBVIOUS
  <1>15. r \in Seq(T) /\ Len(r) = k + 1 /\ r[k + 1] = x /\ \A i \in 1..k : r[i] = p[i]
    BY <1>12, <1>14, AppendProperties
  <1>16. ASSUME NEW i \in 1..(k + 1) PROVE q[i] = r[i]
    <2>1. CASE i = k + 1
      <3>1. n + 1 + i - 1 = m + 1
        BY <1>4, <2>1
      <3> QED
        BY <1>3, <1>13, <1>15, <2>1, <3>1
    <2>2. CASE i # k + 1
      <3>1. i \in 1..k /\ n + 1 + i - 1 \in 1..m
        BY <1>4, <2>2
      <3> QED
        BY <1>3, <1>12, <1>13, <1>15, <3>1
    <2> QED
      BY <2>1, <2>2
  <1>17. q = r
    BY <1>13, <1>15, <1>16, SeqEqual
  <1> QED
    BY <1>1, <1>2, <1>3, <1>7, <1>8, <1>14, <1>17

\* What a limit leaves is a beginning, and not nothing.
LEMMA LimitedIsPrefix ==
  ASSUME NEW T, NEW s \in Seq(T), NEW limit \in {NoLimit} \union (Nat \ {0})
  PROVE  \E k \in 0..Len(s) :
           /\ Limited(s, limit) \in Seq(T) /\ Len(Limited(s, limit)) = k
           /\ \A i \in 1..k : Limited(s, limit)[i] = s[i]
  <1>1. PICK n \in Nat : n = Len(s)
    BY LenProperties
  <1>2. CASE limit = NoLimit \/ limit >= n
    <2>1. Limited(s, limit) = s
      BY <1>1, <1>2 DEF Limited
    <2> QED
      BY <1>1, <2>1
  <1>3. CASE ~(limit = NoLimit \/ limit >= n)
    <2>1. PICK k \in Nat : k = limit
      BY <1>3
    <2>2. k < n /\ k >= 1 /\ k \in 0..n
      BY <1>3, <2>1
    <2>3. PICK p : p = SubSeq(s, 1, k)
      OBVIOUS
    <2>4. Limited(s, limit) = p
      BY <1>1, <1>3, <2>1, <2>3 DEF Limited
    <2>5. \A i \in 1..k : i \in 1..n /\ 1 + i - 1 = i
      BY <2>2
    <2>6. \A i \in 1..k : s[i] \in T
      BY <1>1, <2>5, ElementOfSeq
    <2>7. k - 1 + 1 = k /\ 1 <= k /\ 1 \in Int /\ k \in Int
      BY <2>2
    <2>8. p \in Seq(T) /\ Len(p) = k /\ \A i \in 1..k : p[i] = s[i]
      BY <2>3, <2>5, <2>6, <2>7, SubSeqProperties
    <2> QED
      BY <1>1, <2>2, <2>4, <2>8
  <1> QED
    BY <1>2, <1>3

--------------------------------------------------------------------------------
(* How events come.                                                         *)

WellMade(e) == e \in EventRecords /\ e.id[1] = e.action /\ e.id[2] = e.type

\* An event is recorded, published and handed to the log; or it is published only.
Recording(e) ==
  /\ e.sequence = nextSequence /\ e.type \in DurableTypes
  /\ e.id \notin RetainedIds
  /\ history' = EvictOverflow(Append(history, e))
  /\ nextSequence' = nextSequence + 1
  /\ PublishActionEvent(e)
  /\ AppendEvent(e)

LiveOnly(e) ==
  /\ e.sequence = 0 /\ e.type = DeltaType
  /\ PublishActionEvent(e)
  /\ UNCHANGED <<history, nextSequence, logVars>>

LEMMA EventsAreWellMade ==
  ASSUME NEW a \in Actions, NEW type \in Types, NEW index \in Nat, NEW n \in Nat
  PROVE  \E e : /\ e = [Event(a, type, index) EXCEPT !.sequence = n]
                /\ e.action = a /\ e.type = type /\ e.sequence = n
                /\ e.id = <<a, type, index>> /\ e.id = Event(a, type, index).id
                /\ WellMade(e)
  <1>1. PICK e : e = [id |-> <<a, type, index>>, action |-> a, type |-> type, sequence |-> n]
    OBVIOUS
  <1>2. e = [Event(a, type, index) EXCEPT !.sequence = n]
    BY <1>1 DEF Event
  <1>3. e.action = a /\ e.type = type /\ e.sequence = n /\ e.id = <<a, type, index>>
    BY <1>1
  <1>4. Event(a, type, index).id = <<a, type, index>>
    BY DEF Event
  <1>5. e \in EventRecords
    BY <1>1 DEF EventRecords
  <1>6. <<a, type, index>>[1] = a /\ <<a, type, index>>[2] = type
    OBVIOUS
  <1> QED
    BY <1>2, <1>3, <1>4, <1>5, <1>6 DEF WellMade

LEMMA PublishesRecorded ==
  ASSUME nextSequence \in Nat, NEW a \in Actions, NEW type \in DurableTypes,
         PublishRuntimeActionEvent(Event(a, type, 0))
  PROVE  \/ <<a, type, 0>> \in RetainedIds /\ UNCHANGED <<eventVars, logVars>>
         \/ \E e : WellMade(e) /\ e.action = a /\ e.type = type /\ e.id = <<a, type, 0>> /\ Recording(e)
  <1>1. type \in Types
    BY DEF Types
  <1>2. PICK e : /\ e = [Event(a, type, 0) EXCEPT !.sequence = nextSequence]
                 /\ e.action = a /\ e.type = type /\ e.sequence = nextSequence
                 /\ e.id = <<a, type, 0>> /\ e.id = Event(a, type, 0).id
                 /\ WellMade(e)
    BY <1>1, EventsAreWellMade
  <1>3. CASE e.id \in RetainedIds
    BY <1>2, <1>3 DEF PublishRuntimeActionEvent, PublishRecorded, RecordActionEvent
  <1>4. CASE e.id \notin RetainedIds
    <2>1. PICK event : event = Event(a, type, 0)
      OBVIOUS
    <2>2. e = [event EXCEPT !.sequence = nextSequence] /\ e.id = event.id
      BY <1>2, <2>1
    <2>3. PublishRuntimeActionEvent(event)
      BY <2>1
    <2>4. PublishRecorded(event) /\ AppendEvent(e)
      BY <1>4, <2>2, <2>3 DEF PublishRuntimeActionEvent
    <2>5. RecordActionEvent(event) /\ PublishActionEvent(e)
      BY <1>4, <2>2, <2>4 DEF PublishRecorded
    <2>6. history' = EvictOverflow(Append(history, e)) /\ nextSequence' = nextSequence + 1
      BY <2>2, <2>5 DEF RecordActionEvent
    <2> QED
      BY <1>2, <1>4, <2>4, <2>5, <2>6 DEF Recording
  <1> QED
    BY <1>2, <1>3, <1>4

LEMMA PublishesLive ==
  ASSUME NEW a \in Actions, NEW index \in Nat, PublishLive(Event(a, DeltaType, index)), UNCHANGED logVars
  PROVE  \E e : WellMade(e) /\ e.action = a /\ e.type = DeltaType /\ e.id = <<a, DeltaType, index>> /\ LiveOnly(e)
  <1>1. PICK e : e = [id |-> <<a, DeltaType, index>>, action |-> a, type |-> DeltaType, sequence |-> 0]
    OBVIOUS
  <1>2. e = Event(a, DeltaType, index)
    BY <1>1 DEF Event
  <1>3. e.action = a /\ e.type = DeltaType /\ e.sequence = 0 /\ e.id = <<a, DeltaType, index>>
    BY <1>1
  <1>4. e \in EventRecords
    BY <1>1, TypesOfEvents DEF EventRecords
  <1>5. <<a, DeltaType, index>>[1] = a /\ <<a, DeltaType, index>>[2] = DeltaType
    OBVIOUS
  <1>6. PublishLive(e)
    BY <1>2
  <1> QED
    BY <1>3, <1>4, <1>5, <1>6 DEF WellMade, LiveOnly, PublishLive

DeltasTyped == deltaIndex \in [Actions -> Nat]

\* What can become of the events and of the log.
EventStep ==
  \/ /\ UNCHANGED eventVars
     /\ UNCHANGED logVars \/ SettleAppend
  \/ (Deliver \/ ListenerCalls) /\ UNCHANGED logVars
  \/ \E e : WellMade(e) /\ (Recording(e) \/ LiveOnly(e))

LEMMA ProgressIsAnEventStep ==
  ASSUME RegistryInv, EndsInv, nextSequence \in Nat, NEW r \in Runs, Progress(r)
  PROVE  EventStep /\ UNCHANGED deltaIndex
  <1>1. runs[r] \in RunRecords /\ runs[r].action \in Actions /\ RunEnds(runs[r])
    BY RunTypes DEF EndsInv, RegistryInv
  <1>2. CASE RequestQueued(r) \/ RequestRefused(r) \/ RequestEnds(r) \/ Release(r)
    BY <1>2 DEF RequestQueued, RequestRefused, RequestEnds, Release, EventStep
  <1>3. CASE Bind(r)
    <2>1. PublishRuntimeActionEvent(Event(runs[r].action, "started", 0)) /\ UNCHANGED deltaIndex
      BY <1>3, TypesOfEvents DEF Bind
    <2>2. "started" \in DurableTypes
      BY DEF DurableTypes
    <2> QED
      BY <1>1, <2>1, <2>2, PublishesRecorded DEF EventStep
  <1>4. CASE PublishOutcome(r)
    <2>1. PICK type : type = OutcomeTypes[runs[r].end]
      OBVIOUS
    <2>2. runs[r].end \in Ends
      BY <1>1, <1>4 DEF PublishOutcome, RunEnds
    <2>3. type \in DurableTypes /\ type # Absent
      BY <2>1, <2>2, TypesOfEvents DEF Terminal
    <2>4. PublishRuntimeActionEvent(Event(runs[r].action, type, 0)) /\ UNCHANGED deltaIndex
      BY <1>4, <2>1, <2>3 DEF PublishOutcome
    <2> QED
      BY <1>1, <2>3, <2>4, PublishesRecorded DEF EventStep
  <1> QED
    BY <1>2, <1>3, <1>4 DEF Progress

LEMMA TokenIsAnEventStep ==
  ASSUME DeltasTyped, NEW r \in Runs, StreamDelta(r)
  PROVE  EventStep /\ DeltasTyped'
  <1>1. PICK a \in ActionsOf(r) : /\ deltaIndex' = [deltaIndex EXCEPT ![a] = @ + 1]
                                  /\ PublishLive(Event(a, DeltaType, deltaIndex[a]))
                                  /\ UNCHANGED logVars
    BY DEF StreamDelta
  <1>2. a \in Actions
    BY <1>1 DEF ActionsOf
  <1>3. deltaIndex[a] \in Nat /\ DeltasTyped'
    BY <1>1, <1>2 DEF DeltasTyped
  <1> QED
    BY <1>1, <1>2, <1>3, PublishesLive DEF EventStep

LEMMA EveryStepIsAnEventStep ==
  ASSUME RegistryInv, EndsInv, DeltasTyped, nextSequence \in Nat, [BusNext]_busVars
  PROVE  EventStep /\ DeltasTyped'
  <1>1. CASE UNCHANGED busVars
    BY <1>1 DEF busVars, runVars, EventStep, DeltasTyped
  <1>2. CASE Prepare
    BY <1>2 DEF Prepare, runVars, EventStep, DeltasTyped
  <1>3. CASE Delivery
    BY <1>3 DEF Delivery, runVars, EventStep, DeltasTyped
  <1>4. CASE LogSettles
    BY <1>4 DEF LogSettles, runVars, EventStep, DeltasTyped
  <1>5. CASE Calls
    <2>1. ASSUME NEW o, ReserveAndRun(o) PROVE EventStep /\ DeltasTyped'
      BY <2>1 DEF ReserveAndRun, EventStep, DeltasTyped
    <2>2. ASSUME NEW a \in Actions, Execute(a) \/ CancelAction(a) PROVE EventStep /\ DeltasTyped'
      BY <2>1, <2>2 DEF Execute, CancelAction, EventStep, DeltasTyped
    <2>3. CASE ExecuteDraft
      BY <2>1, <2>3 DEF ExecuteDraft
    <2>4. CASE ListenerCalls /\ UNCHANGED <<logVars, draft, runVars>>
      BY <2>4 DEF runVars, EventStep, DeltasTyped
    <2> QED
      BY <1>5, <2>2, <2>3, <2>4 DEF Calls
  <1>6. ASSUME NEW r \in Runs, Progress(r) PROVE EventStep /\ DeltasTyped'
    BY <1>6, ProgressIsAnEventStep DEF DeltasTyped
  <1>7. ASSUME NEW r \in Runs, StreamDelta(r) PROVE EventStep /\ DeltasTyped'
    BY <1>7, TokenIsAnEventStep
  <1> QED
    BY <1>1, <1>2, <1>3, <1>4, <1>5, <1>6, <1>7 DEF BusNext

--------------------------------------------------------------------------------
(* The history and the feed.                                                *)

Evicted == nextSequence - 1 - Len(history)
Retained == {e \in EventRecords : e.sequence > Evicted}

\* The inductive invariant. What the history holds is what the feed ends with,
\* as far as it was recorded.
FeedInv ==
  /\ nextSequence \in Nat
  /\ history \in Seq(EventRecords) /\ feed \in Seq(EventRecords)
  /\ Len(history) <= MaxEvents /\ Len(history) < nextSequence
  /\ \A i \in 1..Len(history) : history[i].sequence = Evicted + i
  /\ \A e \in ToSet(feed) : WellMade(e) /\ e.sequence < nextSequence
  /\ history = Only(feed, Retained)

LEMMA LiveEventsAreNotRetained ==
  ASSUME FeedInv, NEW e, WellMade(e), LiveOnly(e)
  PROVE  FeedInv'
  <1>1. e \in EventRecords /\ e.sequence = 0 /\ feed' = Append(feed, e) /\ UNCHANGED <<history, nextSequence>>
    BY DEF WellMade, LiveOnly, PublishActionEvent
  <1>2. feed \in Seq(EventRecords) /\ feed' \in Seq(EventRecords)
    BY <1>1, AppendProperties DEF FeedInv
  <1>3. PICK n \in Nat : n = Len(history)
    BY LenProperties DEF FeedInv
  <1>4. n < nextSequence /\ nextSequence \in Nat /\ Evicted = nextSequence - 1 - n
    BY <1>3 DEF FeedInv, Evicted
  <1>5. Evicted \in Nat
    BY <1>4
  <1>6. e \notin Retained
    BY <1>1, <1>5 DEF Retained
  <1>7. Evicted' = Evicted /\ Retained' = Retained
    BY <1>1 DEF Evicted, Retained
  <1>8. Only(feed', Retained) = Only(feed, Retained)
    BY <1>1, <1>2, <1>6, OnlyOfMore
  <1>9. \A x \in ToSet(feed') : WellMade(x) /\ x.sequence < nextSequence
    <2>1. \A x : x \in ToSet(feed') <=> x \in ToSet(feed) \/ x = e
      BY <1>1, <1>2, ToSetOfMore
    <2>2. e.sequence < nextSequence
      BY <1>1, <1>4
    <2> QED
      BY <2>1, <2>2 DEF FeedInv
  <1>10. \A i \in 1..Len(history') : history'[i].sequence = Evicted' + i
    BY <1>1, <1>7 DEF FeedInv
  <1>11. history' = Only(feed', Retained')
    BY <1>1, <1>7, <1>8 DEF FeedInv
  <1>12. \A x \in ToSet(feed') : WellMade(x)' /\ x.sequence < nextSequence'
    BY <1>1, <1>9 DEF WellMade
  <1>13. nextSequence' \in Nat /\ history' \in Seq(EventRecords) /\ Len(history') <= MaxEvents /\ Len(history') < nextSequence'
    BY <1>1 DEF FeedInv
  <1> QED
    BY <1>2, <1>10, <1>11, <1>12, <1>13 DEF FeedInv

LEMMA RecordedEventsAreRetained ==
  ASSUME FeedInv, NEW e, WellMade(e), Recording(e)
  PROVE  FeedInv'
  <1> DEFINE more == Append(history, e)
  <1>1. /\ e \in EventRecords /\ e.sequence = nextSequence /\ nextSequence' = nextSequence + 1
        /\ feed' = Append(feed, e) /\ history' = EvictOverflow(more)
    BY DEF WellMade, Recording, PublishActionEvent
  <1>2. /\ feed \in Seq(EventRecords) /\ feed' \in Seq(EventRecords)
        /\ history \in Seq(EventRecords) /\ more \in Seq(EventRecords)
    BY <1>1, AppendProperties DEF FeedInv
  <1>3. PICK n \in Nat : n = Len(history)
    BY <1>2, LenProperties
  <1>4. PICK z \in Nat : z = Evicted /\ nextSequence = z + n + 1
    <2>1. nextSequence - 1 - n \in Nat /\ nextSequence = nextSequence - 1 - n + n + 1
      BY <1>3 DEF FeedInv
    <2> QED
      BY <1>3, <2>1 DEF Evicted
  <1>5. Len(more) = n + 1 /\ more[n + 1] = e /\ \A i \in 1..n : more[i] = history[i]
    BY <1>1, <1>2, <1>3, AppendProperties
  <1>6. \A i \in 1..(n + 1) : more[i].sequence = z + i
    <2>1. \A i \in 1..n : more[i].sequence = z + i
      BY <1>3, <1>4, <1>5 DEF FeedInv
    <2>2. more[n + 1].sequence = z + (n + 1)
      BY <1>1, <1>4, <1>5
    <2>3. \A i \in 1..(n + 1) : i = n + 1 \/ i \in 1..n
      OBVIOUS
    <2> QED
      BY <2>1, <2>2, <2>3
  <1>7. e \in Retained
    BY <1>1, <1>4 DEF Retained
  <1>8. Only(feed', Retained) = more
    BY <1>1, <1>2, <1>7, OnlyOfMore DEF FeedInv
  <1> HIDE DEF more
  <1>9. \A x \in ToSet(feed') : WellMade(x) /\ x.sequence < nextSequence'
    <2>1. \A x : x \in ToSet(feed') <=> x \in ToSet(feed) \/ x = e
      BY <1>1, <1>2, ToSetOfMore
    <2>2. \A x \in ToSet(feed) : WellMade(x) /\ x \in EventRecords /\ x.sequence < nextSequence
      BY DEF FeedInv, WellMade
    <2>3. \A x \in EventRecords : x.sequence \in Nat
      BY DEF EventRecords
    <2>4. \A k \in Nat : k < nextSequence => k < nextSequence'
      BY <1>1, <1>4
    <2>5. e.sequence < nextSequence'
      BY <1>1, <1>4
    <2> QED
      BY <2>1, <2>2, <2>3, <2>4, <2>5
  <1>10. MaxEvents \in Nat /\ MaxEvents >= 1 /\ n <= MaxEvents
    BY <1>3, EventsAssumption DEF FeedInv
  <1>11. CASE n + 1 <= MaxEvents
    <2>1. history' = more
      BY <1>1, <1>5, <1>10, <1>11 DEF EvictOverflow
    <2>2. Evicted' = z
      BY <1>1, <1>4, <1>5, <2>1 DEF Evicted
    <2>3. Retained' = Retained
      BY <1>4, <2>2 DEF Retained
    <2>4. \A i \in 1..Len(history') : history'[i].sequence = Evicted' + i
      BY <1>5, <1>6, <2>1, <2>2
    <2>5. Len(history') <= MaxEvents /\ Len(history') < nextSequence' /\ nextSequence' \in Nat
      BY <1>1, <1>4, <1>5, <1>11, <2>1
    <2>6. history' = Only(feed', Retained') /\ history' \in Seq(EventRecords)
      BY <1>2, <1>8, <2>1, <2>3
    <2>7. \A x \in ToSet(feed') : WellMade(x)' /\ x.sequence < nextSequence'
      BY <1>9 DEF WellMade
    <2> QED
      BY <1>2, <2>4, <2>5, <2>6, <2>7 DEF FeedInv
  <1>12. CASE n + 1 > MaxEvents
    <2>1. n = MaxEvents /\ 1 + (n + 1) - MaxEvents = 2
      BY <1>10, <1>12
    <2>2. history' = SubSeq(more, 2, n + 1)
      BY <1>1, <1>5, <1>12, <2>1 DEF EvictOverflow
    <2>3. more # <<>>
      BY <1>5, EmptySeq
    <2>4. history' = Tail(more)
      <3>1. Tail(more) = SubSeq(more, 2, Len(more))
        BY <1>2, <2>3, TailIsSubSeq
      <3>2. Len(more) = n + 1
        BY <1>5
      <3> QED
        BY <2>2, <3>1, <3>2
    <2>5. /\ history' \in Seq(EventRecords) /\ Len(history') = n
          /\ \A i \in 1..n : history'[i] = more[i + 1]
      <3>1. PICK t : t = Tail(more)
        OBVIOUS
      <3>2. t \in Seq(EventRecords) /\ Len(t) = Len(more) - 1 /\ \A i \in 1..Len(t) : t[i] = more[i + 1]
        BY <1>2, <2>3, <3>1, HeadTailProperties
      <3>3. Len(t) = n
        BY <1>5, <3>2
      <3> QED
        BY <2>4, <3>1, <3>2, <3>3
    <2>6. Evicted' = z + 1
      <3>1. Len(history') = n /\ nextSequence' = z + n + 1 + 1
        BY <1>1, <1>4, <2>5
      <3>2. Evicted' = nextSequence' - 1 - Len(history')
        BY DEF Evicted
      <3>3. z + n + 1 + 1 - 1 - n = z + 1
        OBVIOUS
      <3> QED
        BY <3>1, <3>2, <3>3
    <2>7. \A i \in 1..n : history'[i].sequence = z + 1 + i
      <3>1. \A i \in 1..n : i + 1 \in 1..(n + 1) /\ z + (i + 1) = z + 1 + i
        OBVIOUS
      <3> QED
        BY <1>6, <2>5, <3>1
    <2>8. Retained' = {x \in EventRecords : x.sequence > z + 1}
      BY <2>6 DEF Retained
    <2>9. Retained \intersect Retained' = Retained'
      <3>1. \A x \in EventRecords : x.sequence \in Nat
        BY DEF EventRecords
      <3>2. \A k \in Nat : k > z + 1 => k > z
        OBVIOUS
      <3>3. \A x : x \in Retained <=> x \in EventRecords /\ x.sequence > z
        BY <1>4 DEF Retained
      <3>4. \A x : x \in Retained' <=> x \in EventRecords /\ x.sequence > z + 1
        BY <2>8
      <3>5. \A x : x \in Retained' => x \in Retained
        BY <3>1, <3>2, <3>3, <3>4
      <3> QED
        BY <3>5
    <2>10. Only(feed', Retained') = Only(more, Retained')
      BY <1>2, <1>8, <2>9, OnlyTwice
    <2>11. Only(more, Retained') = Tail(more)
      <3>1. Head(more) = more[1]
        OBVIOUS
      <3>2. more[1].sequence = z + 1
        BY <1>6
      <3>3. Head(more) \notin Retained'
        BY <2>8, <3>1, <3>2
      <3>4. ASSUME NEW x \in ToSet(Tail(more)) PROVE x \in Retained'
        <4>1. PICK i \in DOMAIN Tail(more) : x = Tail(more)[i]
          BY <3>4 DEF ToSet
        <4>2. i \in 1..n
          BY <2>4, <2>5, <4>1, LenProperties
        <4>3. x \in EventRecords
          BY <2>4, <2>5, <4>1, <4>2, ElementOfSeq
        <4>4. x.sequence = z + 1 + i
          BY <2>4, <2>7, <4>1, <4>2
        <4>5. x.sequence > z + 1
          BY <4>2, <4>4
        <4> QED
          BY <2>8, <4>3, <4>5
      <3> QED
        BY <1>2, <2>3, <3>3, <3>4, OnlyRest
    <2>12. history' = Only(feed', Retained')
      BY <2>4, <2>10, <2>11
    <2>13. Len(history') <= MaxEvents /\ Len(history') < nextSequence' /\ nextSequence' \in Nat
      BY <1>1, <1>4, <2>1, <2>5
    <2>14. \A i \in 1..Len(history') : history'[i].sequence = Evicted' + i
      BY <2>5, <2>6, <2>7
    <2>15. \A x \in ToSet(feed') : WellMade(x)' /\ x.sequence < nextSequence'
      BY <1>9 DEF WellMade
    <2> QED
      BY <1>2, <2>5, <2>12, <2>13, <2>14, <2>15 DEF FeedInv
  <1> QED
    BY <1>10, <1>11, <1>12

LEMMA FeedStep ==
  ASSUME FeedInv, EventStep
  PROVE  FeedInv'
  <1>1. ASSUME UNCHANGED <<history, nextSequence, feed>> PROVE FeedInv'
    <2>1. Evicted' = Evicted /\ Retained' = Retained
      BY <1>1 DEF Evicted, Retained
    <2> QED
      BY <1>1, <2>1 DEF FeedInv, WellMade
  <1>2. CASE UNCHANGED eventVars
    BY <1>1, <1>2 DEF eventVars
  <1>3. CASE Deliver
    BY <1>1, <1>3 DEF Deliver
  <1>4. CASE ListenerCalls
    BY <1>1, <1>4 DEF ListenerCalls, Subscribe, SubscribeReplay, Unsubscribe, StartReading, ReadPage
  <1> QED
    BY <1>2, <1>3, <1>4, LiveEventsAreNotRetained, RecordedEventsAreRetained DEF EventStep

LEMMA FeedInvInitially == BusInit => FeedInv
  <1>1. SUFFICES ASSUME BusInit PROVE FeedInv
    OBVIOUS
  <1>2. history = <<>> /\ feed = <<>> /\ nextSequence = 1
    BY <1>1 DEF BusInit, EventsInit
  <1>3. <<>> \in Seq(EventRecords) /\ Len(<<>>) = 0
    BY EmptySeq
  <1>4. Only(feed, Retained) = <<>>
    BY <1>2, OnlyOfNone
  <1>5. \A x \in ToSet(feed) : FALSE
    BY <1>2, ToSetOfNone
  <1> QED
    BY <1>2, <1>3, <1>4, <1>5, EventsAssumption DEF FeedInv

--------------------------------------------------------------------------------
(* The log.                                                                 *)

AppendRecords ==
  [sequence: Nat, answer: {"failed", "promise", "accepted"}, late: BOOLEAN]

Failed == {i \in DOMAIN appends : appends[i].answer = "failed"}
Handed == integration.enabled /\ integration.plugged

\* The inductive invariant: entry by entry what was recorded.
LogInv ==
  /\ appends \in Seq(AppendRecords)
  /\ integration.durability \in Durabilities
  /\ Handed => /\ Len(appends) = Len(Recorded(feed))
               /\ \A i \in 1..Len(appends) : appends[i].sequence = Recorded(feed)[i].sequence
  /\ ~Handed => appends = <<>>
  /\ logErrors = Cardinality(Failed)

LEMMA AnswersAreThree == Answers \subseteq {"failed", "promise", "accepted"}
  BY DEF Answers

LEMMA RecordedIsTyped ==
  ASSUME FeedInv
  PROVE  Recorded(feed) \in Seq(EventRecords) /\ Len(Recorded(feed)) \in Nat
  BY OnlyMembers, LenProperties DEF FeedInv, Recorded

LEMMA FailuresAreFinite ==
  ASSUME appends \in Seq(AppendRecords)
  PROVE  IsFiniteSet(Failed) /\ Cardinality(Failed) \in Nat
  <1>1. PICK n \in Nat : DOMAIN appends = 1..n
    BY LenProperties
  <1>2. Failed \subseteq 1..n
    BY <1>1 DEF Failed
  <1>3. IsFiniteSet(1..n)
    BY FS_Interval
  <1> QED
    BY <1>2, <1>3, FS_Subset, FS_CardinalityType

\* A live event is no concern of the log.
LEMMA LiveEventsAreNotLogged ==
  ASSUME FeedInv, LogInv, NEW e, WellMade(e), LiveOnly(e)
  PROVE  LogInv'
  <1>1. e \in EventRecords /\ e.sequence = 0 /\ feed' = Append(feed, e) /\ UNCHANGED logVars
    BY DEF WellMade, LiveOnly, PublishActionEvent
  <1>2. Only(feed', {x \in EventRecords : x.sequence > 0}) = Only(feed, {x \in EventRecords : x.sequence > 0})
    BY <1>1, OnlyOfMore DEF FeedInv
  <1>3. Recorded(feed') = Recorded(feed)
    BY <1>2 DEF Recorded
  <1>4. Failed' = Failed /\ Handed' = Handed
    BY <1>1 DEF Failed, Handed, logVars
  <1>5. UNCHANGED <<appends, logErrors, integration>>
    BY <1>1 DEF logVars
  <1> QED
    BY <1>3, <1>4, <1>5 DEF LogInv

\* Every recorded event is eligible, and makes a valid entry.
LEMMA RecordedEventsAreHanded ==
  ASSUME FeedInv, LogInv, NEW e, WellMade(e), Recording(e)
  PROVE  IF Handed
           THEN \E entry \in AppendRecords :
                  /\ entry.sequence = e.sequence
                  /\ appends' = Append(appends, entry)
                  /\ logErrors' = logErrors + Failures(entry.answer)
                  /\ UNCHANGED integration
           ELSE UNCHANGED logVars
  <1>1. AppendEvent(e) /\ e.type \in LogDurableTypes
    BY DEF Recording, DurableTypes, LogDurableTypes
  <1>2. CASE ~Handed
    BY <1>1, <1>2 DEF AppendEvent, Handed
  <1>3. CASE Handed
    <2>1. Eligible(e.type)
      BY <1>1 DEF Eligible
    <2>2. PICK entry : entry = [event |-> e, durability |-> integration.durability]
      OBVIOUS
    <2>3. entry.event = e /\ entry.durability \in Durabilities
      BY <2>2 DEF LogInv
    <2>4. e \in EventRecords /\ e.sequence \in Nat /\ e.sequence > 0
      <3>1. PICK n \in Nat : n = Len(history)
        BY LenProperties DEF FeedInv
      <3>2. nextSequence \in Nat /\ n < nextSequence
        BY <3>1 DEF FeedInv
      <3>3. nextSequence > 0
        BY <3>2
      <3> QED
        BY <3>2, <3>3 DEF WellMade, Recording
    <2>5. e.id # <<>>
      <3>1. PICK id : id = e.id
        OBVIOUS
      <3>2. id \in Actions \X Types \X Nat
        BY <2>4, <3>1 DEF EventRecords
      <3>3. id # <<>>
        BY <3>2
      <3> QED
        BY <3>1, <3>3
    <2>6. EntryOk(entry, integration.highVolume)
      BY <1>1, <2>3, <2>4, <2>5 DEF EntryOk
    <2>7. \E answer \in Answers :
            /\ appends' = Append(appends, [sequence |-> e.sequence, answer |-> answer, late |-> answer = "promise"])
            /\ logErrors' = logErrors + Failures(answer)
            /\ UNCHANGED integration
      BY <1>1, <1>3, <2>1, <2>2, <2>6 DEF AppendEvent, Handed
    <2>8. PICK answer \in Answers :
            /\ appends' = Append(appends, [sequence |-> e.sequence, answer |-> answer, late |-> answer = "promise"])
            /\ logErrors' = logErrors + Failures(answer)
            /\ UNCHANGED integration
      BY <2>7
    <2>9. PICK r : r = [sequence |-> e.sequence, answer |-> answer, late |-> answer = "promise"]
      OBVIOUS
    <2>10. r \in AppendRecords /\ r.sequence = e.sequence /\ r.answer = answer
      BY <2>4, <2>9, AnswersAreThree DEF AppendRecords
    <2> QED
      BY <1>3, <2>8, <2>9, <2>10
  <1> QED
    BY <1>2, <1>3

LEMMA RecordingIsLogged ==
  ASSUME FeedInv, LogInv, NEW e, WellMade(e), Recording(e)
  PROVE  LogInv'
  <1>1. /\ e \in EventRecords /\ e.sequence = nextSequence /\ feed' = Append(feed, e)
        /\ nextSequence \in Nat /\ nextSequence > 0 /\ feed \in Seq(EventRecords)
    <2>1. PICK n \in Nat : n = Len(history)
      BY LenProperties DEF FeedInv
    <2>2. nextSequence \in Nat /\ n < nextSequence
      BY <2>1 DEF FeedInv
    <2>3. nextSequence > 0
      BY <2>2
    <2> QED
      BY <2>2, <2>3 DEF WellMade, Recording, PublishActionEvent, FeedInv
  <1>2. Recorded(feed') = Append(Recorded(feed), e)
    <2>1. e \in {x \in EventRecords : x.sequence > 0}
      BY <1>1
    <2> QED
      BY <1>1, <2>1, OnlyOfMore DEF Recorded
  <1>3. CASE ~Handed
    <2>1. UNCHANGED <<appends, logErrors, integration>>
      BY <1>3, RecordedEventsAreHanded DEF logVars
    <2>2. Failed' = Failed /\ Handed' = Handed
      BY <2>1 DEF Failed, Handed
    <2> QED
      BY <1>3, <2>1, <2>2 DEF LogInv
  <1>4. CASE Handed
    <2>1. PICK entry \in AppendRecords :
            /\ entry.sequence = e.sequence
            /\ appends' = Append(appends, entry)
            /\ logErrors' = logErrors + Failures(entry.answer)
            /\ UNCHANGED integration
      BY <1>4, RecordedEventsAreHanded
    <2>2. PICK n \in Nat : n = Len(appends) /\ DOMAIN appends = 1..n
      BY LenProperties DEF LogInv
    <2>3. /\ appends' \in Seq(AppendRecords) /\ Len(appends') = n + 1
          /\ appends'[n + 1] = entry /\ \A i \in 1..n : appends'[i] = appends[i]
      BY <2>1, <2>2, AppendProperties DEF LogInv
    <2>4. DOMAIN appends' = 1..(n + 1)
      BY <2>3, LenProperties
    <2>5. PICK old : old = Recorded(feed)
      OBVIOUS
    <2>6. old \in Seq(EventRecords) /\ Len(old) = n /\ \A i \in 1..n : appends[i].sequence = old[i].sequence
      BY <1>4, <2>2, <2>5, RecordedIsTyped DEF LogInv
    <2>7. PICK new : new = Append(old, e)
      OBVIOUS
    <2>8. Len(new) = n + 1 /\ new[n + 1] = e /\ \A i \in 1..n : new[i] = old[i]
      BY <1>1, <2>6, <2>7, AppendProperties
    <2>9. \A i \in 1..(n + 1) : i = n + 1 \/ i \in 1..n
      OBVIOUS
    <2>10. \A i \in 1..(n + 1) : appends'[i].sequence = new[i].sequence
      BY <2>1, <2>3, <2>6, <2>8, <2>9
    <2>11. Recorded(feed') = new
      BY <1>2, <2>5, <2>7
    <2>12. n + 1 \notin Failed
      BY <2>2 DEF Failed
    <2>13. Failed' = IF entry.answer = "failed" THEN Failed \union {n + 1} ELSE Failed
      <3>1. \A i : i \in Failed' <=> i \in 1..(n + 1) /\ appends'[i].answer = "failed"
        BY <2>4 DEF Failed
      <3>2. \A i : i \in Failed <=> i \in 1..n /\ appends[i].answer = "failed"
        BY <2>2 DEF Failed
      <3>3. \A i : i \in 1..(n + 1) <=> i = n + 1 \/ i \in 1..n
        OBVIOUS
      <3>4. n + 1 \in Failed' <=> entry.answer = "failed"
        BY <2>3, <3>1, <3>3
      <3>5. \A i : i # n + 1 => (i \in Failed' <=> i \in Failed)
        BY <2>3, <3>1, <3>2, <3>3
      <3> QED
        BY <2>12, <3>4, <3>5
    <2>14. logErrors' = Cardinality(Failed')
      <3>1. IsFiniteSet(Failed) /\ Cardinality(Failed) \in Nat /\ logErrors = Cardinality(Failed)
        BY FailuresAreFinite DEF LogInv
      <3>2. CASE entry.answer = "failed"
        BY <2>1, <2>12, <2>13, <3>1, <3>2, FS_AddElement DEF Failures
      <3>3. CASE entry.answer # "failed"
        BY <2>1, <2>13, <3>1, <3>3 DEF Failures
      <3> QED
        BY <3>2, <3>3
    <2>15. Handed' /\ integration'.durability \in Durabilities
      BY <1>4, <2>1 DEF Handed, LogInv
    <2> QED
      BY <2>3, <2>8, <2>10, <2>11, <2>14, <2>15 DEF LogInv
  <1> QED
    BY <1>3, <1>4

LEMMA SettlingIsCounted ==
  ASSUME LogInv, SettleAppend, UNCHANGED feed
  PROVE  LogInv'
  <1>1. PICK i \in DOMAIN appends, answer \in Answers \ {"promise"} :
          /\ appends[i].answer = "promise"
          /\ appends' = [appends EXCEPT ![i].answer = answer]
          /\ logErrors' = logErrors + Failures(answer)
          /\ UNCHANGED integration
    BY DEF SettleAppend
  <1>2. PICK n \in Nat : n = Len(appends) /\ DOMAIN appends = 1..n
    BY LenProperties DEF LogInv
  <1>3. appends[i] \in AppendRecords
    BY <1>1, <1>2, ElementOfSeq DEF LogInv
  <1>4. PICK entry : entry = [appends[i] EXCEPT !.answer = answer]
    OBVIOUS
  <1>5. entry \in AppendRecords /\ entry.sequence = appends[i].sequence /\ entry.answer = answer
    BY <1>1, <1>3, <1>4, AnswersAreThree DEF AppendRecords
  <1>6. appends' = [appends EXCEPT ![i] = entry]
    BY <1>1, <1>4
  <1>7. /\ appends' \in Seq(AppendRecords) /\ Len(appends') = n /\ DOMAIN appends' = 1..n
        /\ \A j \in 1..n : appends'[j] = IF j = i THEN entry ELSE appends[j]
    <2>1. i \in 1..Len(appends)
      BY <1>2
    <2>2. /\ appends' \in Seq(AppendRecords) /\ Len(appends') = n
          /\ \A j \in 1..n : appends'[j] = IF j = i THEN entry ELSE appends[j]
      BY <1>2, <1>5, <1>6, <2>1, ExceptSeq DEF LogInv
    <2> QED
      BY <2>2, LenProperties
  <1>8. i \notin Failed /\ i \in 1..n
    BY <1>1, <1>2 DEF Failed
  <1>9. Failed' = IF answer = "failed" THEN Failed \union {i} ELSE Failed
    <2>1. \A j : j \in Failed' <=> j \in 1..n /\ appends'[j].answer = "failed"
      BY <1>7 DEF Failed
    <2>2. \A j : j \in Failed <=> j \in 1..n /\ appends[j].answer = "failed"
      BY <1>2 DEF Failed
    <2>3. i \in Failed' <=> answer = "failed"
      BY <1>5, <1>7, <1>8, <2>1
    <2>4. \A j : j # i => (j \in Failed' <=> j \in Failed)
      BY <1>7, <2>1, <2>2
    <2> QED
      BY <1>8, <2>3, <2>4
  <1>10. logErrors' = Cardinality(Failed')
    <2>1. IsFiniteSet(Failed) /\ Cardinality(Failed) \in Nat /\ logErrors = Cardinality(Failed)
      BY FailuresAreFinite DEF LogInv
    <2>2. CASE answer = "failed"
      BY <1>1, <1>8, <1>9, <2>1, <2>2, FS_AddElement DEF Failures
    <2>3. CASE answer # "failed"
      BY <1>1, <1>9, <2>1, <2>3 DEF Failures
    <2> QED
      BY <2>2, <2>3
  <1>11. Handed' = Handed /\ integration'.durability \in Durabilities
    BY <1>1 DEF Handed, LogInv
  <1>12. Recorded(feed') = Recorded(feed)
    OBVIOUS
  <1>13. appends # <<>>
    BY <1>1, EmptySeq
  <1>14. \A j \in 1..n : appends'[j].sequence = appends[j].sequence
    BY <1>5, <1>7
  <1> QED
    BY <1>2, <1>7, <1>10, <1>11, <1>12, <1>13, <1>14 DEF LogInv

LEMMA LogStep ==
  ASSUME FeedInv, LogInv, EventStep
  PROVE  LogInv'
  <1>1. ASSUME UNCHANGED feed, UNCHANGED logVars PROVE LogInv'
    <2>1. UNCHANGED <<feed, appends, logErrors, integration>>
      BY <1>1 DEF logVars
    <2>2. Failed' = Failed /\ Handed' = Handed
      BY <2>1 DEF Failed, Handed
    <2>3. Recorded(feed') = Recorded(feed)
      BY <2>1
    <2> QED
      BY <2>1, <2>2, <2>3 DEF LogInv
  <1>2. CASE UNCHANGED eventVars /\ (UNCHANGED logVars \/ SettleAppend)
    BY <1>1, <1>2, SettlingIsCounted DEF eventVars
  <1>3. CASE Deliver /\ UNCHANGED logVars
    BY <1>1, <1>3 DEF Deliver
  <1>4. CASE ListenerCalls /\ UNCHANGED logVars
    BY <1>1, <1>4 DEF ListenerCalls, Subscribe, SubscribeReplay, Unsubscribe, StartReading, ReadPage
  <1> QED
    BY <1>2, <1>3, <1>4, LiveEventsAreNotLogged, RecordingIsLogged DEF EventStep

LEMMA LogInvInitially == BusInit => LogInv
  <1>1. SUFFICES ASSUME BusInit PROVE LogInv
    OBVIOUS
  <1>2. appends = <<>> /\ logErrors = 0 /\ feed = <<>>
    BY <1>1 DEF BusInit, LogInit, EventsInit
  <1>3. integration.durability \in Durabilities
    <2>1. PICK o \in LogOptions : IntegrationOk(o) /\ integration = Integration(o)
      BY <1>1 DEF BusInit, LogInit
    <2>2. o.durability \in Durabilities \union {"absent"}
      BY <2>1 DEF IntegrationOk
    <2> QED
      BY <2>1, <2>2 DEF Integration, Durabilities
  <1>4. <<>> \in Seq(AppendRecords) /\ Len(<<>>) = 0
    BY EmptySeq
  <1>5. Recorded(feed) = <<>>
    BY <1>2, OnlyOfNone DEF Recorded
  <1>6. Failed = {}
    BY <1>2 DEF Failed
  <1> QED
    BY <1>2, <1>3, <1>4, <1>5, <1>6, FS_EmptySet DEF LogInv

LEMMA LogFollows ==
  ASSUME FeedInv, LogInv
  PROVE  LogFollowsTheFeed
  <1>1. PICK n \in Nat : n = Len(appends) /\ DOMAIN appends = 1..n
    BY LenProperties DEF LogInv
  <1>2. PICK m \in Nat : m = Len(Recorded(feed)) /\ DOMAIN Recorded(feed) = 1..m
    BY RecordedIsTyped, LenProperties
  <1>3. PICK handed : handed = [i \in DOMAIN appends |-> appends[i].sequence]
    OBVIOUS
  <1>4. CASE Handed
    <2>1. n = m /\ \A i \in 1..n : appends[i].sequence = Recorded(feed)[i].sequence
      BY <1>1, <1>2, <1>4 DEF LogInv
    <2>2. handed = [i \in DOMAIN Recorded(feed) |-> Recorded(feed)[i].sequence]
      BY <1>1, <1>2, <1>3, <2>1
    <2> QED
      BY <1>3, <1>4, <2>2 DEF LogFollowsTheFeed, LogInv, Handed, Failed
  <1>5. CASE ~Handed
    <2>1. appends = <<>> /\ DOMAIN appends = {}
      BY <1>5 DEF LogInv
    <2>2. handed = <<>>
      BY <1>3, <2>1
    <2> QED
      BY <1>3, <1>5, <2>2 DEF LogFollowsTheFeed, LogInv, Handed, Failed
  <1> QED
    BY <1>4, <1>5

--------------------------------------------------------------------------------
(* The listeners.                                                           *)

Modes == {"none", "live", "replay", "reader", "gone"}
AllAsks == Asks \union {NewOptions.ask}
OptionRecords == [mode: Modes, from: Nat, evicted: Nat, ask: AllAsks]
Different == {p \in Listeners \X Listeners : p[1] # p[2]}

SeesTheFeed(l) ==
  IF l \in ToSet(delivering) /\ Matches(l, Last(feed))
    THEN Wanted(l) = Append(seen[l], Last(feed))
    ELSE Wanted(l) = seen[l]

\* The inductive invariant. A listener has a turn once: neither the
\* subscriptions nor those to be called hold it twice, and one that joins
\* while an event is delivered is not among those to be called.
ListenersInv ==
  /\ options \in [Listeners -> OptionRecords]
  /\ seen \in [Listeners -> Seq(EventRecords)]
  /\ subscriptions \in Seq(Listeners) /\ Ordered(subscriptions, Different)
  /\ delivering \in Seq(Listeners) /\ Ordered(delivering, Different)
  /\ \A l \in Listeners : options[l].from <= Len(feed)
  /\ \A l \in Listeners : options[l].mode = "none" => seen[l] = <<>>
  /\ \A l \in ToSet(subscriptions) : options[l].mode \in {"live", "replay"}
  /\ \A l \in ToSet(delivering) : options[l].mode # "none"
  /\ delivering # <<>> => feed # <<>>
  /\ \A l \in ToSet(subscriptions) : SeesTheFeed(l)

LEMMA MembersAreTyped ==
  ASSUME NEW T, NEW s \in Seq(T)
  PROVE  \A x \in ToSet(s) : x \in T
  <1>1. DOMAIN s = 1..Len(s)
    BY LenProperties
  <1> QED
    BY <1>1, ElementOfSeq DEF ToSet

LEMMA LimitsAreLimits ==
  \A ask \in AllAsks : ask.limit \in {NoLimit} \union (Nat \ {0})
  <1>1. NewOptions.ask.limit = NoLimit
    BY DEF NewOptions
  <1> QED
    BY <1>1, AsksAssumption DEF AllAsks

LEMMA SequencesAreNumbers ==
  ASSUME NEW s \in Seq(EventRecords)
  PROVE  \A e \in ToSet(s) : e \in EventRecords /\ e.sequence \in Nat
  <1>1. \A e \in ToSet(s) : e \in EventRecords
    BY MembersAreTyped
  <1>2. \A e \in EventRecords : e.sequence \in Nat
    BY DEF EventRecords
  <1> QED
    BY <1>1, <1>2

LEMMA PartsOfTheFeed ==
  ASSUME NEW T, NEW s \in Seq(T), NEW n \in Nat, n <= Len(s)
  PROVE  SubSeq(s, 1, n) \in Seq(T) /\ SubSeq(s, n + 1, Len(s)) \in Seq(T)
  <1>1. PICK m \in Nat : m = Len(s)
    BY LenProperties
  <1>2. \A i \in 1..n : s[i] \in T
    <2>1. \A i \in 1..n : i \in 1..m
      BY <1>1
    <2> QED
      BY <1>1, <2>1, ElementOfSeq
  <1>3. \A i \in (n + 1)..m : s[i] \in T
    <2>1. \A i \in (n + 1)..m : i \in 1..m
      BY <1>1
    <2> QED
      BY <1>1, <2>1, ElementOfSeq
  <1>4. 1 \in Int /\ n \in Int /\ n + 1 \in Int /\ m \in Int
    OBVIOUS
  <1>5. SubSeq(s, 1, n) \in Seq(T)
    BY <1>2, <1>4, SubSeqProperties
  <1>6. SubSeq(s, n + 1, m) \in Seq(T)
    BY <1>3, <1>4, SubSeqProperties
  <1> QED
    BY <1>1, <1>5, <1>6

LEMMA OptionsTyped ==
  ASSUME ListenersInv, NEW l \in Listeners
  PROVE  /\ options[l].from \in Nat /\ options[l].from <= Len(feed)
         /\ options[l].ask.limit \in {NoLimit} \union (Nat \ {0})
  <1>1. options[l] \in OptionRecords /\ options[l].from <= Len(feed)
    BY DEF ListenersInv
  <1> QED
    BY <1>1, LimitsAreLimits DEF OptionRecords

LEMMA PastAndComing ==
  ASSUME FeedInv, ListenersInv, NEW l \in Listeners
  PROVE  Past(l) \in Seq(EventRecords) /\ Coming(l) \in Seq(EventRecords)
  <1>1. PICK n \in Nat : n = options[l].from /\ n <= Len(feed)
    BY OptionsTyped
  <1>2. feed \in Seq(EventRecords)
    BY DEF FeedInv
  <1>3. SubSeq(feed, 1, n) \in Seq(EventRecords) /\ SubSeq(feed, n + 1, Len(feed)) \in Seq(EventRecords)
    BY <1>1, <1>2, PartsOfTheFeed
  <1>4. Coming(l) \in Seq(EventRecords)
    BY <1>1, <1>3, OnlyMembers DEF Coming
  <1>5. PICK found : found = Only(SubSeq(feed, 1, n), Asked(options[l].ask, options[l].evicted))
    OBVIOUS
  <1>6. found \in Seq(EventRecords)
    BY <1>3, <1>5, OnlyMembers
  <1>7. Limited(found, options[l].ask.limit) \in Seq(EventRecords)
    BY <1>6, OptionsTyped, LimitedIsPrefix
  <1>8. <<>> \in Seq(EventRecords)
    BY EmptySeq
  <1>9. Past(l) \in Seq(EventRecords)
    BY <1>1, <1>5, <1>7, <1>8 DEF Past
  <1> QED
    BY <1>4, <1>9

\* What a publication adds to what is wanted.
LEMMA WantedAfterPublication ==
  ASSUME FeedInv, ListenersInv, NEW l \in Listeners, NEW e \in EventRecords,
         feed' = Append(feed, e), UNCHANGED options
  PROVE  Wanted(l)' = IF Matches(l, e) THEN Append(Wanted(l), e) ELSE Wanted(l)
  <1>1. PICK n \in Nat : n = options[l].from /\ n <= Len(feed)
    BY OptionsTyped
  <1>2. feed \in Seq(EventRecords)
    BY DEF FeedInv
  <1>3. SubSeq(feed', 1, n) = SubSeq(feed, 1, n)
    BY <1>1, <1>2, PrefixOfMore
  <1>4. Past(l)' = Past(l)
    BY <1>1, <1>3 DEF Past, Asked, FieldsMatch
  <1>5. PICK M : M = {x \in EventRecords : Matches(l, x)}
    OBVIOUS
  <1>6. SubSeq(feed', n + 1, Len(feed')) = Append(SubSeq(feed, n + 1, Len(feed)), e)
    BY <1>1, <1>2, RestOfMore
  <1>7. SubSeq(feed, n + 1, Len(feed)) \in Seq(EventRecords)
    BY <1>1, <1>2, PartsOfTheFeed
  <1>8. Coming(l)' = Only(SubSeq(feed', n + 1, Len(feed')), M)
    BY <1>1, <1>5 DEF Coming, Matches, FieldsMatch
  <1>9. Coming(l) = Only(SubSeq(feed, n + 1, Len(feed)), M)
    BY <1>1, <1>5 DEF Coming
  <1>10. Coming(l)' = IF e \in M THEN Append(Coming(l), e) ELSE Coming(l)
    <2>1. PICK rest \in Seq(EventRecords) : rest = SubSeq(feed, n + 1, Len(feed))
      BY <1>7
    <2>2. Only(Append(rest, e), M) = IF e \in M THEN Append(Only(rest, M), e) ELSE Only(rest, M)
      BY OnlyOfMore
    <2>3. Coming(l) = Only(rest, M) /\ Coming(l)' = Only(Append(rest, e), M)
      BY <1>6, <1>8, <1>9, <2>1
    <2> QED
      BY <2>2, <2>3
  <1>11. e \in M <=> Matches(l, e)
    BY <1>5
  <1>12. Past(l) \in Seq(EventRecords) /\ Coming(l) \in Seq(EventRecords)
    BY PastAndComing
  <1>13. Past(l) \o Append(Coming(l), e) = Append(Past(l) \o Coming(l), e)
    <2>1. Append(Coming(l), e) = Coming(l) \o <<e>>
      BY <1>12, AppendIsConcat
    <2>2. Past(l) \o Coming(l) \in Seq(EventRecords)
      BY <1>12, ConcatProperties
    <2>3. Append(Past(l) \o Coming(l), e) = (Past(l) \o Coming(l)) \o <<e>>
      BY <2>2, AppendIsConcat
    <2>4. <<e>> \in Seq(EventRecords)
      OBVIOUS
    <2> QED
      BY <1>12, <2>1, <2>3, <2>4, ConcatAssociative
  <1> QED
    BY <1>4, <1>10, <1>11, <1>13 DEF Wanted

LEMMA PublicationReachesAll ==
  ASSUME FeedInv, ListenersInv, NEW e, e \in EventRecords, PublishActionEvent(e)
  PROVE  ListenersInv'
  <1>1. /\ delivering = <<>> /\ delivering' = subscriptions
        /\ feed' = Append(feed, e) /\ UNCHANGED <<subscriptions, options, seen>>
    BY DEF PublishActionEvent, Idle
  <1>2. feed \in Seq(EventRecords)
    BY DEF FeedInv
  <1>3. feed' # <<>> /\ Len(feed') = Len(feed) + 1 /\ Last(feed') = e
    BY <1>1, <1>2, AppendProperties, LastOfMore
  <1>4. ASSUME NEW l \in ToSet(subscriptions') PROVE SeesTheFeed(l)'
    <2>1. l \in ToSet(subscriptions) /\ l \in Listeners /\ l \in ToSet(delivering')
      BY <1>1, MembersAreTyped DEF ListenersInv
    <2>2. l \notin ToSet(delivering)
      BY <1>1, ToSetOfNone
    <2>3. Wanted(l) = seen[l]
      BY <2>1, <2>2 DEF ListenersInv, SeesTheFeed
    <2>4. Wanted(l)' = IF Matches(l, e) THEN Append(Wanted(l), e) ELSE Wanted(l)
      BY <1>1, <2>1, WantedAfterPublication
    <2>5. Matches(l, Last(feed))' <=> Matches(l, e)
      BY <1>1, <1>3 DEF Matches, FieldsMatch
    <2>6. seen'[l] = seen[l]
      BY <1>1
    <2> QED
      BY <1>3, <2>1, <2>3, <2>4, <2>5, <2>6 DEF SeesTheFeed
  <1>5. ASSUME NEW l \in Listeners PROVE options'[l].from <= Len(feed')
    <2>1. options[l].from \in Nat /\ options[l].from <= Len(feed)
      BY OptionsTyped
    <2>2. Len(feed) \in Nat
      BY <1>2, LenProperties
    <2> QED
      BY <1>1, <1>3, <2>1, <2>2
  <1>6. \A l \in ToSet(delivering') : options'[l].mode # "none"
    BY <1>1 DEF ListenersInv
  <1> QED
    BY <1>1, <1>3, <1>4, <1>5, <1>6 DEF ListenersInv

\* Whose options and feed stay sees what it saw.
LEMMA OthersWantTheSame ==
  ASSUME NEW l \in Listeners, UNCHANGED feed, options'[l] = options[l]
  PROVE  Wanted(l)' = Wanted(l) /\ (Matches(l, Last(feed))' <=> Matches(l, Last(feed)))
  <1>1. Past(l)' = Past(l)
    BY DEF Past, Asked, FieldsMatch
  <1>2. Coming(l)' = Coming(l)
    BY DEF Coming, Matches, FieldsMatch
  <1> QED
    BY <1>1, <1>2 DEF Wanted, Matches, FieldsMatch

LEMMA OthersSeeTheSame ==
  ASSUME NEW l \in Listeners, UNCHANGED feed, options'[l] = options[l], seen'[l] = seen[l],
         l \in ToSet(delivering') <=> l \in ToSet(delivering), SeesTheFeed(l)
  PROVE  SeesTheFeed(l)'
  BY OthersWantTheSame DEF SeesTheFeed

LEMMA DeliveryReachesOne ==
  ASSUME FeedInv, ListenersInv, Deliver
  PROVE  ListenersInv'
  <1> DEFINE l == Head(delivering)
             rest == Tail(delivering)
  <1>1. /\ delivering # <<>> /\ delivering' = rest
        /\ UNCHANGED <<subscriptions, options, feed>>
        /\ seen' = IF l \in ToSet(subscriptions) /\ Matches(l, Last(feed))
                     THEN [seen EXCEPT ![l] = Append(@, Last(feed))]
                     ELSE seen
    BY DEF Deliver, Idle
  <1>2. delivering \in Seq(Listeners) /\ feed \in Seq(EventRecords) /\ feed # <<>>
    BY <1>1 DEF ListenersInv, FeedInv
  <1>3. l \in Listeners /\ rest \in Seq(Listeners) /\ delivering' \in Seq(Listeners)
    BY <1>1, <1>2, HeadTailProperties
  <1>4. Last(feed) \in EventRecords
    <2>1. Len(feed) \in Nat \ {0}
      BY <1>2, EmptySeq
    <2>2. Len(feed) \in 1..Len(feed)
      BY <2>1
    <2> QED
      BY <1>2, <2>2, ElementOfSeq DEF Last
  <1>5. /\ \A k : k \in ToSet(delivering) <=> k \in ToSet(rest) \/ k = l
        /\ l \notin ToSet(rest) /\ Ordered(rest, Different)
    <2>1. PICK n \in Nat : n = Len(rest) /\ DOMAIN rest = 1..n
      BY <1>3, LenProperties
    <2>2. PICK t : t = rest
      OBVIOUS
    <2>3. Len(t) = Len(delivering) - 1 /\ \A i \in 1..Len(t) : t[i] = delivering[i + 1]
      BY <1>1, <1>2, <2>2, HeadTailProperties
    <2>4. PICK m \in Nat : m = Len(delivering) /\ DOMAIN delivering = 1..m
      BY <1>2, LenProperties
    <2>5. m = n + 1 /\ \A i \in 1..n : t[i] = delivering[i + 1]
      BY <2>1, <2>2, <2>3, <2>4
    <2>6. l = delivering[1]
      OBVIOUS
    <2>7. \A i, j \in 1..(n + 1) : i < j => delivering[i] # delivering[j]
      <3>1. \A j \in 1..(n + 1) : \A i \in 1..(j - 1) : <<delivering[i], delivering[j]>> \in Different
        BY <2>4, <2>5 DEF ListenersInv, Ordered
      <3>2. \A j \in 1..(n + 1) : \A i \in 1..(j - 1) : delivering[i] # delivering[j]
        BY <3>1 DEF Different
      <3>3. \A i, j \in 1..(n + 1) : i < j => i \in 1..(j - 1)
        OBVIOUS
      <3> QED
        BY <3>2, <3>3
    <2>8. \A i \in 1..n : i + 1 \in 1..(n + 1) /\ 1 < i + 1 /\ 1 \in 1..(n + 1)
      OBVIOUS
    <2>9. l \notin ToSet(t)
      <3>1. \A i \in 1..n : t[i] # l
        BY <2>5, <2>6, <2>7, <2>8
      <3> QED
        BY <2>1, <2>2, <3>1 DEF ToSet
    <2>10. Ordered(t, Different)
      <3>1. \A j \in 1..n : \A i \in 1..(j - 1) :
              i \in 1..n /\ i + 1 \in 1..(n + 1) /\ j + 1 \in 1..(n + 1) /\ i + 1 < j + 1
        OBVIOUS
      <3>2. \A j \in 1..n : \A i \in 1..(j - 1) : t[i] # t[j] /\ t[i] \in Listeners /\ t[j] \in Listeners
        BY <1>3, <2>1, <2>2, <2>5, <2>7, <3>1, ElementOfSeq
      <3>3. \A j \in 1..n : \A i \in 1..(j - 1) : <<t[i], t[j]>> \in Different
        BY <3>2 DEF Different
      <3> QED
        BY <2>1, <2>2, <3>3 DEF Ordered
    <2>11. \A k : k \in ToSet(delivering) <=> k \in ToSet(t) \/ k = l
      <3>1. \A k : k \in ToSet(delivering) <=> \E j \in 1..(n + 1) : k = delivering[j]
        BY <2>4, <2>5 DEF ToSet
      <3>2. \A k : k \in ToSet(t) <=> \E i \in 1..n : k = t[i]
        BY <2>1, <2>2 DEF ToSet
      <3>3. \A j \in 1..(n + 1) : j = 1 \/ (j - 1 \in 1..n /\ j - 1 + 1 = j)
        OBVIOUS
      <3>4. \A j \in 1..(n + 1) : delivering[j] = l \/ \E i \in 1..n : delivering[j] = t[i]
        BY <2>5, <2>6, <3>3
      <3> QED
        BY <2>5, <2>6, <2>8, <3>1, <3>2, <3>4
    <2> QED
      BY <2>2, <2>9, <2>10, <2>11
  <1> HIDE DEF l, rest
  <1>6. seen' \in [Listeners -> Seq(EventRecords)] /\ \A k \in Listeners : k # l => seen'[k] = seen[k]
    <2>1. seen \in [Listeners -> Seq(EventRecords)]
      BY DEF ListenersInv
    <2>2. PICK more \in Seq(EventRecords) : more = Append(seen[l], Last(feed))
      BY <1>3, <1>4, <2>1, AppendProperties
    <2>3. seen' = [seen EXCEPT ![l] = more] \/ seen' = seen
      BY <1>1, <2>2
    <2> QED
      BY <1>3, <2>1, <2>3
  <1>7. ASSUME NEW k \in ToSet(subscriptions') PROVE SeesTheFeed(k)'
    <2>1. k \in ToSet(subscriptions) /\ k \in Listeners /\ SeesTheFeed(k)
      BY <1>1, MembersAreTyped DEF ListenersInv
    <2>2. CASE k # l
      <3>1. k \in ToSet(delivering') <=> k \in ToSet(delivering)
        BY <1>1, <1>5, <2>2
      <3>2. seen'[k] = seen[k] /\ options'[k] = options[k]
        BY <1>1, <1>6, <2>1, <2>2
      <3> QED
        BY <1>1, <2>1, <3>1, <3>2, OthersSeeTheSame
    <2>3. CASE k = l
      <3>1. k \in ToSet(delivering) /\ k \notin ToSet(delivering')
        BY <1>1, <1>5, <2>3
      <3>2. Wanted(k)' = Wanted(k)
        BY <1>1, <2>1, OthersWantTheSame
      <3>3. seen'[k] = IF Matches(k, Last(feed)) THEN Append(seen[k], Last(feed)) ELSE seen[k]
        BY <1>1, <2>1, <2>3 DEF ListenersInv
      <3>4. Wanted(k)' = seen'[k]
        BY <2>1, <3>1, <3>2, <3>3 DEF SeesTheFeed
      <3> QED
        BY <3>1, <3>4 DEF SeesTheFeed
    <2> QED
      BY <2>2, <2>3
  <1>8. \A k \in Listeners : options'[k].mode = "none" => seen'[k] = <<>>
    <2>1. options[l].mode # "none"
      BY <1>5 DEF ListenersInv
    <2> QED
      BY <1>1, <1>6, <2>1 DEF ListenersInv
  <1>9. \A k \in ToSet(delivering') : options'[k].mode # "none"
    BY <1>1, <1>5 DEF ListenersInv
  <1> QED
    BY <1>1, <1>2, <1>3, <1>5, <1>6, <1>7, <1>8, <1>9 DEF ListenersInv

--------------------------------------------------------------------------------
(* What callers do.                                                         *)

LEMMA JoiningSetsOptions ==
  ASSUME FeedInv, ListenersInv, NEW l \in Listeners, NEW mode \in Modes \ {"none"}, NEW ask \in Asks,
         Joins(l, mode, ask)
  PROVE  /\ options' \in [Listeners -> OptionRecords]
         /\ options[l].mode = "none" /\ l \notin ToSet(subscriptions) /\ l \notin ToSet(delivering)
         /\ \A k \in Listeners : k # l => options'[k] = options[k]
         /\ options'[l].mode = mode /\ options'[l].ask = ask
         /\ options'[l].from = Len(feed) /\ options'[l].evicted = Evicted
  <1>1. PICK o : o = [mode |-> mode, ask |-> ask, from |-> Len(feed), evicted |-> nextSequence - 1 - Len(history)]
    OBVIOUS
  <1>2. o.mode = mode /\ o.ask = ask /\ o.from = Len(feed) /\ o.evicted = Evicted
    BY <1>1 DEF Evicted
  <1>3. Len(feed) \in Nat
    BY LenProperties DEF FeedInv
  <1>4. Evicted \in Nat
    <2>1. PICK n \in Nat : n = Len(history)
      BY LenProperties DEF FeedInv
    <2>2. nextSequence \in Nat /\ n < nextSequence
      BY <2>1 DEF FeedInv
    <2>3. nextSequence - 1 - n \in Nat
      BY <2>2
    <2> QED
      BY <2>1, <2>3 DEF Evicted
  <1>5. o \in OptionRecords
    BY <1>1, <1>3, <1>4 DEF OptionRecords, AllAsks, Evicted
  <1>6. options' = [options EXCEPT ![l] = o] /\ options[l].mode = "none"
    BY <1>1 DEF Joins
  <1>7. options \in [Listeners -> OptionRecords]
    BY DEF ListenersInv
  <1>8. l \notin ToSet(subscriptions) /\ l \notin ToSet(delivering)
    BY <1>6 DEF ListenersInv
  <1> QED
    BY <1>2, <1>5, <1>6, <1>7, <1>8

\* What was asked for was asked for in a feed that only grows.
LEMMA FromTheFeed ==
  ASSUME FeedInv, ListenersInv, UNCHANGED feed, NEW l \in Listeners,
         options'[l].from = Len(feed) \/ options'[l].from = 0,
         \A k \in Listeners : k # l => options'[k] = options[k]
  PROVE  \A k \in Listeners : options'[k].from <= Len(feed')
  <1>1. PICK n \in Nat : n = Len(feed)
    BY LenProperties DEF FeedInv
  <1>2. SUFFICES ASSUME NEW k \in Listeners PROVE options'[k].from <= n
    BY <1>1
  <1>3. CASE k = l
    <2>1. options'[k].from = n \/ options'[k].from = 0
      BY <1>1, <1>3
    <2> QED
      BY <2>1
  <1>4. CASE k # l
    <2>1. options'[k] = options[k]
      BY <1>4
    <2>2. options[k].from <= n
      BY <1>1 DEF ListenersInv
    <2> QED
      BY <2>1, <2>2
  <1> QED
    BY <1>3, <1>4

\* Nothing is published yet to one that has just joined.
LEMMA NothingIsComing ==
  ASSUME FeedInv, NEW l \in Listeners, UNCHANGED feed, options'[l].from = Len(feed)
  PROVE  Coming(l)' = <<>>
  <1>1. PICK n \in Nat : n = Len(feed)
    BY LenProperties DEF FeedInv
  <1>2. n < n + 1 /\ n \in Int /\ n + 1 \in Int
    OBVIOUS
  <1>3. SubSeq(feed, n + 1, n) = <<>>
    BY <1>2, SubSeqEmpty
  <1>4. PICK M : M = {e \in EventRecords : Matches(l, e)'}
    OBVIOUS
  <1>5. Coming(l)' = Only(SubSeq(feed', options'[l].from + 1, Len(feed')), {e \in EventRecords : Matches(l, e)'})
    BY DEF Coming, Matches, FieldsMatch
  <1>6. Coming(l)' = Only(<<>>, M)
    BY <1>1, <1>3, <1>4, <1>5
  <1> QED
    BY <1>6, OnlyOfNone

\* What is retained is what the feed ends with, so the retained events one
\* asks for are those of the feed that have not been evicted.
LEMMA ReplayIsTheFeed ==
  ASSUME FeedInv, NEW ask \in Asks
  PROVE  ReadHistory(ask, 0) = Limited(Only(feed, Asked(ask, Evicted)), ask.limit)
  <1>1. Evicted \in Nat
    <2>1. PICK n \in Nat : n = Len(history)
      BY LenProperties DEF FeedInv
    <2>2. nextSequence \in Nat /\ n < nextSequence
      BY <2>1 DEF FeedInv
    <2>3. nextSequence - 1 - n \in Nat
      BY <2>2
    <2> QED
      BY <2>1, <2>3 DEF Evicted
  <1>2. Retained \intersect Asked(ask, 0) = Asked(ask, Evicted)
    <2>1. \A e \in EventRecords : e.sequence \in Nat
      BY DEF EventRecords
    <2>2. \A k \in Nat : k > Evicted /\ k > 0 <=> k > Evicted
      BY <1>1
    <2>3. \A e : e \in Retained <=> e \in EventRecords /\ e.sequence > Evicted
      BY DEF Retained
    <2>4. \A e : e \in Asked(ask, 0) <=> e \in EventRecords /\ FieldsMatch(e, ask) /\ e.sequence > 0
      BY DEF Asked
    <2>5. \A e : e \in Asked(ask, Evicted) <=> e \in EventRecords /\ FieldsMatch(e, ask) /\ e.sequence > Evicted
      BY DEF Asked
    <2>6. \A e : e \in Retained /\ e \in Asked(ask, 0) <=> e \in Asked(ask, Evicted)
      BY <2>1, <2>2, <2>3, <2>4, <2>5
    <2> QED
      BY <2>6
  <1>3. feed \in Seq(EventRecords) /\ history = Only(feed, Retained)
    BY DEF FeedInv
  <1>4. Only(history, Asked(ask, 0)) = Only(feed, Asked(ask, Evicted))
    BY <1>2, <1>3, OnlyTwice
  <1> QED
    BY <1>4 DEF ReadHistory

\* Who joins, live or with a replay, is last among the subscribers and has
\* what it wants.
LEMMA SubscribingSeesTheFeed ==
  ASSUME FeedInv, ListenersInv, NEW l \in Listeners, NEW mode \in {"live", "replay"}, NEW ask \in Asks,
         Joins(l, mode, ask), subscriptions' = Append(subscriptions, l), UNCHANGED <<feed, delivering>>,
         IF mode = "live" THEN UNCHANGED seen ELSE seen' = [seen EXCEPT ![l] = ReadHistory(ask, 0)]
  PROVE  ListenersInv'
  <1>1. mode \in Modes \ {"none"}
    BY DEF Modes
  <1>2. /\ options' \in [Listeners -> OptionRecords]
        /\ options[l].mode = "none" /\ l \notin ToSet(subscriptions) /\ l \notin ToSet(delivering)
        /\ \A k \in Listeners : k # l => options'[k] = options[k]
        /\ options'[l].mode = mode /\ options'[l].ask = ask
        /\ options'[l].from = Len(feed) /\ options'[l].evicted = Evicted
    BY <1>1, JoiningSetsOptions
  <1>3. feed \in Seq(EventRecords) /\ feed' = feed /\ Len(feed) \in Nat
    BY LenProperties DEF FeedInv
  <1>4. PICK found : found = ReadHistory(ask, 0)
    OBVIOUS
  <1>5. found \in Seq(EventRecords)
    <2>1. history \in Seq(EventRecords)
      BY DEF FeedInv
    <2>2. Only(history, Asked(ask, 0)) \in Seq(EventRecords)
      BY <2>1, OnlyMembers
    <2>3. ask.limit \in {NoLimit} \union (Nat \ {0})
      BY LimitsAreLimits DEF AllAsks
    <2> QED
      BY <1>4, <2>2, <2>3, LimitedIsPrefix DEF ReadHistory
  <1>6. seen \in [Listeners -> Seq(EventRecords)] /\ seen[l] = <<>>
    BY <1>2 DEF ListenersInv
  <1>7. /\ seen' \in [Listeners -> Seq(EventRecords)] /\ \A k \in Listeners : k # l => seen'[k] = seen[k]
        /\ seen'[l] = IF mode = "live" THEN <<>> ELSE found
    <2>1. CASE mode = "live"
      BY <1>6, <2>1
    <2>2. CASE mode # "live"
      <3>1. seen' = [seen EXCEPT ![l] = found]
        BY <1>4, <2>2
      <3> QED
        BY <1>5, <1>6, <2>2, <3>1
    <2> QED
      BY <2>1, <2>2
  <1>8. Wanted(l)' = seen'[l]
    <2>1. Coming(l)' = <<>>
      BY <1>2, NothingIsComing
    <2>2. Past(l)' = IF mode = "live" THEN <<>> ELSE found
      <3>1. Past(l)' = IF mode = "live" THEN <<>>
                       ELSE Limited(Only(SubSeq(feed, 1, Len(feed)), Asked(ask, Evicted)), ask.limit)
        BY <1>2, <1>3 DEF Past, Asked, FieldsMatch
      <3>2. SubSeq(feed, 1, Len(feed)) = feed
        BY <1>3, SubSeqFull
      <3>3. found = Limited(Only(feed, Asked(ask, Evicted)), ask.limit)
        BY <1>4, ReplayIsTheFeed
      <3> QED
        BY <3>1, <3>2, <3>3
    <2>3. <<>> \in Seq(EventRecords)
      BY EmptySeq
    <2>4. Past(l)' \in Seq(EventRecords) /\ Past(l)' = seen'[l]
      BY <1>5, <1>7, <2>2, <2>3
    <2>5. Past(l)' \o <<>> = Past(l)'
      BY <2>4, ConcatEmptySeq
    <2> QED
      BY <2>1, <2>4, <2>5 DEF Wanted
  <1>9. /\ subscriptions' \in Seq(Listeners)
        /\ \A k : k \in ToSet(subscriptions') <=> k \in ToSet(subscriptions) \/ k = l
    BY AppendProperties, ToSetOfMore DEF ListenersInv
  <1>10. Ordered(subscriptions', Different)
    <2>1. \A k \in ToSet(subscriptions) : k \in Listeners /\ k # l
      BY <1>2, MembersAreTyped DEF ListenersInv
    <2>2. \A k \in ToSet(subscriptions) : <<k, l>> \in Different
      BY <2>1 DEF Different
    <2> QED
      BY <2>2, OrderedMore DEF ListenersInv
  <1>11. ASSUME NEW k \in ToSet(subscriptions') PROVE SeesTheFeed(k)'
    <2>1. CASE k = l
      BY <1>2, <1>8, <2>1 DEF SeesTheFeed
    <2>2. CASE k # l
      <3>1. k \in ToSet(subscriptions) /\ k \in Listeners /\ SeesTheFeed(k)
        BY <1>9, <2>2, MembersAreTyped DEF ListenersInv
      <3>2. seen'[k] = seen[k] /\ options'[k] = options[k]
        BY <1>2, <1>7, <2>2, <3>1
      <3> QED
        BY <3>1, <3>2, OthersSeeTheSame
    <2> QED
      BY <2>1, <2>2
  <1>12. \A k \in Listeners : options'[k].from <= Len(feed')
    BY <1>2, <1>3, FromTheFeed
  <1>13. \A k \in Listeners : options'[k].mode = "none" => seen'[k] = <<>>
    BY <1>1, <1>2, <1>7 DEF ListenersInv
  <1>14. \A k \in ToSet(subscriptions') : options'[k].mode \in {"live", "replay"}
    <2>1. \A k \in ToSet(subscriptions) : k \in Listeners /\ k # l
      BY <1>2, MembersAreTyped DEF ListenersInv
    <2> QED
      BY <1>2, <1>9, <2>1 DEF ListenersInv
  <1>15. \A k \in ToSet(delivering) : options'[k].mode # "none"
    <2>1. \A k \in ToSet(delivering) : k \in Listeners /\ k # l
      BY <1>2, MembersAreTyped DEF ListenersInv
    <2> QED
      BY <1>2, <2>1 DEF ListenersInv
  <1>16. delivering \in Seq(Listeners) /\ Ordered(delivering, Different) /\ (delivering # <<>> => feed # <<>>)
    BY DEF ListenersInv
  <1> QED
    BY <1>2, <1>7, <1>9, <1>10, <1>11, <1>12, <1>13, <1>14, <1>15, <1>16 DEF ListenersInv

LEMMA UnsubscribingIsSilent ==
  ASSUME FeedInv, ListenersInv, NEW l \in Listeners, Unsubscribe(l)
  PROVE  ListenersInv'
  <1>1. /\ l \in ToSet(subscriptions) /\ subscriptions' = Only(subscriptions, Listeners \ {l})
        /\ seen' = [seen EXCEPT ![l] = <<>>] /\ UNCHANGED <<history, nextSequence, delivering, feed>>
    BY DEF Unsubscribe
  <1>2. PICK o : o = [NewOptions EXCEPT !.mode = "gone"]
    OBVIOUS
  <1>3. o.mode = "gone" /\ o.from = 0 /\ o.evicted = 0 /\ o.ask = NewOptions.ask
    BY <1>2 DEF NewOptions
  <1>4. o \in OptionRecords
    <2>1. o = [mode |-> "gone", from |-> 0, evicted |-> 0, ask |-> NewOptions.ask]
      BY <1>2 DEF NewOptions
    <2> QED
      BY <2>1 DEF OptionRecords, Modes, AllAsks
  <1>5. options' = [options EXCEPT ![l] = o]
    BY <1>2 DEF Unsubscribe
  <1>6. /\ options' \in [Listeners -> OptionRecords] /\ options'[l] = o
        /\ \A k \in Listeners : k # l => options'[k] = options[k]
    BY <1>4, <1>5 DEF ListenersInv
  <1>7. <<>> \in Seq(EventRecords)
    BY EmptySeq
  <1>8. /\ seen' \in [Listeners -> Seq(EventRecords)] /\ seen'[l] = <<>>
        /\ \A k \in Listeners : k # l => seen'[k] = seen[k]
    BY <1>1, <1>7 DEF ListenersInv
  <1>9. /\ subscriptions' \in Seq(Listeners) /\ Ordered(subscriptions', Different)
        /\ \A k : k \in ToSet(subscriptions') <=> k \in ToSet(subscriptions) /\ k \in Listeners /\ k # l
    BY <1>1, OnlyMembers, OnlyInOrder DEF ListenersInv
  <1>10. ASSUME NEW k \in ToSet(subscriptions') PROVE SeesTheFeed(k)'
    <2>1. k \in ToSet(subscriptions) /\ k \in Listeners /\ k # l /\ SeesTheFeed(k)
      BY <1>9 DEF ListenersInv
    <2>2. seen'[k] = seen[k] /\ options'[k] = options[k]
      BY <1>6, <1>8, <2>1
    <2> QED
      BY <1>1, <2>1, <2>2, OthersSeeTheSame
  <1>12. \A k \in Listeners : options'[k].from <= Len(feed')
    BY <1>1, <1>3, <1>6, FromTheFeed
  <1>13. \A k \in Listeners : options'[k].mode = "none" => seen'[k] = <<>>
    BY <1>6, <1>8 DEF ListenersInv
  <1>14. \A k \in ToSet(subscriptions') : options'[k].mode \in {"live", "replay"}
    BY <1>6, <1>9 DEF ListenersInv
  <1>15. \A k \in ToSet(delivering) : options'[k].mode # "none"
    <2>1. \A k \in ToSet(delivering) : k \in Listeners
      BY MembersAreTyped DEF ListenersInv
    <2> QED
      BY <1>3, <1>6, <2>1 DEF ListenersInv
  <1>16. delivering \in Seq(Listeners) /\ Ordered(delivering, Different) /\ (delivering # <<>> => feed # <<>>)
    BY DEF ListenersInv
  <1> QED
    BY <1>1, <1>6, <1>8, <1>9, <1>10, <1>12, <1>13, <1>14, <1>15, <1>16 DEF ListenersInv

LEMMA StartingToReadIsSilent ==
  ASSUME FeedInv, ListenersInv, NEW l \in Listeners, StartReading(l)
  PROVE  ListenersInv'
  <1>1. PICK ask \in Asks : Joins(l, "reader", ask)
    BY DEF StartReading
  <1>2. UNCHANGED <<history, nextSequence, subscriptions, delivering, feed, seen>>
    BY DEF StartReading
  <1>3. "reader" \in Modes \ {"none"}
    BY DEF Modes
  <1>4. /\ options' \in [Listeners -> OptionRecords]
        /\ l \notin ToSet(subscriptions) /\ l \notin ToSet(delivering)
        /\ \A k \in Listeners : k # l => options'[k] = options[k]
        /\ options'[l].mode = "reader" /\ options'[l].from = Len(feed)
    BY <1>1, <1>3, JoiningSetsOptions
  <1>6. \A k \in ToSet(subscriptions) : k \in Listeners /\ k # l
    BY <1>4, MembersAreTyped DEF ListenersInv
  <1>7. ASSUME NEW k \in ToSet(subscriptions') PROVE SeesTheFeed(k)'
    <2>1. k \in Listeners /\ k # l /\ SeesTheFeed(k)
      BY <1>2, <1>6, <1>7 DEF ListenersInv
    <2> QED
      BY <1>2, <1>4, <2>1, OthersSeeTheSame
  <1>8. \A k \in Listeners : options'[k].from <= Len(feed')
    BY <1>2, <1>4, FromTheFeed
  <1>9. \A k \in Listeners : options'[k].mode = "none" => seen'[k] = <<>>
    BY <1>2, <1>4 DEF ListenersInv
  <1>10. \A k \in ToSet(subscriptions') : options'[k].mode \in {"live", "replay"}
    BY <1>2, <1>4, <1>6 DEF ListenersInv
  <1>11. \A k \in ToSet(delivering') : options'[k].mode # "none"
    <2>1. \A k \in ToSet(delivering) : k \in Listeners /\ k # l
      BY <1>4, MembersAreTyped DEF ListenersInv
    <2> QED
      BY <1>2, <1>4, <2>1 DEF ListenersInv
  <1> QED
    BY <1>2, <1>4, <1>7, <1>8, <1>9, <1>10, <1>11 DEF ListenersInv

LEMMA ReadingIsSilent ==
  ASSUME FeedInv, ListenersInv, NEW l \in Listeners, ReadPage(l)
  PROVE  ListenersInv'
  <1>1. PICK page : page = ReadHistory(options[l].ask, Last0(seen[l]))
    OBVIOUS
  <1>2. /\ options[l].mode = "reader" /\ seen' = [seen EXCEPT ![l] = @ \o page]
        /\ UNCHANGED <<history, nextSequence, subscriptions, delivering, options, feed>>
    BY <1>1 DEF ReadPage
  <1>3. page \in Seq(EventRecords)
    <2>1. history \in Seq(EventRecords)
      BY DEF FeedInv
    <2>2. Only(history, Asked(options[l].ask, Last0(seen[l]))) \in Seq(EventRecords)
      BY <2>1, OnlyMembers
    <2> QED
      BY <1>1, <2>2, OptionsTyped, LimitedIsPrefix DEF ReadHistory
  <1>4. seen \in [Listeners -> Seq(EventRecords)]
    BY DEF ListenersInv
  <1>5. PICK more \in Seq(EventRecords) : more = seen[l] \o page
    BY <1>3, <1>4, ConcatProperties
  <1>6. seen' \in [Listeners -> Seq(EventRecords)] /\ \A k \in Listeners : k # l => seen'[k] = seen[k]
    BY <1>2, <1>4, <1>5
  <1>7. \A k \in ToSet(subscriptions) : k \in Listeners /\ k # l
    BY <1>2, MembersAreTyped DEF ListenersInv
  <1>8. ASSUME NEW k \in ToSet(subscriptions') PROVE SeesTheFeed(k)'
    <2>1. k \in Listeners /\ k # l /\ SeesTheFeed(k)
      BY <1>2, <1>7, <1>8 DEF ListenersInv
    <2> QED
      BY <1>2, <1>6, <2>1, OthersSeeTheSame
  <1>9. \A k \in Listeners : options'[k].mode = "none" => seen'[k] = <<>>
    BY <1>2, <1>6 DEF ListenersInv
  <1> QED
    BY <1>2, <1>6, <1>8, <1>9 DEF ListenersInv

LEMMA ListenersStep ==
  ASSUME FeedInv, ListenersInv, EventStep
  PROVE  ListenersInv'
  <1>1. CASE UNCHANGED eventVars
    <2>1. UNCHANGED <<subscriptions, delivering, options, feed, seen>>
      BY <1>1 DEF eventVars
    <2>2. \A k \in ToSet(subscriptions) : SeesTheFeed(k)'
      <3>1. \A k \in ToSet(subscriptions) : k \in Listeners /\ SeesTheFeed(k)
        BY MembersAreTyped DEF ListenersInv
      <3> QED
        BY <2>1, <3>1, OthersSeeTheSame
    <2> QED
      BY <2>1, <2>2 DEF ListenersInv
  <1>2. CASE Deliver
    BY <1>2, DeliveryReachesOne
  <1>3. CASE ListenerCalls
    <2>1. ASSUME NEW l \in Listeners, Subscribe(l) PROVE ListenersInv'
      <3>1. PICK ask \in Asks : Joins(l, "live", ask)
        BY <2>1 DEF Subscribe
      <3>2. subscriptions' = Append(subscriptions, l) /\ UNCHANGED <<feed, delivering, seen>>
        BY <2>1 DEF Subscribe
      <3> QED
        BY <3>1, <3>2, SubscribingSeesTheFeed
    <2>2. ASSUME NEW l \in Listeners, SubscribeReplay(l) PROVE ListenersInv'
      <3>1. PICK ask \in Asks : Joins(l, "replay", ask) /\ seen' = [seen EXCEPT ![l] = ReadHistory(ask, 0)]
        BY <2>2 DEF SubscribeReplay
      <3>2. subscriptions' = Append(subscriptions, l) /\ UNCHANGED <<feed, delivering>>
        BY <2>2 DEF SubscribeReplay
      <3>3. "replay" # "live" /\ "replay" \in {"live", "replay"}
        OBVIOUS
      <3> QED
        BY <3>1, <3>2, <3>3, SubscribingSeesTheFeed
    <2> QED
      BY <1>3, <2>1, <2>2, UnsubscribingIsSilent, StartingToReadIsSilent, ReadingIsSilent DEF ListenerCalls
  <1>4. ASSUME NEW e, WellMade(e), Recording(e) \/ LiveOnly(e) PROVE ListenersInv'
    <2>1. e \in EventRecords /\ PublishActionEvent(e)
      BY <1>4 DEF WellMade, Recording, LiveOnly
    <2> QED
      BY <2>1, PublicationReachesAll
  <1> QED
    BY <1>1, <1>2, <1>3, <1>4 DEF EventStep

LEMMA ListenersInvInitially == BusInit => ListenersInv
  <1>1. SUFFICES ASSUME BusInit PROVE ListenersInv
    OBVIOUS
  <1>2. /\ subscriptions = <<>> /\ delivering = <<>> /\ feed = <<>>
        /\ options = [l \in Listeners |-> NewOptions] /\ seen = [l \in Listeners |-> <<>>]
    BY <1>1 DEF BusInit, EventsInit
  <1>3. <<>> \in Seq(Listeners) /\ <<>> \in Seq(EventRecords) /\ Len(<<>>) = 0
    BY EmptySeq
  <1>4. NewOptions \in OptionRecords /\ NewOptions.from = 0
    <2>1. PICK ask \in AllAsks : ask = NewOptions.ask
      BY DEF AllAsks
    <2>2. NewOptions = [mode |-> "none", from |-> 0, evicted |-> 0, ask |-> ask]
      BY <2>1 DEF NewOptions
    <2> QED
      BY <2>2 DEF OptionRecords, Modes
  <1>5. Ordered(<<>>, Different)
    BY DEF Ordered
  <1>6. \A k : k \notin ToSet(<<>>)
    BY ToSetOfNone
  <1> QED
    BY <1>2, <1>3, <1>4, <1>5, <1>6 DEF ListenersInv

--------------------------------------------------------------------------------
(* The readers.                                                             *)

Below == {p \in EventRecords \X EventRecords : p[1].sequence < p[2].sequence}

\* The inductive invariant: up to its cursor a reader has what it asked for,
\* except what has been evicted.
ReaderInv(l) ==
  options[l].mode = "reader" =>
    /\ Ordered(seen[l], Below)
    /\ \A e \in ToSet(seen[l]) : e.sequence < nextSequence
    /\ \A e \in ToSet(feed) \ ToSet(seen[l]) :
         e.sequence > 0 /\ FieldsMatch(e, options[l].ask) /\ e.sequence <= Last0(seen[l]) => e.sequence <= Evicted

ReadersInv == \A l \in Listeners : ReaderInv(l)

LEMMA ToSetOfBoth ==
  ASSUME NEW T, NEW s \in Seq(T), NEW t \in Seq(T), NEW R,
         Ordered(s, R), Ordered(t, R), \A x \in ToSet(s), y \in ToSet(t) : <<x, y>> \in R
  PROVE  /\ \A x : x \in ToSet(s \o t) <=> x \in ToSet(s) \/ x \in ToSet(t)
         /\ Ordered(s \o t, R)
  <1>1. PICK m \in Nat : m = Len(s) /\ DOMAIN s = 1..m
    BY LenProperties
  <1>2. PICK n \in Nat : n = Len(t) /\ DOMAIN t = 1..n
    BY LenProperties
  <1>3. PICK u : u = s \o t
    OBVIOUS
  <1>4. u \in Seq(T) /\ Len(u) = m + n /\ \A i \in 1..(m + n) : u[i] = IF i <= m THEN s[i] ELSE t[i - m]
    BY <1>1, <1>2, <1>3, ConcatProperties
  <1>5. DOMAIN u = 1..(m + n)
    BY <1>4, LenProperties
  <1>6. \A i \in 1..m : i \in 1..(m + n) /\ u[i] = s[i]
    BY <1>4
  <1>7. \A i \in 1..n : m + i \in 1..(m + n) /\ u[m + i] = t[i]
    <2>1. \A i \in 1..n : m + i \in 1..(m + n) /\ ~(m + i <= m) /\ m + i - m = i
      OBVIOUS
    <2> QED
      BY <1>4, <2>1
  <1>8. \A i \in 1..(m + n) : i \in 1..m \/ (i - m \in 1..n /\ ~(i <= m))
    OBVIOUS
  <1>9. \A x : x \in ToSet(u) <=> x \in ToSet(s) \/ x \in ToSet(t)
    <2>1. \A x : x \in ToSet(u) <=> \E i \in 1..(m + n) : x = u[i]
      BY <1>5 DEF ToSet
    <2>2. \A x : x \in ToSet(s) <=> \E i \in 1..m : x = s[i]
      BY <1>1 DEF ToSet
    <2>3. \A x : x \in ToSet(t) <=> \E i \in 1..n : x = t[i]
      BY <1>2 DEF ToSet
    <2>4. \A i \in 1..(m + n) : (\E j \in 1..m : u[i] = s[j]) \/ (\E j \in 1..n : u[i] = t[j])
      BY <1>4, <1>6, <1>8
    <2>5. \A x : x \in ToSet(u) => x \in ToSet(s) \/ x \in ToSet(t)
      BY <2>1, <2>2, <2>3, <2>4
    <2>6. \A x : x \in ToSet(s) \/ x \in ToSet(t) => x \in ToSet(u)
      BY <1>6, <1>7, <2>1, <2>2, <2>3
    <2> QED
      BY <2>5, <2>6
  <1>10. ASSUME NEW j \in 1..(m + n), NEW i \in 1..(j - 1) PROVE <<u[i], u[j]>> \in R
    <2>1. CASE j <= m
      <3>1. j \in 1..m /\ i \in 1..m
        BY <2>1
      <3>2. <<s[i], s[j]>> \in R
        BY <1>1, <3>1 DEF Ordered
      <3> QED
        BY <1>6, <3>1, <3>2
    <2>2. CASE ~(j <= m) /\ i <= m
      <3>1. i \in 1..m /\ j - m \in 1..n
        BY <2>2
      <3>2. s[i] \in ToSet(s) /\ t[j - m] \in ToSet(t)
        BY <1>1, <1>2, <3>1 DEF ToSet
      <3>3. u[i] = s[i] /\ u[j] = t[j - m]
        BY <1>4, <1>6, <2>2, <3>1
      <3> QED
        BY <3>2, <3>3
    <2>3. CASE ~(j <= m) /\ ~(i <= m)
      <3>1. j - m \in 1..n /\ i - m \in 1..((j - m) - 1) /\ i \in 1..(m + n)
        BY <2>3
      <3>2. <<t[i - m], t[j - m]>> \in R
        BY <1>2, <3>1 DEF Ordered
      <3>3. u[i] = t[i - m] /\ u[j] = t[j - m]
        BY <1>4, <2>3, <3>1
      <3> QED
        BY <3>2, <3>3
    <2> QED
      BY <2>1, <2>2, <2>3
  <1>11. Ordered(u, R)
    BY <1>5, <1>10 DEF Ordered
  <1> QED
    BY <1>3, <1>9, <1>11

LEMMA LastIsHighest ==
  ASSUME NEW s \in Seq(EventRecords), Ordered(s, Below)
  PROVE  /\ Last0(s) \in Nat
         /\ \A e \in ToSet(s) : e.sequence <= Last0(s)
         /\ s # <<>> => Last0(s) = s[Len(s)].sequence /\ s[Len(s)] \in ToSet(s)
  <1>1. PICK n \in Nat : n = Len(s) /\ DOMAIN s = 1..n
    BY LenProperties
  <1>2. CASE s = <<>>
    BY <1>2, ToSetOfNone DEF Last0
  <1>3. CASE s # <<>>
    <2>1. n \in 1..n
      <3>1. n # 0
        BY <1>1, <1>3, EmptySeq
      <3> QED
        BY <3>1
    <2>2. s[n] \in EventRecords /\ s[n] \in ToSet(s)
      BY <1>1, <2>1, ElementOfSeq DEF ToSet
    <2>3. Last0(s) = s[n].sequence /\ s[n].sequence \in Nat
      BY <1>1, <1>3, <2>2 DEF Last0, Last, EventRecords
    <2>4. ASSUME NEW e \in ToSet(s) PROVE e.sequence <= s[n].sequence
      <3>1. PICK i \in 1..n : e = s[i]
        BY <1>1, <2>4 DEF ToSet
      <3>2. CASE i = n
        BY <2>3, <3>1, <3>2
      <3>3. CASE i # n
        <4>1. i \in 1..(n - 1)
          BY <3>3
        <4>2. <<s[i], s[n]>> \in Below
          BY <1>1, <2>1, <4>1 DEF Ordered
        <4>3. e.sequence < s[n].sequence /\ e.sequence \in Nat
          BY <3>1, <4>2 DEF Below, EventRecords
        <4> QED
          BY <2>3, <4>3
      <3> QED
        BY <3>2, <3>3
    <2> QED
      BY <1>1, <2>2, <2>3, <2>4
  <1> QED
    BY <1>2, <1>3

LEMMA HistoryIsInOrder == FeedInv => Ordered(history, Below)
  <1>1. SUFFICES ASSUME FeedInv PROVE Ordered(history, Below)
    OBVIOUS
  <1>2. PICK n \in Nat : n = Len(history) /\ DOMAIN history = 1..n
    BY <1>1, LenProperties DEF FeedInv
  <1>3. PICK z \in Nat : z = Evicted
    <2>1. nextSequence \in Nat /\ n < nextSequence
      BY <1>1, <1>2 DEF FeedInv
    <2>2. nextSequence - 1 - n \in Nat
      BY <2>1
    <2> QED
      BY <1>2, <2>2 DEF Evicted
  <1>4. \A i \in 1..n : history[i] \in EventRecords /\ history[i].sequence = z + i
    BY <1>1, <1>2, <1>3, ElementOfSeq DEF FeedInv
  <1>5. \A j \in 1..n : \A i \in 1..(j - 1) : i \in 1..n /\ z + i < z + j
    OBVIOUS
  <1>6. \A j \in 1..n : \A i \in 1..(j - 1) : <<history[i], history[j]>> \in Below
    BY <1>4, <1>5 DEF Below
  <1> QED
    BY <1>2, <1>6 DEF Ordered

LEMMA EvictedIsNat == FeedInv => Evicted \in Nat /\ Evicted < nextSequence /\ nextSequence \in Nat
  <1>1. SUFFICES ASSUME FeedInv PROVE Evicted \in Nat /\ Evicted < nextSequence /\ nextSequence \in Nat
    OBVIOUS
  <1>2. PICK n \in Nat : n = Len(history)
    BY <1>1, LenProperties DEF FeedInv
  <1>3. nextSequence \in Nat /\ n < nextSequence
    BY <1>1, <1>2 DEF FeedInv
  <1>4. nextSequence - 1 - n \in Nat /\ nextSequence - 1 - n < nextSequence
    BY <1>3
  <1> QED
    BY <1>2, <1>3, <1>4 DEF Evicted

\* What is evicted stays evicted.
LEMMA EvictionGoesOn ==
  ASSUME FeedInv, NEW e, WellMade(e), Recording(e)
  PROVE  Evicted' \in Nat /\ Evicted' >= Evicted
  <1>1. PICK more : more = Append(history, e)
    OBVIOUS
  <1>2. history' = EvictOverflow(more) /\ nextSequence' = nextSequence + 1 /\ e \in EventRecords
    BY <1>1 DEF Recording, WellMade
  <1>3. PICK n \in Nat : n = Len(history)
    BY LenProperties DEF FeedInv
  <1>4. more \in Seq(EventRecords) /\ Len(more) = n + 1
    BY <1>1, <1>2, <1>3, AppendProperties DEF FeedInv
  <1>5. MaxEvents \in Nat /\ MaxEvents >= 1 /\ nextSequence \in Nat
    BY EventsAssumption DEF FeedInv
  <1>6. Len(history') \in Nat /\ Len(history') <= n + 1
    <2>1. CASE n + 1 <= MaxEvents
      BY <1>2, <1>4, <1>5, <2>1 DEF EvictOverflow
    <2>2. CASE n + 1 > MaxEvents
      <3>1. PICK k \in Nat : k = 1 + (n + 1) - MaxEvents /\ k >= 1
        BY <1>5, <2>2
      <3>2. history' = SubSeq(more, k, n + 1)
        BY <1>2, <1>4, <2>2, <3>1 DEF EvictOverflow
      <3>3. \A i \in k..(n + 1) : i \in 1..(n + 1)
        BY <3>1
      <3>4. \A i \in k..(n + 1) : more[i] \in EventRecords
        BY <1>4, <3>3, ElementOfSeq
      <3>5. k \in Int /\ n + 1 \in Int
        BY <3>1
      <3>6. Len(history') = IF k <= n + 1 THEN n + 1 - k + 1 ELSE 0
        BY <3>2, <3>4, <3>5, SubSeqProperties
      <3> QED
        BY <3>1, <3>6
    <2> QED
      BY <1>5, <2>1, <2>2
  <1>7. PICK m \in Nat : m = Len(history') /\ m <= n + 1
    BY <1>6
  <1>8. nextSequence + 1 - 1 - m >= nextSequence - 1 - n /\ nextSequence + 1 - 1 - m \in Int
    BY <1>5, <1>7
  <1>9. Evicted' = nextSequence + 1 - 1 - m /\ Evicted = nextSequence - 1 - n
    <2>1. Evicted' = nextSequence' - 1 - Len(history')
      BY DEF Evicted
    <2>2. nextSequence' = nextSequence + 1
      BY <1>2
    <2>3. Evicted' = nextSequence + 1 - 1 - m
      BY <1>5, <1>7, <2>1, <2>2
    <2> QED
      BY <1>3, <2>3 DEF Evicted
  <1>10. Evicted \in Nat
    BY EvictedIsNat
  <1> QED
    BY <1>8, <1>9, <1>10

\* A page is the next of what the reader asked for: in order, behind its
\* cursor, and nothing that is retained is skipped.
LEMMA PageGoesOn ==
  ASSUME FeedInv, NEW ask \in AllAsks, NEW after \in Nat, NEW page,
         page = ReadHistory(ask, after), page # <<>>
  PROVE  /\ page \in Seq(EventRecords) /\ Ordered(page, Below)
         /\ \A e \in ToSet(page) : e \in ToSet(feed) /\ e.sequence > after
         /\ \A e \in ToSet(feed) \ ToSet(page) :
              FieldsMatch(e, ask) /\ e.sequence > after /\ e.sequence <= Last0(page) => e.sequence <= Evicted
  <1>1. history \in Seq(EventRecords) /\ feed \in Seq(EventRecords) /\ history = Only(feed, Retained)
    BY DEF FeedInv
  <1>2. \A e : e \in ToSet(history) <=> e \in ToSet(feed) /\ e \in Retained
    BY <1>1, OnlyMembers
  <1>3. PICK found : found = Only(history, Asked(ask, after))
    OBVIOUS
  <1>4. /\ found \in Seq(EventRecords) /\ Ordered(found, Below)
        /\ \A e : e \in ToSet(found) <=> e \in ToSet(history) /\ e \in Asked(ask, after)
    BY <1>1, <1>3, OnlyMembers, OnlyInOrder, HistoryIsInOrder
  <1>5. PICK n \in Nat : n = Len(found) /\ DOMAIN found = 1..n
    BY <1>4, LenProperties
  <1>6. page = Limited(found, ask.limit)
    BY <1>3 DEF ReadHistory
  <1>7. ask.limit \in {NoLimit} \union (Nat \ {0})
    BY LimitsAreLimits
  <1>8. PICK k \in 0..n : page \in Seq(EventRecords) /\ Len(page) = k /\ \A i \in 1..k : page[i] = found[i]
    BY <1>4, <1>5, <1>6, <1>7, LimitedIsPrefix
  <1>9. DOMAIN page = 1..k /\ k \in 1..k /\ k \in 1..n /\ \A i \in 1..k : i \in 1..n
    <2>1. DOMAIN page = 1..k
      BY <1>8, LenProperties
    <2>2. k # 0
      BY <1>8, EmptySeq
    <2> QED
      BY <2>1, <2>2
  <1>10. Ordered(page, Below)
    <2>1. \A j \in 1..k : \A i \in 1..(j - 1) : i \in 1..k
      OBVIOUS
    <2>2. \A j \in 1..k : \A i \in 1..(j - 1) : <<found[i], found[j]>> \in Below
      BY <1>4, <1>5, <1>9 DEF Ordered
    <2>3. \A j \in 1..k : \A i \in 1..(j - 1) : <<page[i], page[j]>> \in Below
      BY <1>8, <2>1, <2>2
    <2> QED
      BY <1>9, <2>3 DEF Ordered
  <1>11. \A e \in ToSet(page) : e \in ToSet(found)
    BY <1>5, <1>8, <1>9 DEF ToSet
  <1>12. \A e \in ToSet(page) : e \in ToSet(feed) /\ e.sequence > after
    BY <1>2, <1>4, <1>11 DEF Asked
  <1>13. Last0(page) = found[k].sequence
    BY <1>8, <1>9, <1>10, LastIsHighest
  <1>14. ASSUME NEW e \in ToSet(feed) \ ToSet(page), FieldsMatch(e, ask), e.sequence > after, e.sequence <= Last0(page)
         PROVE  e.sequence <= Evicted
    <2>1. e \in EventRecords /\ e.sequence \in Nat
      BY <1>1, SequencesAreNumbers
    <2>2. SUFFICES ASSUME e.sequence > Evicted PROVE FALSE
      BY <2>1, EvictedIsNat
    <2>3. e \in ToSet(found)
      BY <1>2, <1>4, <1>14, <2>1, <2>2 DEF Retained, Asked
    <2>4. PICK j \in 1..n : e = found[j]
      BY <1>5, <2>3 DEF ToSet
    <2>5. CASE j <= k
      <3>1. j \in 1..k
        BY <2>5
      <3>2. e = page[j]
        BY <1>8, <2>4, <3>1
      <3>3. e \in ToSet(page)
        BY <1>9, <3>1, <3>2 DEF ToSet
      <3> QED
        BY <3>3
    <2>6. CASE j > k
      <3>1. k \in 1..(j - 1)
        BY <1>9, <2>6
      <3>2. <<found[k], found[j]>> \in Below
        BY <1>4, <1>5, <3>1 DEF Ordered
      <3>3. found[k].sequence < e.sequence /\ found[k].sequence \in Nat
        BY <2>4, <3>2 DEF Below, EventRecords
      <3> QED
        BY <1>13, <1>14, <2>1, <3>3
    <2> QED
      BY <2>5, <2>6
  <1> QED
    BY <1>8, <1>10, <1>12, <1>14

LEMMA ReadingGoesOn ==
  ASSUME FeedInv, ListenersInv, ReadersInv, NEW l \in Listeners, ReadPage(l)
  PROVE  ReaderInv(l)'
  <1>1. PICK page : page = ReadHistory(options[l].ask, Last0(seen[l]))
    OBVIOUS
  <1>2. /\ options[l].mode = "reader" /\ page # <<>> /\ seen' = [seen EXCEPT ![l] = @ \o page]
        /\ UNCHANGED <<history, nextSequence, options, feed>>
    BY <1>1 DEF ReadPage
  <1>3. seen \in [Listeners -> Seq(EventRecords)] /\ options[l] \in OptionRecords
    BY DEF ListenersInv
  <1>4. PICK old \in Seq(EventRecords) : old = seen[l]
    BY <1>3
  <1>5. PICK ask \in AllAsks : ask = options[l].ask
    BY <1>3 DEF OptionRecords
  <1>6. /\ Ordered(old, Below)
        /\ \A e \in ToSet(old) : e.sequence < nextSequence
        /\ \A e \in ToSet(feed) \ ToSet(old) :
             e.sequence > 0 /\ FieldsMatch(e, ask) /\ e.sequence <= Last0(old) => e.sequence <= Evicted
    BY <1>2, <1>4, <1>5 DEF ReadersInv, ReaderInv
  <1>7. PICK after \in Nat : after = Last0(old) /\ \A e \in ToSet(old) : e.sequence <= after
    BY <1>6, LastIsHighest
  <1>8. /\ page \in Seq(EventRecords) /\ Ordered(page, Below)
        /\ \A e \in ToSet(page) : e \in ToSet(feed) /\ e.sequence > after
        /\ \A e \in ToSet(feed) \ ToSet(page) :
             FieldsMatch(e, ask) /\ e.sequence > after /\ e.sequence <= Last0(page) => e.sequence <= Evicted
    <2>1. page = ReadHistory(ask, after)
      BY <1>1, <1>4, <1>5, <1>7
    <2> QED
      BY <1>2, <2>1, PageGoesOn
  <1>9. \A x \in ToSet(old), y \in ToSet(page) : <<x, y>> \in Below
    <2>1. ASSUME NEW x \in ToSet(old), NEW y \in ToSet(page) PROVE <<x, y>> \in Below
      <3>1. x \in EventRecords /\ y \in EventRecords
        BY <1>8, MembersAreTyped
      <3>2. x.sequence \in Nat /\ y.sequence \in Nat
        BY <3>1 DEF EventRecords
      <3>3. x.sequence <= after /\ y.sequence > after
        BY <1>7, <1>8
      <3>4. x.sequence < y.sequence
        BY <3>2, <3>3
      <3> QED
        BY <3>1, <3>4 DEF Below
    <2> QED
      BY <2>1
  <1>10. PICK new : new = old \o page
    OBVIOUS
  <1>11. new \in Seq(EventRecords) /\ seen'[l] = new
    BY <1>2, <1>3, <1>4, <1>8, <1>10, ConcatProperties
  <1>12. Ordered(new, Below) /\ \A x : x \in ToSet(new) <=> x \in ToSet(old) \/ x \in ToSet(page)
    BY <1>6, <1>8, <1>9, <1>10, ToSetOfBoth
  <1>13. \A e \in ToSet(new) : e.sequence < nextSequence
    BY <1>6, <1>8, <1>12 DEF FeedInv
  <1>14. Last0(new) = Last0(page)
    <2>1. PICK k \in Nat : k = Len(page) /\ k # 0
      BY <1>2, <1>8, EmptySeq
    <2>2. PICK m \in Nat : m = Len(old)
      BY LenProperties
    <2>3. /\ Len(new) = m + k
          /\ \A i \in 1..(m + k) : new[i] = IF i <= m THEN old[i] ELSE page[i - m]
      BY <1>8, <1>10, <2>1, <2>2, ConcatProperties
    <2>4. m + k \in 1..(m + k) /\ ~(m + k <= m) /\ m + k - m = k /\ m + k # 0
      BY <2>1
    <2>5. new[m + k] = page[k]
      BY <2>3, <2>4
    <2>6. new # <<>>
      BY <2>3, <2>4, EmptySeq
    <2> QED
      BY <1>2, <2>1, <2>3, <2>5, <2>6 DEF Last0, Last
  <1>15. ASSUME NEW e \in ToSet(feed) \ ToSet(new), e.sequence > 0, FieldsMatch(e, ask), e.sequence <= Last0(new)
         PROVE  e.sequence <= Evicted
    <2>1. e \notin ToSet(old) /\ e \notin ToSet(page)
      BY <1>12
    <2>2. e \in EventRecords /\ e.sequence \in Nat
      BY SequencesAreNumbers DEF FeedInv
    <2>3. CASE e.sequence <= after
      BY <1>6, <1>7, <1>15, <2>1, <2>3
    <2>4. CASE e.sequence > after
      BY <1>8, <1>14, <1>15, <2>1, <2>4
    <2> QED
      BY <2>2, <2>3, <2>4
  <1>16. Evicted' = Evicted
    BY <1>2 DEF Evicted
  <1> QED
    BY <1>2, <1>5, <1>11, <1>12, <1>13, <1>15, <1>16 DEF ReaderInv, FieldsMatch

\* For a reader nothing changes but what is published and evicted.
LEMMA ReadersStep ==
  ASSUME FeedInv, ListenersInv, ReadersInv, EventStep
  PROVE  ReadersInv'
  <1>1. ASSUME NEW k \in Listeners, UNCHANGED <<history, nextSequence, feed>>,
               options'[k] = options[k], seen'[k] = seen[k]
        PROVE  ReaderInv(k)'
    <2>1. ReaderInv(k) /\ Evicted' = Evicted
      BY <1>1 DEF ReadersInv, Evicted
    <2> QED
      BY <1>1, <2>1 DEF ReaderInv, FieldsMatch
  <1>2. CASE UNCHANGED eventVars
    BY <1>1, <1>2 DEF eventVars, ReadersInv
  <1>3. CASE Deliver
    <2>1. PICK l : l = Head(delivering)
      OBVIOUS
    <2>2. /\ UNCHANGED <<history, nextSequence, options, feed>>
          /\ seen' = IF l \in ToSet(subscriptions) /\ Matches(l, Last(feed))
                       THEN [seen EXCEPT ![l] = Append(@, Last(feed))]
                       ELSE seen
      BY <1>3, <2>1 DEF Deliver
    <2>3. ASSUME NEW k \in Listeners PROVE ReaderInv(k)'
      <3>1. CASE options[k].mode # "reader"
        BY <2>2, <3>1 DEF ReaderInv
      <3>2. CASE options[k].mode = "reader"
        <4>1. k \notin ToSet(subscriptions)
          BY <3>2 DEF ListenersInv
        <4>2. seen \in [Listeners -> Seq(EventRecords)]
          BY DEF ListenersInv
        <4>3. seen'[k] = seen[k]
          BY <2>2, <4>1, <4>2
        <4> QED
          BY <1>1, <2>2, <4>3
      <3> QED
        BY <3>1, <3>2
    <2> QED
      BY <2>3 DEF ReadersInv
  <1>4. ASSUME NEW l \in Listeners,
               UNCHANGED <<history, nextSequence, feed>>, ReaderInv(l)',
               \A k \in Listeners : k # l => options'[k] = options[k] /\ seen'[k] = seen[k]
        PROVE  ReadersInv'
    BY <1>1, <1>4 DEF ReadersInv
  <1>5. ASSUME NEW l \in Listeners, NEW mode \in Modes \ {"none"}, NEW ask \in Asks, Joins(l, mode, ask),
               UNCHANGED <<history, nextSequence, feed>>,
               \A k \in Listeners : k # l => seen'[k] = seen[k],
               mode = "reader" => seen'[l] = seen[l]
        PROVE  ReadersInv'
    <2>1. /\ options[l].mode = "none" /\ options'[l].mode = mode
          /\ \A k \in Listeners : k # l => options'[k] = options[k]
      BY <1>5, JoiningSetsOptions
    <2>2. ReaderInv(l)'
      <3>1. CASE mode # "reader"
        BY <2>1, <3>1 DEF ReaderInv
      <3>2. CASE mode = "reader"
        <4>1. seen'[l] = <<>>
          BY <1>5, <2>1, <3>2 DEF ListenersInv
        <4>2. Ordered(<<>>, Below) /\ Last0(<<>>) = 0 /\ \A e : e \notin ToSet(<<>>)
          BY ToSetOfNone DEF Ordered, Last0
        <4>3. \A e \in ToSet(feed) : e.sequence \in Nat
          BY SequencesAreNumbers DEF FeedInv
        <4>4. \A n \in Nat : ~(n > 0 /\ n <= 0)
          OBVIOUS
        <4> QED
          BY <1>5, <4>1, <4>2, <4>3, <4>4 DEF ReaderInv
      <3> QED
        BY <3>1, <3>2
    <2> QED
      BY <1>4, <1>5, <2>1, <2>2
  <1>6. CASE ListenerCalls
    <2>0. seen \in [Listeners -> Seq(EventRecords)] /\ options \in [Listeners -> OptionRecords]
      BY DEF ListenersInv
    <2>1. ASSUME NEW l \in Listeners, Subscribe(l) PROVE ReadersInv'
      <3>1. PICK ask \in Asks : Joins(l, "live", ask)
        BY <2>1 DEF Subscribe
      <3>2. "live" \in Modes \ {"none"} /\ UNCHANGED <<history, nextSequence, feed, seen>>
        BY <2>1 DEF Subscribe, Modes
      <3> QED
        BY <1>5, <3>1, <3>2
    <2>2. ASSUME NEW l \in Listeners, SubscribeReplay(l) PROVE ReadersInv'
      <3>1. PICK ask \in Asks : Joins(l, "replay", ask) /\ seen' = [seen EXCEPT ![l] = ReadHistory(ask, 0)]
        BY <2>2 DEF SubscribeReplay
      <3>2. "replay" \in Modes \ {"none"} /\ "replay" # "reader" /\ UNCHANGED <<history, nextSequence, feed>>
        BY <2>2 DEF SubscribeReplay, Modes
      <3>3. \A k \in Listeners : k # l => seen'[k] = seen[k]
        BY <2>0, <3>1
      <3> QED
        BY <1>5, <3>1, <3>2, <3>3
    <2>3. ASSUME NEW l \in Listeners, Unsubscribe(l) PROVE ReadersInv'
      <3>1. PICK o : o = [NewOptions EXCEPT !.mode = "gone"]
        OBVIOUS
      <3>2. o.mode = "gone"
        BY <3>1 DEF NewOptions
      <3>3. /\ options' = [options EXCEPT ![l] = o] /\ seen' = [seen EXCEPT ![l] = <<>>]
            /\ UNCHANGED <<history, nextSequence, feed>>
        BY <2>3, <3>1 DEF Unsubscribe
      <3>4. options'[l].mode = "gone" /\ \A k \in Listeners : k # l => options'[k] = options[k] /\ seen'[k] = seen[k]
        BY <2>0, <3>2, <3>3
      <3>5. ReaderInv(l)'
        BY <3>4 DEF ReaderInv
      <3> QED
        BY <1>4, <3>3, <3>4, <3>5
    <2>4. ASSUME NEW l \in Listeners, StartReading(l) PROVE ReadersInv'
      <3>1. PICK ask \in Asks : Joins(l, "reader", ask)
        BY <2>4 DEF StartReading
      <3>2. "reader" \in Modes \ {"none"} /\ UNCHANGED <<history, nextSequence, feed, seen>>
        BY <2>4 DEF StartReading, Modes
      <3> QED
        BY <1>5, <3>1, <3>2
    <2>5. ASSUME NEW l \in Listeners, ReadPage(l) PROVE ReadersInv'
      <3>1. PICK page : page = ReadHistory(options[l].ask, Last0(seen[l]))
        OBVIOUS
      <3>2. seen' = [seen EXCEPT ![l] = @ \o page] /\ UNCHANGED <<history, nextSequence, feed, options>>
        BY <2>5, <3>1 DEF ReadPage
      <3>3. \A k \in Listeners : k # l => options'[k] = options[k] /\ seen'[k] = seen[k]
        BY <2>0, <3>2
      <3>4. ReaderInv(l)'
        BY <2>5, ReadingGoesOn
      <3> QED
        BY <1>4, <3>2, <3>3, <3>4
    <2> QED
      BY <1>6, <2>1, <2>2, <2>3, <2>4, <2>5 DEF ListenerCalls
  <1>7. ASSUME NEW e, WellMade(e), Recording(e) \/ LiveOnly(e) PROVE ReadersInv'
    <2>1. e \in EventRecords /\ feed' = Append(feed, e) /\ UNCHANGED <<options, seen>>
      BY <1>7 DEF WellMade, Recording, LiveOnly, PublishActionEvent
    <2>2. \A x : x \in ToSet(feed') <=> x \in ToSet(feed) \/ x = e
      BY <2>1, ToSetOfMore DEF FeedInv
    <2>3. Evicted \in Nat /\ nextSequence \in Nat
      BY EvictedIsNat
    <2>4. Evicted' \in Nat /\ Evicted' >= Evicted /\ nextSequence' \in Nat /\ nextSequence' >= nextSequence
      <3>1. CASE Recording(e)
        <4>1. Evicted' \in Nat /\ Evicted' >= Evicted
          BY <1>7, <3>1, EvictionGoesOn
        <4>2. nextSequence' = nextSequence + 1
          BY <3>1 DEF Recording
        <4> QED
          BY <2>3, <4>1, <4>2
      <3>2. CASE LiveOnly(e)
        <4>1. Evicted' = Evicted /\ nextSequence' = nextSequence
          BY <3>2 DEF LiveOnly, Evicted
        <4> QED
          BY <2>3, <4>1
      <3> QED
        BY <1>7, <3>1, <3>2
    <2>5. e.sequence > 0 => e.sequence >= nextSequence
      BY <1>7, <2>3 DEF Recording, LiveOnly
    <2>6. ASSUME NEW l \in Listeners, options[l].mode = "reader" PROVE ReaderInv(l)'
      <3>1. PICK s \in Seq(EventRecords) : s = seen[l]
        BY DEF ListenersInv
      <3>2. /\ Ordered(s, Below)
            /\ \A x \in ToSet(s) : x.sequence < nextSequence
            /\ \A x \in ToSet(feed) \ ToSet(s) :
                 x.sequence > 0 /\ FieldsMatch(x, options[l].ask) /\ x.sequence <= Last0(s) => x.sequence <= Evicted
        BY <2>6, <3>1 DEF ReadersInv, ReaderInv
      <3>3. \/ Last0(s) \in Nat /\ Last0(s) < nextSequence
            \/ Last0(s) = 0
        <4>1. CASE s = <<>>
          BY <4>1 DEF Last0
        <4>2. CASE s # <<>>
          BY <3>2, <4>2, LastIsHighest
        <4> QED
          BY <4>1, <4>2
      <3>4. \A x \in ToSet(s) : x.sequence < nextSequence'
        <4>1. \A x \in ToSet(s) : x.sequence \in Nat
          BY SequencesAreNumbers
        <4> QED
          BY <2>3, <2>4, <3>2, <4>1
      <3>5. ASSUME NEW x \in ToSet(feed') \ ToSet(s), x.sequence > 0, FieldsMatch(x, options[l].ask), x.sequence <= Last0(s)
            PROVE  x.sequence <= Evicted'
        <4>1. CASE x = e
          <5>1. x.sequence \in Nat /\ x.sequence >= nextSequence
            BY <2>1, <2>5, <3>5, <4>1 DEF EventRecords
          <5> QED
            BY <2>3, <3>3, <3>5, <5>1
        <4>2. CASE x # e
          <5>1. x \in ToSet(feed) \ ToSet(s)
            BY <2>2, <4>2
          <5>2. x.sequence <= Evicted
            BY <3>2, <3>5, <5>1
          <5>3. x.sequence \in Nat
            BY <5>1, SequencesAreNumbers DEF FeedInv
          <5> QED
            BY <2>3, <2>4, <5>2, <5>3
        <4> QED
          BY <4>1, <4>2
      <3> QED
        BY <2>1, <3>1, <3>2, <3>4, <3>5 DEF ReaderInv, FieldsMatch
    <2> QED
      BY <2>1, <2>6 DEF ReadersInv, ReaderInv
  <1> QED
    BY <1>2, <1>3, <1>6, <1>7 DEF EventStep

LEMMA ReadersMiss ==
  ASSUME FeedInv, ListenersInv, ReadersInv
  PROVE  ReadersMissOnlyTheEvicted
  <1>1. SUFFICES ASSUME NEW l \in Listeners, options[l].mode = "reader"
                 PROVE  /\ \A i \in 1..(Len(seen[l]) - 1) : seen[l][i].sequence < seen[l][i + 1].sequence
                        /\ \A e \in {x \in ToSet(Recorded(feed)) : FieldsMatch(x, options[l].ask) /\ x.sequence <= Last0(seen[l])}
                                      \ ToSet(seen[l]) :
                             e.sequence < nextSequence - Len(history)
    BY DEF ReadersMissOnlyTheEvicted
  <1>2. PICK s \in Seq(EventRecords) : s = seen[l]
    BY DEF ListenersInv
  <1>3. PICK n \in Nat : n = Len(s) /\ DOMAIN s = 1..n
    BY LenProperties
  <1>4. \A i \in 1..(n - 1) : s[i].sequence < s[i + 1].sequence
    <2>1. \A i \in 1..(n - 1) : i + 1 \in 1..n /\ i \in 1..((i + 1) - 1)
      OBVIOUS
    <2>2. Ordered(s, Below)
      BY <1>1, <1>2 DEF ReadersInv, ReaderInv
    <2>3. \A i \in 1..(n - 1) : <<s[i], s[i + 1]>> \in Below
      BY <1>3, <2>1, <2>2 DEF Ordered
    <2> QED
      BY <2>3 DEF Below
  <1>5. ASSUME NEW e \in ToSet(Recorded(feed)), FieldsMatch(e, options[l].ask), e.sequence <= Last0(s), e \notin ToSet(s)
        PROVE  e.sequence < nextSequence - Len(history)
    <2>1. e \in ToSet(feed) /\ e.sequence > 0 /\ e \in EventRecords
      BY OnlyMembers DEF Recorded, FeedInv
    <2>2. e.sequence <= Evicted /\ e.sequence \in Nat
      BY <1>1, <1>2, <1>5, <2>1 DEF ReadersInv, ReaderInv, EventRecords
    <2>3. PICK m \in Nat : m = Len(history)
      BY LenProperties DEF FeedInv
    <2>4. Evicted = nextSequence - 1 - m /\ nextSequence \in Nat
      BY <2>3 DEF Evicted, FeedInv
    <2> QED
      BY <2>2, <2>3, <2>4
  <1> QED
    BY <1>2, <1>3, <1>4, <1>5

--------------------------------------------------------------------------------
(* The announcements.                                                       *)

AfterStart == {"running", "announced", "released"}
Holders(a) == {r \in Runs : runs[r].action = a /\ runs[r].phase \in AfterStart}
Ended(r) == IF runs[r].phase \in {"announced", "released"} THEN 1 ELSE 0

\* What is said of one run.
Announcement(events, deltas, ended, end) ==
  /\ Len(events) = 1 + deltas + ended
  /\ events[1].type = "started"
  /\ \A i \in 1..deltas : events[1 + i].type = DeltaType /\ events[1 + i].id[3] = i - 1
  /\ ended = 1 => events[Len(events)].type \in TerminalTypes(end)

\* The inductive invariant: of an action that no run was announced under
\* nothing was said, and of one with a single such run what is said of a run.
Announced(a) ==
  /\ Holders(a) = {} => EventsOf(a) = <<>> /\ deltaIndex[a] = 0
  /\ \A r \in Holders(a) :
       Holders(a) = {r} => Announcement(EventsOf(a), deltaIndex[a], Ended(r), runs[r].end)

AnnouncedInv == \A a \in Actions : Announced(a)

LEMMA AnnouncementBegins ==
  ASSUME NEW e \in EventRecords, e.type = "started", NEW end
  PROVE  Announcement(Append(<<>>, e), 0, 0, end)
  <1>1. PICK s : s = Append(<<>>, e)
    OBVIOUS
  <1>2. <<>> \in Seq(EventRecords) /\ Len(<<>>) = 0
    BY EmptySeq
  <1>3. Len(s) = 1 /\ s[1] = e
    BY <1>1, <1>2, AppendProperties
  <1>4. 1 = 1 + 0 + 0 /\ \A i : i \notin 1..0
    OBVIOUS
  <1> QED
    BY <1>1, <1>3, <1>4 DEF Announcement

LEMMA AnnouncementGoesOn ==
  ASSUME NEW s \in Seq(EventRecords), NEW d \in Nat, NEW old, Announcement(s, d, 0, old),
         NEW e \in EventRecords, NEW end
  PROVE  /\ e.type = DeltaType /\ e.id[3] = d => Announcement(Append(s, e), d + 1, 0, end)
         /\ e.type \in TerminalTypes(end) => Announcement(Append(s, e), d, 1, end)
         /\ Announcement(s, d, 0, end)
  <1>1. PICK t : t = Append(s, e)
    OBVIOUS
  <1>2. Len(s) = 1 + d /\ s[1].type = "started" /\ \A i \in 1..d : s[1 + i].type = DeltaType /\ s[1 + i].id[3] = i - 1
    BY DEF Announcement
  <1>3. Len(t) = 1 + d + 1 /\ t[1 + d + 1] = e /\ \A i \in 1..(1 + d) : t[i] = s[i]
    BY <1>1, <1>2, AppendProperties
  <1>4. 1 \in 1..(1 + d) /\ \A i \in 1..d : 1 + i \in 1..(1 + d)
    OBVIOUS
  <1>5. t[1].type = "started" /\ \A i \in 1..d : t[1 + i].type = DeltaType /\ t[1 + i].id[3] = i - 1
    BY <1>2, <1>3, <1>4
  <1>6. ASSUME e.type = DeltaType, e.id[3] = d PROVE Announcement(t, d + 1, 0, end)
    <2>1. \A i \in 1..(d + 1) : i \in 1..d \/ i = d + 1
      OBVIOUS
    <2>2. t[1 + (d + 1)] = e /\ (d + 1) - 1 = d /\ 1 + (d + 1) + 0 = 1 + d + 1
      BY <1>3
    <2>3. \A i \in 1..(d + 1) : t[1 + i].type = DeltaType /\ t[1 + i].id[3] = i - 1
      BY <1>5, <1>6, <2>1, <2>2
    <2> QED
      BY <1>3, <1>5, <2>2, <2>3 DEF Announcement
  <1>7. ASSUME e.type \in TerminalTypes(end) PROVE Announcement(t, d, 1, end)
    BY <1>3, <1>5, <1>7 DEF Announcement
  <1>8. Announcement(s, d, 0, end)
    BY <1>2 DEF Announcement
  <1> QED
    BY <1>1, <1>6, <1>7, <1>8

\* Before its end every event of it is the start or a token.
LEMMA TypesBeforeTheEnd ==
  ASSUME NEW s \in Seq(EventRecords), NEW d \in Nat, NEW end, Announcement(s, d, 0, end)
  PROVE  \A e \in ToSet(s) : e.type \in {"started", DeltaType}
  <1>1. DOMAIN s = 1..(1 + d)
    BY LenProperties DEF Announcement
  <1>2. \A j \in 1..(1 + d) : j = 1 \/ (j - 1 \in 1..d /\ 1 + (j - 1) = j)
    OBVIOUS
  <1>3. \A i \in 1..d : s[1 + i].type = DeltaType
    BY DEF Announcement
  <1>4. \A j \in 1..(1 + d) : s[j].type \in {"started", DeltaType}
    <2>1. \A j \in 1..(1 + d) : j # 1 => s[j].type = DeltaType
      BY <1>2, <1>3
    <2> QED
      BY <2>1 DEF Announcement
  <1> QED
    BY <1>1, <1>4 DEF ToSet

LEMMA EventsTyped ==
  ASSUME FeedInv, NEW a
  PROVE  /\ EventsOf(a) \in Seq(EventRecords)
         /\ \A e : e \in ToSet(EventsOf(a)) <=> e \in ToSet(feed) /\ e.action = a
  <1>1. feed \in Seq(EventRecords)
    BY DEF FeedInv
  <1>2. \A e : e \in ToSet(EventsOf(a)) <=> e \in ToSet(feed) /\ e \in {x \in EventRecords : x.action = a}
    BY <1>1, OnlyMembers DEF EventsOf
  <1> QED
    BY <1>1, <1>2, OnlyMembers, SequencesAreNumbers DEF EventsOf

LEMMA EventsAfterPublication ==
  ASSUME FeedInv, NEW e, WellMade(e), feed' = Append(feed, e), NEW a
  PROVE  EventsOf(a)' = IF e.action = a THEN Append(EventsOf(a), e) ELSE EventsOf(a)
  <1>1. e \in EventRecords /\ feed \in Seq(EventRecords)
    BY DEF WellMade, FeedInv
  <1>2. PICK M : M = {x \in EventRecords : x.action = a}
    OBVIOUS
  <1>3. e \in M <=> e.action = a
    BY <1>1, <1>2
  <1>4. Only(Append(feed, e), M) = IF e \in M THEN Append(Only(feed, M), e) ELSE Only(feed, M)
    BY <1>1, OnlyOfMore
  <1>5. EventsOf(a)' = Only(Append(feed, e), M) /\ EventsOf(a) = Only(feed, M)
    BY <1>2 DEF EventsOf
  <1> QED
    BY <1>3, <1>4, <1>5

\* What is retained of an action has been said of it.
LEMMA RetainedWasSaid ==
  ASSUME FeedInv, NEW a, NEW type, NEW index, <<a, type, index>> \in RetainedIds
  PROVE  \E e \in ToSet(EventsOf(a)) : e.type = type
  <1>1. PICK e \in ToSet(history) : e.id = <<a, type, index>>
    BY DEF RetainedIds
  <1>2. e \in ToSet(feed)
    BY <1>1, OnlyMembers DEF FeedInv
  <1>3. e.id[1] = e.action /\ e.id[2] = e.type
    BY <1>2 DEF FeedInv, WellMade
  <1>4. e.action = a /\ e.type = type
    BY <1>1, <1>3
  <1> QED
    BY <1>2, <1>4, EventsTyped

LEMMA OthersAreAnnounced ==
  ASSUME NEW a, Announced(a), Holders(a)' = Holders(a), EventsOf(a)' = EventsOf(a), deltaIndex'[a] = deltaIndex[a],
         \A r \in Holders(a) : Ended(r)' = Ended(r) /\ runs'[r].end = runs[r].end
  PROVE  Announced(a)'
  BY DEF Announced

LEMMA PhaseChanges ==
  ASSUME RegistryTypes, NEW r \in Runs, NEW p \in Phases, Goes(r, p)
  PROVE  /\ Runs' = Runs
         /\ \A q \in Runs : /\ runs'[q].action = runs[q].action /\ runs'[q].end = runs[q].end
                            /\ runs'[q].phase = IF q = r THEN p ELSE runs[q].phase
  <1>1. PICK run : run = [runs[r] EXCEPT !.phase = p]
    OBVIOUS
  <1>2. runs[r] \in RunRecords
    BY DEF RegistryTypes, Runs
  <1>3. run.action = runs[r].action /\ run.end = runs[r].end /\ run.phase = p
    BY <1>1, <1>2 DEF RunRecords
  <1>4. runs' = [runs EXCEPT ![r] = run]
    BY <1>1 DEF Goes
  <1>5. Runs' = Runs /\ \A q \in Runs : runs'[q] = IF q = r THEN run ELSE runs[q]
    BY <1>4, OneRunChanges
  <1> QED
    BY <1>3, <1>5

LEMMA HoldersAfter ==
  ASSUME Runs' = Runs, NEW a,
         \A q \in Runs : /\ runs'[q].action = runs[q].action
                         /\ runs[q].action = a => (runs'[q].phase \in AfterStart <=> runs[q].phase \in AfterStart)
  PROVE  Holders(a)' = Holders(a)
  <1>1. \A q : q \in Holders(a)' <=> q \in Runs /\ runs'[q].action = a /\ runs'[q].phase \in AfterStart
    BY DEF Holders, AfterStart
  <1>2. \A q : q \in Holders(a) <=> q \in Runs /\ runs[q].action = a /\ runs[q].phase \in AfterStart
    BY DEF Holders
  <1>3. \A q : q \in Holders(a)' <=> q \in Holders(a)
    BY <1>1, <1>2
  <1> QED
    BY <1>3

LEMMA BindAnnounces ==
  ASSUME RegistryInv, FeedInv, DeltasTyped, AnnouncedInv, NEW r \in Runs, Bind(r)
  PROVE  AnnouncedInv'
  <1>1. PICK a \in Actions : a = runs[r].action
    BY RunTypes DEF RegistryInv
  <1>2. Goes(r, "running") /\ runs[r].phase = "queued" /\ UNCHANGED deltaIndex /\ "running" \in Phases
    BY DEF Bind, Phases, Bound
  <1>3. /\ Runs' = Runs
        /\ \A q \in Runs : /\ runs'[q].action = runs[q].action /\ runs'[q].end = runs[q].end
                           /\ runs'[q].phase = IF q = r THEN "running" ELSE runs[q].phase
    BY <1>2, PhaseChanges DEF RegistryInv
  <1>4. \/ <<a, "started", 0>> \in RetainedIds /\ UNCHANGED feed
        \/ \E e : WellMade(e) /\ e.action = a /\ e.type = "started" /\ feed' = Append(feed, e)
    <2>1. PublishRuntimeActionEvent(Event(a, "started", 0)) /\ "started" \in DurableTypes /\ nextSequence \in Nat
      BY <1>1, TypesOfEvents DEF Bind, DurableTypes, FeedInv
    <2>2. \/ <<a, "started", 0>> \in RetainedIds /\ UNCHANGED <<eventVars, logVars>>
          \/ \E e : WellMade(e) /\ e.action = a /\ e.type = "started" /\ e.id = <<a, "started", 0>> /\ Recording(e)
      BY <2>1, PublishesRecorded
    <2> QED
      BY <2>2 DEF eventVars, Recording, PublishActionEvent
  <1>5. ASSUME NEW b \in Actions, b # a PROVE Announced(b)'
    <2>1. EventsOf(b)' = EventsOf(b)
      <3>1. CASE UNCHANGED feed
        BY <3>1 DEF EventsOf
      <3>2. CASE \E e : WellMade(e) /\ e.action = a /\ e.type = "started" /\ feed' = Append(feed, e)
        BY <1>5, <3>2, EventsAfterPublication
      <3> QED
        BY <1>4, <3>1, <3>2
    <2>2. Holders(b)' = Holders(b)
      <3>1. \A q \in Runs : runs[q].action = b => q # r
        BY <1>1, <1>5
      <3> QED
        BY <1>3, <3>1, HoldersAfter
    <2>3. \A q \in Holders(b) : Ended(q)' = Ended(q) /\ runs'[q].end = runs[q].end
      <3>1. \A q \in Holders(b) : q \in Runs /\ q # r
        BY <1>1, <1>5 DEF Holders
      <3> QED
        BY <1>3, <3>1 DEF Ended
    <2> QED
      BY <1>2, <2>1, <2>2, <2>3, OthersAreAnnounced DEF AnnouncedInv
  <1>6. Announced(a)'
    <2>1. \A q : q \in Holders(a)' <=> q \in Holders(a) \/ q = r
      <3>1. \A q : q \in Holders(a)' <=> q \in Runs /\ runs'[q].action = a /\ runs'[q].phase \in AfterStart
        BY <1>3 DEF Holders, AfterStart
      <3>2. \A q : q \in Holders(a) <=> q \in Runs /\ runs[q].action = a /\ runs[q].phase \in AfterStart
        BY DEF Holders
      <3>3. "running" \in AfterStart
        BY DEF AfterStart
      <3> QED
        BY <1>1, <1>3, <3>1, <3>2, <3>3
    <2>2. r \notin Holders(a)
      BY <1>2 DEF Holders, AfterStart
    <2>3. SUFFICES ASSUME NEW q \in Holders(a)', Holders(a)' = {q}
                   PROVE  Announcement(EventsOf(a)', deltaIndex'[a], Ended(q)', runs'[q].end)
      BY <2>1 DEF Announced
    <2>4. q = r /\ Holders(a) = {}
      BY <2>1, <2>2, <2>3
    <2>5. EventsOf(a) = <<>> /\ deltaIndex[a] = 0
      BY <2>4 DEF AnnouncedInv, Announced
    <2>6. <<a, "started", 0>> \notin RetainedIds
      BY <2>5, RetainedWasSaid, ToSetOfNone
    <2>7. PICK e : WellMade(e) /\ e.action = a /\ e.type = "started" /\ feed' = Append(feed, e)
      BY <1>4, <2>6
    <2>8. EventsOf(a)' = Append(<<>>, e) /\ e \in EventRecords
      BY <2>5, <2>7, EventsAfterPublication DEF WellMade
    <2>9. Ended(q)' = 0 /\ deltaIndex'[a] = 0
      BY <1>2, <1>3, <2>4, <2>5 DEF Ended
    <2> QED
      BY <2>7, <2>8, <2>9, AnnouncementBegins
  <1> QED
    BY <1>5, <1>6 DEF AnnouncedInv

LEMMA OutcomeAnnounces ==
  ASSUME RegistryInv, EndsInv, FeedInv, DeltasTyped, AnnouncedInv, NEW r \in Runs, PublishOutcome(r)
  PROVE  AnnouncedInv'
  <1>1. PICK a \in Actions : a = runs[r].action
    BY RunTypes DEF RegistryInv
  <1>2. /\ Goes(r, "announced") /\ runs[r].phase = "running" /\ runs[r].end # Open
        /\ UNCHANGED deltaIndex /\ "announced" \in Phases
    BY DEF PublishOutcome, Phases, Bound
  <1>3. /\ Runs' = Runs
        /\ \A q \in Runs : /\ runs'[q].action = runs[q].action /\ runs'[q].end = runs[q].end
                           /\ runs'[q].phase = IF q = r THEN "announced" ELSE runs[q].phase
    BY <1>2, PhaseChanges DEF RegistryInv
  <1>4. PICK end \in Ends : end = runs[r].end
    BY <1>2 DEF EndsInv, RunEnds
  <1>5. PICK type : /\ type = OutcomeTypes[end] /\ type \in TerminalTypes(end) /\ type \in DurableTypes
                    /\ type # Absent /\ type \notin {"started", DeltaType}
    BY EndsAreAnnounced, TypesOfEvents DEF Terminal
  <1>6. \/ <<a, type, 0>> \in RetainedIds /\ UNCHANGED feed
        \/ \E e : WellMade(e) /\ e.action = a /\ e.type = type /\ feed' = Append(feed, e)
    <2>1. PublishRuntimeActionEvent(Event(a, type, 0)) /\ nextSequence \in Nat
      BY <1>1, <1>4, <1>5 DEF PublishOutcome, FeedInv
    <2>2. \/ <<a, type, 0>> \in RetainedIds /\ UNCHANGED <<eventVars, logVars>>
          \/ \E e : WellMade(e) /\ e.action = a /\ e.type = type /\ e.id = <<a, type, 0>> /\ Recording(e)
      BY <1>5, <2>1, PublishesRecorded
    <2> QED
      BY <2>2 DEF eventVars, Recording, PublishActionEvent
  <1>7. \A b : Holders(b)' = Holders(b)
    <2>1. \A q \in Runs : runs'[q].phase \in AfterStart <=> runs[q].phase \in AfterStart
      BY <1>2, <1>3 DEF AfterStart
    <2> QED
      BY <1>3, <2>1, HoldersAfter
  <1>8. ASSUME NEW b \in Actions, b # a PROVE Announced(b)'
    <2>1. EventsOf(b)' = EventsOf(b)
      <3>1. CASE UNCHANGED feed
        BY <3>1 DEF EventsOf
      <3>2. CASE \E e : WellMade(e) /\ e.action = a /\ e.type = type /\ feed' = Append(feed, e)
        BY <1>8, <3>2, EventsAfterPublication
      <3> QED
        BY <1>6, <3>1, <3>2
    <2>2. \A q \in Holders(b) : Ended(q)' = Ended(q) /\ runs'[q].end = runs[q].end
      <3>1. \A q \in Holders(b) : q \in Runs /\ q # r
        BY <1>1, <1>8 DEF Holders
      <3> QED
        BY <1>3, <3>1 DEF Ended
    <2> QED
      BY <1>2, <1>7, <2>1, <2>2, OthersAreAnnounced DEF AnnouncedInv
  <1>9. Announced(a)'
    <2>1. r \in Holders(a)
      BY <1>1, <1>2 DEF Holders, AfterStart
    <2>2. SUFFICES ASSUME NEW q \in Holders(a)', Holders(a)' = {q}
                   PROVE  Announcement(EventsOf(a)', deltaIndex'[a], Ended(q)', runs'[q].end)
      BY <1>7, <2>1 DEF Announced
    <2>3. q = r /\ Holders(a) = {r}
      BY <1>7, <2>1, <2>2
    <2>4. Ended(r) = 0 /\ Ended(r)' = 1 /\ runs'[r].end = end
      BY <1>2, <1>3, <1>4 DEF Ended
    <2>5. PICK s \in Seq(EventRecords) : s = EventsOf(a)
      BY EventsTyped
    <2>6. PICK d \in Nat : d = deltaIndex[a]
      BY DEF DeltasTyped
    <2>7. Announcement(s, d, 0, end)
      BY <1>4, <2>3, <2>4, <2>5, <2>6 DEF AnnouncedInv, Announced
    <2>8. <<a, type, 0>> \notin RetainedIds
      <3>1. SUFFICES ASSUME <<a, type, 0>> \in RetainedIds PROVE FALSE
        OBVIOUS
      <3>2. PICK e \in ToSet(s) : e.type = type
        BY <2>5, <3>1, RetainedWasSaid
      <3>3. e.type \in {"started", DeltaType}
        BY <2>7, TypesBeforeTheEnd
      <3> QED
        BY <1>5, <3>2, <3>3
    <2>9. PICK e : WellMade(e) /\ e.action = a /\ e.type = type /\ feed' = Append(feed, e)
      BY <1>6, <2>8
    <2>10. EventsOf(a)' = Append(s, e) /\ e \in EventRecords
      BY <2>5, <2>9, EventsAfterPublication DEF WellMade
    <2>11. Announcement(Append(s, e), d, 1, end)
      BY <1>5, <2>7, <2>9, <2>10, AnnouncementGoesOn
    <2> QED
      BY <1>2, <2>3, <2>4, <2>6, <2>10, <2>11
  <1> QED
    BY <1>8, <1>9 DEF AnnouncedInv

LEMMA TokenAnnounces ==
  ASSUME RegistryInv, EndsInv, FeedInv, DeltasTyped, AnnouncedInv, NEW r \in Runs, StreamDelta(r)
  PROVE  AnnouncedInv'
  <1>1. PICK a \in ActionsOf(r) : /\ deltaIndex' = [deltaIndex EXCEPT ![a] = @ + 1]
                                  /\ PublishLive(Event(a, DeltaType, deltaIndex[a]))
    BY DEF StreamDelta
  <1>2. UNCHANGED logVars /\ UNCHANGED runs /\ runs[r].end = Open
    BY DEF StreamDelta
  <1>3. a \in Actions /\ active[a].state = "bound" /\ active[a].request = r
    BY <1>1 DEF ActionsOf
  <1>4. PICK d \in Nat : d = deltaIndex[a]
    BY <1>3 DEF DeltasTyped
  <1>5. PICK e : WellMade(e) /\ e.action = a /\ e.type = DeltaType /\ e.id = <<a, DeltaType, d>> /\ LiveOnly(e)
    BY <1>1, <1>2, <1>3, <1>4, PublishesLive
  <1>6. feed' = Append(feed, e) /\ e \in EventRecords /\ e.id[3] = d
    <2>1. <<a, DeltaType, d>>[3] = d
      OBVIOUS
    <2> QED
      BY <1>5, <2>1 DEF LiveOnly, PublishActionEvent, WellMade
  <1>7. \A b : Holders(b)' = Holders(b)
    BY <1>2 DEF Holders, Runs
  <1>8. \A q : Ended(q)' = Ended(q) /\ runs'[q].end = runs[q].end
    BY <1>2 DEF Ended
  <1>9. ASSUME NEW b \in Actions, b # a PROVE Announced(b)'
    <2>1. EventsOf(b)' = EventsOf(b)
      BY <1>5, <1>6, <1>9, EventsAfterPublication
    <2>2. deltaIndex'[b] = deltaIndex[b]
      BY <1>1, <1>3, <1>9 DEF DeltasTyped
    <2> QED
      BY <1>7, <1>8, <2>1, <2>2, OthersAreAnnounced DEF AnnouncedInv
  <1>10. Announced(a)'
    <2>1. runs[r].action = a /\ runs[r].phase = "running"
      <3>1. runs[r].action = a /\ runs[r].phase \in Bound
        BY <1>3 DEF RegistryInv, IdsAreHeld, HeldAsRecorded
      <3>2. runs[r].phase # "announced"
        BY <1>2 DEF EndsInv, RunEnds
      <3> QED
        BY <3>1, <3>2 DEF Bound
    <2>2. r \in Holders(a)
      BY <2>1 DEF Holders, AfterStart
    <2>3. SUFFICES ASSUME NEW q \in Holders(a)', Holders(a)' = {q}
                   PROVE  Announcement(EventsOf(a)', deltaIndex'[a], Ended(q)', runs'[q].end)
      BY <1>7, <2>2 DEF Announced
    <2>4. q = r /\ Holders(a) = {r}
      BY <1>7, <2>2, <2>3
    <2>5. Ended(r) = 0 /\ Ended(r)' = 0
      BY <1>8, <2>1 DEF Ended
    <2>6. PICK s \in Seq(EventRecords) : s = EventsOf(a)
      BY EventsTyped
    <2>7. PICK end : end = runs[r].end
      OBVIOUS
    <2>8. Announcement(s, d, 0, end)
      <3>1. Announced(a)
        BY <1>3 DEF AnnouncedInv
      <3>2. Announcement(EventsOf(a), deltaIndex[a], Ended(r), runs[r].end)
        BY <2>2, <2>4, <3>1 DEF Announced
      <3> QED
        BY <1>4, <2>5, <2>6, <2>7, <3>2
    <2>9. EventsOf(a)' = Append(s, e) /\ deltaIndex'[a] = d + 1
      <3>1. EventsOf(a)' = Append(s, e)
        BY <1>5, <1>6, <2>6, EventsAfterPublication
      <3>2. deltaIndex'[a] = d + 1
        BY <1>1, <1>3, <1>4 DEF DeltasTyped
      <3> QED
        BY <3>1, <3>2
    <2>10. Announcement(Append(s, e), d + 1, 0, end)
      BY <1>5, <1>6, <2>8, AnnouncementGoesOn
    <2> QED
      BY <1>8, <2>4, <2>5, <2>7, <2>9, <2>10
  <1> QED
    BY <1>9, <1>10 DEF AnnouncedInv

\* When nothing is said, what was said stands: a request that ends does so
\* before that is announced.
LEMMA QuietSteps ==
  ASSUME RegistryInv, EndsInv, FeedInv, DeltasTyped, AnnouncedInv, UNCHANGED <<feed, deltaIndex>>,
         Runs \subseteq Runs',
         \A q \in Runs' \ Runs : runs'[q].phase \notin AfterStart,
         \A q \in Runs : /\ runs'[q].action = runs[q].action
                         /\ runs'[q].phase \in AfterStart <=> runs[q].phase \in AfterStart
                         /\ Ended(q)' = Ended(q)
                         /\ runs'[q].end # runs[q].end => Ended(q) = 0
  PROVE  AnnouncedInv'
  <1>1. \A a : Holders(a)' = Holders(a)
    <2>1. SUFFICES ASSUME NEW a PROVE Holders(a)' = Holders(a)
      OBVIOUS
    <2>2. \A q : q \in Holders(a)' <=> q \in Runs' /\ runs'[q].action = a /\ runs'[q].phase \in AfterStart
      BY DEF Holders, AfterStart
    <2>3. \A q : q \in Holders(a) <=> q \in Runs /\ runs[q].action = a /\ runs[q].phase \in AfterStart
      BY DEF Holders
    <2>4. \A q : q \in Holders(a)' <=> q \in Holders(a)
      BY <2>2, <2>3
    <2> QED
      BY <2>4
  <1>2. ASSUME NEW a \in Actions PROVE Announced(a)'
    <2>1. EventsOf(a)' = EventsOf(a) /\ deltaIndex'[a] = deltaIndex[a]
      BY DEF EventsOf
    <2>2. Announced(a)
      BY DEF AnnouncedInv
    <2>3. ASSUME NEW q \in Holders(a), Holders(a) = {q}
          PROVE  Announcement(EventsOf(a), deltaIndex[a], Ended(q)', runs'[q].end)
      <3>1. q \in Runs /\ Announcement(EventsOf(a), deltaIndex[a], Ended(q), runs[q].end)
        BY <2>2, <2>3 DEF Announced, Holders
      <3>2. CASE runs'[q].end = runs[q].end
        BY <3>1, <3>2
      <3>3. CASE Ended(q) = 0
        <4>1. PICK s \in Seq(EventRecords) : s = EventsOf(a)
          BY EventsTyped
        <4>2. PICK d \in Nat : d = deltaIndex[a]
          BY DEF DeltasTyped
        <4>3. Announcement(s, d, 0, runs[q].end)
          BY <3>1, <3>3, <4>1, <4>2
        <4>4. Announcement(s, d, 0, runs'[q].end)
          BY <4>3 DEF Announcement
        <4> QED
          BY <3>1, <3>3, <4>1, <4>2, <4>4
      <3> QED
        BY <3>1, <3>2, <3>3
    <2> QED
      BY <1>1, <2>1, <2>2, <2>3 DEF Announced
  <1> QED
    BY <1>2 DEF AnnouncedInv

LEMMA QuietProgress ==
  ASSUME RegistryInv, EndsInv, FeedInv, DeltasTyped, AnnouncedInv, NEW r \in Runs,
         RequestQueued(r) \/ RequestRefused(r) \/ RequestEnds(r) \/ Release(r)
  PROVE  AnnouncedInv'
  <1>1. UNCHANGED <<feed, deltaIndex>>
    BY DEF RequestQueued, RequestRefused, RequestEnds, Release, eventVars
  <1>2. runs[r] \in RunRecords /\ RunEnds(runs[r])
    BY RunTypes DEF RegistryInv, EndsInv
  <1>3. ASSUME NEW run, runs' = [runs EXCEPT ![r] = run], run.action = runs[r].action,
               run.phase \in AfterStart <=> runs[r].phase \in AfterStart,
               run.phase \in {"announced", "released"} <=> runs[r].phase \in {"announced", "released"},
               run.end # runs[r].end => runs[r].phase \notin {"announced", "released"}
        PROVE  AnnouncedInv'
    <2>1. Runs' = Runs /\ \A q \in Runs : runs'[q] = IF q = r THEN run ELSE runs[q]
      BY <1>3, OneRunChanges DEF RegistryInv
    <2>2. ASSUME NEW q \in Runs
          PROVE  /\ runs'[q].action = runs[q].action
                 /\ runs'[q].phase \in AfterStart <=> runs[q].phase \in AfterStart
                 /\ Ended(q)' = Ended(q)
                 /\ runs'[q].end # runs[q].end => Ended(q) = 0
      <3>1. CASE q = r
        BY <1>3, <2>1, <3>1 DEF Ended
      <3>2. CASE q # r
        BY <2>1, <3>2 DEF Ended
      <3> QED
        BY <3>1, <3>2
    <2> QED
      BY <1>1, <2>1, <2>2, QuietSteps
  <1>4. CASE RequestQueued(r)
    <2>1. PICK run : run = [runs[r] EXCEPT !.phase = "queued", !.end = Open]
      OBVIOUS
    <2>2. run.action = runs[r].action /\ run.phase = "queued" /\ runs[r].phase = "reserved"
      BY <1>2, <1>4, <2>1 DEF RunRecords, RequestQueued
    <2>3. runs' = [runs EXCEPT ![r] = run]
      BY <1>4, <2>1 DEF RequestQueued
    <2> QED
      BY <1>3, <2>2, <2>3 DEF AfterStart
  <1>5. CASE RequestRefused(r)
    <2>1. PICK run : run = [runs[r] EXCEPT !.phase = "refused"]
      OBVIOUS
    <2>2. run.action = runs[r].action /\ run.phase = "refused" /\ run.end = runs[r].end /\ runs[r].phase = "reserved"
      BY <1>2, <1>5, <2>1 DEF RunRecords, RequestRefused
    <2>3. runs' = [runs EXCEPT ![r] = run]
      BY <1>5, <2>1 DEF RequestRefused, Goes
    <2> QED
      BY <1>3, <2>2, <2>3 DEF AfterStart
  <1>6. CASE RequestEnds(r)
    <2>1. PICK end \in Ends : runs' = [runs EXCEPT ![r].end = end] /\ runs[r].end = Open
      BY <1>6 DEF RequestEnds
    <2>2. PICK run : run = [runs[r] EXCEPT !.end = end]
      OBVIOUS
    <2>3. run.action = runs[r].action /\ run.phase = runs[r].phase
      BY <1>2, <2>2 DEF RunRecords
    <2>4. runs' = [runs EXCEPT ![r] = run]
      BY <2>1, <2>2
    <2>5. runs[r].phase \notin {"announced", "released"}
      BY <1>2, <2>1 DEF RunEnds
    <2> QED
      BY <1>3, <2>3, <2>4, <2>5
  <1>7. CASE Release(r)
    <2>1. PICK run : run = [runs[r] EXCEPT !.phase = "released"]
      OBVIOUS
    <2>2. run.action = runs[r].action /\ run.phase = "released" /\ run.end = runs[r].end /\ runs[r].phase = "announced"
      BY <1>2, <1>7, <2>1 DEF RunRecords, Release
    <2>3. runs' = [runs EXCEPT ![r] = run]
      BY <1>7, <2>1 DEF Release, Goes
    <2> QED
      BY <1>3, <2>2, <2>3 DEF AfterStart
  <1> QED
    BY <1>4, <1>5, <1>6, <1>7

LEMMA CancelIsQuiet ==
  ASSUME RegistryInv, EndsInv, FeedInv, DeltasTyped, AnnouncedInv, NEW a \in Actions, CancelAction(a)
  PROVE  AnnouncedInv'
  <1>1. PICK r \in Runs : r = active[a].request
    BY DEF CancelAction, RegistryInv, IdsAreHeld, HeldAsRecorded
  <1>2. runs' = [runs EXCEPT ![r].end = PromptCanceled] /\ runs[r].end = Open /\ UNCHANGED <<feed, deltaIndex>>
    BY <1>1 DEF CancelAction, eventVars
  <1>3. runs[r] \in RunRecords /\ RunEnds(runs[r])
    BY RunTypes DEF RegistryInv, EndsInv
  <1>4. PICK run : run = [runs[r] EXCEPT !.end = PromptCanceled]
    OBVIOUS
  <1>5. run.action = runs[r].action /\ run.phase = runs[r].phase
    BY <1>3, <1>4 DEF RunRecords
  <1>6. runs' = [runs EXCEPT ![r] = run]
    BY <1>2, <1>4
  <1>7. Runs' = Runs /\ \A q \in Runs : runs'[q] = IF q = r THEN run ELSE runs[q]
    BY <1>6, OneRunChanges DEF RegistryInv
  <1>8. runs[r].phase \notin {"announced", "released"}
    BY <1>2, <1>3 DEF RunEnds
  <1>9. ASSUME NEW q \in Runs
        PROVE  /\ runs'[q].action = runs[q].action
               /\ runs'[q].phase \in AfterStart <=> runs[q].phase \in AfterStart
               /\ Ended(q)' = Ended(q)
               /\ runs'[q].end # runs[q].end => Ended(q) = 0
    <2>1. CASE q = r
      BY <1>5, <1>7, <1>8, <2>1 DEF Ended
    <2>2. CASE q # r
      BY <1>7, <2>2 DEF Ended
    <2> QED
      BY <2>1, <2>2
  <1> QED
    BY <1>2, <1>7, <1>9, QuietSteps

LEMMA AnnouncedStep ==
  ASSUME RegistryInv, EndsInv, FeedInv, DeltasTyped, AnnouncedInv, [BusNext]_busVars
  PROVE  AnnouncedInv'
  <1>1. ASSUME UNCHANGED <<feed, deltaIndex, runs>> PROVE AnnouncedInv'
    <2>1. Runs' = Runs
      BY <1>1 DEF Runs
    <2>2. \A q \in Runs : /\ runs'[q].action = runs[q].action
                          /\ runs'[q].phase \in AfterStart <=> runs[q].phase \in AfterStart
                          /\ Ended(q)' = Ended(q)
                          /\ runs'[q].end # runs[q].end => Ended(q) = 0
      BY <1>1 DEF Ended
    <2> QED
      BY <1>1, <2>1, <2>2, QuietSteps
  <1>2. ASSUME NEW o, ReserveAndRun(o) PROVE AnnouncedInv'
    <2>1. PICK run : /\ run.phase = "reserved" /\ Runs' = Runs \union {Len(runs) + 1}
                     /\ runs'[Len(runs) + 1] = run /\ \A r \in Runs : runs'[r] = runs[r]
                     /\ UNCHANGED <<eventVars, logVars, deltaIndex>>
      BY <1>2, OneRunMore DEF RegistryInv
    <2>2. UNCHANGED <<feed, deltaIndex>>
      BY <2>1 DEF eventVars
    <2>3. \A q \in Runs' \ Runs : runs'[q].phase \notin AfterStart
      BY <2>1 DEF AfterStart
    <2>4. \A q \in Runs : /\ runs'[q].action = runs[q].action
                          /\ runs'[q].phase \in AfterStart <=> runs[q].phase \in AfterStart
                          /\ Ended(q)' = Ended(q)
                          /\ runs'[q].end # runs[q].end => Ended(q) = 0
      BY <2>1 DEF Ended
    <2> QED
      BY <2>1, <2>2, <2>3, <2>4, QuietSteps
  <1>3. CASE UNCHANGED busVars
    BY <1>1, <1>3 DEF busVars, runVars, eventVars
  <1>4. CASE Prepare
    BY <1>1, <1>4 DEF Prepare, runVars, eventVars
  <1>5. CASE Delivery
    BY <1>1, <1>5 DEF Delivery, Deliver, runVars
  <1>6. CASE LogSettles
    BY <1>1, <1>6 DEF LogSettles, runVars, eventVars
  <1>7. CASE Calls
    <2>1. ASSUME NEW a \in Actions, Execute(a) PROVE AnnouncedInv'
      BY <1>2, <2>1 DEF Execute
    <2>2. CASE ExecuteDraft
      BY <1>2, <2>2 DEF ExecuteDraft
    <2>3. CASE ListenerCalls /\ UNCHANGED <<logVars, draft, runVars>>
      <3>1. UNCHANGED feed
        BY <2>3 DEF ListenerCalls, Subscribe, SubscribeReplay, Unsubscribe, StartReading, ReadPage
      <3> QED
        BY <1>1, <2>3, <3>1 DEF runVars
    <2> QED
      BY <1>7, <2>1, <2>2, <2>3, CancelIsQuiet DEF Calls
  <1>8. ASSUME NEW r \in Runs, Progress(r) PROVE AnnouncedInv'
    BY <1>8, QuietProgress, BindAnnounces, OutcomeAnnounces DEF Progress
  <1>9. ASSUME NEW r \in Runs, StreamDelta(r) PROVE AnnouncedInv'
    BY <1>9, TokenAnnounces
  <1> QED
    BY <1>3, <1>4, <1>5, <1>6, <1>7, <1>8, <1>9 DEF BusNext

LEMMA AnnouncedInitially == BusInit => AnnouncedInv /\ DeltasTyped
  <1>1. SUFFICES ASSUME BusInit PROVE AnnouncedInv /\ DeltasTyped
    OBVIOUS
  <1>2. runs = <<>> /\ feed = <<>> /\ deltaIndex = [a \in Actions |-> 0]
    BY <1>1 DEF BusInit, EventsInit
  <1>3. \A a : Holders(a) = {}
    BY <1>2 DEF Holders, Runs
  <1>4. \A a : EventsOf(a) = <<>>
    BY <1>2, OnlyOfNone DEF EventsOf
  <1> QED
    BY <1>2, <1>3, <1>4 DEF AnnouncedInv, Announced, DeltasTyped

LEMMA FreshAreAnnounced ==
  ASSUME RegistryInv, FeedInv, DeltasTyped, AnnouncedInv
  PROVE  FreshRunsAreAnnounced
  <1>1. SUFFICES ASSUME NEW r \in Runs, Fresh(r)
                 PROVE  IF runs[r].phase \in {"reserved", "queued", "refused"}
                          THEN EventsOf(runs[r].action) = <<>>
                          ELSE /\ Len(EventsOf(runs[r].action)) = 1 + deltaIndex[runs[r].action] + Ended(r)
                               /\ EventsOf(runs[r].action)[1].type = "started"
                               /\ \A i \in 1..deltaIndex[runs[r].action] :
                                    /\ EventsOf(runs[r].action)[1 + i].type = DeltaType
                                    /\ EventsOf(runs[r].action)[1 + i].id[3] = i - 1
                               /\ Ended(r) = 1 => Last(EventsOf(runs[r].action)).type \in TerminalTypes(runs[r].end)
    BY DEF FreshRunsAreAnnounced, Ended
  <1>2. PICK a \in Actions : a = runs[r].action
    BY RunTypes DEF RegistryInv
  <1>3. runs[r].phase \in Phases
    BY RunTypes DEF RegistryInv, RunRecords
  <1>4. \A q \in Holders(a) : q = r
    <2>1. \A q \in Runs : q # r /\ runs[q].action = a => runs[q].phase = "refused"
      BY <1>1, <1>2 DEF Fresh
    <2> QED
      BY <2>1 DEF Holders, AfterStart
  <1>5. CASE runs[r].phase \in {"reserved", "queued", "refused"}
    <2>1. r \notin Holders(a)
      BY <1>5 DEF Holders, AfterStart
    <2>2. Holders(a) = {}
      BY <1>4, <2>1
    <2> QED
      BY <1>2, <1>5, <2>2 DEF AnnouncedInv, Announced
  <1>6. CASE runs[r].phase \notin {"reserved", "queued", "refused"}
    <2>1. runs[r].phase \in AfterStart
      BY <1>3, <1>6 DEF Phases, Waiting, Bound, AfterStart
    <2>2. r \in Holders(a)
      BY <1>2, <2>1 DEF Holders
    <2>3. Holders(a) = {r}
      BY <1>4, <2>2
    <2>4. Announcement(EventsOf(a), deltaIndex[a], Ended(r), runs[r].end)
      BY <2>2, <2>3 DEF AnnouncedInv, Announced
    <2> QED
      BY <1>2, <1>6, <2>4 DEF Announcement, Last
  <1> QED
    BY <1>5, <1>6

--------------------------------------------------------------------------------
(* The theorems.                                                            *)

\* The inductive invariant of the bus: what the registry guarantees, and what
\* history, log, listeners, readers and announcements make of the feed.
BusInv ==
  /\ RegistryInv /\ EndsInv /\ DeltasTyped
  /\ FeedInv /\ LogInv /\ ListenersInv /\ ReadersInv
  /\ AnnouncedInv

LEMMA BusInvInitially == BusInit => BusInv
  <1>1. SUFFICES ASSUME BusInit PROVE BusInv
    OBVIOUS
  <1>2. EndsInv
    BY <1>1 DEF BusInit, EndsInv, Runs
  <1>3. ReadersInv
    <2>1. options = [l \in Listeners |-> NewOptions] /\ NewOptions.mode = "none"
      BY <1>1 DEF BusInit, EventsInit, NewOptions
    <2> QED
      BY <2>1 DEF ReadersInv, ReaderInv
  <1> QED
    BY <1>1, <1>2, <1>3, RegistryHoldsInitially, FeedInvInitially, LogInvInitially, ListenersInvInitially,
       AnnouncedInitially DEF BusInv

LEMMA BusInvStep == BusInv /\ [BusNext]_busVars => BusInv'
  <1>1. SUFFICES ASSUME BusInv, [BusNext]_busVars PROVE BusInv'
    OBVIOUS
  <1>2. EventStep /\ DeltasTyped'
    BY <1>1, EveryStepIsAnEventStep DEF BusInv, FeedInv
  <1>3. RegistryInv' /\ EndsInv' /\ AnnouncedInv'
    BY <1>1, RegistryStep, EndsStep, AnnouncedStep DEF BusInv
  <1>4. FeedInv' /\ LogInv' /\ ListenersInv' /\ ReadersInv'
    BY <1>1, <1>2, FeedStep, LogStep, ListenersStep, ReadersStep DEF BusInv
  <1> QED
    BY <1>2, <1>3, <1>4 DEF BusInv

LEMMA BusInvHolds == BusSpec => []BusInv
  BY BusInvInitially, BusInvStep, PTL DEF BusSpec

\* The history holds at most as many events as it may retain, and their
\* sequence numbers are consecutive up to the last one given; every other part
\* of the state has its type.
THEOREM BusIsTyped == BusSpec => []BusTypeOK
  <1>1. ASSUME BusInv PROVE BusTypeOK
    <2>1. /\ history \in Seq(EventRecords) /\ Len(history) <= MaxEvents
          /\ \A i \in DOMAIN history : history[i].sequence = nextSequence - 1 - Len(history) + i
          /\ feed \in Seq(EventRecords)
      <3>1. DOMAIN history = 1..Len(history)
        BY <1>1, LenProperties DEF BusInv, FeedInv
      <3> QED
        BY <1>1, <3>1 DEF BusInv, FeedInv, Evicted
    <2>2. /\ ToSet(subscriptions) \subseteq Listeners /\ ToSet(delivering) \subseteq Listeners
          /\ \A l \in Listeners : seen[l] \in Seq(EventRecords)
      BY <1>1, MembersAreTyped DEF BusInv, ListenersInv
    <2>3. logErrors \in Nat
      BY <1>1, FailuresAreFinite DEF BusInv, LogInv
    <2>4. active \in [Actions -> [state: {"none", "reserved", "bound"}, request: 0..MaxRuns]]
      BY <1>1 DEF BusInv, RegistryInv, RegistryTypes, ActiveRecords
    <2>5. \A r \in Runs :
            /\ runs[r].action \in Actions
            /\ runs[r].phase \in {"reserved", "queued", "running", "announced", "released", "refused"}
      <3>1. \A r \in Runs : runs[r] \in RunRecords
        BY <1>1, RunTypes DEF BusInv, RegistryInv
      <3> QED
        BY <3>1 DEF RunRecords, Phases, Waiting, Bound
    <2>6. deltaIndex \in [Actions -> Nat]
      BY <1>1 DEF BusInv, DeltasTyped
    <2> QED
      BY <2>1, <2>2, <2>3, <2>4, <2>5, <2>6 DEF BusTypeOK
  <1>2. BusInv => BusTypeOK
    BY <1>1
  <1> QED
    BY <1>2, BusInvHolds, PTL

\* Every recorded event is handed to the log, once and in the order of the
\* feed, and every failure of the log is counted once, whatever it answers and
\* in whichever order its promises settle.
THEOREM TheLogFollows == BusSpec => []LogFollowsTheFeed
  <1>1. BusInv => LogFollowsTheFeed
    BY LogFollows DEF BusInv
  <1> QED
    BY <1>1, BusInvHolds, PTL

\* A subscriber is given what it asked for, in order and once: a replay joins
\* what is published later without a gap or a repetition, even when listeners
\* subscribe and unsubscribe while an event is delivered.
THEOREM SubscribersMissNothing == BusSpec => []ListenersSeeTheFeed
  <1>1. BusInv => ListenersSeeTheFeed
    BY DEF BusInv, ListenersInv, ListenersSeeTheFeed, SeesTheFeed
  <1> QED
    BY <1>1, BusInvHolds, PTL

\* A reader that pages with its cursor gets every event once and in order, and
\* skips only what the bounded history had dropped before it came by.
THEOREM ReadersSkipOnlyTheEvicted == BusSpec => []ReadersMissOnlyTheEvicted
  <1>1. BusInv => ReadersMissOnlyTheEvicted
    BY ReadersMiss DEF BusInv
  <1> QED
    BY <1>1, BusInvHolds, PTL

\* A run whose id is fresh is announced by a started event, then its tokens in
\* order, then one event of the type its end asks for, however other runs,
\* cancellations and listeners come between.
THEOREM FreshRunsTellTheirStory == BusSpec => []FreshRunsAreAnnounced
  <1>1. BusInv => FreshRunsAreAnnounced
    BY FreshAreAnnounced DEF BusInv
  <1> QED
    BY <1>1, BusInvHolds, PTL
================================================================================
