---------------------------- MODULE BPTreeWalkProofs ----------------------------
(***************************************************************************)
(* What the read-only methods of the tree come across when they walk it:   *)
(* every block once, the leaves in the order of the scan, and as many      *)
(* entries as the handle has counted.                                      *)
(***************************************************************************)
EXTENDS BPTreeMapProofs

-----------------------------------------------------------------------------
(* Joining sequences, one after the other.                                 *)

(* What is so of 1, and of i + 1 when it is of i, is so up to n.           *)
LEMMA UpToHere ==
  ASSUME NEW n \in Nat, NEW S, 1 \in S, \A i \in 1..(n - 1) : i \in S => i + 1 \in S
  PROVE  1..n \subseteq S
<1> DEFINE R == { m \in Nat : m + 1 \in 1..n => m + 1 \in S }
<1>1. 0 \in R OBVIOUS
<1>2. ASSUME NEW m \in R PROVE m + 1 \in R
  <2>1. m \in Nat /\ m + 1 \in Nat OBVIOUS
  <2> SUFFICES ASSUME (m + 1) + 1 \in 1..n PROVE (m + 1) + 1 \in S BY <2>1
  <2>2. m + 1 \in 1..n /\ m + 1 \in 1..(n - 1) BY <2>1
  <2>3. m + 1 \in S BY <2>2
  <2> QED BY <2>2, <2>3
<1>3. R = Nat
  <2>1. R \subseteq Nat OBVIOUS
  <2> HIDE DEF R
  <2> QED BY <1>1, <1>2, <2>1, CountUp
<1>4. ASSUME NEW i \in 1..n PROVE i \in S
  <2>1. i - 1 \in Nat /\ (i - 1) + 1 = i OBVIOUS
  <2>2. i - 1 \in R BY <1>3, <2>1
  <2> QED BY <2>1, <2>2
<1> QED BY <1>4

(* The values of g, from w on, in so many steps.                           *)
Steps(W, w, g, n, f) ==
  /\ f \in [ 1..n -> W ] /\ f[1] = w
  /\ \A i \in 1..(n - 1) : f[i + 1] = g[<<i + 1, f[i]>>]

LEMMA StepsTo ==
  ASSUME NEW W, NEW n \in Nat \ {0}, NEW w \in W, NEW g \in [ (1..n) \X W -> W ]
  PROVE  \E f : Steps(W, w, g, n, f)
<1> DEFINE S == { m \in 1..n : \E f : Steps(W, w, g, m, f) }
<1>1. 1 \in S
  <2>1. Steps(W, w, g, 1, [ i \in 1..1 |-> w ]) BY DEF Steps
  <2> QED BY <2>1
<1>2. ASSUME NEW m \in 1..(n - 1), m \in S PROVE m + 1 \in S
  <2>1. m \in Nat /\ m + 1 \in 1..n /\ m \in 1..m /\ m \in 1..n OBVIOUS
  <2>2. PICK a : Steps(W, w, g, m, a) BY <1>2
  <2>3. a[m] \in W BY <2>1, <2>2 DEF Steps
  <2> DEFINE v == g[<<m + 1, a[m]>>]
             b == [ i \in 1..(m + 1) |-> IF i = m + 1 THEN v ELSE a[i] ]
  <2>4. v \in W
    <3>1. <<m + 1, a[m]>> \in (1..n) \X W BY <2>1, <2>3
    <3> QED BY <3>1
  <2> HIDE DEF v
  <2>5. \A i \in 1..(m + 1) : i # m + 1 => i \in 1..m /\ a[i] \in W BY <2>1, <2>2 DEF Steps
  <2>6. b \in [ 1..(m + 1) -> W ] BY <2>4, <2>5
  <2>7. b[1] = w BY <2>1, <2>2 DEF Steps
  <2>8. ASSUME NEW i \in 1..((m + 1) - 1) PROVE b[i + 1] = g[<<i + 1, b[i]>>]
    <3>1. i \in 1..m /\ b[i] = a[i] BY <2>1
    <3>2. CASE i = m BY <2>1, <3>1, <3>2 DEF v
    <3>3. CASE i # m
      <4>1. i \in 1..(m - 1) /\ b[i + 1] = a[i + 1] BY <2>1, <3>1, <3>3
      <4> QED BY <2>2, <3>1, <4>1 DEF Steps
    <3> QED BY <3>2, <3>3
  <2> HIDE DEF b
  <2>9. Steps(W, w, g, m + 1, b) BY <2>6, <2>7, <2>8 DEF Steps
  <2> QED BY <2>1, <2>9
<1>3. 1..n \subseteq S
  <2>1. n \in Nat OBVIOUS
  <2> HIDE DEF S
  <2> QED BY <1>1, <1>2, <2>1, UpToHere
<1> QED BY <1>3

(* The sequence f[i] is the first i sequences of ss, joined.               *)
Joins(ss, f) ==
  /\ f[1] = ss[1]
  /\ \A i \in 1..(Len(ss) - 1) : f[i + 1] = f[i] \o ss[i + 1]

(* FlattenSeq joins its sequences one by one.                              *)
LEMMA Joining ==
  ASSUME NEW T, NEW ss \in Seq(Seq(T)), ss # <<>>
  PROVE  \E f \in [ 1..Len(ss) -> Seq(T) ] : Joins(ss, f) /\ FlattenSeq(ss) = f[Len(ss)]
<1> DEFINE n == Len(ss)
           W == Seq(T)
           At(F, i) == IF i = 1 THEN ss[i] ELSE F[i - 1] \o ss[i]
           g == [ p \in (1..n) \X W |-> p[2] \o ss[p[1]] ]
<1>1. n \in Nat \ {0} /\ 1 \in 1..n /\ \A i \in 1..n : ss[i] \in W
  BY EmptySeq, ElementOfSeq
<1>2. ASSUME NEW F, F = [ i \in 1..n |-> At(F, i) ]
      PROVE  \E h : h = [ i \in 1..n |-> At(h, i) ] /\ FlattenSeq(ss) = h[n]
  <2>1. n # 0 BY <1>1
  <2> QED BY <1>2, <2>1, Zenon DEF FlattenSeq
<1> HIDE DEF n
<1>3. \A x, y \in W : x \o y \in W BY ConcatProperties
<1> HIDE DEF W
<1>4. ASSUME NEW i \in 1..n, NEW x \in W
      PROVE  x \o ss[i] \in W /\ g[<<i, x>>] = x \o ss[i]
  <2>1. <<i, x>> \in (1..n) \X W OBVIOUS
  <2> QED BY <1>1, <1>3, <2>1
<1>5. g \in [ (1..n) \X W -> W ] BY <1>1, <1>3
<1>6. PICK f : Steps(W, ss[1], g, n, f)
  <2>1. ss[1] \in W BY <1>1
  <2> HIDE DEF g
  <2> QED BY <1>1, <1>5, <2>1, StepsTo
<1> HIDE DEF g
<1>7. f \in [ 1..n -> W ] /\ f[1] = ss[1] BY <1>6 DEF Steps
<1>8. ASSUME NEW i \in 1..(n - 1) PROVE f[i + 1] = f[i] \o ss[i + 1]
  <2>1. i \in 1..n /\ i + 1 \in 1..n /\ f[i] \in W BY <1>1, <1>7
  <2>2. f[i + 1] = g[<<i + 1, f[i]>>] BY <1>6 DEF Steps
  <2> QED BY <1>4, <2>1, <2>2
<1>9. ASSUME NEW a, a = [ i \in 1..n |-> At(a, i) ] PROVE a = f
  <2>1. \A i \in 1..n : a[i] = At(a, i) BY <1>9
  <2> DEFINE S == { i \in 1..n : a[i] = f[i] }
  <2>2. 1 \in S BY <1>1, <1>7, <2>1
  <2>3. ASSUME NEW i \in 1..(n - 1), i \in S PROVE i + 1 \in S
    <3>1. i + 1 \in 1..n /\ i + 1 # 1 /\ (i + 1) - 1 = i /\ a[i] = f[i] BY <1>1, <2>3
    <3>2. a[i + 1] = a[i] \o ss[i + 1] BY <2>1, <3>1
    <3> QED BY <1>8, <3>1, <3>2
  <2> HIDE DEF S
  <2>4. 1..n \subseteq S BY <1>1, <2>2, <2>3, UpToHere
  <2>5. \A i \in 1..n : a[i] = f[i] BY <2>4 DEF S
  <2>6. a = [ i \in 1..n |-> a[i] ] BY <1>9
  <2> QED BY <1>7, <2>5, <2>6
<1>10. f = [ i \in 1..n |-> At(f, i) ]
  <2>1. ASSUME NEW i \in 1..n PROVE f[i] = At(f, i)
    <3>1. CASE i = 1 BY <1>7, <3>1
    <3>2. CASE i # 1
      <4>1. i - 1 \in 1..(n - 1) /\ (i - 1) + 1 = i BY <1>1, <3>2
      <4>2. f[i] = f[i - 1] \o ss[i] BY <1>8, <4>1
      <4> QED BY <3>2, <4>2
    <3> QED BY <3>1, <3>2
  <2> HIDE DEF At
  <2>2. f = [ i \in 1..n |-> f[i] ] BY <1>7
  <2> QED BY <2>1, <2>2
<1> HIDE DEF At
<1>11. FlattenSeq(ss) = f[n] BY <1>2, <1>9, <1>10
<1>12. Joins(ss, f) BY <1>7, <1>8 DEF Joins, n
<1> QED BY <1>7, <1>11, <1>12 DEF n, W

(* Two sequences, one after the other.                                     *)
LEMMA TwoJoined ==
  ASSUME NEW T, NEW s \in Seq(T), NEW t \in Seq(T)
  PROVE  /\ s \o t \in Seq(T)
         /\ Len(s) \in Nat /\ Len(t) \in Nat /\ Len(s \o t) = Len(s) + Len(t)
         /\ \A i \in 1..Len(s) : (s \o t)[i] = s[i]
         /\ \A j \in 1..Len(t) : Len(s) + j \in 1..Len(s \o t) /\ (s \o t)[Len(s) + j] = t[j]
         /\ \A i \in 1..Len(s \o t) :
              i \in 1..Len(s) \/ (i - Len(s) \in 1..Len(t) /\ (s \o t)[i] = t[i - Len(s)])
<1>1. Len(s) \in Nat /\ Len(t) \in Nat BY LenProperties
<1>2. /\ s \o t \in Seq(T) /\ Len(s \o t) = Len(s) + Len(t)
      /\ \A i \in 1..(Len(s) + Len(t)) :
           (s \o t)[i] = IF i <= Len(s) THEN s[i] ELSE t[i - Len(s)]
  BY ConcatProperties
<1> QED BY <1>1, <1>2

LEMMA JoinedSet ==
  ASSUME NEW T, NEW s \in Seq(T), NEW t \in Seq(T)
  PROVE  ToSet(s \o t) = ToSet(s) \cup ToSet(t)
<1> DEFINE u == s \o t
<1>1. /\ u \in Seq(T) /\ DOMAIN u = 1..Len(u) /\ DOMAIN s = 1..Len(s) /\ DOMAIN t = 1..Len(t)
      /\ Len(s) \in Nat /\ Len(t) \in Nat /\ Len(u) = Len(s) + Len(t)
      /\ \A i \in 1..Len(s) : u[i] = s[i]
      /\ \A j \in 1..Len(t) : Len(s) + j \in 1..Len(u) /\ u[Len(s) + j] = t[j]
      /\ \A i \in 1..Len(u) :
           i \in 1..Len(s) \/ (i - Len(s) \in 1..Len(t) /\ u[i] = t[i - Len(s)])
  BY TwoJoined, LenProperties
<1> HIDE DEF u
<1>2. ASSUME NEW x \in ToSet(u) PROVE x \in ToSet(s) \cup ToSet(t)
  <2>1. PICK i \in 1..Len(u) : u[i] = x BY <1>1, <1>2 DEF ToSet
  <2>2. CASE i \in 1..Len(s) BY <1>1, <2>1, <2>2 DEF ToSet
  <2>3. CASE i \notin 1..Len(s) BY <1>1, <2>1, <2>3 DEF ToSet
  <2> QED BY <2>2, <2>3
<1>3. ASSUME NEW x \in ToSet(s) PROVE x \in ToSet(u)
  <2>1. PICK i \in 1..Len(s) : s[i] = x BY <1>1, <1>3 DEF ToSet
  <2>2. i \in 1..Len(u) /\ u[i] = x BY <1>1, <2>1
  <2> QED BY <1>1, <2>2 DEF ToSet
<1>4. ASSUME NEW x \in ToSet(t) PROVE x \in ToSet(u)
  <2>1. PICK i \in 1..Len(t) : t[i] = x BY <1>1, <1>4 DEF ToSet
  <2> QED BY <1>1, <2>1 DEF ToSet
<1> QED BY <1>2, <1>3, <1>4 DEF u

LEMMA JoinedInjective ==
  ASSUME NEW T, NEW s \in Seq(T), NEW t \in Seq(T),
         IsInjective(s), IsInjective(t), ToSet(s) \cap ToSet(t) = {}
  PROVE  IsInjective(s \o t)
<1> DEFINE u == s \o t
<1>1. /\ u \in Seq(T) /\ DOMAIN u = 1..Len(u) /\ DOMAIN s = 1..Len(s) /\ DOMAIN t = 1..Len(t)
      /\ Len(s) \in Nat /\ Len(t) \in Nat /\ Len(u) = Len(s) + Len(t)
      /\ \A i \in 1..Len(s) : u[i] = s[i]
      /\ \A i \in 1..Len(u) :
           i \in 1..Len(s) \/ (i - Len(s) \in 1..Len(t) /\ u[i] = t[i - Len(s)])
  BY TwoJoined, LenProperties
<1> HIDE DEF u
<1>2. \A i \in 1..Len(s) : s[i] \in ToSet(s) BY <1>1 DEF ToSet
<1>3. \A i \in 1..Len(t) : t[i] \in ToSet(t) BY <1>1 DEF ToSet
<1>4. ASSUME NEW i \in 1..Len(u), NEW j \in 1..Len(u), u[i] = u[j] PROVE i = j
  <2>1. CASE i \in 1..Len(s) /\ j \in 1..Len(s) BY <1>1, <1>4, <2>1 DEF IsInjective
  <2>2. CASE i \in 1..Len(s) /\ j \notin 1..Len(s)
    BY <1>1, <1>2, <1>3, <1>4, <2>2
  <2>3. CASE i \notin 1..Len(s) /\ j \in 1..Len(s)
    BY <1>1, <1>2, <1>3, <1>4, <2>3
  <2>4. CASE i \notin 1..Len(s) /\ j \notin 1..Len(s)
    <3>1. i - Len(s) \in 1..Len(t) /\ j - Len(s) \in 1..Len(t) /\ t[i - Len(s)] = t[j - Len(s)]
      BY <1>1, <1>4, <2>4
    <3>2. i - Len(s) = j - Len(s) BY <1>1, <3>1 DEF IsInjective
    <3> QED BY <1>1, <3>2
  <2> QED BY <2>1, <2>2, <2>3, <2>4
<1> QED BY <1>1, <1>4 DEF IsInjective, u

(* Each element and the next one are a pair in R.                          *)
Linked(R, s) == \A i \in 1..(Len(s) - 1) : <<s[i], s[i + 1]>> \in R

LEMMA JoinedLinked ==
  ASSUME NEW T, NEW s \in Seq(T), NEW t \in Seq(T), s # <<>>, t # <<>>, NEW R,
         Linked(R, s), Linked(R, t), <<s[Len(s)], t[1]>> \in R
  PROVE  /\ Linked(R, s \o t) /\ s \o t # <<>>
         /\ (s \o t)[1] = s[1] /\ (s \o t)[Len(s \o t)] = t[Len(t)]
<1> DEFINE u == s \o t
<1>1. /\ u \in Seq(T)
      /\ Len(s) \in Nat \ {0} /\ Len(t) \in Nat \ {0} /\ Len(u) = Len(s) + Len(t)
      /\ \A i \in 1..Len(s) : u[i] = s[i]
      /\ \A j \in 1..Len(t) : u[Len(s) + j] = t[j]
  BY TwoJoined, EmptySeq
<1> HIDE DEF u
<1>2. u # <<>> /\ u[1] = s[1] /\ u[Len(u)] = t[Len(t)] BY <1>1, EmptySeq
<1>3. ASSUME NEW i \in 1..(Len(u) - 1) PROVE <<u[i], u[i + 1]>> \in R
  <2>1. CASE i < Len(s)
    <3>1. i \in 1..(Len(s) - 1) /\ u[i] = s[i] /\ u[i + 1] = s[i + 1] BY <1>1, <2>1
    <3> QED BY <3>1 DEF Linked
  <2>2. CASE i = Len(s)
    <3>1. 1 \in 1..Len(t) /\ i \in 1..Len(s) /\ i + 1 = Len(s) + 1 BY <1>1, <2>2
    <3>2. u[i] = s[Len(s)] /\ u[i + 1] = t[1] BY <1>1, <2>2, <3>1
    <3> QED BY <3>2
  <2>3. CASE i > Len(s)
    <3>1. i - Len(s) \in 1..Len(t) BY <1>1, <2>3
    <3>2. PICK j \in 1..Len(t) : j = i - Len(s) BY <3>1
    <3>3. /\ j \in 1..(Len(t) - 1) /\ j \in 1..Len(t) /\ j + 1 \in 1..Len(t)
          /\ Len(s) + j = i /\ Len(s) + (j + 1) = i + 1
      BY <1>1, <2>3, <3>2
    <3>4. u[i] = t[j] /\ u[i + 1] = t[j + 1] BY <1>1, <3>3
    <3> QED BY <3>3, <3>4 DEF Linked
  <2> QED BY <1>1, <2>1, <2>2, <2>3
<1> QED BY <1>2, <1>3 DEF Linked, u

(* What FlattenSeq joins is what its sequences have.                       *)
UpTo(ss, i) == UNION { ToSet(ss[j]) : j \in 1..i }

LEMMA FlattenedSets ==
  ASSUME NEW T, NEW ss \in Seq(Seq(T)), NEW f \in [ 1..Len(ss) -> Seq(T) ], Joins(ss, f)
  PROVE  \A i \in 1..Len(ss) : ToSet(f[i]) = UpTo(ss, i)
<1> DEFINE n == Len(ss)
           S == { i \in 1..n : ToSet(f[i]) = UpTo(ss, i) }
<1>1. n \in Nat /\ \A i \in 1..n : ss[i] \in Seq(T) /\ f[i] \in Seq(T)
  BY LenProperties, ElementOfSeq
<1>2. CASE n = 0 BY <1>1, <1>2
<1>3. CASE n # 0
  <2>1. 1 \in S
    <3>1. 1..1 = {1} /\ 1 \in 1..n BY <1>1, <1>3
    <3>2. UpTo(ss, 1) = ToSet(ss[1]) BY <3>1 DEF UpTo
    <3> QED BY <3>1, <3>2 DEF Joins
  <2>2. ASSUME NEW i \in 1..(n - 1), i \in S PROVE i + 1 \in S
    <3>1. i \in 1..n /\ i + 1 \in 1..n /\ 1..(i + 1) = (1..i) \cup {i + 1} BY <1>1
    <3>2. f[i + 1] = f[i] \o ss[i + 1] BY DEF Joins
    <3>3. ToSet(f[i + 1]) = ToSet(f[i]) \cup ToSet(ss[i + 1]) BY <1>1, <3>1, <3>2, JoinedSet
    <3>4. UpTo(ss, i + 1) = UpTo(ss, i) \cup ToSet(ss[i + 1])
      <4> HIDE DEF n
      <4> QED BY <3>1 DEF UpTo
    <3>5. ToSet(f[i]) = UpTo(ss, i) BY <2>2
    <3> QED BY <3>1, <3>3, <3>4, <3>5
  <2> HIDE DEF S
  <2>3. 1..n \subseteq S BY <1>1, <2>1, <2>2, UpToHere
  <2> QED BY <2>3 DEF S
<1> QED BY <1>2, <1>3

LEMMA FlattenedSet ==
  ASSUME NEW T, NEW ss \in Seq(Seq(T)), ss # <<>>
  PROVE  /\ FlattenSeq(ss) \in Seq(T)
         /\ ToSet(FlattenSeq(ss)) = UNION { ToSet(ss[j]) : j \in 1..Len(ss) }
<1>1. PICK f \in [ 1..Len(ss) -> Seq(T) ] : Joins(ss, f) /\ FlattenSeq(ss) = f[Len(ss)] BY Joining
<1>2. Len(ss) \in Nat \ {0} /\ Len(ss) \in 1..Len(ss) BY EmptySeq
<1>3. ToSet(f[Len(ss)]) = UpTo(ss, Len(ss)) BY <1>1, <1>2, FlattenedSets
<1> QED BY <1>1, <1>2, <1>3 DEF UpTo

LEMMA FlattenedInjective ==
  ASSUME NEW T, NEW ss \in Seq(Seq(T)), ss # <<>>,
         \A i \in 1..Len(ss) : IsInjective(ss[i]),
         \A i, j \in 1..Len(ss) : i # j => ToSet(ss[i]) \cap ToSet(ss[j]) = {}
  PROVE  IsInjective(FlattenSeq(ss))
<1>1. PICK f \in [ 1..Len(ss) -> Seq(T) ] : Joins(ss, f) /\ FlattenSeq(ss) = f[Len(ss)] BY Joining
<1> DEFINE n == Len(ss)
           S == { i \in 1..n : IsInjective(f[i]) }
<1>2. n \in Nat \ {0} /\ n \in 1..n /\ 1 \in 1..n BY EmptySeq
<1>3. \A i \in 1..n : ss[i] \in Seq(T) /\ f[i] \in Seq(T) BY <1>1, ElementOfSeq
<1>4. 1 \in S BY <1>1, <1>2 DEF Joins
<1>5. ASSUME NEW i \in 1..(n - 1), i \in S PROVE i + 1 \in S
  <2>1. i \in 1..n /\ i + 1 \in 1..n /\ \A j \in 1..i : j \in 1..n /\ j # i + 1 BY <1>2
  <2>2. f[i + 1] = f[i] \o ss[i + 1] BY <1>1 DEF Joins
  <2>3. ToSet(f[i]) = UpTo(ss, i) BY <1>1, <2>1, FlattenedSets
  <2>4. ToSet(f[i]) \cap ToSet(ss[i + 1]) = {}
    <3> SUFFICES ASSUME NEW x \in ToSet(f[i]) PROVE x \notin ToSet(ss[i + 1]) OBVIOUS
    <3>1. PICK j \in 1..i : x \in ToSet(ss[j]) BY <2>3 DEF UpTo
    <3> QED BY <2>1, <3>1
  <2>5. IsInjective(f[i]) /\ IsInjective(ss[i + 1]) BY <1>5, <2>1
  <2>6. IsInjective(f[i] \o ss[i + 1]) BY <1>3, <2>1, <2>4, <2>5, JoinedInjective
  <2> QED BY <2>1, <2>2, <2>6
<1> HIDE DEF S
<1>6. 1..n \subseteq S BY <1>2, <1>4, <1>5, UpToHere
<1> QED BY <1>1, <1>2, <1>6 DEF S

LEMMA FlattenedLinked ==
  ASSUME NEW T, NEW ss \in Seq(Seq(T)), ss # <<>>, NEW R,
         \A i \in 1..Len(ss) : ss[i] # <<>> /\ Linked(R, ss[i]),
         \A i \in 1..(Len(ss) - 1) : <<ss[i][Len(ss[i])], ss[i + 1][1]>> \in R
  PROVE  LET u == FlattenSeq(ss)
         IN /\ u # <<>> /\ Linked(R, u)
            /\ u[1] = ss[1][1] /\ u[Len(u)] = ss[Len(ss)][Len(ss[Len(ss)])]
<1>1. PICK f \in [ 1..Len(ss) -> Seq(T) ] : Joins(ss, f) /\ FlattenSeq(ss) = f[Len(ss)] BY Joining
<1> DEFINE n == Len(ss)
           Fine(i) == /\ f[i] # <<>> /\ Linked(R, f[i]) /\ f[i][1] = ss[1][1]
                      /\ f[i][Len(f[i])] = ss[i][Len(ss[i])]
           S == { i \in 1..n : Fine(i) }
<1>2. n \in Nat \ {0} /\ n \in 1..n /\ 1 \in 1..n BY EmptySeq
<1>3. \A i \in 1..n : ss[i] \in Seq(T) /\ f[i] \in Seq(T) BY <1>1, ElementOfSeq
<1>4. 1 \in S BY <1>1, <1>2 DEF Joins
<1>5. ASSUME NEW i \in 1..(n - 1), i \in S PROVE i + 1 \in S
  <2>1. i \in 1..n /\ i + 1 \in 1..n BY <1>2
  <2>2. f[i + 1] = f[i] \o ss[i + 1] BY <1>1 DEF Joins
  <2>3. Fine(i) BY <1>5
  <2>4. <<f[i][Len(f[i])], ss[i + 1][1]>> \in R BY <2>3
  <2>5. ss[i + 1] # <<>> /\ Linked(R, ss[i + 1]) BY <2>1
  <2>6. ss[i + 1] \in Seq(T) /\ f[i] \in Seq(T) BY <1>3, <2>1
  <2>7. Fine(i + 1)
    <3>1. f[i] # <<>> /\ Linked(R, f[i]) BY <2>3
    <3>2. /\ Linked(R, f[i] \o ss[i + 1]) /\ f[i] \o ss[i + 1] # <<>>
          /\ (f[i] \o ss[i + 1])[1] = f[i][1]
          /\ (f[i] \o ss[i + 1])[Len(f[i] \o ss[i + 1])] = ss[i + 1][Len(ss[i + 1])]
      BY <2>4, <2>5, <2>6, <3>1, JoinedLinked
    <3> QED BY <2>2, <2>3, <3>2
  <2> QED BY <2>1, <2>7
<1> HIDE DEF S
<1>6. 1..n \subseteq S BY <1>2, <1>4, <1>5, UpToHere
<1>7. Fine(n) BY <1>2, <1>6 DEF S
<1> QED BY <1>1, <1>7

-----------------------------------------------------------------------------
(* Going down the tree: what is found below a block, from what is found    *)
(* below its children with one level less to go.                           *)

Finds == [ BlockId -> Seq(BlockId) ]

BelowChildren(w, b) == [ i \in DOMAIN blocks[b].child_ids |-> w[blocks[b].child_ids[i]] ]

LEMMA ChildrenFind ==
  ASSUME NEW s, Tree(blocks, s, ROOT_ID), NEW b \in DOMAIN blocks, IsInternal(blocks[b]),
         NEW w \in Finds
  PROVE  LET ss == BelowChildren(w, b)
         IN /\ ss \in Seq(Seq(BlockId)) /\ ss # <<>>
            /\ Len(ss) = Len(blocks[b].keys) + 1 /\ Len(blocks[b].keys) \in Nat
            /\ \A i \in 1..Len(ss) : ss[i] = w[blocks[b].child_ids[i]]
            /\ FlattenSeq(ss) \in Seq(BlockId)
<1> DEFINE ss == BelowChildren(w, b)
           n == Len(blocks[b].keys) + 1
<1>1. blocks[b] \in WellShaped BY TreeNode
<1>2. /\ Len(blocks[b].keys) \in Nat /\ DOMAIN blocks[b].child_ids = 1..n
      /\ \A i \in 1..n : blocks[b].child_ids[i] \in BlockId
  BY <1>1, NodeParts DEF Allotted, BlockId
<1> HIDE DEF n
<1>3. n \in Nat \ {0} BY <1>2 DEF n
<1>4. ss = [ i \in 1..n |-> w[blocks[b].child_ids[i]] ] BY <1>2 DEF BelowChildren
<1>5. ss \in [ 1..n -> Seq(BlockId) ] BY <1>2, <1>4 DEF Finds
<1>6. ss \in Seq(Seq(BlockId)) /\ Len(ss) = n
  <2> HIDE DEF ss
  <2>1. ss \in Seq(Seq(BlockId)) BY <1>3, <1>5, IsASeq
  <2>2. DOMAIN ss = 1..n /\ DOMAIN ss = 1..Len(ss) /\ Len(ss) \in Nat BY <1>5, <2>1, LenProperties
  <2> QED BY <1>3, <2>1, <2>2
<1>7. ss # <<>> BY <1>3, <1>6, EmptySeq
<1>8. FlattenSeq(ss) \in Seq(BlockId) BY <1>6, <1>7, FlattenedSet
<1> QED BY <1>2, <1>4, <1>6, <1>7, <1>8 DEF n

(* A function by recursion on the naturals.                                *)
LEMMA Recursion ==
  ASSUME NEW W, NEW w \in W, NEW g \in [ W -> W ]
  PROVE  \E f \in [ Nat -> W ] :
           f[0] = w /\ \A n \in Nat \ {0} : f[n - 1] \in W /\ f[n] = g[f[n - 1]]
<1>1. PICK f \in [ Nat -> W ] : f[0] = w /\ \A n \in Nat : f[n + 1] = g[f[n]] BY WalkOn
<1>2. ASSUME NEW n \in Nat \ {0} PROVE f[n - 1] \in W /\ f[n] = g[f[n - 1]]
  <2>1. n - 1 \in Nat /\ (n - 1) + 1 = n OBVIOUS
  <2> QED BY <1>1, <2>1
<1> QED BY <1>1, <1>2

(* It stays in a set that each of its values takes it to.                  *)
LEMMA RecursionType ==
  ASSUME NEW W, NEW F, F[0] \in W, \A n \in Nat : F[n] \in W => F[n + 1] \in W
  PROVE  \A n \in Nat : F[n] \in W
<1> DEFINE S == { n \in Nat : F[n] \in W }
<1>1. 0 \in S OBVIOUS
<1>2. ASSUME NEW n \in S PROVE n + 1 \in S OBVIOUS
<1>3. S \subseteq Nat OBVIOUS
<1> HIDE DEF S
<1>4. S = Nat BY <1>1, <1>2, <1>3, CountUp
<1> QED BY <1>4 DEF S

(* collect_blocks_recursive, level by level.                               *)
BlocksMore(w) ==
  [ id \in BlockId |->
    IF id \notin DOMAIN blocks THEN <<id>>
    ELSE <<id>> \o FlattenSeq(BelowChildren(w, id)) ]

LEMMA BlocksMoreType ==
  ASSUME NEW s, Tree(blocks, s, ROOT_ID), NEW w \in Finds
  PROVE  BlocksMore(w) \in Finds
<1> SUFFICES ASSUME NEW b \in BlockId, b \in DOMAIN blocks
             PROVE  <<b>> \o FlattenSeq(BelowChildren(w, b)) \in Seq(BlockId)
  BY DEF BlocksMore, Finds
<1>1. /\ blocks[b] \in WellShaped /\ (IsLeaf(blocks[b]) \/ IsInternal(blocks[b]))
  BY TreeNode, NodeParts
<1>2. FlattenSeq(BelowChildren(w, b)) \in Seq(BlockId)
  <2>1. CASE IsInternal(blocks[b]) BY <2>1, ChildrenFind
  <2>2. CASE IsLeaf(blocks[b])
    <3>1. blocks[b].child_ids = <<>> BY <1>1, <2>2, NodeParts
    <3>2. BelowChildren(w, b) = <<>> BY <3>1 DEF BelowChildren
    <3>3. FlattenSeq(<<>>) = <<>> BY DEF FlattenSeq
    <3> QED BY <3>2, <3>3, EmptySeq
  <2> QED BY <1>1, <2>1, <2>2
<1>3. <<b>> \in Seq(BlockId) OBVIOUS
<1> QED BY <1>2, <1>3, ConcatProperties

LEMMA BlocksLevels ==
  ASSUME NEW s, Tree(blocks, s, ROOT_ID)
  PROVE  \A n \in Nat : BlocksBelow[n] \in Finds /\ BlocksBelow[n + 1] = BlocksMore(BlocksBelow[n])
<1> DEFINE w == [ id \in BlockId |-> <<id>> ]
           g == [ x \in Finds |-> BlocksMore(x) ]
           At(F, fuel) == [ id \in BlockId |->
             IF fuel = 0 \/ id \notin DOMAIN blocks THEN <<id>>
             ELSE <<id>> \o FlattenSeq([ i \in DOMAIN blocks[id].child_ids |->
                                          F[fuel - 1][blocks[id].child_ids[i]] ]) ]
<1>1. w \in Finds BY DEF Finds
<1>2. g \in [ Finds -> Finds ] BY BlocksMoreType
<1>3. \A F : At(F, 0) = w OBVIOUS
<1>4. \A F : \A fuel \in Nat \ {0} : At(F, fuel) = BlocksMore(F[fuel - 1])
  BY DEF BlocksMore, BelowChildren
<1>5. ASSUME NEW F, F = [ fuel \in Nat |-> At(F, fuel) ]
      PROVE  BlocksBelow = [ fuel \in Nat |-> At(BlocksBelow, fuel) ]
  BY <1>5, Zenon DEF BlocksBelow
<1> HIDE DEF g, w, At
<1>6. PICK f \in [ Nat -> Finds ] :
        f[0] = w /\ \A n \in Nat \ {0} : f[n - 1] \in Finds /\ f[n] = g[f[n - 1]]
  BY <1>1, <1>2, Recursion
<1>7. f = [ fuel \in Nat |-> At(f, fuel) ]
  <2>1. ASSUME NEW fuel \in Nat PROVE f[fuel] = At(f, fuel)
    <3>1. CASE fuel = 0 BY <1>3, <1>6, <3>1
    <3>2. CASE fuel # 0 BY <1>4, <1>6, <3>2 DEF g
    <3> QED BY <3>1, <3>2
  <2>2. f = [ fuel \in Nat |-> f[fuel] ] BY <1>6
  <2> QED BY <2>1, <2>2
<1>8. BlocksBelow = [ fuel \in Nat |-> At(BlocksBelow, fuel) ] BY <1>5, <1>7
<1>9. BlocksBelow[0] \in Finds BY <1>1, <1>3, <1>8
<1>10. ASSUME NEW n \in Nat PROVE BlocksBelow[n + 1] = BlocksMore(BlocksBelow[n])
  <2>1. n + 1 \in Nat \ {0} /\ (n + 1) - 1 = n OBVIOUS
  <2>2. BlocksBelow[n + 1] = At(BlocksBelow, n + 1) BY <1>8, <2>1
  <2>3. At(BlocksBelow, n + 1) = BlocksMore(BlocksBelow[(n + 1) - 1]) BY <1>4, <2>1
  <2> QED BY <2>1, <2>2, <2>3
<1>11. \A x \in Finds : BlocksMore(x) \in Finds BY BlocksMoreType
<1>12. \A n \in Nat : BlocksBelow[n] \in Finds BY <1>9, <1>10, <1>11, RecursionType
<1> QED BY <1>10, <1>12

(* Below a leaf there is nothing else, below an inner node what is below   *)
(* its children.                                                           *)
LEMMA BlocksOf ==
  ASSUME NEW s, Tree(blocks, s, ROOT_ID), NEW n \in Nat, NEW b \in DOMAIN blocks
  PROVE  /\ BlocksBelow[n] \in Finds
         /\ IsLeaf(blocks[b]) => BlocksBelow[n + 1][b] = <<b>>
         /\ IsInternal(blocks[b]) =>
              BlocksBelow[n + 1][b] = <<b>> \o FlattenSeq(BelowChildren(BlocksBelow[n], b))
<1>1. b \in BlockId /\ blocks[b] \in WellShaped BY TreeNode
<1>2. BlocksBelow[n] \in Finds /\ BlocksBelow[n + 1] = BlocksMore(BlocksBelow[n]) BY BlocksLevels
<1>3. BlocksBelow[n + 1][b] = <<b>> \o FlattenSeq(BelowChildren(BlocksBelow[n], b))
  BY <1>1, <1>2 DEF BlocksMore
<1>4. ASSUME IsLeaf(blocks[b]) PROVE BlocksBelow[n + 1][b] = <<b>>
  <2>1. blocks[b].child_ids = <<>> BY <1>1, <1>4, NodeParts
  <2>2. BelowChildren(BlocksBelow[n], b) = <<>> BY <2>1 DEF BelowChildren
  <2>3. FlattenSeq(<<>>) = <<>> BY DEF FlattenSeq
  <2>4. <<b>> \in Seq(BlockId) BY <1>1
  <2> QED BY <1>3, <2>2, <2>3, <2>4, ConcatEmptySeq
<1> QED BY <1>2, <1>3, <1>4

-----------------------------------------------------------------------------
(* Every block is found once.                                              *)

Reaches(m, b) == ToSet(BlocksBelow[m][b])

LEMMA OneElement ==
  ASSUME NEW T, NEW e \in T
  PROVE  <<e>> \in Seq(T) /\ ToSet(<<e>>) = {e} /\ IsInjective(<<e>>) /\ <<e>> # <<>>
<1>1. DOMAIN <<e>> = {1} /\ <<e>>[1] = e OBVIOUS
<1> QED BY <1>1 DEF ToSet, IsInjective

LEMMA FirstJoined ==
  ASSUME NEW T, NEW e \in T, NEW t \in Seq(T)
  PROVE  /\ <<e>> \o t \in Seq(T) /\ ToSet(<<e>> \o t) = {e} \cup ToSet(t)
         /\ IsInjective(t) /\ e \notin ToSet(t) => IsInjective(<<e>> \o t)
<1> DEFINE u == <<e>>
<1>1. u \in Seq(T) /\ ToSet(u) = {e} /\ IsInjective(u) BY OneElement
<1> HIDE DEF u
<1>2. u \o t \in Seq(T) BY <1>1, ConcatProperties
<1>3. ToSet(u \o t) = {e} \cup ToSet(t) BY <1>1, JoinedSet
<1>4. IsInjective(t) /\ e \notin ToSet(t) => IsInjective(u \o t) BY <1>1, JoinedInjective
<1> QED BY <1>2, <1>3, <1>4 DEF u

LEMMA ReachesOf ==
  ASSUME NEW s, Tree(blocks, s, ROOT_ID), NEW m \in Nat, NEW b \in DOMAIN blocks
  PROVE  /\ BlocksBelow[m][b] \in Seq(BlockId)
         /\ IsLeaf(blocks[b]) => Reaches(m + 1, b) = {b}
         /\ IsInternal(blocks[b]) =>
              Reaches(m + 1, b) =
                {b} \cup UNION { Reaches(m, blocks[b].child_ids[i]) : i \in 1..(Len(blocks[b].keys) + 1) }
<1>1. b \in BlockId BY TreeNode
<1>2. BlocksBelow[m] \in Finds BY BlocksLevels
<1>3. BlocksBelow[m][b] \in Seq(BlockId) BY <1>1, <1>2 DEF Finds
<1>4. ASSUME IsLeaf(blocks[b]) PROVE Reaches(m + 1, b) = {b}
  <2>1. BlocksBelow[m + 1][b] = <<b>> BY <1>4, BlocksOf
  <2>2. ToSet(<<b>>) = {b} BY <1>1, OneElement
  <2> QED BY <2>1, <2>2 DEF Reaches
<1>5. ASSUME IsInternal(blocks[b])
      PROVE  Reaches(m + 1, b) =
               {b} \cup UNION { Reaches(m, blocks[b].child_ids[i]) : i \in 1..(Len(blocks[b].keys) + 1) }
  <2> DEFINE ss == BelowChildren(BlocksBelow[m], b)
             n == Len(blocks[b].keys) + 1
  <2>1. BlocksBelow[m + 1][b] = <<b>> \o FlattenSeq(ss) BY <1>5, BlocksOf
  <2>2. /\ ss \in Seq(Seq(BlockId)) /\ ss # <<>> /\ Len(ss) = n
        /\ \A i \in 1..n : ss[i] = BlocksBelow[m][blocks[b].child_ids[i]]
        /\ FlattenSeq(ss) \in Seq(BlockId)
    BY <1>2, <1>5, ChildrenFind
  <2> HIDE DEF ss, n
  <2>3. ToSet(FlattenSeq(ss)) = UNION { ToSet(ss[j]) : j \in 1..n } BY <2>2, FlattenedSet
  <2>4. ToSet(<<b>> \o FlattenSeq(ss)) = {b} \cup ToSet(FlattenSeq(ss))
    BY <1>1, <2>2, FirstJoined
  <2>5. UNION { ToSet(ss[j]) : j \in 1..n } = UNION { Reaches(m, blocks[b].child_ids[i]) : i \in 1..n }
    <3>1. \A j \in 1..n : ToSet(ss[j]) = Reaches(m, blocks[b].child_ids[j]) BY <2>2 DEF Reaches
    <3> QED BY <3>1
  <2> QED BY <2>1, <2>3, <2>4, <2>5 DEF Reaches, n
<1> QED BY <1>3, <1>4, <1>5

LEMMA ReachesInner ==
  ASSUME NEW s, Tree(blocks, s, ROOT_ID), NEW m \in Nat, NEW b \in DOMAIN blocks,
         IsInternal(blocks[b]), NEW x \in Reaches(m + 1, b), x # b
  PROVE  \E i \in 1..(Len(blocks[b].keys) + 1) : x \in Reaches(m, blocks[b].child_ids[i])
<1>1. Reaches(m + 1, b) =
        {b} \cup UNION { Reaches(m, blocks[b].child_ids[i]) : i \in 1..(Len(blocks[b].keys) + 1) }
  BY ReachesOf
<1> QED BY <1>1

(* What is below b is lower than b, and with a block its children are.     *)
Covers(s, m, b) ==
  /\ Reaches(m, b) \subseteq DOMAIN blocks /\ b \in Reaches(m, b)
  /\ \A x \in Reaches(m, b) : x = b \/ s.ht[x] < s.ht[b]
  /\ \A x \in Reaches(m, b) : IsInternal(blocks[x]) =>
       \A i \in 1..(Len(blocks[x].keys) + 1) : blocks[x].child_ids[i] \in Reaches(m, b)

LEMMA BlocksCover ==
  ASSUME NEW s, Tree(blocks, s, ROOT_ID)
  PROVE  \A m \in Nat : \A b \in DOMAIN blocks : s.ht[b] < m => Covers(s, m, b)
<1> DEFINE S == { m \in Nat : \A b \in DOMAIN blocks : s.ht[b] < m => Covers(s, m, b) }
<1>1. 0 \in S
  <2>1. \A b \in DOMAIN blocks : s.ht[b] \in Nat BY TreeNode
  <2>2. \A b \in DOMAIN blocks : ~(s.ht[b] < 0) BY <2>1
  <2> QED BY <2>2
<1>2. ASSUME NEW m \in S PROVE m + 1 \in S
  <2>1. m \in Nat /\ m + 1 \in Nat OBVIOUS
  <2> SUFFICES ASSUME NEW b \in DOMAIN blocks, s.ht[b] < m + 1 PROVE Covers(s, m + 1, b)
    BY <2>1
  <2>2. \A x \in DOMAIN blocks : s.ht[x] \in Nat BY TreeNode
  <2>3. IsLeaf(blocks[b]) \/ IsInternal(blocks[b]) BY TreeNode, NodeParts
  <2>4. CASE IsLeaf(blocks[b])
    <3>1. Reaches(m + 1, b) = {b} BY <2>1, <2>4, ReachesOf
    <3>2. ~IsInternal(blocks[b]) BY <2>4, TreeNode, NodeParts
    <3> QED BY <3>1, <3>2 DEF Covers
  <2>5. CASE IsInternal(blocks[b])
    <3> DEFINE n == Len(blocks[b].keys) + 1
               C(i) == blocks[b].child_ids[i]
    <3>1. Reaches(m + 1, b) = {b} \cup UNION { Reaches(m, C(i)) : i \in 1..n }
      BY <2>1, <2>5, ReachesOf
    <3>2. \A i \in 1..n : C(i) \in DOMAIN blocks /\ s.ht[C(i)] + 1 = s.ht[b] BY <2>5, TreeChild
    <3> HIDE DEF C, n
    <3>3. ASSUME NEW i \in 1..n PROVE s.ht[C(i)] < m /\ s.ht[C(i)] < s.ht[b] /\ Covers(s, m, C(i))
      <4>1. s.ht[C(i)] \in Nat /\ s.ht[b] \in Nat /\ s.ht[C(i)] + 1 = s.ht[b] BY <2>2, <3>2
      <4>2. s.ht[C(i)] < m /\ s.ht[C(i)] < s.ht[b] BY <2>1, <4>1
      <4> QED BY <3>2, <4>2
    <3>4. Reaches(m + 1, b) \subseteq DOMAIN blocks /\ b \in Reaches(m + 1, b)
      BY <3>1, <3>3 DEF Covers
    <3>5. ASSUME NEW x \in Reaches(m + 1, b), x # b PROVE s.ht[x] < s.ht[b]
      <4>1. PICK i \in 1..n : x \in Reaches(m, C(i)) BY <3>1, <3>5
      <4>2. x = C(i) \/ s.ht[x] < s.ht[C(i)] BY <3>3, <4>1 DEF Covers
      <4>3. s.ht[x] \in Nat /\ s.ht[C(i)] \in Nat /\ s.ht[b] \in Nat /\ s.ht[C(i)] < s.ht[b]
        BY <2>2, <3>2, <3>3, <3>4
      <4>4. ASSUME s.ht[x] < s.ht[C(i)] PROVE s.ht[x] < s.ht[b] BY <4>3, <4>4
      <4> QED BY <4>2, <4>3, <4>4
    <3>6. ASSUME NEW x \in Reaches(m + 1, b), IsInternal(blocks[x]),
                 NEW j \in 1..(Len(blocks[x].keys) + 1)
          PROVE  blocks[x].child_ids[j] \in Reaches(m + 1, b)
      <4>1. CASE x = b
        <5>1. j \in 1..n /\ blocks[x].child_ids[j] = C(j) BY <3>6, <4>1 DEF n, C
        <5>2. C(j) \in Reaches(m, C(j)) BY <3>3, <5>1 DEF Covers
        <5> QED BY <3>1, <5>1, <5>2
      <4>2. CASE x # b
        <5>1. PICK i \in 1..n : x \in Reaches(m, C(i)) BY <3>1, <4>2
        <5>2. blocks[x].child_ids[j] \in Reaches(m, C(i)) BY <3>3, <3>6, <5>1 DEF Covers
        <5> QED BY <3>1, <5>2
      <4> QED BY <4>1, <4>2
    <3> QED BY <3>4, <3>5, <3>6 DEF Covers
  <2> QED BY <2>3, <2>4, <2>5
<1>3. S = Nat
  <2>1. S \subseteq Nat OBVIOUS
  <2> HIDE DEF S
  <2> QED BY <1>1, <1>2, <2>1, CountUp
<1> QED BY <1>3

(* From the root everything is found.                                      *)
LEMMA RootReaches ==
  ASSUME NEW s, Tree(blocks, s, ROOT_ID), NEW m \in Nat, s.ht[ROOT_ID] < m
  PROVE  Reaches(m, ROOT_ID) = DOMAIN blocks
<1> DEFINE h == s.ht[ROOT_ID]
           R == Reaches(m, ROOT_ID)
           S == { n \in Nat : \A x \in DOMAIN blocks : s.ht[x] + n = h => x \in R }
<1>1. ROOT_ID \in DOMAIN blocks BY DEF Tree
<1>2. Covers(s, m, ROOT_ID) BY <1>1, BlocksCover
<1>3. /\ R \subseteq DOMAIN blocks /\ ROOT_ID \in R
      /\ \A x \in R : IsInternal(blocks[x]) =>
           \A i \in 1..(Len(blocks[x].keys) + 1) : blocks[x].child_ids[i] \in R
  BY <1>2 DEF Covers
<1>4. h \in Nat /\ \A x \in DOMAIN blocks : s.ht[x] \in Nat BY <1>1, TreeNode
<1>5. \A x \in DOMAIN blocks \ {ROOT_ID} :
        /\ s.par[x] \in DOMAIN blocks /\ IsInternal(blocks[s.par[x]])
        /\ s.ht[x] < h /\ s.ht[x] + 1 = s.ht[s.par[x]]
        /\ \E i \in 1..(Len(blocks[s.par[x]].keys) + 1) : blocks[s.par[x]].child_ids[i] = x
  BY TreeParent
<1> HIDE DEF h, R
<1>6. 0 \in S
  <2> SUFFICES ASSUME NEW x \in DOMAIN blocks, s.ht[x] + 0 = h PROVE x \in R OBVIOUS
  <2>1. s.ht[x] = h BY <1>4
  <2>2. x = ROOT_ID BY <1>4, <1>5, <2>1
  <2> QED BY <1>3, <2>2
<1>7. ASSUME NEW n \in S PROVE n + 1 \in S
  <2>1. n \in Nat /\ n + 1 \in Nat OBVIOUS
  <2> SUFFICES ASSUME NEW x \in DOMAIN blocks, s.ht[x] + (n + 1) = h PROVE x \in R BY <2>1
  <2>2. CASE x = ROOT_ID BY <1>3, <2>2
  <2>3. CASE x # ROOT_ID
    <3>1. s.par[x] \in DOMAIN blocks /\ IsInternal(blocks[s.par[x]]) /\ s.ht[x] + 1 = s.ht[s.par[x]]
      BY <1>5, <2>3
    <3>2. s.ht[s.par[x]] + n = h
      <4> DEFINE a == s.ht[x]
                 d == s.ht[s.par[x]]
      <4>1. a \in Nat /\ d \in Nat /\ a + 1 = d /\ a + (n + 1) = h BY <1>4, <3>1
      <4> HIDE DEF a, d
      <4>2. d + n = h BY <1>4, <2>1, <4>1
      <4> QED BY <4>2 DEF d
    <3>3. s.par[x] \in R BY <3>1, <3>2
    <3> QED BY <1>3, <1>5, <2>3, <3>1, <3>3
  <2> QED BY <2>2, <2>3
<1>8. S = Nat
  <2>1. S \subseteq Nat OBVIOUS
  <2> HIDE DEF S
  <2> QED BY <1>6, <1>7, <2>1, CountUp
<1>9. ASSUME NEW x \in DOMAIN blocks PROVE x \in R
  <2>1. s.ht[x] <= h
    <3>1. CASE x = ROOT_ID BY <1>4, <3>1 DEF h
    <3>2. CASE x # ROOT_ID BY <1>4, <1>5, <3>2
    <3> QED BY <3>1, <3>2
  <2>2. h - s.ht[x] \in Nat /\ s.ht[x] + (h - s.ht[x]) = h BY <1>4, <2>1
  <2> QED BY <1>8, <2>2
<1> QED BY <1>3, <1>9 DEF R

(* Blocks of one height have nothing below them in common.                 *)
LEMMA BlocksApart ==
  ASSUME NEW s, Tree(blocks, s, ROOT_ID)
  PROVE  \A m \in Nat : \A b, c \in DOMAIN blocks :
           s.ht[b] < m /\ s.ht[c] = s.ht[b] /\ b # c => Reaches(m, b) \cap Reaches(m, c) = {}
<1> DEFINE Unshared(m, b, c) == s.ht[b] < m /\ s.ht[c] = s.ht[b] /\ b # c =>
                               Reaches(m, b) \cap Reaches(m, c) = {}
           S == { m \in Nat : \A b, c \in DOMAIN blocks : Unshared(m, b, c) }
<1>1. 0 \in S
  <2>1. \A b \in DOMAIN blocks : s.ht[b] \in Nat BY TreeNode
  <2>2. \A b \in DOMAIN blocks : ~(s.ht[b] < 0) BY <2>1
  <2> QED BY <2>2
<1>2. ASSUME NEW m \in S PROVE m + 1 \in S
  <2>1. m \in Nat /\ m + 1 \in Nat OBVIOUS
  <2> SUFFICES ASSUME NEW b \in DOMAIN blocks, NEW c \in DOMAIN blocks, s.ht[b] < m + 1,
                      s.ht[c] = s.ht[b], b # c,
                      NEW x \in Reaches(m + 1, b), x \in Reaches(m + 1, c)
               PROVE  FALSE
    BY <2>1
  <2>2. \A y \in DOMAIN blocks : s.ht[y] \in Nat BY TreeNode
  <2>3. Covers(s, m + 1, b) /\ Covers(s, m + 1, c) BY <2>1, BlocksCover
  <2>4. x # b /\ x # c
    <3>1. x = b \/ s.ht[x] < s.ht[b] BY <2>3 DEF Covers
    <3>2. x = c \/ s.ht[x] < s.ht[b] BY <2>3 DEF Covers
    <3> QED BY <2>2, <3>1, <3>2
  <2>5. /\ ~IsLeaf(blocks[b]) /\ ~IsLeaf(blocks[c])
        /\ IsInternal(blocks[b]) /\ IsInternal(blocks[c])
    <3>1. ~IsLeaf(blocks[b]) /\ ~IsLeaf(blocks[c]) BY <2>1, <2>4, ReachesOf
    <3> QED BY <3>1, TreeNode, NodeParts
  <2>6. PICK i \in 1..(Len(blocks[b].keys) + 1) : x \in Reaches(m, blocks[b].child_ids[i])
    BY <2>1, <2>4, <2>5, ReachesInner
  <2>7. PICK j \in 1..(Len(blocks[c].keys) + 1) : x \in Reaches(m, blocks[c].child_ids[j])
    BY <2>1, <2>4, <2>5, ReachesInner
  <2> DEFINE d == blocks[b].child_ids[i]
             e == blocks[c].child_ids[j]
  <2>8. d \in DOMAIN blocks /\ s.par[d] = b /\ s.ht[d] + 1 = s.ht[b] BY <2>5, TreeChild
  <2>9. e \in DOMAIN blocks /\ s.par[e] = c /\ s.ht[e] + 1 = s.ht[b] BY <2>5, TreeChild
  <2>10. x \in Reaches(m, d) /\ x \in Reaches(m, e) BY <2>6, <2>7
  <2> HIDE DEF d, e
  <2>11. s.ht[d] < m /\ s.ht[d] = s.ht[e]
    <3>1. s.ht[d] \in Nat /\ s.ht[e] \in Nat /\ s.ht[b] \in Nat BY <2>2, <2>8, <2>9
    <3> QED BY <2>1, <2>8, <2>9, <3>1
  <2>12. d # e BY <2>8, <2>9
  <2> QED BY <2>8, <2>9, <2>10, <2>11, <2>12
<1>3. S = Nat
  <2>1. S \subseteq Nat OBVIOUS
  <2> HIDE DEF S
  <2> QED BY <1>1, <1>2, <2>1, CountUp
<1> QED BY <1>3

(* Every block that is found is found once.                                *)
LEMMA BlocksOnce ==
  ASSUME NEW s, Tree(blocks, s, ROOT_ID)
  PROVE  \A m \in Nat : \A b \in DOMAIN blocks : s.ht[b] < m => IsInjective(BlocksBelow[m][b])
<1> DEFINE S == { m \in Nat : \A b \in DOMAIN blocks : s.ht[b] < m => IsInjective(BlocksBelow[m][b]) }
<1>1. 0 \in S
  <2>1. \A b \in DOMAIN blocks : s.ht[b] \in Nat BY TreeNode
  <2>2. \A b \in DOMAIN blocks : ~(s.ht[b] < 0) BY <2>1
  <2> QED BY <2>2
<1>2. ASSUME NEW m \in S PROVE m + 1 \in S
  <2>1. m \in Nat /\ m + 1 \in Nat OBVIOUS
  <2> SUFFICES ASSUME NEW b \in DOMAIN blocks, s.ht[b] < m + 1
               PROVE  IsInjective(BlocksBelow[m + 1][b])
    BY <2>1
  <2>2. b \in BlockId /\ (IsLeaf(blocks[b]) \/ IsInternal(blocks[b])) BY TreeNode, NodeParts
  <2>3. CASE IsLeaf(blocks[b])
    <3>1. BlocksBelow[m + 1][b] = <<b>> BY <2>1, <2>3, BlocksOf
    <3> QED BY <2>2, <3>1, OneElement
  <2>4. CASE IsInternal(blocks[b])
    <3> DEFINE ss == BelowChildren(BlocksBelow[m], b)
               n == Len(blocks[b].keys) + 1
               C(i) == blocks[b].child_ids[i]
    <3>1. /\ BlocksBelow[m] \in Finds
          /\ BlocksBelow[m + 1][b] = <<b>> \o FlattenSeq(ss)
      BY <2>1, <2>4, BlocksOf
    <3>2. /\ ss \in Seq(Seq(BlockId)) /\ ss # <<>> /\ Len(ss) = n
          /\ \A i \in 1..n : ss[i] = BlocksBelow[m][C(i)]
          /\ FlattenSeq(ss) \in Seq(BlockId)
      BY <2>4, <3>1, ChildrenFind
    <3>3. \A i \in 1..n : C(i) \in DOMAIN blocks /\ s.ht[C(i)] + 1 = s.ht[b] BY <2>4, TreeChild
    <3>4. \A i, j \in 1..n : i # j => C(i) # C(j) BY <2>4, ChildrenDistinct
    <3> HIDE DEF ss, n, C
    <3>5. \A i \in 1..n : s.ht[C(i)] \in Nat /\ s.ht[b] \in Nat BY <3>3, TreeNode
    <3>6. ASSUME NEW i \in 1..n PROVE s.ht[C(i)] < m /\ s.ht[C(i)] < s.ht[b]
      <4>1. s.ht[C(i)] \in Nat /\ s.ht[b] \in Nat /\ s.ht[C(i)] + 1 = s.ht[b] BY <3>3, <3>5
      <4> QED BY <2>1, <4>1
    <3>7. \A i \in 1..n : ToSet(ss[i]) = Reaches(m, C(i)) BY <3>2 DEF Reaches
    <3>8. \A i \in 1..Len(ss) : IsInjective(ss[i]) BY <3>2, <3>3, <3>6
    <3>9. ASSUME NEW i \in 1..n, NEW j \in 1..n, i # j PROVE ToSet(ss[i]) \cap ToSet(ss[j]) = {}
      <4>1. s.ht[C(j)] = s.ht[C(i)]
        <5>1. s.ht[C(i)] \in Nat /\ s.ht[C(j)] \in Nat /\ s.ht[C(i)] + 1 = s.ht[C(j)] + 1
          BY <3>3, <3>5
        <5> QED BY <5>1
      <4>2. Reaches(m, C(i)) \cap Reaches(m, C(j)) = {}
        BY <2>1, <3>3, <3>4, <3>6, <3>9, <4>1, BlocksApart
      <4> QED BY <3>7, <4>2
    <3>10. IsInjective(FlattenSeq(ss)) BY <3>2, <3>8, <3>9, FlattenedInjective
    <3>11. b \notin ToSet(FlattenSeq(ss))
      <4> SUFFICES ASSUME b \in ToSet(FlattenSeq(ss)) PROVE FALSE OBVIOUS
      <4>1. ToSet(FlattenSeq(ss)) = UNION { ToSet(ss[j]) : j \in 1..Len(ss) } BY <3>2, FlattenedSet
      <4>2. PICK i \in 1..n : b \in Reaches(m, C(i)) BY <3>2, <3>7, <4>1
      <4>3. Covers(s, m, C(i)) BY <2>1, <3>3, <3>6, BlocksCover
      <4>4. b = C(i) \/ s.ht[b] < s.ht[C(i)] BY <4>2, <4>3 DEF Covers
      <4> QED BY <3>5, <3>6, <4>4
    <3> QED BY <2>2, <3>1, <3>2, <3>10, <3>11, FirstJoined
  <2> QED BY <2>2, <2>3, <2>4
<1>3. S = Nat
  <2>1. S \subseteq Nat OBVIOUS
  <2> HIDE DEF S
  <2> QED BY <1>1, <1>2, <2>1, CountUp
<1> QED BY <1>3

(* A sequence of elements of S is one of elements of any larger set.       *)
LEMMA SeqOfMore ==
  ASSUME NEW S, NEW T, S \subseteq T, NEW q \in Seq(S)
  PROVE  q \in Seq(T)
<1>1. Len(q) \in Nat /\ q \in [ 1..Len(q) -> S ] BY LenProperties
<1>2. q \in [ 1..Len(q) -> T ] BY <1>1
<1> QED BY <1>1, <1>2, IsASeq

(* Between calls an intact directory accounts for all blocks.              *)
LEMMA QuietAccounted ==
  ASSUME Good, Quiet, saved = AllocatorMetadata
  PROVE  LET used == IF tree.root_exists THEN BlocksBelow[Fuel][ROOT_ID] ELSE <<ROOT_ID>>
             ids  == used \o freeList
         IN /\ ToSet(used) = DOMAIN blocks
            /\ IsInjective(ids)
            /\ ToSet(ids) = 1..(nextId - 1)
<1> DEFINE used == IF tree.root_exists THEN BlocksBelow[Fuel][ROOT_ID] ELSE <<ROOT_ID>>
<1>1. ROOT_ID \in BlockId /\ ROOT_ID \in DOMAIN blocks BY AtQuiet DEF ROOT_ID, BlockId
<1>2. used \in Seq(BlockId) /\ IsInjective(used) /\ ToSet(used) = DOMAIN blocks
  <2>1. CASE tree.root_exists
    <3>1. PICK s : Tree(blocks, s, ROOT_ID) BY <2>1, AtQuiet DEF WholeTree
    <3>2. Fuel \in Nat /\ s.ht[ROOT_ID] < Fuel BY <3>1, FewBlocks, RootLow
    <3>3. BlocksBelow[Fuel][ROOT_ID] \in Seq(BlockId) BY <1>1, <3>1, <3>2, ReachesOf
    <3>4. IsInjective(BlocksBelow[Fuel][ROOT_ID]) BY <1>1, <3>1, <3>2, BlocksOnce
    <3>5. ToSet(BlocksBelow[Fuel][ROOT_ID]) = DOMAIN blocks BY <3>1, <3>2, RootReaches DEF Reaches
    <3> QED BY <2>1, <3>3, <3>4, <3>5
  <2>2. CASE ~tree.root_exists
    <3>1. DOMAIN blocks = {ROOT_ID} BY <1>1, <2>2, AtQuiet
    <3> QED BY <1>1, <2>2, <3>1, OneElement
  <2> QED BY <2>1, <2>2
<1> HIDE DEF used
<1>3. /\ IsInjective(freeList) /\ ToSet(freeList) \cap DOMAIN blocks = {}
      /\ ToSet(freeList) \cup DOMAIN blocks = 1..(nextId - 1)
  <2>1. saved.free_blocks = freeList /\ saved.next_block_id = nextId BY DEF AllocatorMetadata
  <2> QED BY <1>1, <2>1 DEF Good, Sound, Accounted
<1>4. freeList \in Seq(BlockId)
  <2>1. freeList \in Seq(Allotted) BY Running DEF Good, StorageTypeOK, StorageTypeIn
  <2>2. Allotted \subseteq BlockId BY DEF Allotted, BlockId
  <2> QED BY <2>1, <2>2, SeqOfMore
<1>5. ToSet(used \o freeList) = ToSet(used) \cup ToSet(freeList) BY <1>2, <1>4, JoinedSet
<1>6. IsInjective(used \o freeList) BY <1>2, <1>3, <1>4, JoinedInjective
<1> QED BY <1>2, <1>3, <1>5, <1>6 DEF used

(* After every call each block file is the root or the child of exactly    *)
(* one node, and every id ever handed out is such a block or on the free   *)
(* list, once: no block leaks, none is shared, none is free and in use.    *)
THEOREM NoBlockLeaks == ASSUME FullFits PROVE Spec => []BlocksAccounted
<1>1. Spec => []IInvIntact BY AlwaysIntact
<1>2. IInvIntact => BlocksAccounted
  <2> SUFFICES ASSUME IInvIntact, Quiet, NoFaults PROVE BlocksAccounted
    BY DEF BlocksAccounted
  <2>1. Good BY BeforeFailure
  <2>2. saved = AllocatorMetadata BY DEF IInvIntact, AllocatorPersisted, NoFaults, Quiet
  <2> QED BY <2>1, <2>2, QuietAccounted DEF BlocksAccounted
<1> QED BY <1>1, <1>2, PTL

-----------------------------------------------------------------------------
(* The leaves, as the tree leads to them and as they lead to one another.  *)

LeavesMore(w) ==
  [ id \in BlockId |->
    IF id \notin DOMAIN blocks THEN <<>>
    ELSE IF IsLeaf(blocks[id]) THEN <<id>>
    ELSE FlattenSeq(BelowChildren(w, id)) ]

LEMMA LeavesMoreType ==
  ASSUME NEW s, Tree(blocks, s, ROOT_ID), NEW w \in Finds
  PROVE  LeavesMore(w) \in Finds
<1> SUFFICES ASSUME NEW b \in BlockId, b \in DOMAIN blocks
             PROVE  IF IsLeaf(blocks[b]) THEN <<b>> \in Seq(BlockId)
                    ELSE FlattenSeq(BelowChildren(w, b)) \in Seq(BlockId)
  BY DEF LeavesMore, Finds
<1>1. IsLeaf(blocks[b]) \/ IsInternal(blocks[b]) BY TreeNode, NodeParts
<1>2. <<b>> \in Seq(BlockId) OBVIOUS
<1> QED BY <1>1, <1>2, ChildrenFind

LEMMA LeavesLevels ==
  ASSUME NEW s, Tree(blocks, s, ROOT_ID)
  PROVE  \A n \in Nat : LeavesBelow[n] \in Finds /\ LeavesBelow[n + 1] = LeavesMore(LeavesBelow[n])
<1> DEFINE w == [ id \in BlockId |-> <<>> ]
           g == [ x \in Finds |-> LeavesMore(x) ]
           At(F, fuel) == [ id \in BlockId |->
             IF fuel = 0 \/ id \notin DOMAIN blocks THEN <<>>
             ELSE IF IsLeaf(blocks[id]) THEN <<id>>
             ELSE FlattenSeq([ i \in DOMAIN blocks[id].child_ids |->
                                 F[fuel - 1][blocks[id].child_ids[i]] ]) ]
<1>1. w \in Finds BY EmptySeq DEF Finds
<1>2. g \in [ Finds -> Finds ] BY LeavesMoreType
<1>3. \A F : At(F, 0) = w OBVIOUS
<1>4. \A F : \A fuel \in Nat \ {0} : At(F, fuel) = LeavesMore(F[fuel - 1])
  BY DEF LeavesMore, BelowChildren
<1>5. ASSUME NEW F, F = [ fuel \in Nat |-> At(F, fuel) ]
      PROVE  LeavesBelow = [ fuel \in Nat |-> At(LeavesBelow, fuel) ]
  BY <1>5, Zenon DEF LeavesBelow
<1> HIDE DEF g, w, At
<1>6. PICK f \in [ Nat -> Finds ] :
        f[0] = w /\ \A n \in Nat \ {0} : f[n - 1] \in Finds /\ f[n] = g[f[n - 1]]
  BY <1>1, <1>2, Recursion
<1>7. f = [ fuel \in Nat |-> At(f, fuel) ]
  <2>1. ASSUME NEW fuel \in Nat PROVE f[fuel] = At(f, fuel)
    <3>1. CASE fuel = 0 BY <1>3, <1>6, <3>1
    <3>2. CASE fuel # 0 BY <1>4, <1>6, <3>2 DEF g
    <3> QED BY <3>1, <3>2
  <2>2. f = [ fuel \in Nat |-> f[fuel] ] BY <1>6
  <2> QED BY <2>1, <2>2
<1>8. LeavesBelow = [ fuel \in Nat |-> At(LeavesBelow, fuel) ] BY <1>5, <1>7
<1>9. LeavesBelow[0] \in Finds BY <1>1, <1>3, <1>8
<1>10. ASSUME NEW n \in Nat PROVE LeavesBelow[n + 1] = LeavesMore(LeavesBelow[n])
  <2>1. n + 1 \in Nat \ {0} /\ (n + 1) - 1 = n OBVIOUS
  <2>2. LeavesBelow[n + 1] = At(LeavesBelow, n + 1) BY <1>8, <2>1
  <2>3. At(LeavesBelow, n + 1) = LeavesMore(LeavesBelow[(n + 1) - 1]) BY <1>4, <2>1
  <2> QED BY <2>1, <2>2, <2>3
<1>11. \A x \in Finds : LeavesMore(x) \in Finds BY LeavesMoreType
<1>12. \A n \in Nat : LeavesBelow[n] \in Finds BY <1>9, <1>10, <1>11, RecursionType
<1> QED BY <1>10, <1>12

LEMMA LeavesOf ==
  ASSUME NEW s, Tree(blocks, s, ROOT_ID), NEW n \in Nat, NEW b \in DOMAIN blocks
  PROVE  /\ LeavesBelow[n] \in Finds /\ LeavesBelow[n][b] \in Seq(BlockId)
         /\ IsLeaf(blocks[b]) => LeavesBelow[n + 1][b] = <<b>>
         /\ IsInternal(blocks[b]) =>
              LeavesBelow[n + 1][b] = FlattenSeq(BelowChildren(LeavesBelow[n], b))
<1>1. b \in BlockId /\ blocks[b] \in WellShaped BY TreeNode
<1>2. LeavesBelow[n] \in Finds /\ LeavesBelow[n + 1] = LeavesMore(LeavesBelow[n]) BY LeavesLevels
<1>3. LeavesBelow[n + 1][b] =
        IF IsLeaf(blocks[b]) THEN <<b>> ELSE FlattenSeq(BelowChildren(LeavesBelow[n], b))
  BY <1>1, <1>2 DEF LeavesMore
<1>4. IsInternal(blocks[b]) => ~IsLeaf(blocks[b]) BY <1>1, NodeParts
<1> QED BY <1>1, <1>2, <1>3, <1>4 DEF Finds

(* From a block down to its first leaf.                                    *)
FirstMore(w) ==
  [ id \in BlockId |->
    IF id \notin DOMAIN blocks \/ IsLeaf(blocks[id]) THEN id ELSE w[Head(blocks[id].child_ids)] ]

LEMMA FirstChild ==
  ASSUME NEW s, Tree(blocks, s, ROOT_ID), NEW b \in DOMAIN blocks, IsInternal(blocks[b])
  PROVE  /\ Head(blocks[b].child_ids) = blocks[b].child_ids[1]
         /\ Head(blocks[b].child_ids) \in BlockId
<1>1. /\ blocks[b].child_ids \in Seq(Allotted) /\ Len(blocks[b].keys) \in Nat
      /\ Len(blocks[b].child_ids) = Len(blocks[b].keys) + 1
      /\ \A i \in 1..(Len(blocks[b].keys) + 1) : blocks[b].child_ids[i] \in Allotted
  BY TreeNode, NodeParts
<1>2. 1 \in 1..(Len(blocks[b].keys) + 1) BY <1>1
<1>3. Head(blocks[b].child_ids) = blocks[b].child_ids[1] BY <1>1
<1> QED BY <1>1, <1>2, <1>3 DEF Allotted, BlockId

LEMMA FirstMoreType ==
  ASSUME NEW s, Tree(blocks, s, ROOT_ID), NEW w \in [ BlockId -> BlockId ]
  PROVE  FirstMore(w) \in [ BlockId -> BlockId ]
<1> SUFFICES ASSUME NEW b \in BlockId, b \in DOMAIN blocks, ~IsLeaf(blocks[b])
             PROVE  w[Head(blocks[b].child_ids)] \in BlockId
  BY DEF FirstMore
<1>1. IsInternal(blocks[b]) BY TreeNode, NodeParts
<1> QED BY <1>1, FirstChild

LEMMA LeftmostLevels ==
  ASSUME NEW s, Tree(blocks, s, ROOT_ID)
  PROVE  \A n \in Nat : Leftmost[n + 1] = FirstMore(Leftmost[n])
<1> DEFINE W == [ BlockId -> BlockId ]
           w == [ id \in BlockId |-> id ]
           g == [ x \in W |-> FirstMore(x) ]
           At(F, fuel) == [ id \in BlockId |->
             IF fuel = 0 \/ id \notin DOMAIN blocks \/ IsLeaf(blocks[id]) THEN id
             ELSE F[fuel - 1][Head(blocks[id].child_ids)] ]
<1>1. w \in W OBVIOUS
<1>2. g \in [ W -> W ] BY FirstMoreType
<1>3. \A F : At(F, 0) = w OBVIOUS
<1>4. \A F : \A fuel \in Nat \ {0} : At(F, fuel) = FirstMore(F[fuel - 1]) BY DEF FirstMore
<1>5. ASSUME NEW F, F = [ fuel \in Nat |-> At(F, fuel) ]
      PROVE  Leftmost = [ fuel \in Nat |-> At(Leftmost, fuel) ]
  BY <1>5, Zenon DEF Leftmost
<1> HIDE DEF g, w, At, W
<1>6. PICK f \in [ Nat -> W ] :
        f[0] = w /\ \A n \in Nat \ {0} : f[n - 1] \in W /\ f[n] = g[f[n - 1]]
  BY <1>1, <1>2, Recursion
<1>7. f = [ fuel \in Nat |-> At(f, fuel) ]
  <2>1. ASSUME NEW fuel \in Nat PROVE f[fuel] = At(f, fuel)
    <3>1. CASE fuel = 0 BY <1>3, <1>6, <3>1
    <3>2. CASE fuel # 0 BY <1>4, <1>6, <3>2 DEF g
    <3> QED BY <3>1, <3>2
  <2>2. f = [ fuel \in Nat |-> f[fuel] ] BY <1>6
  <2> QED BY <2>1, <2>2
<1>8. Leftmost = [ fuel \in Nat |-> At(Leftmost, fuel) ] BY <1>5, <1>7
<1>9. ASSUME NEW n \in Nat PROVE Leftmost[n + 1] = FirstMore(Leftmost[n])
  <2>1. n + 1 \in Nat \ {0} /\ (n + 1) - 1 = n OBVIOUS
  <2>2. Leftmost[n + 1] = At(Leftmost, n + 1) BY <1>8, <2>1
  <2>3. At(Leftmost, n + 1) = FirstMore(Leftmost[(n + 1) - 1]) BY <1>4, <2>1
  <2> QED BY <2>1, <2>2, <2>3
<1> QED BY <1>9

LEMMA LeftmostOf ==
  ASSUME NEW s, Tree(blocks, s, ROOT_ID), NEW n \in Nat, NEW b \in DOMAIN blocks
  PROVE  /\ IsLeaf(blocks[b]) => Leftmost[n + 1][b] = b
         /\ IsInternal(blocks[b]) => Leftmost[n + 1][b] = Leftmost[n][blocks[b].child_ids[1]]
<1>1. b \in BlockId /\ blocks[b] \in WellShaped BY TreeNode
<1>2. Leftmost[n + 1] = FirstMore(Leftmost[n]) BY LeftmostLevels
<1>3. Leftmost[n + 1][b] =
        IF IsLeaf(blocks[b]) THEN b ELSE Leftmost[n][Head(blocks[b].child_ids)]
  BY <1>1, <1>2 DEF FirstMore
<1>4. IsInternal(blocks[b]) => ~IsLeaf(blocks[b]) BY <1>1, NodeParts
<1> QED BY <1>3, <1>4, FirstChild

(* Along next_leaf, leaf by leaf.                                          *)
ChainMore(w) ==
  [ id \in OptionBlockId |->
    IF id \notin DOMAIN blocks THEN <<>> ELSE <<id>> \o w[blocks[id].next_leaf] ]

Chains == [ OptionBlockId -> Seq(OptionBlockId) ]

LEMMA ChainMoreType ==
  ASSUME NEW s, Tree(blocks, s, ROOT_ID), NEW w \in Chains
  PROVE  ChainMore(w) \in Chains
<1> SUFFICES ASSUME NEW b \in OptionBlockId, b \in DOMAIN blocks
             PROVE  <<b>> \o w[blocks[b].next_leaf] \in Seq(OptionBlockId)
  BY EmptySeq DEF ChainMore, Chains
<1>1. blocks[b].next_leaf \in OptionBlockId BY TreeNode, NodeParts
<1>2. w[blocks[b].next_leaf] \in Seq(OptionBlockId) BY <1>1 DEF Chains
<1> QED BY <1>2, FirstJoined

LEMMA ChainLevels ==
  ASSUME NEW s, Tree(blocks, s, ROOT_ID)
  PROVE  /\ Chain[0] = [ id \in OptionBlockId |-> <<>> ]
         /\ \A n \in Nat : Chain[n] \in Chains /\ Chain[n + 1] = ChainMore(Chain[n])
<1> DEFINE w == [ id \in OptionBlockId |-> <<>> ]
           g == [ x \in Chains |-> ChainMore(x) ]
           At(F, fuel) == [ id \in OptionBlockId |->
             IF fuel = 0 \/ id \notin DOMAIN blocks THEN <<>>
             ELSE <<id>> \o F[fuel - 1][blocks[id].next_leaf] ]
<1>1. w \in Chains BY EmptySeq DEF Chains
<1>2. g \in [ Chains -> Chains ] BY ChainMoreType
<1>3. \A F : At(F, 0) = w OBVIOUS
<1>4. \A F : \A fuel \in Nat \ {0} : At(F, fuel) = ChainMore(F[fuel - 1]) BY DEF ChainMore
<1>5. ASSUME NEW F, F = [ fuel \in Nat |-> At(F, fuel) ]
      PROVE  Chain = [ fuel \in Nat |-> At(Chain, fuel) ]
  BY <1>5, Zenon DEF Chain
<1> HIDE DEF g, w, At
<1>6. PICK f \in [ Nat -> Chains ] :
        f[0] = w /\ \A n \in Nat \ {0} : f[n - 1] \in Chains /\ f[n] = g[f[n - 1]]
  BY <1>1, <1>2, Recursion
<1>7. f = [ fuel \in Nat |-> At(f, fuel) ]
  <2>1. ASSUME NEW fuel \in Nat PROVE f[fuel] = At(f, fuel)
    <3>1. CASE fuel = 0 BY <1>3, <1>6, <3>1
    <3>2. CASE fuel # 0 BY <1>4, <1>6, <3>2 DEF g
    <3> QED BY <3>1, <3>2
  <2>2. f = [ fuel \in Nat |-> f[fuel] ] BY <1>6
  <2> QED BY <2>1, <2>2
<1>8. Chain = [ fuel \in Nat |-> At(Chain, fuel) ] BY <1>5, <1>7
<1>9. Chain[0] = w /\ Chain[0] \in Chains BY <1>1, <1>3, <1>8
<1>10. ASSUME NEW n \in Nat PROVE Chain[n + 1] = ChainMore(Chain[n])
  <2>1. n + 1 \in Nat \ {0} /\ (n + 1) - 1 = n OBVIOUS
  <2>2. Chain[n + 1] = At(Chain, n + 1) BY <1>8, <2>1
  <2>3. At(Chain, n + 1) = ChainMore(Chain[(n + 1) - 1]) BY <1>4, <2>1
  <2> QED BY <2>1, <2>2, <2>3
<1>11. \A x \in Chains : ChainMore(x) \in Chains BY ChainMoreType
<1>12. \A n \in Nat : Chain[n] \in Chains BY <1>9, <1>10, <1>11, RecursionType
<1> QED BY <1>9, <1>10, <1>12 DEF w

(* Two leaves, the second beginning where the first one ends.              *)
Follows(s) ==
  { p \in (DOMAIN blocks) \X (DOMAIN blocks) :
      s.ht[p[1]] = 0 /\ s.ht[p[2]] = 0 /\ s.hi[p[1]] # {} /\ s.lo[p[2]] = s.hi[p[1]] }

LEMMA FollowsPair ==
  ASSUME NEW s, NEW x, NEW y
  PROVE  <<x, y>> \in Follows(s) <=>
           /\ x \in DOMAIN blocks /\ y \in DOMAIN blocks
           /\ s.ht[x] = 0 /\ s.ht[y] = 0 /\ s.hi[x] # {} /\ s.lo[y] = s.hi[x]
BY DEF Follows

(* The leaves below b, from its first one, which begins where b does, to   *)
(* its last one, which ends where b ends.                                  *)
Row(s, m, b) ==
  LET l == LeavesBelow[m][b]
  IN /\ l # <<>> /\ IsInjective(l) /\ Linked(Follows(s), l)
     /\ ToSet(l) \subseteq Reaches(m, b) /\ \A x \in ToSet(l) : s.ht[x] = 0
     /\ l[1] = Leftmost[m][b] /\ s.lo[l[1]] = s.lo[b] /\ s.hi[l[Len(l)]] = s.hi[b]

LEMMA RowEnds ==
  ASSUME NEW T, NEW l \in Seq(T), l # <<>>
  PROVE  /\ Len(l) \in Nat \ {0} /\ DOMAIN l = 1..Len(l)
         /\ 1 \in DOMAIN l /\ l[1] \in ToSet(l) /\ l[Len(l)] \in ToSet(l)
<1>1. Len(l) \in Nat \ {0} /\ DOMAIN l = 1..Len(l) BY EmptySeq, LenProperties
<1>2. 1 \in DOMAIN l /\ Len(l) \in DOMAIN l BY <1>1
<1> QED BY <1>1, <1>2 DEF ToSet

LEMMA RowOfLeaf ==
  ASSUME NEW s, Tree(blocks, s, ROOT_ID), NEW m \in Nat, NEW b \in DOMAIN blocks, IsLeaf(blocks[b])
  PROVE  Row(s, m + 1, b)
<1> DEFINE l == <<b>>
<1>1. b \in BlockId /\ s.ht[b] = 0 BY TreeNode
<1>2. LeavesBelow[m + 1][b] = l BY LeavesOf
<1>3. l # <<>> /\ IsInjective(l) /\ ToSet(l) = {b} BY <1>1, OneElement
<1>4. Len(l) = 1 /\ l[1] = b OBVIOUS
<1>5. Reaches(m + 1, b) = {b} BY ReachesOf
<1>6. Leftmost[m + 1][b] = b BY LeftmostOf
<1> HIDE DEF l
<1>7. Linked(Follows(s), l)
  <2>1. 1..(Len(l) - 1) = {} BY <1>4
  <2> QED BY <2>1 DEF Linked
<1> QED BY <1>1, <1>2, <1>3, <1>4, <1>5, <1>6, <1>7 DEF Row

LEMMA RowOfInner ==
  ASSUME NEW s, Tree(blocks, s, ROOT_ID), NEW m \in Nat, NEW b \in DOMAIN blocks,
         IsInternal(blocks[b]), s.ht[b] < m + 1,
         \A c \in DOMAIN blocks : s.ht[c] < m => Row(s, m, c)
  PROVE  Row(s, m + 1, b)
<1> DEFINE ss == BelowChildren(LeavesBelow[m], b)
           k == Len(blocks[b].keys)
           n == k + 1
           C(i) == blocks[b].child_ids[i]
           l == FlattenSeq(ss)
<1>1. LeavesBelow[m + 1][b] = l /\ LeavesBelow[m] \in Finds BY LeavesOf
<1>2. /\ ss \in Seq(Seq(BlockId)) /\ ss # <<>> /\ Len(ss) = n /\ k \in Nat
      /\ \A i \in 1..n : ss[i] = LeavesBelow[m][C(i)]
  BY <1>1, ChildrenFind
<1>3. \A i \in 1..n : /\ C(i) \in DOMAIN blocks /\ s.ht[C(i)] + 1 = s.ht[b]
                      /\ s.lo[C(i)] = LowOf(blocks[b], s.lo[b], i)
                      /\ s.hi[C(i)] = HighOf(blocks[b], s.hi[b], i)
  BY TreeChild
<1>4. \A i, j \in 1..n : i # j => C(i) # C(j) BY ChildrenDistinct
<1>5. ASSUME NEW i \in 1..k PROVE s.hi[C(i)] # {} /\ s.lo[C(i + 1)] = s.hi[C(i)]
  <2>1. i \in 1..n /\ i + 1 \in 1..n /\ i # n /\ i + 1 # 1 /\ (i + 1) - 1 = i BY <1>2
  <2>2. s.hi[C(i)] = HighOf(blocks[b], s.hi[b], i) /\ s.lo[C(i + 1)] = LowOf(blocks[b], s.lo[b], i + 1)
    BY <1>3, <2>1
  <2>3. s.hi[C(i)] = {blocks[b].keys[i]} /\ s.lo[C(i + 1)] = {blocks[b].keys[i]}
    BY <2>1, <2>2 DEF HighOf, LowOf
  <2> QED BY <2>3
<1>6. s.lo[C(1)] = s.lo[b] /\ s.hi[C(n)] = s.hi[b]
  <2>1. 1 \in 1..n /\ n \in 1..n BY <1>2
  <2>2. s.lo[C(1)] = LowOf(blocks[b], s.lo[b], 1) /\ s.hi[C(n)] = HighOf(blocks[b], s.hi[b], n)
    BY <1>3, <2>1
  <2> QED BY <2>2 DEF LowOf, HighOf
<1>7. Leftmost[m + 1][b] = Leftmost[m][C(1)] BY LeftmostOf
<1>8. Reaches(m + 1, b) = {b} \cup UNION { Reaches(m, C(i)) : i \in 1..n } BY ReachesOf
<1> HIDE DEF ss, n, C, k
<1>9. k \in Nat /\ n = k + 1 /\ n - 1 = k BY <1>2 DEF n
<1>10. ASSUME NEW i \in 1..n PROVE s.ht[C(i)] \in Nat /\ s.ht[C(i)] < m /\ Row(s, m, C(i))
  <2>1. s.ht[C(i)] \in Nat /\ s.ht[b] \in Nat /\ s.ht[C(i)] + 1 = s.ht[b] BY <1>3, TreeNode
  <2>2. s.ht[C(i)] < m BY <2>1
  <2> QED BY <1>3, <2>1, <2>2
<1>11. ASSUME NEW i \in 1..n
       PROVE  /\ ss[i] \in Seq(BlockId) /\ ss[i] # <<>> /\ IsInjective(ss[i])
              /\ Linked(Follows(s), ss[i])
              /\ ToSet(ss[i]) \subseteq Reaches(m, C(i)) /\ \A x \in ToSet(ss[i]) : s.ht[x] = 0
              /\ ss[i][1] = Leftmost[m][C(i)]
              /\ s.lo[ss[i][1]] = s.lo[C(i)] /\ s.hi[ss[i][Len(ss[i])]] = s.hi[C(i)]
              /\ ss[i][1] \in ToSet(ss[i]) /\ ss[i][Len(ss[i])] \in ToSet(ss[i])
  <2>1. ss[i] = LeavesBelow[m][C(i)] /\ Row(s, m, C(i)) BY <1>2, <1>10
  <2>2. ss[i] \in Seq(BlockId) BY <1>2, ElementOfSeq
  <2>3. ss[i] # <<>> BY <2>1 DEF Row
  <2>4. ss[i][1] \in ToSet(ss[i]) /\ ss[i][Len(ss[i])] \in ToSet(ss[i]) BY <2>2, <2>3, RowEnds
  <2> QED BY <2>1, <2>2, <2>4 DEF Row
<1>12. \A i, j \in 1..n : i # j => ToSet(ss[i]) \cap ToSet(ss[j]) = {}
  <2> SUFFICES ASSUME NEW i \in 1..n, NEW j \in 1..n, i # j
               PROVE  ToSet(ss[i]) \cap ToSet(ss[j]) = {}
    OBVIOUS
  <2>1. s.ht[C(j)] = s.ht[C(i)]
    <3>1. s.ht[C(i)] \in Nat /\ s.ht[C(j)] \in Nat /\ s.ht[C(i)] + 1 = s.ht[C(j)] + 1
      BY <1>3, <1>10
    <3> QED BY <3>1
  <2>2. Reaches(m, C(i)) \cap Reaches(m, C(j)) = {}
    BY <1>3, <1>4, <1>10, <2>1, BlocksApart
  <2> QED BY <1>11, <2>2
<1>13. l \in Seq(BlockId) /\ ToSet(l) = UNION { ToSet(ss[j]) : j \in 1..n } BY <1>2, FlattenedSet
<1>14. IsInjective(l) BY <1>2, <1>11, <1>12, FlattenedInjective
<1>15. \A i \in 1..(Len(ss) - 1) : <<ss[i][Len(ss[i])], ss[i + 1][1]>> \in Follows(s)
  <2> SUFFICES ASSUME NEW i \in 1..k
               PROVE  <<ss[i][Len(ss[i])], ss[i + 1][1]>> \in Follows(s)
    <3>1. Len(ss) - 1 = k BY <1>2, <1>9
    <3> QED BY <3>1
  <2>1. i \in 1..n /\ i + 1 \in 1..n BY <1>9
  <2> DEFINE x == ss[i][Len(ss[i])]
             y == ss[i + 1][1]
  <2>2. x \in ToSet(ss[i]) /\ y \in ToSet(ss[i + 1]) BY <1>11, <2>1
  <2>3. s.ht[x] = 0 /\ s.ht[y] = 0 BY <1>11, <2>1, <2>2
  <2>4. Covers(s, m, C(i)) /\ Covers(s, m, C(i + 1)) BY <1>3, <1>10, <2>1, BlocksCover
  <2>5. x \in DOMAIN blocks /\ y \in DOMAIN blocks BY <1>11, <2>1, <2>2, <2>4 DEF Covers
  <2>6. s.hi[x] = s.hi[C(i)] /\ s.lo[y] = s.lo[C(i + 1)] BY <1>11, <2>1
  <2>7. s.hi[x] # {} /\ s.lo[y] = s.hi[x] BY <1>5, <2>6
  <2> HIDE DEF x, y
  <2>8. <<x, y>> \in Follows(s) BY <2>3, <2>5, <2>7, FollowsPair
  <2> QED BY <2>8 DEF x, y
<1>16. /\ l # <<>> /\ Linked(Follows(s), l)
       /\ l[1] = ss[1][1] /\ l[Len(l)] = ss[n][Len(ss[n])]
  BY <1>2, <1>11, <1>15, FlattenedLinked
<1>17. ToSet(l) \subseteq Reaches(m + 1, b) BY <1>8, <1>11, <1>13
<1>18. \A x \in ToSet(l) : s.ht[x] = 0 BY <1>11, <1>13
<1>19. 1 \in 1..n /\ n \in 1..n BY <1>2, <1>9
<1>20. l[1] = Leftmost[m + 1][b] /\ s.lo[l[1]] = s.lo[b] /\ s.hi[l[Len(l)]] = s.hi[b]
  BY <1>6, <1>7, <1>11, <1>16, <1>19
<1> HIDE DEF l
<1> QED BY <1>1, <1>14, <1>16, <1>17, <1>18, <1>20 DEF Row

LEMMA Rows ==
  ASSUME NEW s, Tree(blocks, s, ROOT_ID)
  PROVE  \A m \in Nat : \A b \in DOMAIN blocks : s.ht[b] < m => Row(s, m, b)
<1> DEFINE S == { m \in Nat : \A b \in DOMAIN blocks : s.ht[b] < m => Row(s, m, b) }
<1>1. 0 \in S
  <2>1. \A b \in DOMAIN blocks : s.ht[b] \in Nat BY TreeNode
  <2>2. \A b \in DOMAIN blocks : ~(s.ht[b] < 0) BY <2>1
  <2> QED BY <2>2
<1>2. ASSUME NEW m \in S PROVE m + 1 \in S
  <2>1. m \in Nat /\ m + 1 \in Nat OBVIOUS
  <2> SUFFICES ASSUME NEW b \in DOMAIN blocks, s.ht[b] < m + 1 PROVE Row(s, m + 1, b)
    BY <2>1
  <2>2. IsLeaf(blocks[b]) \/ IsInternal(blocks[b]) BY TreeNode, NodeParts
  <2>3. CASE IsLeaf(blocks[b]) BY <2>1, <2>3, RowOfLeaf
  <2>4. CASE IsInternal(blocks[b]) BY <2>1, <2>4, RowOfInner
  <2> QED BY <2>2, <2>3, <2>4
<1>3. S = Nat
  <2>1. S \subseteq Nat OBVIOUS
  <2> HIDE DEF S
  <2> QED BY <1>1, <1>2, <2>1, CountUp
<1> QED BY <1>3

(* One more step along the chain.                                          *)
LEMMA ChainOf ==
  ASSUME NEW s, Tree(blocks, s, ROOT_ID), NEW n \in Nat
  PROVE  /\ Chain[n][NoBlock] = <<>>
         /\ \A b \in DOMAIN blocks : Chain[n + 1][b] = <<b>> \o Chain[n][blocks[b].next_leaf]
<1>1. DOMAIN blocks \subseteq BlockId BY DEF Tree
<1>2. NoBlock \in OptionBlockId /\ NoBlock \notin DOMAIN blocks /\ BlockId \subseteq OptionBlockId
  BY <1>1 DEF OptionBlockId, NoBlock, BlockId
<1>3. \A m \in Nat : Chain[m + 1] = ChainMore(Chain[m]) BY ChainLevels
<1>4. Chain[n][NoBlock] = <<>>
  <2>1. CASE n = 0
    <3>1. Chain[0] = [ id \in OptionBlockId |-> <<>> ] BY ChainLevels
    <3> QED BY <1>2, <2>1, <3>1
  <2>2. CASE n # 0
    <3>1. n - 1 \in Nat /\ (n - 1) + 1 = n BY <2>2
    <3>2. Chain[n] = ChainMore(Chain[n - 1]) BY <1>3, <3>1
    <3> QED BY <1>2, <3>2 DEF ChainMore
  <2> QED BY <2>1, <2>2
<1>5. ASSUME NEW b \in DOMAIN blocks
      PROVE  Chain[n + 1][b] = <<b>> \o Chain[n][blocks[b].next_leaf]
  <2>1. b \in OptionBlockId BY <1>1, <1>2
  <2>2. Chain[n + 1] = ChainMore(Chain[n]) BY <1>3
  <2> QED BY <2>1, <2>2 DEF ChainMore
<1> QED BY <1>4, <1>5

(* From the leaf at position i of a row that ends with the last leaf, the  *)
(* chain goes along the rest of the row.                                   *)
LEMMA ChainIsRow ==
  ASSUME NEW s, Tree(blocks, s, ROOT_ID), NEW l \in Seq(BlockId), l # <<>>,
         Linked(Follows(s), l), \A x \in ToSet(l) : x \in DOMAIN blocks /\ s.ht[x] = 0,
         s.hi[l[Len(l)]] = {}
  PROVE  \A k \in Nat : k < Len(l) =>
           \A f \in Nat : k < f => Chain[f][l[Len(l) - k]] = SubSeq(l, Len(l) - k, Len(l))
<1> DEFINE n == Len(l)
           OK(k) == k < n => \A f \in Nat : k < f => Chain[f][l[n - k]] = SubSeq(l, n - k, n)
           S == { k \in Nat : OK(k) }
<1>1. /\ n \in Nat \ {0} /\ DOMAIN l = 1..n
      /\ \A i \in 1..n : l[i] \in DOMAIN blocks /\ s.ht[l[i]] = 0
  BY RowEnds DEF ToSet
<1>2. ASSUME NEW i \in 1..n, NEW g \in Nat
      PROVE  Chain[g + 1][l[i]] = <<l[i]>> \o Chain[g][blocks[l[i]].next_leaf]
  BY <1>1, ChainOf
<1>3. ASSUME NEW i \in 1..n PROVE SubSeq(l, i, n) = <<l[i]>> \o SubSeq(l, i + 1, n)
  <2>1. n \in i..Len(l) BY <1>1
  <2> QED BY <2>1, SubSeqRecursiveFirst
<1>4. 0 \in S
  <2> SUFFICES ASSUME NEW f \in Nat, 0 < f PROVE Chain[f][l[n]] = SubSeq(l, n, n)
    BY <1>1
  <2>1. f - 1 \in Nat /\ (f - 1) + 1 = f /\ n \in 1..n BY <1>1
  <2>2. blocks[l[n]].next_leaf = NoBlock BY <1>1, <2>1, NextLeaf
  <2>3. Chain[f][l[n]] = <<l[n]>> \o Chain[f - 1][NoBlock] BY <1>2, <2>1, <2>2
  <2>4. Chain[f - 1][NoBlock] = <<>> BY <2>1, ChainOf
  <2>5. SubSeq(l, n + 1, n) = <<>> BY <1>1, SubSeqEmpty
  <2>6. SubSeq(l, n, n) = <<l[n]>> \o SubSeq(l, n + 1, n) BY <1>3, <2>1
  <2> QED BY <2>3, <2>4, <2>5, <2>6
<1>5. ASSUME NEW k \in S PROVE k + 1 \in S
  <2>1. k \in Nat /\ k + 1 \in Nat /\ OK(k) OBVIOUS
  <2> SUFFICES ASSUME k + 1 < n, NEW f \in Nat, k + 1 < f
               PROVE  Chain[f][l[n - (k + 1)]] = SubSeq(l, n - (k + 1), n)
    BY <2>1
  <2> DEFINE i == n - (k + 1)
  <2>2. i \in 1..n /\ i + 1 \in 1..n /\ i + 1 = n - k /\ i \in 1..(Len(l) - 1) BY <1>1, <2>1
  <2>3. f - 1 \in Nat /\ (f - 1) + 1 = f /\ k < f - 1 /\ k < n BY <1>1, <2>1
  <2>4. Chain[f - 1][l[n - k]] = SubSeq(l, n - k, n) BY <2>1, <2>3
  <2> HIDE DEF i, OK, S
  <2>5. blocks[l[i]].next_leaf = l[i + 1]
    <3>1. <<l[i], l[i + 1]>> \in Follows(s) BY <2>2 DEF Linked
    <3>2. s.hi[l[i]] # {} /\ s.lo[l[i + 1]] = s.hi[l[i]] BY <3>1, FollowsPair
    <3>3. /\ blocks[l[i]].next_leaf \in DOMAIN blocks /\ s.ht[blocks[l[i]].next_leaf] = 0
          /\ s.lo[blocks[l[i]].next_leaf] = s.hi[l[i]]
      BY <1>1, <2>2, <3>2, NextLeaf
    <3>4. s.lo[blocks[l[i]].next_leaf] = s.lo[l[i + 1]] BY <3>2, <3>3
    <3> QED BY <1>1, <2>2, <3>3, <3>4, LeavesDiffer
  <2>6. Chain[f][l[i]] = <<l[i]>> \o Chain[f - 1][l[i + 1]] BY <1>2, <2>2, <2>3, <2>5
  <2>7. SubSeq(l, i, n) = <<l[i]>> \o SubSeq(l, i + 1, n) BY <1>3, <2>2
  <2>8. Chain[f - 1][l[i + 1]] = SubSeq(l, i + 1, n) BY <2>2, <2>4
  <2> QED BY <2>6, <2>7, <2>8 DEF i
<1>6. S = Nat
  <2>1. S \subseteq Nat OBVIOUS
  <2> HIDE DEF S
  <2> QED BY <1>4, <1>5, <2>1, CountUp
<1> QED BY <1>6

(* Between calls an intact directory is scanned leaf by leaf, as the tree  *)
(* has them.                                                               *)
LEMMA QuietScanned ==
  ASSUME Good, Quiet, tree.root_exists
  PROVE  Scanned = LeavesBelow[Fuel][ROOT_ID]
<1>1. PICK s : Tree(blocks, s, ROOT_ID) BY AtQuiet DEF WholeTree
<1>2. ROOT_ID \in DOMAIN blocks /\ s.lo[ROOT_ID] = {} /\ s.hi[ROOT_ID] = {}
  BY <1>1 DEF Tree, HasParent
<1>3. Fuel \in Nat /\ s.ht[ROOT_ID] < Fuel BY <1>1, FewBlocks, RootLow
<1> DEFINE l == LeavesBelow[Fuel][ROOT_ID]
<1>4. Row(s, Fuel, ROOT_ID) BY <1>1, <1>2, <1>3, Rows
<1>5. /\ l # <<>> /\ IsInjective(l) /\ Linked(Follows(s), l)
      /\ ToSet(l) \subseteq Reaches(Fuel, ROOT_ID) /\ \A x \in ToSet(l) : s.ht[x] = 0
      /\ l[1] = Leftmost[Fuel][ROOT_ID] /\ s.hi[l[Len(l)]] = {}
  BY <1>2, <1>4 DEF Row
<1>6. l \in Seq(BlockId) BY <1>1, <1>2, <1>3, LeavesOf
<1> HIDE DEF l
<1>7. Reaches(Fuel, ROOT_ID) = DOMAIN blocks BY <1>1, <1>3, RootReaches
<1>8. \A x \in ToSet(l) : x \in DOMAIN blocks /\ s.ht[x] = 0 BY <1>5, <1>7
<1>9. Len(l) \in Nat \ {0} /\ DOMAIN l = 1..Len(l) BY <1>5, <1>6, RowEnds
<1>10. Len(l) <= Fuel
  <2>1. IsFiniteSet(DOMAIN blocks) BY FewBlocks
  <2>2. l \in [ 1..Len(l) -> DOMAIN blocks ] BY <1>6, <1>8, <1>9 DEF ToSet
  <2>3. l \in Injection(1..Len(l), DOMAIN blocks)
    <3>1. \A i, j \in 1..Len(l) : l[i] = l[j] => i = j BY <1>5, <1>9 DEF IsInjective
    <3> QED BY <2>2, <3>1 DEF Injection, IsInjective
  <2>4. Cardinality(1..Len(l)) = Len(l)
    <3>1. 1 \in Int /\ Len(l) \in Int /\ 1 <= Len(l) BY <1>9
    <3>2. Cardinality(1..Len(l)) = Len(l) - 1 + 1 BY <3>1, FS_Interval
    <3> QED BY <1>9, <3>2
  <2>5. Cardinality(1..Len(l)) <= Cardinality(DOMAIN blocks) BY <2>1, <2>3, FS_Injection
  <2> QED BY <2>4, <2>5 DEF Fuel
<1>11. Chain[Fuel][l[Len(l) - (Len(l) - 1)]] = SubSeq(l, Len(l) - (Len(l) - 1), Len(l))
  <2>1. Len(l) - 1 \in Nat /\ Len(l) - 1 < Len(l) /\ Len(l) - 1 < Fuel BY <1>3, <1>9, <1>10
  <2> QED BY <1>1, <1>3, <1>5, <1>6, <1>8, <2>1, ChainIsRow
<1>12. Len(l) - (Len(l) - 1) = 1 BY <1>9
<1>13. SubSeq(l, 1, Len(l)) = l BY <1>6
<1> QED BY <1>5, <1>11, <1>12, <1>13 DEF Scanned, l

(* After every call that has not failed, going along next_leaf from the    *)
(* first leaf meets the leaves of the tree in their order, each once.      *)
THEOREM ScanMatchesTree == ASSUME FullFits PROVE Spec => []ChainMatchesTree
<1>1. Spec => []IInvIntact BY AlwaysIntact
<1>2. IInvIntact => ChainMatchesTree
  <2> SUFFICES ASSUME IInvIntact, Quiet, NoFaults, tree.root_exists
               PROVE  Scanned = LeavesBelow[Fuel][ROOT_ID]
    BY DEF ChainMatchesTree
  <2> QED BY BeforeFailure, QuietScanned
<1> QED BY <1>1, <1>2, PTL

-----------------------------------------------------------------------------
(* Numbers that wrap around.                                               *)

LEMMA WrappedParts ==
  ASSUME NEW w \in Nat \ {0}, NEW c \in Int
  PROVE  c = (c \div w) * w + (c % w) /\ c \div w \in Int /\ c % w \in 0..(w - 1)
OBVIOUS

LEMMA AtLeastOnce ==
  ASSUME NEW w \in Nat \ {0}, NEW d \in Int
  PROVE  (d >= 1 => d * w >= w) /\ (d <= -1 => d * w <= -w)
OBVIOUS

LEMMA Remainder ==
  ASSUME NEW w \in Nat \ {0}, NEW q \in Int, NEW r \in 0..(w - 1)
  PROVE  (q * w + r) % w = r
<1> DEFINE x == q * w + r
           p == x \div w
           t == x % w
<1>1. x \in Int OBVIOUS
<1>2. x = p * w + t /\ p \in Int /\ t \in 0..(w - 1) BY <1>1, WrappedParts
<1>3. (q - p) * w = t - r
  <2>1. q * w + r = p * w + t BY <1>2
  <2> HIDE DEF p, t, x
  <2> QED BY <1>2, <2>1
<1> HIDE DEF p, t
<1>4. q - p \in Int /\ ~(q - p >= 1) /\ ~(q - p <= -1) BY <1>2, <1>3, AtLeastOnce
<1>5. q = p BY <1>2, <1>4
<1>6. t = r BY <1>2, <1>5
<1> QED BY <1>6 DEF t

(* Counting up and down.                                                   *)
LEMMA Wrapped ==
  ASSUME NEW w \in Nat \ {0, 1}, NEW c \in Int
  PROVE  ((c % w) + 1) % w = (c + 1) % w /\ (((c + 1) % w) - 1) % w = c % w
<1> DEFINE q == c \div w
           r == c % w
<1>1. c = q * w + r /\ q \in Int /\ r \in 0..(w - 1) BY WrappedParts
<1> HIDE DEF q, r
<1>2. CASE r + 1 < w
  <2>1. r + 1 \in 0..(w - 1) BY <1>1, <1>2
  <2>2. c + 1 = q * w + (r + 1) BY <1>1
  <2>3. (c + 1) % w = r + 1 BY <1>1, <2>1, <2>2, Remainder
  <2>4. (r + 1) % w = r + 1 /\ r % w = r /\ (r + 1) - 1 = r BY <1>1, <1>2
  <2> QED BY <2>3, <2>4 DEF r
<1>3. CASE ~(r + 1 < w)
  <2>1. r + 1 = w BY <1>1, <1>3
  <2>2. c + 1 = (q + 1) * w + 0 /\ r + 1 = 1 * w + 0 BY <1>1, <2>1
  <2>3. (c + 1) % w = 0 /\ (r + 1) % w = 0 BY <1>1, <2>2, Remainder
  <2>4. 0 - 1 = (-1) * w + r BY <1>1, <2>1
  <2>5. (0 - 1) % w = r BY <1>1, <2>4, Remainder
  <2> QED BY <2>3, <2>5 DEF r
<1> QED BY <1>2, <1>3

LEMMA Unwrapped == \A c \in Nat : c < CountWidth => c % CountWidth = c
BY CountWidthAssumption

-----------------------------------------------------------------------------
(* How a step changes the map that is counted, and the count.              *)

Same    == DOMAIN Tallied' = DOMAIN Tallied /\ Tally' = Tally /\ (Exists' <=> Exists)
Emptied == DOMAIN Tallied' = {} /\ Tally' = 0 /\ ~Exists'
Grown   == \E k \in Key \ DOMAIN Tallied :
             /\ DOMAIN Tallied' = DOMAIN Tallied \cup {k}
             /\ Tally' = (Tally + 1) % CountWidth \/ (DOMAIN Tallied = {} /\ Tally' = 1)
Shrunk  == \E k \in DOMAIN Tallied :
             /\ DOMAIN Tallied' = DOMAIN Tallied \ {k}
             /\ Tally' = (Tally - 1) % CountWidth

(* Each of these keeps the count, and the second brings it about.          *)
LEMMA SizeKept ==
  ASSUME Emptied \/ (SizeIs(Tallied, Tally) /\ (Same \/ Grown \/ Shrunk))
  PROVE  SizeIs(Tallied', Tally')
<1> DEFINE D == DOMAIN Tallied
           E == DOMAIN Tallied'
           c == Cardinality(D)
           w == CountWidth
<1>1. w \in Nat \ {0, 1} BY CountWidthAssumption
<1>2. SizeIs(Tallied, Tally) => IsFiniteSet(D) /\ Tally = c % w /\ c \in Nat
  BY FS_CardinalityType DEF SizeIs
<1>3. CASE SizeIs(Tallied, Tally) /\ Same BY <1>2, <1>3 DEF Same, SizeIs
<1>4. CASE Emptied
  <2>1. E = {} /\ Tally' = 0 BY <1>4 DEF Emptied
  <2>2. IsFiniteSet(E) /\ Cardinality(E) = 0 BY <2>1, FS_EmptySet
  <2>3. 0 % w = 0 BY <1>1
  <2> QED BY <2>1, <2>2, <2>3 DEF SizeIs
<1>5. CASE SizeIs(Tallied, Tally) /\ Grown
  <2>1. PICK k : k \notin D /\ E = D \cup {k}
                 /\ (Tally' = (Tally + 1) % w \/ (D = {} /\ Tally' = 1))
    BY <1>5 DEF Grown
  <2>2. SizeIs(Tallied', Tally') <=> IsFiniteSet(E) /\ Tally' = Cardinality(E) % w
    BY DEF SizeIs
  <2> HIDE DEF D, E
  <2>3. IsFiniteSet(E) /\ Cardinality(E) = c + 1 BY <1>2, <1>5, <2>1, FS_AddElement DEF c
  <2>4. CASE Tally' = (Tally + 1) % w BY <1>1, <1>2, <1>5, <2>2, <2>3, <2>4, Wrapped
  <2>5. CASE D = {} /\ Tally' = 1
    <3>1. c = 0 BY <2>5, FS_EmptySet DEF c
    <3>2. 1 % w = 1 BY <1>1
    <3> QED BY <2>2, <2>3, <2>5, <3>1, <3>2
  <2> QED BY <2>1, <2>4, <2>5
<1>6. CASE SizeIs(Tallied, Tally) /\ Shrunk
  <2>1. PICK k \in D : E = D \ {k} /\ Tally' = (Tally - 1) % w BY <1>6 DEF Shrunk
  <2>2. SizeIs(Tallied', Tally') <=> IsFiniteSet(E) /\ Tally' = Cardinality(E) % w
    BY DEF SizeIs
  <2> HIDE DEF D, E
  <2>3. IsFiniteSet(E) /\ Cardinality(E) = c - 1 BY <1>2, <1>6, <2>1, FS_RemoveElement DEF c
  <2>4. c = (c - 1) + 1 /\ c - 1 \in Int BY <1>2, <1>6
  <2>5. ((((c - 1) + 1) % w) - 1) % w = (c - 1) % w BY <1>1, <2>4, Wrapped
  <2> QED BY <1>2, <1>6, <2>1, <2>2, <2>3, <2>4, <2>5
<1> QED BY <1>3, <1>4, <1>5, <1>6

(* A step within a call, before its effect is counted.                     *)
Midway == { "start", "descend", "scan", "insert_up", "delete_up", "reload" }

LEMMA StaysSame ==
  ASSUME Keeps, call.pc \in Midway, call'.pc \in Midway, tree' = tree
  PROVE  Same
<1>1. before' = before BY Remembered DEF Midway
<1>2. Tallied = before /\ Tally = tree.entry_count /\ (Exists <=> tree.root_exists)
  BY DEF Tallied, Tally, Exists, Midway, Outside
<1>3. Tallied' = before' /\ Tally' = tree'.entry_count /\ (Exists' <=> tree'.root_exists)
  BY DEF Tallied, Tally, Exists, Midway, Outside
<1> QED BY <1>1, <1>2, <1>3 DEF Same

(* The call has its answer, and what it has made of the map counts.        *)
LEMMA AnswerCounts ==
  ASSUME Keeps, call.pc \in Midway \cup Clears \cup {"root_underflow"}, NEW a, call' = Answer(a)
  PROVE  /\ Tallied' = After(before, call.req) /\ Tally' = tree'.entry_count
         /\ Exists' <=> tree'.root_exists
<1>1. before' = before BY Remembered DEF Midway, Clears
<1>2. call \in Calls BY Running DEF Keeps, Good
<1>3. call'.pc = "return" /\ call'.req = call.req BY <1>2 DEF Answer, Calls, CallsIn
<1> QED BY <1>1, <1>3 DEF Tallied, Tally, Exists, Outside

LEMMA CountedBefore ==
  ASSUME call.pc \in Midway
  PROVE  Tallied = before /\ Tally = tree.entry_count /\ (Exists <=> tree.root_exists)
BY DEF Tallied, Tally, Exists, Midway, Outside

(* The keys that a call leaves, and what its answer says of them.          *)
LEMMA AfterDomain ==
  ASSUME NEW m, IsMap(m), NEW r \in Request
  PROVE  /\ r.op \in {"get", "range", "update"} => DOMAIN After(m, r) = DOMAIN m
         /\ r.op = "upsert" => DOMAIN After(m, r) = DOMAIN m \cup {r.key}
         /\ r.op \in {"delete", "delete_safe"} => DOMAIN After(m, r) = DOMAIN m \ {r.key}
         /\ r.op = "clear" => DOMAIN After(m, r) = {}
         /\ r.op \in ByKey =>
              r.key \in Key /\ (ValueOf(m, r.key) = None <=> r.key \notin DOMAIN m)
         /\ r.op \in {"get", "range", "clear", "upsert", "update", "delete", "delete_safe"}
<1>1. r.op \in {"get", "range"} => DOMAIN After(m, r) = DOMAIN m BY AfterByKey
<1>2. \A k, v : DOMAIN WithKey(m, k, v) = DOMAIN m \cup {k} BY DEF WithKey
<1>3. r.op = "update" => DOMAIN After(m, r) = DOMAIN m
  <2>1. CASE r.op = "update" /\ r.key \in DOMAIN m
    <3>1. After(m, r) = WithKey(m, r.key, r.val) BY <2>1, AfterByKey
    <3> QED BY <1>2, <2>1, <3>1
  <2>2. CASE r.op = "update" /\ r.key \notin DOMAIN m BY <2>2, AfterByKey
  <2> QED BY <2>1, <2>2
<1>4. ASSUME r.op = "upsert" PROVE DOMAIN After(m, r) = DOMAIN m \cup {r.key}
  <2>1. After(m, r) = WithKey(m, r.key, r.val) BY <1>4, AfterByKey
  <2> QED BY <1>2, <2>1
<1>5. r.op \in {"delete", "delete_safe"} => DOMAIN After(m, r) = DOMAIN m \ {r.key}
  BY AfterByKey DEF WithoutKey
<1>6. r.op = "clear" => DOMAIN After(m, r) = {} BY AfterByKey DEF Nothing
<1>7. r.op \in ByKey =>
        r.key \in Key /\ (ValueOf(m, r.key) = None <=> r.key \notin DOMAIN m)
  BY MapValues, ValueAfterCases
<1>8. r.op \in {"get", "range", "clear", "upsert", "update", "delete", "delete_safe"}
  BY DEF Request
<1> QED BY <1>1, <1>3, <1>4, <1>5, <1>6, <1>7, <1>8

(* An answer to a call that has changed no key.                            *)
LEMMA AnswersSame ==
  ASSUME Keeps, call.pc \in Midway, NEW a, call' = Answer(a), tree' = tree,
         DOMAIN After(before, call.req) = DOMAIN before
  PROVE  Same
BY AnswerCounts, CountedBefore DEF Same

-----------------------------------------------------------------------------
(* How each step counts.  Between calls the map is what a client sees.     *)

LEMMA OutsideCounts == SeenRight /\ call.pc \in Outside => Tallied = Visible /\ Shown = Visible
<1> SUFFICES ASSUME SeenRight, call.pc \in Outside PROVE Tallied = Visible /\ Shown = Visible
  OBVIOUS
<1>1. Tallied = Visible BY DEF Tallied
<1>2. call.req = NoRequest BY DEF SeenRight, Asking
<1> QED BY <1>1, <1>2 DEF Shown

LEMMA ShownSame == UNCHANGED Map!vars => Shown' = Shown
BY DEF Map!vars, Shown

LEMMA QuietCounts ==
  ASSUME call.pc \in Outside, call'.pc \in Outside, SeenRight, SeenRight', UNCHANGED Map!vars,
         Tally' = Tally, Exists' <=> Exists
  PROVE  Same
<1>1. Tallied = Shown BY OutsideCounts
<1>2. Tallied' = Visible' BY DEF Tallied
<1>3. call'.req = NoRequest BY DEF SeenRight, Asking
<1>4. Shown' = Visible' BY <1>3 DEF Shown
<1>5. Shown' = Shown BY ShownSame
<1> QED BY <1>1, <1>2, <1>4, <1>5 DEF Same

(* A handle is made.                                                       *)
LEMMA OpenCounts == ASSUME Good, SeenRight, SeenRight', Open PROVE Same \/ Emptied
<1>1. call.pc = "closed" /\ header' = header BY DEF Open
<1>2. CASE ROOT_ID \in DOMAIN blocks
  <2>1. call'.pc = "idle" /\ tree' = header BY <1>2 DEF Open, Blank
  <2>2. Tally' = Tally /\ (Exists' <=> Exists) BY <1>1, <2>1 DEF Tally, Exists
  <2>3. call.pc \in Outside /\ call'.pc \in Outside BY <1>1, <2>1 DEF Outside
  <2> QED BY <2>2, <2>3, OpenShown, QuietCounts
<1>3. CASE ROOT_ID \notin DOMAIN blocks
  <2>1. call'.pc = "opening" /\ tree' = EmptyTree BY <1>3 DEF Open, Blank
  <2>2. ~header'.root_exists BY <2>1 DEF SeenRight, Unopened
  <2>3. Visible' = Nothing BY <2>1, <2>2 DEF Visible, Holds, Nothing
  <2>4. DOMAIN Tallied' = {} BY <2>1, <2>3 DEF Tallied, Outside, Nothing
  <2> QED BY <2>1, <2>4 DEF Emptied, Tally, Exists, EmptyTree
<1> QED BY <1>2, <1>3

LEMMA OpenedCounts == ASSUME Good, SeenRight, SeenRight', Opened PROVE Same
<1>1. call.pc = "opening" /\ call'.pc = "idle" /\ tree' = tree BY DEF Opened, Runs, Blank
<1>2. Tally' = Tally /\ (Exists' <=> Exists) BY <1>1 DEF Tally, Exists
<1>3. call.pc \in Outside /\ call'.pc \in Outside BY <1>1 DEF Outside
<1> QED BY <1>2, <1>3, OpenedShown, QuietCounts

(* The handle is dropped: its count is on disk.                            *)
LEMMA CloseCounts == ASSUME Good, SeenRight, SeenRight', Close PROVE Same
<1>1. call.pc = "idle" /\ call'.pc = "closed" /\ header' = header
  BY DEF Close, Forget, Closed
<1>2. tree = header
  <2>1. todo = <<>> BY <1>1 DEF Good, IInv, InvIn, NothingPending
  <2>2. ~SavesRoot(todo) BY <2>1 DEF SavesRoot
  <2> QED BY <1>1, <2>2 DEF Good, Sound, HeaderFollows
<1>3. Tally' = Tally /\ (Exists' <=> Exists) BY <1>1, <1>2 DEF Tally, Exists
<1>4. call.pc \in Outside /\ call'.pc \in Outside BY <1>1 DEF Outside
<1> QED BY <1>3, <1>4, CloseShown, QuietCounts

(* A call begins with what is seen, and one is over.                       *)
LEMMA InvokeCounts == ASSUME SeenRight, HistoryNext, NEW r \in Requests, Invoke(r) PROVE Same
<1>1. call.pc = "idle" /\ call'.pc = "start" /\ tree' = tree BY DEF Invoke, Blank
<1>2. before' = Visible BY <1>1 DEF HistoryNext, Begins
<1>3. Tallied = Visible /\ Tallied' = before' BY <1>1 DEF Tallied, Outside
<1>4. Tally' = Tally /\ (Exists' <=> Exists) BY <1>1 DEF Tally, Exists
<1> QED BY <1>2, <1>3, <1>4 DEF Same

LEMMA ReturnCounts == ASSUME SeenRight, SeenRight', Return PROVE Same
<1>1. /\ call.pc = "return" /\ todo = <<>> /\ call'.pc = "idle"
      /\ tree' = tree /\ todo' = todo /\ blocks' = blocks
  BY DEF Return, Runs, NoStorageCall, Blank
<1>2. Effective BY <1>1 DEF Effective
<1>3. Exists' = Exists /\ Settled' = Settled BY <1>1 DEF Exists, Settled
<1>4. call'.pc \in Outside BY <1>1 DEF Outside
<1>5. Visible' = Visible BY <1>2, <1>3, <1>4, SeenAgain DEF SeenRight
<1>6. Visible = After(before, call.req) BY <1>2 DEF SeenRight, SeenChanged
<1>7. Tallied = Visible /\ Tallied' = Visible' BY <1>1, <1>6 DEF Tallied, Outside
<1>8. Tally' = Tally /\ (Exists' <=> Exists) BY <1>1 DEF Tally, Exists
<1> QED BY <1>5, <1>7, <1>8 DEF Same

(* A storage call counts nothing.                                          *)
LEMMA StorageCallCounts ==
  ASSUME Keeps, SeenRight, SeenRight', StorageCall
  PROVE  Same
<1>1. call' = call /\ tree' = tree /\ todo # <<>> BY DEF StorageCall
<1>2. CASE call.pc \in Outside
  <2>1. call.pc = "opening" BY <1>1, <1>2 DEF Keeps, Good, IInv, InvIn, NothingPending, Outside
  <2>2. Tally' = Tally /\ (Exists' <=> Exists) BY <1>1, <2>1 DEF Tally, Exists
  <2> QED BY <1>1, <1>2, <2>2, OpeningShown, QuietCounts DEF Keeps
<1>3. CASE call.pc \notin Outside
  <2>1. before' = before BY <1>1 DEF Keeps, HistoryNext, Begins, Returns
  <2>2. Tallied' = Tallied BY <1>1, <1>3, <2>1 DEF Tallied
  <2>3. Tally' = Tally /\ (Exists' <=> Exists) BY <1>1, <1>3 DEF Tally, Exists, Outside
  <2> QED BY <2>2, <2>3 DEF Same
<1> QED BY <1>2, <1>3

(* The handlers that only find their way, or change blocks alone.          *)
LEMMA StartOnTreeCounts == ASSUME Keeps, StartOnTree PROVE Same \/ call'.pc \in Clears
<1>1. /\ call.pc = "start" /\ tree' = tree /\ call \in Calls
      /\ call' = [ call EXCEPT !.pc = IF call.req.op = "clear" THEN "clear" ELSE "descend",
                               !.at = ROOT_ID ]
  BY Running DEF StartOnTree, Runs, Keeps, Good
<1>2. call'.pc \in {"clear", "descend"} BY <1>1 DEF Calls, CallsIn
<1> QED BY <1>1, <1>2, StaysSame DEF Midway, Clears

LEMMA DescendCounts == ASSUME Keeps, Descend PROVE Same
<1>1. call.pc = "descend" /\ tree' = tree /\ call \in Calls
  BY Running DEF Descend, Runs, Keeps, Good
<1>2. call'.pc = "descend" BY <1>1 DEF Descend, Calls, CallsIn
<1> QED BY <1>1, <1>2, StaysSame DEF Midway

LEMMA UpstreamCounts ==
  ASSUME Keeps, SaveAncestor \/ HandleChildUnderflow \/ CheckParent
  PROVE  Same /\ call'.answer = call.answer
<1>1. call \in Calls BY Running DEF Keeps, Good
<1>2. call.pc \in {"delete_up", "reload"} /\ tree' = tree
  BY DEF SaveAncestor, HandleChildUnderflow, Rebalances, CheckParent, Runs
<1>3. call'.pc \in {"delete_up", "reload"} /\ call'.answer = call.answer
  <2>1. CASE SaveAncestor BY <1>1, <1>2, <2>1 DEF SaveAncestor, Calls, CallsIn
  <2>2. CASE HandleChildUnderflow BY <1>1, <2>2 DEF HandleChildUnderflow, Calls, CallsIn
  <2>3. CASE CheckParent BY <1>1, <2>3 DEF CheckParent, Calls, CallsIn
  <2> QED BY <2>1, <2>2, <2>3
<1> QED BY <1>2, <1>3, StaysSame DEF Midway

LEMMA InsertCounts == ASSUME Keeps, InsertIntoLeaf \/ InsertIntoParent PROVE Same
<1>1. call \in Calls BY Running DEF Keeps, Good
<1>2. call.pc \in {"descend", "insert_up"} /\ tree' = tree
  BY DEF InsertIntoLeaf, InsertIntoParent, AtLeaf, Runs
<1>3. ASSUME NEW res, NEW path, AfterInsert(res, path) PROVE call'.pc = "insert_up"
  BY <1>1, <1>3 DEF AfterInsert, Calls, CallsIn
<1>4. call'.pc = "insert_up" BY <1>3 DEF InsertIntoLeaf, InsertIntoParent
<1> QED BY <1>2, <1>4, StaysSame DEF Midway

(* A key that is not there is not counted off.                             *)
LEMMA DeleteFromLeafCounts ==
  ASSUME Keeps, DeleteFromLeaf
  PROVE  Same /\ call'.pc = "delete_up" /\ (call'.outcome # "NoChange" => call'.answer # None)
<1> DEFINE k == call.req.key
<1>1. /\ Runs("descend") /\ IsLeaf(blocks[call.at]) /\ call.req.op \in {"delete", "delete_safe"}
      /\ tree' = tree
  BY DEF DeleteFromLeaf, AtLeaf
<1>2. call.pc = "descend" /\ todo = <<>> /\ call \in Calls BY <1>1, ArrivedKeeping
<1>3. call.outcome = "NoChange"
  <2>1. PICK s, U : Place(call, tree.root_exists, blocks, s, U) BY <1>2, Situation DEF Keeps
  <2> QED BY <1>2, <2>1 DEF Place, Searching
<1>4. /\ Get(blocks[call.at], k) = ValueOf(before, k)
      /\ HasKey(blocks[call.at], k) <=> ValueOf(before, k) # None
  BY <1>1, LeafAnswers DEF ByKey
<1>5. call'.pc = "delete_up" /\ (call'.outcome # "NoChange" => call'.answer # None)
  <2>1. CASE HasKey(blocks[call.at], k)
    <3>1. call'.pc = "delete_up" /\ call'.answer = Get(blocks[call.at], k)
      BY <1>2, <2>1 DEF DeleteFromLeaf, Calls, CallsIn
    <3> QED BY <1>4, <2>1, <3>1
  <2>2. CASE ~HasKey(blocks[call.at], k)
    <3>1. call'.pc = "delete_up" /\ call'.outcome = call.outcome
      BY <1>2, <2>2 DEF DeleteFromLeaf, Calls, CallsIn
    <3> QED BY <1>3, <3>1
  <2> QED BY <2>1, <2>2
<1> QED BY <1>1, <1>2, <1>5, StaysSame DEF Midway

(* The handlers that answer without having changed an entry.               *)
LEMMA GetFromLeafCounts == ASSUME Keeps, GetFromLeaf PROVE Same
<1> DEFINE g == Get(blocks[call.at], call.req.key)
<1>1. Runs("descend") /\ call.req.op = "get" /\ call' = Answer(g) /\ tree' = tree
  BY DEF GetFromLeaf, AtLeaf
<1>2. call.pc = "descend" /\ IsMap(before) /\ call.req \in Request BY <1>1, ArrivedKeeping
<1>3. DOMAIN After(before, call.req) = DOMAIN before BY <1>1, <1>2, AfterDomain
<1> QED BY <1>1, <1>2, <1>3, AnswersSame DEF Midway

LEMMA UpdateMissingCounts == ASSUME Keeps, UpdateMissing PROVE Same
<1>1. Runs("descend") /\ call.req.op = "update" /\ call' = Answer(None) /\ tree' = tree
  BY DEF UpdateMissing, AtLeaf
<1>2. call.pc = "descend" /\ IsMap(before) /\ call.req \in Request BY <1>1, ArrivedKeeping
<1>3. DOMAIN After(before, call.req) = DOMAIN before BY <1>1, <1>2, AfterDomain
<1> QED BY <1>1, <1>2, <1>3, AnswersSame DEF Midway

LEMMA ScanLeafCounts == ASSUME Keeps, ScanLeaf PROVE Same
<1> DEFINE n == blocks[call.at]
           acc == call.answer \o AskedFrom(n)
<1>1. /\ call.pc \in {"descend", "scan"} /\ todo = <<>> /\ tree' = tree
      /\ call.pc = "descend" => call.req.op = "range"
  BY DEF ScanLeaf, AtLeaf, Runs
<1>2. /\ IsMap(before) /\ call.req \in Request /\ call \in Calls /\ call.req.op = "range"
  <2>1. call.pc \notin Outside BY <1>1 DEF Outside
  <2> QED BY <1>1, <2>1, HandlerFinds DEF Asking
<1>3. \/ call' = Answer(acc)
      \/ call' = [ call EXCEPT !.pc = "scan", !.at = n.next_leaf,
                               !.stack = <<>>, !.answer = acc ]
  BY DEF ScanLeaf, AskedFrom, FirstAsked, LastAsked
<1> HIDE DEF n, acc
<1>4. CASE call' = Answer(acc)
  <2>1. DOMAIN After(before, call.req) = DOMAIN before BY <1>2, AfterDomain
  <2> QED BY <1>1, <1>4, <2>1, AnswersSame DEF Midway
<1>5. CASE call'.pc = "scan" BY <1>1, <1>5, StaysSame DEF Midway
<1>6. call' = Answer(acc) \/ call'.pc = "scan" BY <1>2, <1>3 DEF Calls, CallsIn
<1> QED BY <1>4, <1>5, <1>6

LEMMA DeleteNothingCounts == ASSUME Keeps, DeleteNothing PROVE Same
<1> DEFINE r == call.req
<1>1. /\ call.pc = "delete_up" /\ todo = <<>> /\ tree' = tree /\ call' = Answer(None)
      /\ call.outcome = "NoChange"
  BY DEF DeleteNothing, Runs
<1>2. /\ IsMap(before) /\ r \in Request /\ r.op \in {"delete", "delete_safe"}
      /\ ValueOf(before, r.key) = None
  BY <1>1, ComingBack DEF Results, Deletes
<1> HIDE DEF r
<1>3. r.key \notin DOMAIN before BY <1>2, AfterDomain DEF ByKey
<1>4. DOMAIN After(before, r) = DOMAIN before \ {r.key} BY <1>2, AfterDomain
<1>5. DOMAIN After(before, r) = DOMAIN before BY <1>3, <1>4
<1> QED BY <1>1, <1>5, AnswersSame DEF Midway, r

(* One more key.                                                           *)
LEMMA Growing ==
  ASSUME NEW k \in Key, k \notin DOMAIN Tallied, DOMAIN Tallied' = DOMAIN Tallied \cup {k},
         Tally' = (Tally + 1) % CountWidth \/ (DOMAIN Tallied = {} /\ Tally' = 1)
  PROVE  Grown
<1>1. k \in Key \ DOMAIN Tallied OBVIOUS
<1> QED BY <1>1 DEF Grown

(* The first entry.                                                        *)
LEMMA StartOnEmptyTreeCounts == ASSUME Keeps, StartOnEmptyTree PROVE Same \/ Grown
<1> DEFINE r == call.req
<1>1. /\ call.pc = "start" /\ todo = <<>> /\ ~tree.root_exists /\ call' = Answer(call.answer)
  BY DEF StartOnEmptyTree, Runs
<1>2. /\ IsMap(before) /\ r \in Request /\ Contents(call, before, blocks, tree.root_exists)
  BY <1>1, HandlerFinds DEF Outside
<1>3. before = Nothing BY <1>1, <1>2 DEF Contents, Searches, Agrees
<1>4. DOMAIN before = {} BY <1>3 DEF Nothing
<1>5. CASE r.op = "upsert"
  <2>1. tree' = [ root_exists |-> TRUE, entry_count |-> 1 ] BY <1>5 DEF StartOnEmptyTree
  <2>2. DOMAIN After(before, r) = DOMAIN before \cup {r.key} BY <1>2, <1>5, AfterDomain
  <2>5. r.key \in Key BY <1>2, <1>5, AfterDomain DEF ByKey
  <2>3. Tallied = before BY <1>1, CountedBefore DEF Midway
  <2>4. Tallied' = After(before, r) /\ Tally' = 1 BY <1>1, <2>1, AnswerCounts DEF Midway
  <2> QED BY <1>4, <2>2, <2>3, <2>4, <2>5, Growing
<1>6. CASE r.op # "upsert"
  <2>1. tree' = tree BY <1>6 DEF StartOnEmptyTree
  <2>2. \/ DOMAIN After(before, r) = DOMAIN before
        \/ DOMAIN After(before, r) = DOMAIN before \ {r.key}
        \/ DOMAIN After(before, r) = {}
    BY <1>2, <1>6, AfterDomain
  <2>3. DOMAIN After(before, r) = DOMAIN before BY <1>4, <2>2
  <2> QED BY <1>1, <2>1, <2>3, AnswersSame DEF Midway
<1> QED BY <1>5, <1>6

(* A new key is counted when the insertion is done,                        *)
LEMMA FinishInsertCounts == ASSUME Keeps, FinishInsert PROVE Same \/ Grown
<1> DEFINE r == call.req
<1>1. /\ call.pc = "insert_up" /\ todo = <<>> /\ call' = Answer(call.answer)
      /\ tree' = IF r.op = "upsert" /\ call.answer = None
                 THEN [ tree EXCEPT !.entry_count = (@ + 1) % CountWidth ] ELSE tree
  BY DEF FinishInsert, Runs
<1>2. /\ IsMap(before) /\ r \in Request /\ r.op \in {"upsert", "update"}
      /\ call.answer = ValueOf(before, r.key)
  BY <1>1, ComingBack DEF Results, Deletes
<1>3. r.key \in Key /\ (call.answer = None <=> r.key \notin DOMAIN before)
  BY <1>2, AfterDomain DEF ByKey
<1>4. CASE r.op = "upsert" /\ call.answer = None
  <2>1. tree \in Metadata BY Running DEF Keeps, Good
  <2>2. tree'.entry_count = (tree.entry_count + 1) % CountWidth BY <1>1, <1>4, <2>1 DEF Metadata
  <2>3. DOMAIN After(before, r) = DOMAIN before \cup {r.key} BY <1>2, <1>4, AfterDomain
  <2>4. Tallied = before /\ Tally = tree.entry_count BY <1>1, CountedBefore DEF Midway
  <2>5. Tallied' = After(before, r) /\ Tally' = tree'.entry_count
    BY <1>1, AnswerCounts DEF Midway
  <2> QED BY <1>3, <1>4, <2>2, <2>3, <2>4, <2>5, Growing
<1>5. CASE ~(r.op = "upsert" /\ call.answer = None)
  <2>1. tree' = tree BY <1>1, <1>5
  <2>2. \/ DOMAIN After(before, r) = DOMAIN before
        \/ DOMAIN After(before, r) = DOMAIN before \cup {r.key} /\ r.key \in DOMAIN before
    <3>1. CASE r.op = "update" BY <1>2, <3>1, AfterDomain
    <3>2. CASE r.op = "upsert"
      <4>1. DOMAIN After(before, r) = DOMAIN before \cup {r.key} BY <1>2, <3>2, AfterDomain
      <4> QED BY <1>3, <1>5, <3>2, <4>1
    <3> QED BY <1>2, <3>1, <3>2
  <2>3. DOMAIN After(before, r) = DOMAIN before BY <2>2
  <2> QED BY <1>1, <2>1, <2>3, AnswersSame DEF Midway
<1> QED BY <1>4, <1>5

(* and one that has been taken out when the deletion is.                   *)
LEMMA CountDeletedCounts ==
  ASSUME Keeps, CountDeleted, call.answer # None
  PROVE  Shrunk /\ call'.pc = "root_underflow"
<1> DEFINE r == call.req
<1>1. /\ call.pc = "delete_up" /\ todo = <<>>
      /\ tree' = [ tree EXCEPT !.entry_count = (@ - 1) % CountWidth ]
      /\ call' = [ call EXCEPT !.pc = "root_underflow" ]
  BY DEF CountDeleted, Runs
<1>2. /\ IsMap(before) /\ r \in Request /\ r.op \in {"delete", "delete_safe"} /\ call \in Calls
      /\ call.answer = ValueOf(before, r.key)
  BY <1>1, ComingBack DEF Results, Deletes
<1>3. r.key \in DOMAIN before /\ DOMAIN After(before, r) = DOMAIN before \ {r.key}
  BY <1>2, AfterDomain DEF ByKey
<1>4. tree \in Metadata BY Running DEF Keeps, Good
<1>5. tree'.entry_count = (tree.entry_count - 1) % CountWidth BY <1>1, <1>4 DEF Metadata
<1>6. call'.pc = "root_underflow" /\ call'.req = call.req BY <1>1, <1>2 DEF Calls, CallsIn
<1>7. before' = before BY <1>1, Remembered
<1>8. Tallied = before /\ Tally = tree.entry_count BY <1>1, CountedBefore DEF Midway
<1>9. Tallied' = After(before, r) /\ Tally' = tree'.entry_count
  BY <1>6, <1>7 DEF Tallied, Tally, Outside
<1> QED BY <1>3, <1>5, <1>6, <1>8, <1>9 DEF Shrunk

(* A tree has leaves.                                                      *)
LEMMA SomeLeaf ==
  ASSUME NEW B, NEW s, NEW root, Tree(B, s, root)
  PROVE  \E b \in DOMAIN B : IsLeaf(B[b])
<1> DEFINE S == { n \in Nat : \A b \in DOMAIN B : s.ht[b] = n => \E c \in DOMAIN B : IsLeaf(B[c]) }
<1>1. 0 \in S BY TreeNode
<1>2. ASSUME NEW n \in S PROVE n + 1 \in S
  <2>1. n \in Nat /\ n + 1 \in Nat OBVIOUS
  <2>2. ASSUME NEW b \in DOMAIN B, s.ht[b] = n + 1 PROVE \E c \in DOMAIN B : IsLeaf(B[c])
    <3>1. s.ht[b] > 0 BY <2>1, <2>2
    <3>2. IsInternal(B[b]) /\ B[b] \in WellShaped BY <3>1, TreeNode
    <3>3. Len(B[b].keys) \in Nat BY <3>2, NodeParts
    <3>4. 1 \in 1..(Len(B[b].keys) + 1) BY <3>3
    <3> DEFINE c == B[b].child_ids[1]
    <3>5. c \in DOMAIN B /\ s.ht[c] + 1 = n + 1 BY <2>2, <3>2, <3>4, TreeChild
    <3>6. s.ht[c] \in Nat BY <3>5, TreeNode
    <3> HIDE DEF c
    <3>7. s.ht[c] = n BY <2>1, <3>5, <3>6
    <3> QED BY <3>5, <3>7
  <2> QED BY <2>1, <2>2
<1> HIDE DEF S
<1>3. S \subseteq Nat BY DEF S
<1>4. S = Nat BY <1>1, <1>2, <1>3, CountUp
<1>5. root \in DOMAIN B BY DEF Tree
<1>6. s.ht[root] \in S BY <1>4, <1>5, TreeNode
<1> QED BY <1>5, <1>6 DEF S

(* Where no node but the root may be empty, it stores something.           *)
LEMMA SomethingStored ==
  ASSUME NEW B, NEW s, Tree(B, s, ROOT_ID), Sized(B, NoBlock), MinKeys > 0,
         IsLeaf(B[ROOT_ID]) => Len(B[ROOT_ID].keys) # 0
  PROVE  \E k \in Key, v \in Val : Stores(B, k, v)
<1>1. PICK b \in DOMAIN B : IsLeaf(B[b]) BY SomeLeaf
<1>2. MinKeys \in Nat BY Capacity
<1> DEFINE n == B[b]
<1>3. n \in WellShaped /\ b \in Nat BY TreeNode DEF BlockId
<1>4. Len(n.keys) \in Nat /\ Len(n.keys) # 0
  <2>1. Len(n.keys) \in Nat BY <1>3, NodeParts
  <2>2. CASE b = ROOT_ID BY <1>1, <2>1, <2>2
  <2>3. CASE b # ROOT_ID
    <3>1. Len(n.keys) >= MinKeys
      <4>1. b # NoBlock BY <1>1, TreeNode DEF BlockId, NoBlock
      <4> QED BY <1>1, <2>3, <4>1 DEF Sized
    <3> QED BY <1>2, <2>1, <3>1
  <2> QED BY <2>2, <2>3
<1>5. 1 \in DOMAIN n.keys /\ n.keys[1] \in Key /\ n.values[1] \in Val
  BY <1>1, <1>3, <1>4, NodeParts
<1>6. Has(n, n.keys[1], n.values[1]) BY <1>5 DEF Has
<1> QED BY <1>1, <1>5, <1>6 DEF Stores

(* With the last entry, and not before, the root goes.                     *)
LEMMA FinishDeleteCounts ==
  ASSUME Keeps, Kept', FinishDelete
  PROVE  Emptied \/ (Same /\ (MinKeys > 0 => DOMAIN Tallied # {}))
<1> DEFINE r == blocks[ROOT_ID]
           a == After(before, call.req)
<1>1. call.pc = "root_underflow" /\ todo = <<>> /\ call' = Answer(call.answer)
  BY DEF FinishDelete, Runs
<1>2. Tallied = a /\ Tally = tree.entry_count /\ (Exists <=> tree.root_exists)
  BY <1>1 DEF Tallied, Tally, Exists, Outside
<1>3. Tallied' = a /\ Tally' = tree'.entry_count /\ (Exists' <=> tree'.root_exists)
  BY <1>1, AnswerCounts
<1>4. CASE tree' = tree /\ ~EmptiesRoot
  <2>1. Same BY <1>2, <1>3, <1>4 DEF Same
  <2>2. ASSUME MinKeys > 0 PROVE DOMAIN a # {}
    <3>1. PICK s : Tree(blocks, s, ROOT_ID) /\ Sized(blocks, NoBlock)
      <4>1. PICK s, U : Place(call, tree.root_exists, blocks, s, U) BY <1>1, Situation DEF Keeps
      <4>2. Counted(call, blocks, s) BY <1>1, <4>1 DEF Place
      <4> QED BY <4>2 DEF Counted
    <3>2. Agrees(a, blocks, TRUE) BY <1>1, ComingBack DEF Results, Deletes
    <3>3. ROOT_ID \in DOMAIN blocks BY <1>1, Running DEF Keeps, Good
    <3>4. r.key_count = Len(r.keys) BY <3>1, <3>3, TreeNode, NodeParts
    <3>5. IsLeaf(r) => Len(r.keys) # 0 BY <1>4, <3>4 DEF EmptiesRoot
    <3>6. \E k \in Key, v \in Val : Stores(blocks, k, v) BY <2>2, <3>1, <3>5, SomethingStored
    <3> HIDE DEF a
    <3> QED BY <3>2, <3>6 DEF Agrees
  <2> QED BY <1>2, <2>1, <2>2
<1>5. CASE tree' = EmptyTree
  <2>1. call'.pc = "return" BY <1>1, Running DEF Answer, Keeps, Good, Calls, CallsIn
  <2>2. Tallied' = After(before', call'.req) BY <2>1 DEF Tallied, Outside
  <2>3. Agrees(Tallied', Settled', tree'.root_exists) BY <2>1, <2>2 DEF Kept, Contents, Results
  <2>4. Tallied' = Nothing BY <1>5, <2>3 DEF Agrees, EmptyTree
  <2> QED BY <1>3, <1>5, <2>4 DEF Emptied, EmptyTree, Nothing
<1>6. CASE CollapsesRoot /\ tree' = tree
  <2>1. ROOT_ID \in DOMAIN blocks BY <1>1, Running DEF Keeps, Good
  <2>2. r \in WellShaped BY <2>1, Running DEF Keeps, Good, StorageTypeOK, StorageTypeIn
  <2>3. ~IsLeaf(r) BY <1>6, <2>2, NodeParts DEF CollapsesRoot
  <2>4. ~EmptiesRoot BY <2>3 DEF EmptiesRoot
  <2> QED BY <1>4, <1>6, <2>4
<1> QED BY <1>4, <1>5, <1>6 DEF FinishDelete

(* So it does when everything is cleared.                                  *)
LEMMA FinishClearCounts == ASSUME Keeps, FinishClear PROVE Emptied
<1>1. call.pc = "clear_up" /\ todo = <<>> /\ call' = Answer(None) /\ tree' = EmptyTree
  BY DEF FinishClear, Runs
<1>2. IsMap(before) /\ call.req \in Request /\ call.req.op = "clear"
  BY <1>1, HandlerFinds DEF Asking, Clears, Outside
<1>3. DOMAIN After(before, call.req) = {} BY <1>2, AfterDomain
<1>4. /\ Tallied' = After(before, call.req) /\ Tally' = tree'.entry_count
      /\ Exists' <=> tree'.root_exists
  BY <1>1, AnswerCounts DEF Clears
<1> QED BY <1>1, <1>3, <1>4 DEF Emptied, EmptyTree

LEMMA ClearingCounts ==
  ASSUME Keeps, ClearInternal \/ ClearLeaf \/ ClearNext
  PROVE  call'.pc \in Clears
<1>1. call \in Calls BY Running DEF Keeps, Good
<1>2. CASE ClearInternal BY <1>1, <1>2 DEF ClearInternal, Runs, Calls, CallsIn, Clears
<1>3. CASE ClearLeaf BY <1>1, <1>3 DEF ClearLeaf, Runs, Calls, CallsIn, Clears
<1>4. CASE ClearNext BY <1>1, <1>4 DEF ClearNext, Runs, Calls, CallsIn, Clears
<1> QED BY <1>2, <1>3, <1>4

(* Every step that is no failure keeps the count, and leaves no tree       *)
(* without entries.                                                        *)
LEMMA NextCounts ==
  ASSUME FullFits, Keeps, Kept', SeenRight, SeenRight', CountKept, Next, ~StorageFails, ~Crash
  PROVE  CountKept' /\ (MinKeys > 0 /\ Occupied => Occupied')
<1> DEFINE Fitting == call.pc = "reload" \/ (call.pc = "delete_up" /\ call.outcome # "NoChange")
                        => call.answer # None
           Going == call.pc \notin Clears \cup {"root_underflow"}
           Right == \/ call'.pc \in Clears \/ Emptied
                    \/ Going /\ (Same \/ Grown \/ (Shrunk /\ call'.pc = "root_underflow"))
                    \/ Same /\ call' = call
                    \/ /\ call.pc = "root_underflow"
                       /\ Same /\ (MinKeys > 0 => DOMAIN Tallied # {})
<1>1. Fitting /\ (call.pc \notin Clears => SizeIs(Tallied, Tally)) BY DEF CountKept
<1>2. ASSUME Right, Fitting' PROVE CountKept' /\ (MinKeys > 0 /\ Occupied => Occupied')
  <2>1. CASE call'.pc \in Clears BY <1>2, <2>1 DEF CountKept, Occupied
  <2>2. CASE Emptied BY <1>2, <2>2, SizeKept DEF CountKept, Occupied, Emptied
  <2>3. CASE Going /\ Same BY <1>1, <1>2, <2>3, SizeKept DEF CountKept, Occupied, Same
  <2>4. CASE Going /\ Grown BY <1>1, <1>2, <2>4, SizeKept DEF CountKept, Occupied, Grown
  <2>5. CASE Going /\ Shrunk /\ call'.pc = "root_underflow"
    BY <1>1, <1>2, <2>5, SizeKept DEF CountKept, Occupied
  <2>6. CASE Same /\ call' = call
    BY <1>1, <1>2, <2>1, <2>6, SizeKept DEF CountKept, Occupied, Same
  <2>7. CASE call.pc = "root_underflow" /\ Same /\ (MinKeys > 0 => DOMAIN Tallied # {})
    <3>1. call.pc \notin Clears BY <2>7 DEF Clears
    <3> QED BY <1>1, <1>2, <2>7, <3>1, SizeKept DEF CountKept, Occupied, Same
  <2> QED BY <1>2, <2>1, <2>2, <2>3, <2>4, <2>5, <2>6, <2>7
<1>3. Good /\ HistoryNext BY DEF Keeps
<1>4. call \in Calls BY <1>3, Running DEF Good
<1>5. ASSUME NEW a, call' = Answer(a) PROVE Fitting' BY <1>4, <1>5 DEF Answer, Calls, CallsIn
<1>6. CASE Open
  <2>1. Going /\ Fitting' BY <1>6 DEF Open, Clears, Blank
  <2> HIDE DEF Fitting
  <2> QED BY <1>1, <1>2, <1>3, <1>6, <2>1, OpenCounts
<1>7. CASE Close
  <2>1. Going /\ Fitting' BY <1>7 DEF Close, Forget, Closed, Blank, Clears
  <2> HIDE DEF Fitting
  <2> QED BY <1>1, <1>2, <1>3, <1>7, <2>1, CloseCounts
<1>8. CASE \E r \in Requests : Invoke(r)
  <2>1. PICK r \in Requests : Invoke(r) BY <1>8
  <2>2. Going /\ Fitting' BY <2>1 DEF Invoke, Blank, Clears
  <2>3. Same BY <1>3, <2>1, InvokeCounts
  <2> HIDE DEF Fitting
  <2> QED BY <1>1, <1>2, <2>2, <2>3
<1>9. CASE CallStep
  <2>1. CASE StorageCall
    <3>1. call' = call BY <2>1 DEF StorageCall
    <3>2. Same BY <2>1, StorageCallCounts
    <3> QED BY <1>1, <1>2, <3>1, <3>2
  <2>2. CASE Opened \/ Return
    <3>1. Going /\ Fitting' BY <2>2 DEF Opened, Return, Runs, Blank, Clears
    <3>2. Same BY <1>3, <2>2, OpenedCounts, ReturnCounts
    <3> HIDE DEF Fitting
    <3> QED BY <1>1, <1>2, <3>1, <3>2
  <2>3. CASE StartOnTree
    <3>1. Going /\ Fitting'
      BY <1>4, <2>3 DEF StartOnTree, Runs, Calls, CallsIn, Clears
    <3> HIDE DEF Fitting
    <3> QED BY <1>1, <1>2, <2>3, <3>1, StartOnTreeCounts
  <2>4. CASE StartOnEmptyTree
    <3>1. Going /\ call' = Answer(call.answer)
      BY <2>4 DEF StartOnEmptyTree, Runs, Clears
    <3> HIDE DEF Fitting
    <3> QED BY <1>1, <1>2, <1>5, <2>4, <3>1, StartOnEmptyTreeCounts
  <2>5. CASE Search
    <3>1. CASE Descend
      <4>1. Going /\ Fitting' BY <1>4, <3>1 DEF Descend, Runs, Calls, CallsIn, Clears
      <4> HIDE DEF Fitting
      <4> QED BY <1>1, <1>2, <3>1, <4>1, DescendCounts
    <3>2. CASE GetFromLeaf
      <4>1. Going /\ \E a : call' = Answer(a)
        BY <3>2 DEF GetFromLeaf, AtLeaf, Runs, Clears
      <4> HIDE DEF Fitting
      <4> QED BY <1>1, <1>2, <1>5, <3>2, <4>1, GetFromLeafCounts
    <3>3. CASE ScanLeaf
      <4> DEFINE acc == call.answer \o AskedFrom(blocks[call.at])
      <4>1. Going BY <3>3 DEF ScanLeaf, AtLeaf, Runs, Clears
      <4>2. call' = Answer(acc) \/ call'.pc = "scan"
        <5>1. \/ call' = Answer(acc)
              \/ call' = [ call EXCEPT !.pc = "scan", !.at = blocks[call.at].next_leaf,
                                       !.stack = <<>>, !.answer = acc ]
          BY <3>3 DEF ScanLeaf, AskedFrom, FirstAsked, LastAsked
        <5> HIDE DEF acc
        <5> QED BY <1>4, <5>1 DEF Calls, CallsIn
      <4>3. Fitting' BY <1>5, <4>2
      <4> HIDE DEF Fitting
      <4> QED BY <1>1, <1>2, <3>3, <4>1, <4>3, ScanLeafCounts
    <3> QED BY <2>5, <3>1, <3>2, <3>3 DEF Search
  <2>6. CASE Insert
    <3>1. CASE UpdateMissing
      <4>1. Going /\ call' = Answer(None)
        BY <3>1 DEF UpdateMissing, AtLeaf, Runs, Clears
      <4> HIDE DEF Fitting
      <4> QED BY <1>1, <1>2, <1>5, <3>1, <4>1, UpdateMissingCounts
    <3>2. CASE InsertIntoLeaf \/ InsertIntoParent
      <4>1. Going
        BY <3>2 DEF InsertIntoLeaf, InsertIntoParent, AtLeaf, Runs, Clears
      <4>2. ASSUME NEW res, NEW path, AfterInsert(res, path) PROVE call'.pc = "insert_up"
        BY <1>4, <4>2 DEF AfterInsert, Calls, CallsIn
      <4>3. Fitting' BY <3>2, <4>2 DEF InsertIntoLeaf, InsertIntoParent
      <4> HIDE DEF Fitting
      <4> QED BY <1>1, <1>2, <3>2, <4>1, <4>3, InsertCounts
    <3>3. CASE FinishInsert
      <4>1. Going /\ call' = Answer(call.answer)
        BY <3>3 DEF FinishInsert, Runs, Clears
      <4> HIDE DEF Fitting
      <4> QED BY <1>1, <1>2, <1>5, <3>3, <4>1, FinishInsertCounts
    <3> QED BY <2>6, <3>1, <3>2, <3>3 DEF Insert
  <2>7. CASE Delete
    <3>1. CASE DeleteFromLeaf
      <4>1. Going BY <3>1 DEF DeleteFromLeaf, AtLeaf, Runs, Clears
      <4>2. Same /\ Fitting' BY <3>1, DeleteFromLeafCounts
      <4> HIDE DEF Fitting
      <4> QED BY <1>1, <1>2, <4>1, <4>2
    <3>2. CASE SaveAncestor \/ HandleChildUnderflow \/ CheckParent
      <4>1. Going
        BY <3>2 DEF SaveAncestor, HandleChildUnderflow, Rebalances, CheckParent, Runs, Clears
      <4>2. Same /\ call'.answer = call.answer BY <3>2, UpstreamCounts
      <4>3. call'.outcome = call.outcome \/ call.answer # None
        <5>1. CASE SaveAncestor BY <1>4, <5>1 DEF SaveAncestor, Calls, CallsIn
        <5>2. CASE HandleChildUnderflow BY <1>4, <5>2 DEF HandleChildUnderflow, Calls, CallsIn
        <5>3. CASE CheckParent BY <1>1, <5>3 DEF CheckParent, Runs
        <5> QED BY <3>2, <5>1, <5>2, <5>3
      <4>4. SaveAncestor => call.pc = "delete_up" /\ call'.pc = "delete_up"
        BY <1>4 DEF SaveAncestor, Runs, Calls, CallsIn
      <4>5. HandleChildUnderflow => call.pc = "delete_up" /\ call.outcome # "NoChange"
        BY DEF HandleChildUnderflow, Rebalances, Runs
      <4>6. CheckParent => call.pc = "reload" BY DEF CheckParent, Runs
      <4>7. Fitting' BY <1>1, <3>2, <4>2, <4>3, <4>4, <4>5, <4>6
      <4> HIDE DEF Fitting
      <4> QED BY <1>1, <1>2, <4>1, <4>2, <4>7
    <3>3. CASE DeleteNothing
      <4>1. Going /\ call' = Answer(None)
        BY <3>3 DEF DeleteNothing, Runs, Clears
      <4> HIDE DEF Fitting
      <4> QED BY <1>1, <1>2, <1>5, <3>3, <4>1, DeleteNothingCounts
    <3>4. CASE CountDeleted
      <4>1. Going /\ call.answer # None
        BY <1>1, <3>4 DEF CountDeleted, Runs, Clears
      <4>2. Shrunk /\ call'.pc = "root_underflow" /\ Fitting' BY <3>4, <4>1, CountDeletedCounts
      <4> HIDE DEF Fitting
      <4> QED BY <1>1, <1>2, <4>1, <4>2
    <3>5. CASE FinishDelete
      <4>1. call.pc = "root_underflow" /\ call' = Answer(call.answer)
        BY <3>5 DEF FinishDelete, Runs
      <4> HIDE DEF Fitting
      <4> QED BY <1>1, <1>2, <1>5, <3>5, <4>1, FinishDeleteCounts
    <3> QED BY <1>3, <2>7, <3>1, <3>2, <3>3, <3>4, <3>5, NeverRolledBack DEF Delete
  <2>8. CASE Clear
    <3>1. CASE FinishClear
      <4>1. call' = Answer(None) BY <3>1 DEF FinishClear
      <4> HIDE DEF Fitting
      <4> QED BY <1>2, <1>5, <3>1, <4>1, FinishClearCounts
    <3>2. CASE ClearInternal \/ ClearLeaf \/ ClearNext
      <4>1. call'.pc \in Clears BY <3>2, ClearingCounts
      <4>2. Fitting' BY <4>1 DEF Clears
      <4> HIDE DEF Fitting
      <4> QED BY <1>2, <4>1, <4>2
    <3> QED BY <2>8, <3>1, <3>2 DEF Clear
  <2>9. ~BlockNotFound /\ ~InvalidBlockSize /\ ~BlockCorrupted /\ ~Panic
    BY <1>3, NeverNotFound, NeverTooLong, NeverCorrupted
  <2> QED
    BY <1>9, <2>1, <2>2, <2>3, <2>4, <2>5, <2>6, <2>7, <2>8, <2>9 DEF CallStep
<1> QED BY <1>6, <1>7, <1>8, <1>9 DEF Next

-----------------------------------------------------------------------------
(* The invariant.                                                          *)

IInvCount == IInvMap /\ TallyKept /\ RootedKept

(* A step that changes nothing keeps the count.                            *)
LEMMA NothingCounts ==
  ASSUME UNCHANGED allvars, SeenRight, SeenRight'
  PROVE  Same
<1>1. /\ call' = call /\ todo' = todo /\ tree' = tree /\ header' = header /\ blocks' = blocks
      /\ before' = before
  BY DEF allvars, vars
<1>2. Exists' = Exists /\ Settled' = Settled /\ Tally' = Tally BY <1>1 DEF Exists, Settled, Tally
<1>3. CASE call.pc \in Outside
  <2>1. Visible' = Visible BY <1>1, <1>2, <1>3, SeenAgain DEF SeenRight
  <2> QED BY <1>1, <1>2, <1>3, <2>1 DEF Same, Tallied
<1>4. CASE call.pc \notin Outside BY <1>1, <1>2, <1>4 DEF Same, Tallied
<1> QED BY <1>3, <1>4

(* Every step of the tree, failures included.                              *)
LEMMA NextCountKept ==
  ASSUME FullFits, IInvCount, [Next /\ HistoryNext]_allvars
  PROVE  IInvCount'
<1>1. [Next]_vars BY DEF allvars
<1>2. IInvMap' BY NextMapKept DEF IInvCount
<1>3. ASSUME NoFaults' PROVE CountKept' /\ (MinKeys > 0 => Occupied')
  <2>1. NoFaults /\ ~StorageFails /\ ~Crash
    BY <1>1, <1>3, FaultsCount DEF IInvCount, IInvMap, IInvIntact
  <2>2. Good /\ Kept /\ Kept' BY <1>2, <1>3, <2>1, BeforeFailure DEF IInvCount, IInvMap, MapKept
  <2>3. CountKept /\ (MinKeys > 0 => Occupied) BY <2>1 DEF IInvCount, TallyKept, RootedKept
  <2>4. SeenRight BY <2>1, Seen DEF IInvCount
  <2>5. SeenRight'
    <3>1. (IInvMap /\ NoFaults => SeenRight)' BY Seen, PTL
    <3> QED BY <1>2, <1>3, <3>1
  <2>6. CASE Next /\ HistoryNext BY <2>1, <2>2, <2>3, <2>4, <2>5, <2>6, NextCounts DEF Keeps
  <2>7. CASE UNCHANGED allvars
    <3>1. Same BY <2>4, <2>5, <2>7, NothingCounts
    <3>2. call' = call BY <2>7 DEF allvars, vars
    <3>3. CountKept'
      <4>1. SizeIs(Tallied, Tally) => SizeIs(Tallied', Tally') BY <3>1, SizeKept
      <4> QED BY <2>3, <3>2, <4>1 DEF CountKept
    <3>4. Occupied => Occupied' BY <3>1, <3>2 DEF Occupied, Same
    <3> QED BY <2>3, <3>3, <3>4
  <2> QED BY <2>6, <2>7
<1>4. (MinKeys > 0)' <=> MinKeys > 0 BY DEF MinKeys
<1> QED BY <1>2, <1>3, <1>4 DEF IInvCount, TallyKept, RootedKept

(* The first state.                                                        *)
LEMMA InitCountKept == ASSUME Init, HistoryInit PROVE IInvCount
<1>1. IInvMap BY InitMapKept
<1>2. call.pc = "closed" /\ header = EmptyTree BY DEF Init, Closed, Blank
<1>3. Visible = Nothing BY <1>2 DEF Visible, Holds, Nothing, EmptyTree
<1>4. Tallied = Nothing /\ Tally = 0 /\ ~Exists
  BY <1>2, <1>3 DEF Tallied, Tally, Exists, Outside, EmptyTree
<1>5. SizeIs(Nothing, 0)
  <2>1. DOMAIN Nothing = {} BY DEF Nothing
  <2>2. 0 % CountWidth = 0 BY CountWidthAssumption
  <2> QED BY <2>1, <2>2, FS_EmptySet DEF SizeIs
<1>6. CountKept BY <1>2, <1>4, <1>5 DEF CountKept
<1>7. Occupied BY <1>4 DEF Occupied
<1> QED BY <1>1, <1>6, <1>7 DEF IInvCount, TallyKept, RootedKept

LEMMA AlwaysCount == ASSUME FullFits PROVE HistorySpec => []IInvCount
<1>1. Init /\ HistoryInit => IInvCount BY InitCountKept
<1>2. IInvCount /\ [Next /\ HistoryNext]_allvars => IInvCount' BY NextCountKept
<1> QED BY <1>1, <1>2, PTL DEF HistorySpec

(* As long as nothing fails the handle's count of entries, or the one on   *)
(* disk when there is no handle, is that of the map the client sees; a     *)
(* call counts a new or a deleted key once, and no other: neither one that *)
(* is overwritten nor one that is not found.                               *)
THEOREM EntriesCounted == ASSUME FullFits PROVE HistorySpec => []TallyKept
<1>1. IInvCount => TallyKept BY DEF IInvCount
<1> QED BY <1>1, AlwaysCount, PTL

(* Between two calls.                                                      *)
LEMMA QuietCount ==
  ASSUME IInvCount, Quiet, NoFaults
  PROVE  /\ Good /\ IsMap(Visible) /\ Agrees(Visible, blocks, tree.root_exists)
         /\ SizeIs(Visible, tree.entry_count)
         /\ MinKeys > 0 /\ tree.root_exists => DOMAIN Visible # {}
<1>1. call.pc = "idle" /\ todo = <<>> BY DEF Quiet
<1>2. Good /\ SeenRight BY BeforeFailure, Seen DEF IInvCount, IInvMap
<1>3. CountKept /\ (MinKeys > 0 => Occupied) BY DEF IInvCount, TallyKept, RootedKept
<1>4. Settled = blocks BY <1>1, PlanNone DEF Settled
<1>5. /\ Tallied = Visible /\ Tally = tree.entry_count /\ Exists = tree.root_exists
      /\ call.pc \notin Clears \cup {"root_underflow"} /\ call.pc \in Outside
  BY <1>1 DEF Tallied, Tally, Exists, Outside, Clears
<1>6. IsMap(Visible) /\ Agrees(Visible, blocks, tree.root_exists)
  BY <1>2, <1>4, <1>5 DEF SeenRight, SeenHeld
<1>7. SizeIs(Visible, tree.entry_count) BY <1>3, <1>5 DEF CountKept
<1>8. MinKeys > 0 /\ tree.root_exists => DOMAIN Visible # {} BY <1>3, <1>5 DEF Occupied
<1> QED BY <1>2, <1>6, <1>7, <1>8

(* A tree with nothing in it has no root, where each node but the root     *)
(* has a key at least, and as long as nothing fails and there are not so   *)
(* many entries that their count wraps around.                             *)
THEOREM NoEmptyRoot ==
  ASSUME FullFits, MaxKeys >= 3
  PROVE  HistorySpec /\ []FewEntries => []EmptyTreeHasNoRoot
<1>1. MinKeys > 0
  <2>1. MaxKeys \in Nat BY MaxKeysAssumption
  <2> QED BY <2>1 DEF MinKeys
<1>2. ASSUME IInvCount, FewEntries PROVE EmptyTreeHasNoRoot
  <2> SUFFICES ASSUME Quiet, NoFaults, tree.entry_count = 0, tree.root_exists PROVE FALSE
    BY DEF EmptyTreeHasNoRoot
  <2> DEFINE D == DOMAIN Visible
  <2>1. IsFiniteSet(D) /\ 0 = Cardinality(D) % CountWidth /\ D # {}
    BY <1>1, <1>2, QuietCount DEF SizeIs
  <2>2. Cardinality(D) < CountWidth BY <1>2 DEF FewEntries
  <2> HIDE DEF D
  <2>3. Cardinality(D) \in Nat /\ Cardinality(D) # 0
    BY <2>1, FS_CardinalityType, FS_EmptySet
  <2>4. Cardinality(D) % CountWidth = Cardinality(D) BY <2>2, <2>3, Unwrapped
  <2> QED BY <2>1, <2>3, <2>4
<1> QED BY <1>2, AlwaysCount, PTL

-----------------------------------------------------------------------------
(* What validate comes across.                                             *)

(* A block with its depth and its bounds, and all blocks at a depth.       *)
Visit(s, b) ==
  [ id |-> b, depth |-> s.ht[ROOT_ID] - s.ht[b], min |-> s.lo[b], max |-> s.hi[b] ]

AtDepth(s, d) == { Visit(s, b) : b \in { x \in DOMAIN blocks : s.ht[ROOT_ID] - s.ht[x] = d } }

LEMMA ChildrenVisited ==
  ASSUME NEW s, Tree(blocks, s, ROOT_ID), NEW b \in DOMAIN blocks
  PROVE  Children(Visit(s, b)) = { Visit(s, c) : c \in { x \in DOMAIN blocks : s.par[x] = b } }
<1> DEFINE n == blocks[b]
           m == Len(n.keys) + 1
           kid(i) == [ id |-> n.child_ids[i], depth |-> (s.ht[ROOT_ID] - s.ht[b]) + 1,
                       min |-> IF i = 1 THEN s.lo[b] ELSE {n.keys[i - 1]},
                       max |-> IF i = Len(n.keys) + 1 THEN s.hi[b] ELSE {n.keys[i]} ]
<1>1. n \in WellShaped /\ (IsLeaf(n) \/ IsInternal(n)) BY TreeNode, NodeParts
<1>2. Children(Visit(s, b)) = { kid(i) : i \in DOMAIN n.child_ids } BY DEF Children, Visit
<1>3. CASE IsLeaf(n)
  <2>1. DOMAIN n.child_ids = {} BY <1>1, <1>3, NodeParts
  <2>2. ASSUME NEW c \in DOMAIN blocks, s.par[c] = b PROVE FALSE
    <3>1. b # NoBlock BY TreeNode DEF BlockId, NoBlock
    <3>2. IsInternal(blocks[b]) BY <2>2, <3>1, TreeParent
    <3> QED BY <1>1, <1>3, <3>2, NodeParts
  <2> QED BY <1>2, <2>1, <2>2
<1>4. CASE IsInternal(n)
  <2>1. DOMAIN n.child_ids = 1..m BY <1>1, <1>4, NodeParts
  <2>2. ASSUME NEW i \in 1..m
        PROVE  /\ n.child_ids[i] \in DOMAIN blocks /\ s.par[n.child_ids[i]] = b
               /\ kid(i) = Visit(s, n.child_ids[i])
    <3> DEFINE c == n.child_ids[i]
    <3>1. /\ c \in DOMAIN blocks /\ s.par[c] = b /\ s.ht[c] + 1 = s.ht[b]
          /\ s.lo[c] = LowOf(n, s.lo[b], i) /\ s.hi[c] = HighOf(n, s.hi[b], i)
      BY <1>4, TreeChild
    <3>2. ROOT_ID \in DOMAIN blocks BY DEF Tree
    <3>3. s.ht[c] \in Nat /\ s.ht[b] \in Nat /\ s.ht[ROOT_ID] \in Nat BY <3>1, <3>2, TreeNode
    <3> HIDE DEF c, n, m, kid
    <3>7. s.ht[c] + 1 = s.ht[b] BY <3>1
    <3>4. (s.ht[ROOT_ID] - s.ht[b]) + 1 = s.ht[ROOT_ID] - s.ht[c]
      <4> DEFINE x == s.ht[ROOT_ID]  y == s.ht[b]  z == s.ht[c]
      <4>1. x \in Nat /\ y \in Nat /\ z \in Nat /\ z + 1 = y BY <3>3, <3>7
      <4> HIDE DEF x, y, z
      <4>2. (x - y) + 1 = x - z BY <4>1
      <4> QED BY <4>2 DEF x, y, z
    <3>5. /\ s.lo[c] = IF i = 1 THEN s.lo[b] ELSE {n.keys[i - 1]}
          /\ s.hi[c] = IF i = Len(n.keys) + 1 THEN s.hi[b] ELSE {n.keys[i]}
      BY <3>1 DEF LowOf, HighOf, n
    <3>6. kid(i) = Visit(s, c) BY <3>4, <3>5 DEF Visit, c, kid, n
    <3> QED BY <3>1, <3>6 DEF c
  <2>3. ASSUME NEW c \in DOMAIN blocks, s.par[c] = b
        PROVE  \E i \in 1..m : n.child_ids[i] = c
    <3>1. b # NoBlock BY TreeNode DEF BlockId, NoBlock
    <3> QED BY <2>3, <3>1, TreeParent
  <2> HIDE DEF kid, n, m
  <2>4. ASSUME NEW v \in { kid(i) : i \in 1..m }
        PROVE  v \in { Visit(s, c) : c \in { x \in DOMAIN blocks : s.par[x] = b } }
    <3>1. PICK i \in 1..m : v = kid(i) OBVIOUS
    <3> QED BY <2>2, <3>1
  <2>5. ASSUME NEW c \in DOMAIN blocks, s.par[c] = b
        PROVE  Visit(s, c) \in { kid(i) : i \in 1..m }
    <3>1. PICK i \in 1..m : n.child_ids[i] = c BY <2>3, <2>5
    <3> QED BY <2>2, <3>1
  <2> QED BY <1>2, <2>1, <2>4, <2>5
<1> QED BY <1>1, <1>3, <1>4

(* One level after the other.                                              *)
LEMMA FirstDepth ==
  ASSUME NEW s, Tree(blocks, s, ROOT_ID)
  PROVE  AtDepth(s, 0) = { [ id |-> ROOT_ID, depth |-> 0, min |-> {}, max |-> {} ] }
<1>1. ROOT_ID \in DOMAIN blocks BY DEF Tree
<1>2. s.lo[ROOT_ID] = {} /\ s.hi[ROOT_ID] = {} /\ s.ht[ROOT_ID] \in Nat
  BY <1>1, TreeNode DEF HasParent
<1>3. s.ht[ROOT_ID] - s.ht[ROOT_ID] = 0 BY <1>2
<1>4. Visit(s, ROOT_ID) = [ id |-> ROOT_ID, depth |-> 0, min |-> {}, max |-> {} ]
  BY <1>2, <1>3 DEF Visit
<1>5. ASSUME NEW b \in DOMAIN blocks, s.ht[ROOT_ID] - s.ht[b] = 0 PROVE b = ROOT_ID
  <2>1. s.ht[b] \in Nat BY TreeNode
  <2>2. s.ht[b] = s.ht[ROOT_ID] BY <1>2, <1>5, <2>1
  <2> QED BY <1>2, <2>2, TreeParent
<1>6. { x \in DOMAIN blocks : s.ht[ROOT_ID] - s.ht[x] = 0 } = {ROOT_ID} BY <1>1, <1>3, <1>5
<1>7. AtDepth(s, 0) = { Visit(s, b) : b \in {ROOT_ID} } BY <1>6 DEF AtDepth
<1> QED BY <1>4, <1>7

LEMMA NextDepth ==
  ASSUME NEW s, Tree(blocks, s, ROOT_ID), NEW d \in Nat
  PROVE  AtDepth(s, d + 1)
           = UNION { Children(v) : v \in { x \in AtDepth(s, d) : x.id \in DOMAIN blocks } }
<1>1. ROOT_ID \in DOMAIN blocks BY DEF Tree
<1>2. \A b \in DOMAIN blocks : s.ht[b] \in Nat BY TreeNode
<1>3. s.ht[ROOT_ID] \in Nat BY <1>1, <1>2
<1>4. ASSUME NEW v \in AtDepth(s, d), NEW w \in Children(v) PROVE w \in AtDepth(s, d + 1)
  <2>1. PICK b \in DOMAIN blocks : s.ht[ROOT_ID] - s.ht[b] = d /\ v = Visit(s, b)
    BY DEF AtDepth
  <2>2. PICK c \in DOMAIN blocks : s.par[c] = b /\ w = Visit(s, c)
    <3>1. w \in { Visit(s, c) : c \in { x \in DOMAIN blocks : s.par[x] = b } }
      BY <1>4, <2>1, ChildrenVisited
    <3> QED BY <3>1
  <2>3. s.ht[c] + 1 = s.ht[b]
    <3>1. b # NoBlock BY TreeNode DEF BlockId, NoBlock
    <3> QED BY <2>2, <3>1, TreeParent
  <2>4. s.ht[ROOT_ID] - s.ht[c] = d + 1
    <3>1. s.ht[c] \in Nat /\ s.ht[b] \in Nat BY <1>2
    <3> QED BY <1>3, <2>1, <2>3, <3>1
  <2> QED BY <2>2, <2>4 DEF AtDepth
<1>5. ASSUME NEW w \in AtDepth(s, d + 1)
      PROVE  \E v \in AtDepth(s, d) : v.id \in DOMAIN blocks /\ w \in Children(v)
  <2>1. PICK c \in DOMAIN blocks : s.ht[ROOT_ID] - s.ht[c] = d + 1 /\ w = Visit(s, c)
    BY DEF AtDepth
  <2>2. s.ht[c] \in Nat BY <1>2
  <2>3. c # ROOT_ID BY <1>3, <2>1
  <2> DEFINE b == s.par[c]
  <2>4. b \in DOMAIN blocks /\ s.ht[c] + 1 = s.ht[b] BY <2>3, TreeParent
  <2>5. s.ht[b] \in Nat BY <1>2, <2>4
  <2>6. w \in Children(Visit(s, b))
    <3>1. w \in { Visit(s, x) : x \in { y \in DOMAIN blocks : s.par[y] = b } } BY <2>1
    <3> QED BY <2>4, <3>1, ChildrenVisited
  <2> HIDE DEF b
  <2>7. s.ht[ROOT_ID] - s.ht[b] = d BY <1>3, <2>1, <2>2, <2>4, <2>5
  <2>8. Visit(s, b) \in AtDepth(s, d) BY <2>4, <2>7 DEF AtDepth
  <2>9. Visit(s, b).id = b BY DEF Visit
  <2> QED BY <2>4, <2>6, <2>8, <2>9
<1> QED BY <1>4, <1>5

LEMMA Levels ==
  ASSUME NEW s, Tree(blocks, s, ROOT_ID)
  PROVE  \A d \in Nat : Level[d] = AtDepth(s, d)
<1> DEFINE At(F, d) ==
             IF d = 0 THEN { [ id |-> ROOT_ID, depth |-> 0, min |-> {}, max |-> {} ] }
             ELSE UNION { Children(v) : v \in { x \in F[d - 1] : x.id \in DOMAIN blocks } }
           W == [ d \in Nat |-> AtDepth(s, d) ]
<1>1. ASSUME NEW F, F = [ d \in Nat |-> At(F, d) ]
      PROVE  Level = [ d \in Nat |-> At(Level, d) ]
  BY <1>1, Zenon DEF Level
<1>2. W = [ d \in Nat |-> At(W, d) ]
  <2>1. ASSUME NEW d \in Nat PROVE AtDepth(s, d) = At(W, d)
    <3>1. CASE d = 0 BY <3>1, FirstDepth
    <3>2. CASE d # 0
      <4>1. d - 1 \in Nat /\ (d - 1) + 1 = d BY <3>2
      <4>2. W[d - 1] = AtDepth(s, d - 1) BY <4>1
      <4>3. AtDepth(s, (d - 1) + 1)
              = UNION { Children(v) : v \in { x \in AtDepth(s, d - 1) : x.id \in DOMAIN blocks } }
        BY <4>1, NextDepth
      <4> HIDE DEF W
      <4> QED BY <3>2, <4>1, <4>2, <4>3
    <3> QED BY <3>1, <3>2
  <2> HIDE DEF At
  <2> QED BY <2>1
<1>3. Level = [ d \in Nat |-> At(Level, d) ] BY <1>1, <1>2
<1> DEFINE S == { d \in Nat : Level[d] = AtDepth(s, d) }
<1>4. 0 \in S
  <2>1. Level[0] = At(Level, 0) BY <1>3
  <2> QED BY <2>1, FirstDepth
<1>5. ASSUME NEW d \in S PROVE d + 1 \in S
  <2>1. d \in Nat /\ d + 1 \in Nat /\ d + 1 # 0 /\ (d + 1) - 1 = d OBVIOUS
  <2>2. Level[d + 1] = At(Level, d + 1) BY <1>3, <2>1
  <2>3. Level[d] = AtDepth(s, d) OBVIOUS
  <2>4. At(Level, d + 1)
          = UNION { Children(v) : v \in { x \in AtDepth(s, d) : x.id \in DOMAIN blocks } }
    BY <2>1, <2>3
  <2>5. Level[d + 1] = AtDepth(s, d + 1) BY <2>1, <2>2, <2>4, NextDepth
  <2> QED BY <2>1, <2>5
<1> HIDE DEF S
<1>6. S \subseteq Nat BY DEF S
<1>7. S = Nat BY <1>4, <1>5, <1>6, CountUp
<1> QED BY <1>7 DEF S

(* Every block is visited, once.                                           *)
LEMMA AllVisited ==
  ASSUME NEW s, Tree(blocks, s, ROOT_ID), IsFiniteSet(DOMAIN blocks)
  PROVE  /\ Visited = { Visit(s, b) : b \in DOMAIN blocks }
         /\ Leaves = { Visit(s, b) : b \in { x \in DOMAIN blocks : IsLeaf(blocks[x]) } }
<1>1. Fuel \in Nat /\ s.ht[ROOT_ID] < Fuel BY RootLow
<1>2. ROOT_ID \in DOMAIN blocks BY DEF Tree
<1>3. \A b \in DOMAIN blocks : s.ht[b] \in Nat BY TreeNode
<1>4. ASSUME NEW b \in DOMAIN blocks PROVE s.ht[ROOT_ID] - s.ht[b] \in 0..Fuel
  <2>1. s.ht[b] \in Nat /\ s.ht[ROOT_ID] \in Nat BY <1>2, <1>3
  <2>2. s.ht[b] <= s.ht[ROOT_ID]
    <3>1. CASE b = ROOT_ID BY <2>1, <3>1
    <3>2. CASE b # ROOT_ID
      <4>1. s.ht[b] < s.ht[ROOT_ID] BY <3>2, TreeParent
      <4> QED BY <2>1, <4>1
    <3> QED BY <3>1, <3>2
  <2> QED BY <1>1, <2>1, <2>2
<1>5. Visited = UNION { AtDepth(s, d) : d \in 0..Fuel }
  <2>1. \A d \in 0..Fuel : Level[d] = AtDepth(s, d) BY <1>1, Levels
  <2> QED BY <2>1 DEF Visited
<1>6. Visited = { Visit(s, b) : b \in DOMAIN blocks } BY <1>4, <1>5 DEF AtDepth
<1>7. \A b : Visit(s, b).id = b BY DEF Visit
<1>8. Leaves = { Visit(s, b) : b \in { x \in DOMAIN blocks : IsLeaf(blocks[x]) } }
  BY <1>6, <1>7 DEF Leaves
<1> QED BY <1>6, <1>8

(* A block without its neighbours is as validate wants it.                 *)
LEMMA ValidBlock ==
  ASSUME NEW s, Tree(blocks, s, ROOT_ID), NEW b \in DOMAIN blocks
  PROVE  ValidNode(blocks[b]) /\ WithinBounds(Visit(s, b))
<1> DEFINE n == blocks[b]
<1>1. n \in WellShaped /\ Ordered(n.keys) /\ NodeOK(blocks, s, b) BY TreeNode
<1>2. DOMAIN n.keys = 1..Len(n.keys) /\ Len(n.keys) \in Nat
      /\ \A i \in 1..Len(n.keys) : n.keys[i] \in Int
      /\ (IsLeaf(n) \/ IsInternal(n))
  BY <1>1, NodeParts
<1>3. ValidNode(n)
  <2>1. ShapeOK(n) BY <1>1 DEF WellShaped
  <2>2. Sorted(n.keys)
    <3> SUFFICES ASSUME NEW i \in 2..Len(n.keys) PROVE n.keys[i - 1] < n.keys[i] BY DEF Sorted
    <3> HIDE DEF n
    <3>1. i - 1 \in 1..Len(n.keys) /\ i \in 1..Len(n.keys) /\ i - 1 < i BY <1>2
    <3> QED BY <1>1, <1>2, <3>1 DEF Ordered
  <2> QED BY <2>1, <2>2 DEF ValidNode
<1>4. ASSUME NEW i \in DOMAIN n.keys
      PROVE  (\A m \in s.lo[b] : m <= n.keys[i]) /\ (\A m \in s.hi[b] : n.keys[i] < m)
  <2>1. \A m \in s.hi[b] : n.keys[i] < m BY <1>1, <1>4 DEF NodeOK, Below
  <2>2. CASE IsLeaf(n) BY <1>1, <1>4, <2>1, <2>2 DEF NodeOK, LeafOK, AtLeast
  <2>3. CASE IsInternal(n)
    <3>1. \A m \in s.lo[b] : m < n.keys[i] BY <1>1, <1>4, <2>3 DEF NodeOK, InnerOK, Above
    <3>2. \A m \in s.lo[b] : m \in Int BY TreeNode
    <3>3. n.keys[i] \in Int BY <1>2, <1>4
    <3> HIDE DEF n
    <3>4. \A m \in s.lo[b] : m <= n.keys[i] BY <3>1, <3>2, <3>3
    <3> QED BY <2>1, <3>4
  <2> QED BY <1>2, <2>2, <2>3
<1>5. WithinBounds(Visit(s, b)) BY <1>4 DEF WithinBounds, Visit
<1> QED BY <1>3, <1>5

-----------------------------------------------------------------------------
(* What validate counts.                                                   *)

KeysIn(T) == UNION { ToSet(blocks[v.id].keys) : v \in T }

LEMMA KeyCount ==
  ASSUME NEW n \in WellShaped, Ordered(n.keys)
  PROVE  Cardinality(ToSet(n.keys)) = n.key_count
<1> DEFINE k == n.keys
           l == Len(k)
<1>1. l \in Nat /\ DOMAIN k = 1..l /\ n.key_count = l /\ \A i \in 1..l : k[i] \in Int
  BY NodeParts
<1>2. \A i, j \in 1..l : i < j => k[i] < k[j] BY <1>1 DEF Ordered
<1>3. k \in [ 1..l -> ToSet(k) ]
  <2>1. k \in Seq(Key) BY NodeParts
  <2> HIDE DEF l
  <2>2. k = [ i \in 1..l |-> k[i] ] BY <1>1, <2>1
  <2>3. \A i \in 1..l : k[i] \in ToSet(k) BY <1>1 DEF ToSet
  <2> QED BY <2>2, <2>3
<1>4. \A x \in ToSet(k) : \E i \in 1..l : k[i] = x BY <1>1 DEF ToSet
<1> HIDE DEF k, l
<1>5. \A i, j \in 1..l : k[i] = k[j] => i = j
  <2> TAKE i, j \in 1..l
  <2>1. i \in Int /\ j \in Int /\ k[i] \in Int /\ k[j] \in Int BY <1>1
  <2>2. (i < j => k[i] < k[j]) /\ (j < i => k[j] < k[i]) BY <1>2
  <2> QED BY <2>1, <2>2
<1>6. k \in Bijection(1..l, ToSet(k))
  BY <1>3, <1>4, <1>5 DEF Bijection, Injection, Surjection, IsInjective
<1>7. ExistsBijection(1..l, ToSet(k)) BY <1>6 DEF ExistsBijection
<1>8. Cardinality(ToSet(k)) = l BY <1>1, <1>7, FS_CountingElements
<1> QED BY <1>1, <1>8 DEF k

(* The sum of the key counts of nodes that have no key in common is the    *)
(* number of their keys.                                                   *)
LEMMA KeysSummed ==
  ASSUME NEW S, IsFiniteSet(S), IsFiniteSet(KeysIn(S)),
         \A v \in S : Cardinality(ToSet(blocks[v.id].keys)) = blocks[v.id].key_count,
         \A v, w \in S : v # w => ToSet(blocks[v.id].keys) \cap ToSet(blocks[w.id].keys) = {}
  PROVE  MapThenSumSet(LAMBDA v : blocks[v.id].key_count, S) = Cardinality(KeysIn(S))
<1> DEFINE k(v) == ToSet(blocks[v.id].keys)
           c(T) == Cardinality(KeysIn(T))
           Sum(h, T) == IF T = {} THEN 0
                        ELSE LET x == CHOOSE x \in T : TRUE
                             IN  blocks[x.id].key_count + h[T \ {x}]
           g == [ T \in SUBSET S |-> c(T) ]
<1>1. \A T \in SUBSET S : IsFiniteSet(T) /\ IsFiniteSet(KeysIn(T))
  <2> TAKE T \in SUBSET S
  <2>1. KeysIn(T) \in SUBSET KeysIn(S) BY DEF KeysIn
  <2> QED BY <2>1, FS_Subset
<1>2. KeysIn({}) = {} BY DEF KeysIn
<1>3. c({}) = 0 BY <1>2, FS_EmptySet
<1>4. ASSUME NEW T \in SUBSET S, NEW x \in T
      PROVE  c(T) = blocks[x.id].key_count + c(T \ {x})
  <2> DEFINE R == T \ {x}
  <2>1. KeysIn(T) = k(x) \cup KeysIn(R)
    <3>1. T = {x} \cup R OBVIOUS
    <3> HIDE DEF R
    <3> QED BY <3>1 DEF KeysIn
  <2>2. k(x) \cap KeysIn(R) = {}
    <3>1. ASSUME NEW y \in k(x) \cap KeysIn(R) PROVE FALSE
      <4>1. PICK v \in R : y \in k(v) BY DEF KeysIn
      <4> QED BY <4>1
    <3> QED BY <3>1
  <2>3. IsFiniteSet(k(x)) /\ IsFiniteSet(KeysIn(R))
    <3>1. k(x) \in SUBSET KeysIn(T) BY DEF KeysIn
    <3>2. R \in SUBSET S OBVIOUS
    <3>3. IsFiniteSet(KeysIn(T)) BY <1>1
    <3> HIDE DEF k, R
    <3> QED BY <1>1, <3>1, <3>2, <3>3, FS_Subset
  <2>4. Cardinality(k(x)) = blocks[x.id].key_count OBVIOUS
  <2> HIDE DEF k, R
  <2>5. Cardinality(k(x) \cup KeysIn(R))
          = Cardinality(k(x)) + Cardinality(KeysIn(R)) - Cardinality(k(x) \cap KeysIn(R))
    BY <2>3, FS_Union
  <2>6. Cardinality(k(x) \cap KeysIn(R)) = 0 BY <2>2, FS_EmptySet
  <2>7. Cardinality(k(x)) \in Nat /\ Cardinality(KeysIn(R)) \in Nat
    BY <2>3, FS_CardinalityType
  <2>8. Cardinality(k(x) \cup KeysIn(R)) = Cardinality(k(x)) + Cardinality(KeysIn(R))
    BY <2>5, <2>6, <2>7
  <2> QED BY <2>1, <2>4, <2>8 DEF R
<1> HIDE DEF c
<1>5. g = [ T \in SUBSET S |-> Sum(g, T) ]
  <2>1. ASSUME NEW T \in SUBSET S PROVE c(T) = Sum(g, T)
    <3>1. CASE T = {} BY <1>3, <3>1
    <3>2. CASE T # {}
      <4> DEFINE x == CHOOSE x \in T : TRUE
      <4>1. x \in T BY <3>2
      <4>2. T \ {x} \in SUBSET S OBVIOUS
      <4> HIDE DEF x
      <4>3. g[T \ {x}] = c(T \ {x}) BY <4>2
      <4>4. c(T) = blocks[x.id].key_count + c(T \ {x}) BY <1>4, <4>1
      <4> HIDE DEF g
      <4> QED BY <3>2, <4>3, <4>4 DEF x
    <3> QED BY <3>1, <3>2
  <2> HIDE DEF Sum
  <2> QED BY <2>1
<1> HIDE DEF g
<1>6. \E h : /\ h = [ T \in SUBSET S |-> Sum(h, T) ]
             /\ MapThenSumSet(LAMBDA v : blocks[v.id].key_count, S) = h[S]
  BY <1>5, Zenon DEF MapThenSumSet, MapThenFoldSet
<1>7. PICK h : /\ h = [ T \in SUBSET S |-> Sum(h, T) ]
               /\ MapThenSumSet(LAMBDA v : blocks[v.id].key_count, S) = h[S]
  BY <1>6
<1>8. \A T \in SUBSET S : h[T] = Sum(h, T)
  <2> HIDE DEF Sum
  <2> QED BY <1>7
<1> DEFINE N == { n \in Nat : \A T \in SUBSET S : Cardinality(T) = n => h[T] = c(T) }
<1>9. 0 \in N
  <2> SUFFICES ASSUME NEW T \in SUBSET S, Cardinality(T) = 0 PROVE h[T] = c(T) OBVIOUS
  <2>1. T = {} BY <1>1, FS_EmptySet
  <2> QED BY <1>3, <1>8, <2>1
<1>10. ASSUME NEW n \in N PROVE n + 1 \in N
  <2>1. n \in Nat /\ \A T \in SUBSET S : Cardinality(T) = n => h[T] = c(T) OBVIOUS
  <2> HIDE DEF N
  <2>2. ASSUME NEW T \in SUBSET S, Cardinality(T) = n + 1 PROVE h[T] = c(T)
    <3> DEFINE x == CHOOSE x \in T : TRUE
    <3>1. IsFiniteSet(T) BY <1>1
    <3>2. T # {}
      <4>1. Cardinality(T) # 0 BY <2>1, <2>2
      <4> QED BY <4>1, FS_EmptySet
    <3>3. x \in T BY <3>2
    <3> HIDE DEF x
    <3>4. Cardinality(T \ {x}) = n
      <4>1. Cardinality(T \ {x}) = Cardinality(T) - 1 BY <3>1, <3>3, FS_RemoveElement
      <4> QED BY <2>1, <2>2, <4>1
    <3>5. T \ {x} \in SUBSET S OBVIOUS
    <3>6. h[T \ {x}] = c(T \ {x}) BY <2>1, <3>4, <3>5
    <3>7. h[T] = blocks[x.id].key_count + h[T \ {x}] BY <1>8, <3>2 DEF x
    <3>8. c(T) = blocks[x.id].key_count + c(T \ {x}) BY <1>4, <3>3
    <3> QED BY <3>6, <3>7, <3>8
  <2> QED BY <2>1, <2>2 DEF N
<1> HIDE DEF N
<1>11. N \subseteq Nat BY DEF N
<1>12. N = Nat BY <1>9, <1>10, <1>11, CountUp
<1>13. Cardinality(S) \in Nat BY FS_CardinalityType
<1>14. h[S] = c(S) BY <1>12, <1>13 DEF N
<1> QED BY <1>7, <1>14 DEF c

(* The entries that validate counts are those of the map.                  *)
LEMMA CountedRight ==
  ASSUME NEW s, Tree(blocks, s, ROOT_ID), IsFiniteSet(DOMAIN blocks),
         NEW m, IsMap(m), Agrees(m, blocks, TRUE), IsFiniteSet(DOMAIN m)
  PROVE  CountedEntries = Cardinality(DOMAIN m) % CountWidth
<1>1. Leaves = { Visit(s, b) : b \in { x \in DOMAIN blocks : IsLeaf(blocks[x]) } }
  BY AllVisited
<1>2. \A b : Visit(s, b).id = b BY DEF Visit
<1> DEFINE L == { x \in DOMAIN blocks : IsLeaf(blocks[x]) }
<1>3. \A v \in Leaves : v.id \in L /\ v = Visit(s, v.id) BY <1>1, <1>2
<1>4. IsFiniteSet(Leaves)
  <2> DEFINE f == [ b \in L |-> Visit(s, b) ]
  <2>1. L \in SUBSET DOMAIN blocks OBVIOUS
  <2>2. IsFiniteSet(L) BY <2>1, FS_Subset
  <2>3. f \in Surjection(L, Leaves) BY <1>1 DEF Surjection
  <2> QED BY <2>2, <2>3, FS_Surjection
<1>5. \A v \in Leaves : /\ blocks[v.id] \in WellShaped /\ Ordered(blocks[v.id].keys)
                        /\ Cardinality(ToSet(blocks[v.id].keys)) = blocks[v.id].key_count
  <2> TAKE v \in Leaves
  <2>1. v.id \in DOMAIN blocks BY <1>3
  <2>2. blocks[v.id] \in WellShaped /\ Ordered(blocks[v.id].keys) BY <2>1, TreeNode
  <2> QED BY <2>2, KeyCount
<1>6. \A b \in L : \A k : k \in ToSet(blocks[b].keys) <=> k \in Key /\ \E x \in Val : Has(blocks[b], k, x)
  <2> TAKE b \in L
  <2> TAKE k
  <2> DEFINE n == blocks[b]
  <2>1. n \in WellShaped /\ IsLeaf(n) BY TreeNode
  <2>2. /\ n.values \in Seq(Val) /\ Len(n.values) = Len(n.keys)
        /\ DOMAIN n.keys = 1..Len(n.keys) /\ \A i \in 1..Len(n.keys) : n.keys[i] \in Key
    BY <2>1, NodeParts
  <2>3. \A i \in DOMAIN n.keys : n.values[i] \in Val BY <2>2
  <2> HIDE DEF n
  <2>4. k \in ToSet(n.keys) <=> k \in Key /\ \E x \in Val : Has(n, k, x)
    BY <2>2, <2>3 DEF ToSet, Has
  <2> QED BY <2>4 DEF n
<1>7. KeysIn(Leaves) = DOMAIN m
  <2>1. ASSUME NEW k \in KeysIn(Leaves) PROVE k \in DOMAIN m
    <3>1. PICK v \in Leaves : k \in ToSet(blocks[v.id].keys) BY DEF KeysIn
    <3>2. v.id \in L BY <1>3
    <3>3. PICK x \in Val : k \in Key /\ Has(blocks[v.id], k, x) BY <1>6, <3>1, <3>2
    <3>4. Stores(blocks, k, x) BY <3>2, <3>3 DEF Stores
    <3> QED BY <3>3, <3>4 DEF Agrees
  <2>2. ASSUME NEW k \in DOMAIN m PROVE k \in KeysIn(Leaves)
    <3>1. k \in Key /\ m[k] \in Val BY DEF IsMap
    <3>2. Stores(blocks, k, m[k]) BY <3>1 DEF Agrees
    <3>3. PICK b \in DOMAIN blocks : IsLeaf(blocks[b]) /\ Has(blocks[b], k, m[k])
      BY <3>2 DEF Stores
    <3>4. b \in L BY <3>3
    <3>5. k \in ToSet(blocks[b].keys) BY <1>6, <3>1, <3>3, <3>4
    <3>6. Visit(s, b) \in Leaves /\ Visit(s, b).id = b BY <1>1, <1>2, <3>4
    <3> QED BY <3>5, <3>6 DEF KeysIn
  <2> QED BY <2>1, <2>2
<1>8. ASSUME NEW v \in Leaves, NEW w \in Leaves, v # w
      PROVE  ToSet(blocks[v.id].keys) \cap ToSet(blocks[w.id].keys) = {}
  <2> SUFFICES ASSUME NEW k \in ToSet(blocks[v.id].keys), k \in ToSet(blocks[w.id].keys)
               PROVE  FALSE
    OBVIOUS
  <2>1. v.id \in L /\ w.id \in L /\ v.id # w.id BY <1>3, <1>8
  <2>2. PICK i \in DOMAIN blocks[v.id].keys : blocks[v.id].keys[i] = k BY DEF ToSet
  <2>3. AtLeast(s.lo[v.id], k) /\ Below(k, s.hi[v.id])
    <3>1. NodeOK(blocks, s, v.id) BY <2>1, TreeNode
    <3> QED BY <2>1, <2>2, <3>1 DEF NodeOK, LeafOK
  <2>4. PICK x \in Val : k \in Key /\ Has(blocks[w.id], k, x) BY <1>6, <2>1
  <2> QED BY <2>1, <2>3, <2>4, NoOtherLeaf
<1> HIDE DEF L
<1>9. MapThenSumSet(LAMBDA v : blocks[v.id].key_count, Leaves) = Cardinality(KeysIn(Leaves))
  BY <1>4, <1>5, <1>7, <1>8, KeysSummed
<1> QED BY <1>7, <1>9 DEF CountedEntries

(* After every call that has not failed the tree passes its validate().    *)
THEOREM QuietValidates == ASSUME FullFits PROVE HistorySpec => []ValidatesWhenQuiet
<1>1. ASSUME IInvCount PROVE ValidatesWhenQuiet
  <2> SUFFICES ASSUME Quiet, NoFaults PROVE Validates BY DEF ValidatesWhenQuiet
  <2> DEFINE m == Visible
  <2>1. /\ Good /\ IsMap(m) /\ Agrees(m, blocks, tree.root_exists)
        /\ IsFiniteSet(DOMAIN m) /\ tree.entry_count = Cardinality(DOMAIN m) % CountWidth
    BY <1>1, QuietCount DEF SizeIs
  <2> HIDE DEF m
  <2>2. CASE ~tree.root_exists
    <3>1. m = Nothing BY <2>1, <2>2 DEF Agrees
    <3>2. DOMAIN m = {} BY <3>1 DEF Nothing
    <3>3. Cardinality(DOMAIN m) = 0 BY <3>2, FS_EmptySet
    <3>4. 0 < CountWidth BY CountWidthAssumption
    <3>5. 0 % CountWidth = 0 BY <3>4, Unwrapped
    <3> QED BY <2>1, <2>2, <3>3, <3>5 DEF Validates
  <2>3. CASE tree.root_exists
    <3>1. IsFiniteSet(DOMAIN blocks) BY <2>1, FewBlocks
    <3>2. PICK s : Tree(blocks, s, ROOT_ID) BY <2>1, <2>3, AtQuiet DEF WholeTree
    <3>3. /\ Visited = { Visit(s, b) : b \in DOMAIN blocks }
          /\ Leaves = { Visit(s, b) : b \in { x \in DOMAIN blocks : IsLeaf(blocks[x]) } }
      BY <3>1, <3>2, AllVisited
    <3>4. ASSUME NEW v \in Visited
          PROVE  v.id \in DOMAIN blocks /\ ValidNode(blocks[v.id]) /\ WithinBounds(v)
      <4>1. PICK b \in DOMAIN blocks : v = Visit(s, b) BY <3>3
      <4>2. v.id = b BY <4>1 DEF Visit
      <4> QED BY <3>2, <4>1, <4>2, ValidBlock
    <3>5. ASSUME NEW v \in Leaves, NEW w \in Leaves PROVE v.depth = w.depth
      <4>1. \A b \in DOMAIN blocks : IsLeaf(blocks[b]) => s.ht[b] = 0 BY <3>2, TreeNode
      <4>2. \A u \in Leaves : u.depth = s.ht[ROOT_ID] - 0 BY <3>3, <4>1 DEF Visit
      <4> QED BY <4>2
    <3>6. tree.entry_count = CountedEntries
      <4>1. Agrees(m, blocks, TRUE) BY <2>1, <2>3
      <4> QED BY <2>1, <3>1, <3>2, <4>1, CountedRight
    <3> QED BY <2>3, <3>4, <3>5, <3>6 DEF Validates
  <2>4. tree.root_exists \in BOOLEAN BY <2>1, Running DEF Good, Metadata
  <2> QED BY <2>2, <2>3, <2>4
<1> QED BY <1>1, AlwaysCount, PTL
=============================================================================
