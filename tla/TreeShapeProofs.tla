---------------------------- MODULE TreeShapeProofs ----------------------------
(***************************************************************************)
(* How the operations of a node change a tree.  Whatever the tree does to  *)
(* its blocks is one of five changes: the keys of a leaf are replaced, a   *)
(* node is cut in two, two neighbours are joined, a root is put above the  *)
(* root, and a root with one child gives way to it.  A borrow is a join    *)
(* and a cut.  Each is shown to turn a tree into a tree.                   *)
(***************************************************************************)
EXTENDS TreeShape, UniversalNodeProofs

-----------------------------------------------------------------------------
(* Sequences, index by index.                                              *)

(* \o in one step of a proof.                                              *)
LEMMA ConcatJoined ==
  ASSUME NEW S, NEW l \in Seq(S), NEW r \in Seq(S)
  PROVE  Joined(l \o r, l, r)
<1>1. /\ Len(l) \in Nat /\ Len(r) \in Nat /\ Len(l \o r) = Len(l) + Len(r)
      /\ \A i \in 1 .. Len(l) + Len(r) : (l \o r)[i] =
                     IF i <= Len(l) THEN l[i] ELSE r[i - Len(l)]
  BY LenProperties, ConcatProperties
<1>2. ASSUME NEW i \in 1..Len(r) PROVE r[i] = (l \o r)[Len(l) + i]
  <2>1. /\ Len(l) + i \in 1..(Len(l) + Len(r)) /\ ~(Len(l) + i <= Len(l))
        /\ Len(l) + i - Len(l) = i
    BY <1>1
  <2> QED BY <1>1, <2>1
<1> QED BY <1>1, <1>2 DEF Joined

(* Vec::insert and the entries before and behind the new one.              *)
LEMMA InsertAtInserted ==
  ASSUME NEW S, NEW s \in Seq(S), NEW i \in 1..(Len(s) + 1), NEW e \in S
  PROVE  Inserted(InsertAt(s, i, e), s, i, e)
<1> DEFINE a == SubSeq(s, 1, i-1)
           b == SubSeq(s, i, Len(s))
           c == a \o <<e>>
<1>1. Len(s) \in Nat /\ \A j \in 1..Len(s) : s[j] \in S BY LenProperties, ElementOfSeq
<1>2. /\ a \in Seq(S) /\ Len(a) = i - 1 /\ \A j \in 1..(i-1) : a[j] = s[j]
      /\ b \in Seq(S) /\ Len(b) = Len(s) - i + 1
      /\ \A j \in 1..(Len(s) - i + 1) : b[j] = s[i + j - 1]
  BY <1>1, SubSeqProperties
<1> HIDE DEF a, b
<1>3. <<e>> \in Seq(S) /\ Len(<<e>>) = 1 /\ <<e>>[1] = e OBVIOUS
<1>4. /\ c \in Seq(S) /\ Len(c) = i /\ c[i] = e /\ \A j \in 1..(i-1) : c[j] = s[j]
  BY <1>2, <1>3, ConcatProperties
<1> HIDE DEF c
<1> DEFINE t == c \o b
<1>5. Joined(t, c, b) BY <1>2, <1>4, ConcatJoined
<1>6. InsertAt(s, i, e) = t BY DEF InsertAt, a, b, c, t
<1> HIDE DEF t
<1>7. /\ Len(t) = Len(s) + 1 /\ \A j \in 1..i : t[j] = c[j]
      /\ \A j \in 1..(Len(s) - i + 1) : t[i + j] = b[j]
  <2>1. Len(c) = i /\ Len(b) = Len(s) - i + 1 BY <1>2, <1>4
  <2>2. Len(t) = i + (Len(s) - i + 1) BY <2>1, <1>5 DEF Joined
  <2>3. \A j \in 1..i : t[j] = c[j] BY <2>1, <1>5 DEF Joined
  <2>4. \A j \in 1..(Len(s) - i + 1) : t[i + j] = b[j] BY <2>1, <1>5 DEF Joined
  <2> QED BY <2>2, <2>3, <2>4, <1>1
<1>8. ASSUME NEW j \in 1..Len(s) PROVE s[j] = IF j < i THEN t[j] ELSE t[j + 1]
  <2>1. CASE j < i BY <2>1, <1>1, <1>4, <1>7
  <2>2. CASE ~(j < i)
    <3>1. j + 1 - i \in 1..(Len(s) - i + 1) BY <2>2, <1>1
    <3>2. t[i + (j + 1 - i)] = s[i + (j + 1 - i) - 1] BY <3>1, <1>2, <1>7
    <3>3. i + (j + 1 - i) - 1 = j /\ i + (j + 1 - i) = j + 1 OBVIOUS
    <3> QED BY <3>2, <3>3, <2>2
  <2> QED BY <2>1, <2>2
<1>9. t[i] = e BY <1>4, <1>7
<1> QED BY <1>6, <1>7, <1>8, <1>9 DEF Inserted

(* Vec::remove, the other way round.                                       *)
LEMMA RemoveAtInserted ==
  ASSUME NEW S, NEW s \in Seq(S), NEW i \in 1..Len(s)
  PROVE  Inserted(s, RemoveAt(s, i), i, s[i])
<1> DEFINE a == SubSeq(s, 1, i-1)
           b == SubSeq(s, i+1, Len(s))
           t == a \o b
<1>1. Len(s) \in Nat /\ \A j \in 1..Len(s) : s[j] \in S BY LenProperties, ElementOfSeq
<1>2. /\ a \in Seq(S) /\ Len(a) = i - 1 /\ \A j \in 1..(i-1) : a[j] = s[j]
      /\ b \in Seq(S) /\ Len(b) = Len(s) - i
      /\ \A j \in 1..(Len(s) - i) : b[j] = s[i + 1 + j - 1]
  BY <1>1, SubSeqProperties
<1> HIDE DEF a, b
<1>3. Joined(t, a, b) BY <1>2, ConcatJoined
<1>4. RemoveAt(s, i) = t BY DEF RemoveAt, a, b, t
<1> HIDE DEF t
<1>5. /\ Len(s) = Len(t) + 1 /\ \A j \in 1..(i-1) : t[j] = a[j]
      /\ \A j \in 1..(Len(s) - i) : t[i - 1 + j] = b[j]
  BY <1>1, <1>2, <1>3 DEF Joined
<1>6. ASSUME NEW j \in 1..Len(t) PROVE t[j] = IF j < i THEN s[j] ELSE s[j + 1]
  <2>1. CASE j < i BY <2>1, <1>1, <1>2, <1>5
  <2>2. CASE ~(j < i)
    <3>1. j - (i - 1) \in 1..(Len(s) - i) BY <2>2, <1>1, <1>5
    <3>2. t[i - 1 + (j - (i - 1))] = s[i + 1 + (j - (i - 1)) - 1] BY <3>1, <1>2, <1>5
    <3>3. i + 1 + (j - (i - 1)) - 1 = j + 1 /\ i - 1 + (j - (i - 1)) = j BY <3>1
    <3> QED BY <3>2, <3>3, <2>2
  <2> QED BY <2>1, <2>2
<1> QED BY <1>4, <1>5, <1>6 DEF Inserted

(* Another value at the position of the new entry.                         *)
LEMMA ExceptInserted ==
  ASSUME NEW S, NEW t \in Seq(S), NEW s \in Seq(S), NEW i \in 1..Len(t), NEW e,
         Inserted(t, s, i, e), NEW f \in S
  PROVE  Inserted([ t EXCEPT ![i] = f ], s, i, f)
<1> DEFINE u == [ t EXCEPT ![i] = f ]
<1>1. Len(u) = Len(t) /\ \A j \in 1..Len(t) : u[j] = IF j = i THEN f ELSE t[j]
  BY ExceptSeq
<1> HIDE DEF u
<1>2. Len(s) \in Nat /\ Len(t) = Len(s) + 1 BY LenProperties DEF Inserted
<1>3. ASSUME NEW j \in 1..Len(s) PROVE s[j] = IF j < i THEN u[j] ELSE u[j + 1]
  <2>1. j \in 1..Len(t) /\ j + 1 \in 1..Len(t) /\ s[j] = IF j < i THEN t[j] ELSE t[j + 1]
    BY <1>2 DEF Inserted
  <2> QED BY <1>1, <2>1
<1>4. Inserted(u, s, i, f) BY <1>1, <1>2, <1>3 DEF Inserted
<1> QED BY <1>4 DEF u

(* Two sequences with a key between them.                                  *)
LEMMA ConcatJoinedAt ==
  ASSUME NEW S, NEW l \in Seq(S), NEW r \in Seq(S), NEW k \in S
  PROVE  JoinedAt(Append(l, k) \o r, l, r, k)
<1> DEFINE a == Append(l, k)
<1>1. /\ Len(l) \in Nat /\ Len(r) \in Nat
      /\ a \in Seq(S) /\ Len(a) = Len(l) + 1 /\ a[Len(l) + 1] = k
      /\ \A i \in 1..Len(l) : a[i] = l[i]
  BY LenProperties, AppendProperties
<1> HIDE DEF a
<1>2. Joined(a \o r, a, r) BY <1>1, ConcatJoined
<1>3. \A i \in 1..Len(l) : i \in 1..Len(a) BY <1>1
<1>4. Len(l) + 1 \in 1..Len(a) BY <1>1
<1>5. JoinedAt(a \o r, l, r, k) BY <1>1, <1>2, <1>3, <1>4 DEF Joined, JoinedAt
<1> QED BY <1>5 DEF a

(* Vec::split_off.                                                         *)
LEMMA CutJoined ==
  ASSUME NEW S, NEW s \in Seq(S), NEW m \in 0..Len(s)
  PROVE  Joined(s, Prefix(s, m), Suffix(s, m))
<1>1. Len(s) \in Nat /\ \A j \in 1..Len(s) : s[j] \in S BY LenProperties, ElementOfSeq
<1> DEFINE a == SubSeq(s, 1, m)
           b == SubSeq(s, m + 1, Len(s))
<1>2. /\ Len(a) = m /\ \A j \in 1..m : a[j] = s[j]
      /\ Len(b) = Len(s) - m /\ \A j \in 1..(Len(s) - m) : b[j] = s[m + 1 + j - 1]
  BY <1>1, SubSeqProperties
<1> HIDE DEF a, b
<1>3. \A j \in 1..(Len(s) - m) : b[j] = s[m + j]
  <2> TAKE j \in 1..(Len(s) - m)
  <2>1. m + 1 + j - 1 = m + j OBVIOUS
  <2> QED BY <1>2, <2>1
<1>4. Joined(s, a, b) BY <1>1, <1>2, <1>3 DEF Joined
<1> QED BY <1>4 DEF Prefix, Suffix, a, b

(* split_off, and the key in the middle taken out.                         *)
LEMMA CutJoinedAt ==
  ASSUME NEW S, NEW s \in Seq(S), NEW m \in 0..(Len(s) - 1)
  PROVE  JoinedAt(s, Prefix(s, m), Suffix(s, m + 1), s[m + 1])
<1>1. Len(s) \in Nat BY LenProperties
<1> DEFINE h == m + 1
<1>2. m \in 0..Len(s) /\ h \in 0..Len(s) BY <1>1
<1>3. Joined(s, Prefix(s, m), Suffix(s, m)) BY <1>2, CutJoined
<1>4. Joined(s, Prefix(s, h), Suffix(s, h)) BY <1>2, CutJoined
<1>5. Len(Prefix(s, m)) = m /\ Len(Prefix(s, h)) = h /\ Len(Suffix(s, h)) = Len(s) - h
  BY <1>2, PrefixType, SuffixType
<1> QED BY <1>1, <1>3, <1>4, <1>5 DEF Joined, JoinedAt

(* The ends of a sequence that is not empty, index by index.               *)
LEMMA EndsParts ==
  ASSUME NEW S, NEW s \in Seq(S), Len(s) # 0
  PROVE  /\ Len(s) - 1 \in Nat
         /\ Front(s) \in Seq(S) /\ Len(Front(s)) = Len(s) - 1
         /\ \A i \in 1..(Len(s) - 1) : Front(s)[i] = s[i]
         /\ Last(s) \in S /\ Last(s) = s[Len(s)]
         /\ Tail(s) \in Seq(S) /\ Len(Tail(s)) = Len(s) - 1
         /\ \A i \in 1..(Len(s) - 1) : Tail(s)[i] = s[i + 1]
         /\ Head(s) \in S /\ Head(s) = s[1]
<1>1. Len(s) \in Nat /\ Len(s) >= 1 /\ s # <<>> /\ \A i \in 1..Len(s) : s[i] \in S
  BY LenProperties, ElementOfSeq, EmptySeq
<1>2. \A i \in 1..(Len(s) - 1) : SubSeq(s, 1, Len(s) - 1)[i] = s[i]
  <2>1. \A i \in 1..(Len(s) - 1) : s[i] \in S BY <1>1
  <2> DEFINE m == Len(s) - 1
  <2>2. m \in Int BY <1>1
  <2>3. \A i \in 1..(m - 1 + 1) : SubSeq(s, 1, m)[i] = s[1 + i - 1]
    BY <2>1, <2>2, SubSeqProperties
  <2>4. m - 1 + 1 = m BY <2>2
  <2> HIDE DEF m
  <2>5. \A i \in 1..m : SubSeq(s, 1, m)[i] = s[i]
    <3> TAKE i \in 1..m
    <3>1. 1 + i - 1 = i OBVIOUS
    <3> QED BY <2>3, <2>4, <3>1
  <2> QED BY <2>5 DEF m
<1>3. Head(s) = s[1] OBVIOUS
<1> QED BY <1>1, <1>2, <1>3, EndsType, HeadTailProperties DEF Front, Last

(* A sequence with one element put in front, index by index.               *)
LEMMA ConsParts ==
  ASSUME NEW S, NEW s \in Seq(S), NEW e \in S
  PROVE  /\ <<e>> \o s \in Seq(S) /\ Len(<<e>> \o s) = Len(s) + 1
         /\ (<<e>> \o s)[1] = e /\ \A i \in 1..Len(s) : (<<e>> \o s)[i + 1] = s[i]
<1>1. <<e>> \in Seq(S) /\ Len(<<e>>) = 1 /\ <<e>>[1] = e /\ Len(s) \in Nat
  BY LenProperties
<1>2. Joined(<<e>> \o s, <<e>>, s) BY <1>1, ConcatJoined
<1>3. \A i \in 1..Len(s) : 1 + i = i + 1 OBVIOUS
<1> QED BY <1>1, <1>2, <1>3, ConsType DEF Joined

(* An element goes from the end of the left part to the right part.        *)
LEMMA JoinedFromLeft ==
  ASSUME NEW S, NEW n, NEW l \in Seq(S), NEW r \in Seq(S), Joined(n, l, r), Len(l) # 0
  PROVE  Joined(n, Front(l), <<Last(l)>> \o r)
<1> DEFINE f == Front(l)
           c == <<Last(l)>> \o r
<1>1. /\ Len(l) \in Nat /\ Len(l) >= 1 /\ Len(r) \in Nat
      /\ Len(f) = Len(l) - 1 /\ \A i \in 1..(Len(l) - 1) : f[i] = l[i]
      /\ Last(l) \in S /\ Last(l) = l[Len(l)]
  BY LenProperties, EndsParts
<1>2. /\ Len(c) = Len(r) + 1 /\ c[1] = l[Len(l)] /\ \A i \in 1..Len(r) : c[i + 1] = r[i]
  BY <1>1, ConsParts
<1> HIDE DEF f, c
<1>3. Len(n) = Len(f) + Len(c) BY <1>1, <1>2 DEF Joined
<1>4. \A i \in 1..Len(f) : f[i] = n[i]
  <2> TAKE i \in 1..Len(f)
  <2>1. i \in 1..(Len(l) - 1) /\ i \in 1..Len(l) BY <1>1
  <2> QED BY <1>1, <2>1 DEF Joined
<1>5. ASSUME NEW i \in 1..Len(c) PROVE c[i] = n[Len(f) + i]
  <2>1. CASE i = 1
    <3>1. Len(f) + i = Len(l) /\ Len(l) \in 1..Len(l) BY <2>1, <1>1
    <3> QED BY <2>1, <3>1, <1>2 DEF Joined
  <2>2. CASE i # 1
    <3>1. i - 1 \in 1..Len(r) /\ (i - 1) + 1 = i /\ Len(l) + (i - 1) = Len(f) + i
      BY <2>2, <1>1, <1>2
    <3>2. c[(i - 1) + 1] = r[i - 1] BY <3>1, <1>2
    <3>3. r[i - 1] = n[Len(l) + (i - 1)] BY <3>1 DEF Joined
    <3> QED BY <3>1, <3>2, <3>3
  <2> QED BY <2>1, <2>2
<1>6. Joined(n, f, c) BY <1>3, <1>4, <1>5 DEF Joined
<1> QED BY <1>6 DEF f, c

(* An element goes from the beginning of the right part to the left part.  *)
LEMMA JoinedFromRight ==
  ASSUME NEW S, NEW n, NEW l \in Seq(S), NEW r \in Seq(S), Joined(n, l, r), Len(r) # 0
  PROVE  Joined(n, Append(l, Head(r)), Tail(r))
<1> DEFINE a == Append(l, Head(r))
           t == Tail(r)
<1>1. /\ Len(l) \in Nat /\ Len(r) \in Nat /\ Len(r) >= 1
      /\ Len(t) = Len(r) - 1 /\ \A i \in 1..(Len(r) - 1) : t[i] = r[i + 1]
      /\ Head(r) \in S /\ Head(r) = r[1]
  BY LenProperties, EndsParts
<1>2. Len(a) = Len(l) + 1 /\ a[Len(l) + 1] = r[1] /\ \A i \in 1..Len(l) : a[i] = l[i]
  BY <1>1, AppendProperties
<1> HIDE DEF a, t
<1>3. Len(n) = Len(a) + Len(t) BY <1>1, <1>2 DEF Joined
<1>4. ASSUME NEW i \in 1..Len(a) PROVE a[i] = n[i]
  <2>1. CASE i = Len(l) + 1
    <3>1. 1 \in 1..Len(r) BY <1>1
    <3>2. r[1] = n[Len(l) + 1] BY <3>1 DEF Joined
    <3> QED BY <2>1, <3>2, <1>2
  <2>2. CASE i # Len(l) + 1
    <3>1. i \in 1..Len(l) BY <2>2, <1>1, <1>2
    <3> QED BY <3>1, <1>2 DEF Joined
  <2> QED BY <2>1, <2>2
<1>5. ASSUME NEW i \in 1..Len(t) PROVE t[i] = n[Len(a) + i]
  <2>1. /\ i \in 1..(Len(r) - 1) /\ i + 1 \in 1..Len(r)
        /\ Len(l) + (i + 1) = Len(a) + i
    BY <1>1, <1>2
  <2>2. r[i + 1] = n[Len(l) + (i + 1)] BY <2>1 DEF Joined
  <2> QED BY <2>1, <2>2, <1>1
<1>6. Joined(n, a, t) BY <1>3, <1>4, <1>5 DEF Joined
<1> QED BY <1>6 DEF a, t

(* The key between the parts goes right, the last of the left part takes   *)
(* its place.                                                              *)
LEMMA JoinedAtFromLeft ==
  ASSUME NEW S, NEW n, NEW l \in Seq(S), NEW r \in Seq(S), NEW k \in S,
         JoinedAt(n, l, r, k), Len(l) # 0
  PROVE  JoinedAt(n, Front(l), <<k>> \o r, Last(l))
<1> DEFINE f == Front(l)
           c == <<k>> \o r
<1>1. /\ Len(l) \in Nat /\ Len(l) >= 1 /\ Len(r) \in Nat
      /\ Len(f) = Len(l) - 1 /\ \A i \in 1..(Len(l) - 1) : f[i] = l[i]
      /\ Last(l) = l[Len(l)]
  BY LenProperties, EndsParts
<1>2. /\ Len(c) = Len(r) + 1 /\ c[1] = k /\ \A i \in 1..Len(r) : c[i + 1] = r[i]
  BY ConsParts
<1> HIDE DEF f, c
<1>3. Len(n) = Len(f) + 1 + Len(c) BY <1>1, <1>2 DEF JoinedAt
<1>4. \A i \in 1..Len(f) : f[i] = n[i]
  <2> TAKE i \in 1..Len(f)
  <2>1. i \in 1..(Len(l) - 1) /\ i \in 1..Len(l) BY <1>1
  <2> QED BY <1>1, <2>1 DEF JoinedAt
<1>5. n[Len(f) + 1] = Last(l)
  <2>1. Len(f) + 1 = Len(l) /\ Len(l) \in 1..Len(l) BY <1>1
  <2> QED BY <2>1, <1>1 DEF JoinedAt
<1>6. ASSUME NEW i \in 1..Len(c) PROVE c[i] = n[Len(f) + 1 + i]
  <2>1. CASE i = 1
    <3>1. Len(f) + 1 + i = Len(l) + 1 BY <2>1, <1>1
    <3> QED BY <2>1, <3>1, <1>2 DEF JoinedAt
  <2>2. CASE i # 1
    <3>1. i - 1 \in 1..Len(r) /\ (i - 1) + 1 = i /\ Len(l) + 1 + (i - 1) = Len(f) + 1 + i
      BY <2>2, <1>1, <1>2
    <3>2. c[(i - 1) + 1] = r[i - 1] BY <3>1, <1>2
    <3>3. r[i - 1] = n[Len(l) + 1 + (i - 1)] BY <3>1 DEF JoinedAt
    <3> QED BY <3>1, <3>2, <3>3
  <2> QED BY <2>1, <2>2
<1>7. JoinedAt(n, f, c, Last(l)) BY <1>3, <1>4, <1>5, <1>6 DEF JoinedAt
<1> QED BY <1>7 DEF f, c

(* The key between the parts goes left, the first of the right part takes  *)
(* its place.                                                              *)
LEMMA JoinedAtFromRight ==
  ASSUME NEW S, NEW n, NEW l \in Seq(S), NEW r \in Seq(S), NEW k \in S,
         JoinedAt(n, l, r, k), Len(r) # 0
  PROVE  JoinedAt(n, Append(l, k), Tail(r), Head(r))
<1> DEFINE a == Append(l, k)
           t == Tail(r)
<1>1. /\ Len(l) \in Nat /\ Len(r) \in Nat /\ Len(r) >= 1
      /\ Len(t) = Len(r) - 1 /\ \A i \in 1..(Len(r) - 1) : t[i] = r[i + 1]
      /\ Head(r) = r[1]
  BY LenProperties, EndsParts
<1>2. Len(a) = Len(l) + 1 /\ a[Len(l) + 1] = k /\ \A i \in 1..Len(l) : a[i] = l[i]
  BY AppendProperties
<1> HIDE DEF a, t
<1>3. Len(n) = Len(a) + 1 + Len(t) BY <1>1, <1>2 DEF JoinedAt
<1>4. ASSUME NEW i \in 1..Len(a) PROVE a[i] = n[i]
  <2>1. CASE i = Len(l) + 1 BY <2>1, <1>2 DEF JoinedAt
  <2>2. CASE i # Len(l) + 1
    <3>1. i \in 1..Len(l) BY <2>2, <1>1, <1>2
    <3> QED BY <3>1, <1>2 DEF JoinedAt
  <2> QED BY <2>1, <2>2
<1>5. n[Len(a) + 1] = Head(r)
  <2>1. 1 \in 1..Len(r) BY <1>1
  <2>2. r[1] = n[Len(l) + 1 + 1] BY <2>1 DEF JoinedAt
  <2> QED BY <2>2, <1>1, <1>2
<1>6. ASSUME NEW i \in 1..Len(t) PROVE t[i] = n[Len(a) + 1 + i]
  <2>1. /\ i \in 1..(Len(r) - 1) /\ i + 1 \in 1..Len(r)
        /\ Len(l) + 1 + (i + 1) = Len(a) + 1 + i
    BY <1>1, <1>2
  <2>2. r[i + 1] = n[Len(l) + 1 + (i + 1)] BY <2>1 DEF JoinedAt
  <2> QED BY <2>1, <2>2, <1>1
<1>7. JoinedAt(n, a, t, Head(r)) BY <1>3, <1>4, <1>5, <1>6 DEF JoinedAt
<1> QED BY <1>7 DEF a, t

-----------------------------------------------------------------------------
(* Searching a node.                                                       *)

(* So many are the first ones of a sequence, if with every one all before  *)
(* it are counted.                                                         *)
LEMMA FirstOnes ==
  ASSUME NEW x \in Nat, NEW T \in SUBSET (1..x), \A i, j \in 1..x : j \in T /\ i < j => i \in T
  PROVE  /\ Cardinality(T) \in 0..x
         /\ \A i \in 1..x : i <= Cardinality(T) <=> i \in T
<1>1. Cardinality(T) \in 0..x BY CountInside
<1>2. IsFiniteSet(T)
  <2>1. IsFiniteSet(1..x) BY FS_Interval
  <2> QED BY <2>1, FS_Subset
<1>3. ASSUME NEW i \in 1..x, i \in T PROVE i <= Cardinality(T)
  <2>1. 1..i \subseteq T BY <1>3
  <2>2. Cardinality(1..i) = i BY FS_Interval
  <2> QED BY <1>2, <2>1, <2>2, FS_Subset
<1>4. ASSUME NEW i \in 1..x, i \notin T PROVE ~(i <= Cardinality(T))
  <2> DEFINE m == i - 1
  <2>1. \A j \in T : j < i BY <1>4
  <2>2. m \in Nat /\ 1 \in Int OBVIOUS
  <2>3. T \subseteq 1..m BY <2>1, <2>2
  <2>4. IsFiniteSet(1..m) /\ Cardinality(1..m) = m BY <2>2, FS_Interval
  <2>5. Cardinality(T) <= m BY <2>3, <2>4, FS_Subset, ZenonT(40)
  <2> QED BY <1>1, <2>5
<1> QED BY <1>1, <1>3, <1>4

(* find_key_index counts exactly the keys that are smaller or, in an inner *)
(* node, equal: with ordered keys they are the first ones.                 *)
LEMMA KeyPosition ==
  ASSUME NEW n \in WellShaped, Ordered(n.keys), NEW k \in Key
  PROVE  \A i \in 1..Len(n.keys) :
           i <= FindKeyIndex(n, k) <=> n.keys[i] < k \/ (IsInternal(n) /\ n.keys[i] = k)
<1> DEFINE T == { i \in DOMAIN n.keys : n.keys[i] < k \/ (IsInternal(n) /\ n.keys[i] = k) }
<1>1. /\ Len(n.keys) \in Nat /\ DOMAIN n.keys = 1..Len(n.keys) /\ k \in Int
      /\ \A i \in 1..Len(n.keys) : n.keys[i] \in Int
  <2>1. n.keys \in Seq(Key) BY DEF WellShaped, Node
  <2> QED BY <2>1, Lengths, ElementOfSeq, KeyAssumption
<1>2. T \in SUBSET (1..Len(n.keys)) BY <1>1
<1>3. \A i, j \in 1..Len(n.keys) : j \in T /\ i < j => i \in T
  BY <1>1 DEF Ordered
<1>4. FindKeyIndex(n, k) = Cardinality(T) BY DEF FindKeyIndex
<1>5. \A i \in 1..Len(n.keys) : i \in T <=> n.keys[i] < k \/ (IsInternal(n) /\ n.keys[i] = k)
  BY <1>1
<1> HIDE DEF T
<1>6. \A i \in 1..Len(n.keys) : i <= Cardinality(T) <=> i \in T BY <1>1, <1>2, <1>3, FirstOnes
<1> QED BY <1>4, <1>5, <1>6

(* The parts of a node, of either kind.                                    *)
LEMMA NodeParts ==
  ASSUME NEW n \in WellShaped
  PROVE  /\ n \in Node /\ n.keys \in Seq(Key) /\ n.values \in Seq(Val)
         /\ n.child_ids \in Seq(Allotted) /\ n.next_leaf \in OptionBlockId
         /\ Len(n.keys) \in Nat /\ DOMAIN n.keys = 1..Len(n.keys) /\ n.key_count = Len(n.keys)
         /\ \A i \in 1..Len(n.keys) : n.keys[i] \in Key /\ n.keys[i] \in Int
         /\ IsLeaf(n) \/ IsInternal(n)
         /\ ~(IsLeaf(n) /\ IsInternal(n))
         /\ IsLeaf(n) => Len(n.values) = Len(n.keys) /\ n.child_ids = <<>>
         /\ IsInternal(n) =>
              /\ Len(n.child_ids) = Len(n.keys) + 1 /\ n.values = <<>> /\ n.next_leaf = NoBlock
              /\ DOMAIN n.child_ids = 1..(Len(n.keys) + 1)
              /\ \A i \in 1..(Len(n.keys) + 1) : n.child_ids[i] \in Allotted
<1>1. n \in Node /\ n.keys \in Seq(Key) /\ n.values \in Seq(Val)
      /\ n.child_ids \in Seq(Allotted) /\ n.next_leaf \in OptionBlockId
  BY DEF WellShaped, Node
<1>2. \A i \in 1..Len(n.keys) : n.keys[i] \in Key BY <1>1, ElementOfSeq
<1>3. \A i \in 1..Len(n.child_ids) : n.child_ids[i] \in Allotted BY <1>1, ElementOfSeq
<1> QED BY <1>1, <1>2, <1>3, Lengths, KeyAssumption, InternalParts

-----------------------------------------------------------------------------
(* Ordered keys stay ordered.                                              *)

(* A key put in where it belongs.                                          *)
LEMMA InsertedOrdered ==
  ASSUME NEW s \in Seq(Key), NEW t \in Seq(Key), NEW i \in 1..(Len(s) + 1), NEW e \in Key,
         Inserted(t, s, i, e), Ordered(s),
         \A j \in 1..Len(s) : IF j < i THEN s[j] < e ELSE e < s[j]
  PROVE  /\ Ordered(t)
         /\ \A j \in 1..Len(t) : t[j] = e \/ \E m \in 1..Len(s) : t[j] = s[m]
<1>1. /\ Len(s) \in Nat /\ DOMAIN s = 1..Len(s) /\ DOMAIN t = 1..Len(t)
      /\ \A j \in 1..Len(s) : s[j] \in Int
      /\ Len(t) = Len(s) + 1 /\ e \in Int
  BY LenProperties, ElementOfSeq, KeyAssumption DEF Inserted
<1>2. ASSUME NEW j \in 1..Len(t)
      PROVE  t[j] = IF j < i THEN s[j] ELSE IF j = i THEN e ELSE s[j - 1]
  <2>1. CASE j < i
    <3>1. j \in 1..Len(s) BY <2>1, <1>1
    <3> QED BY <2>1, <3>1 DEF Inserted
  <2>2. CASE j = i BY <2>2 DEF Inserted
  <2>3. CASE i < j
    <3>1. j - 1 \in 1..Len(s) /\ ~(j - 1 < i) /\ (j - 1) + 1 = j BY <2>3, <1>1
    <3>2. s[j - 1] = t[(j - 1) + 1] BY <3>1 DEF Inserted
    <3> QED BY <2>3, <3>1, <3>2
  <2> QED BY <2>1, <2>2, <2>3
<1>3. ASSUME NEW j \in 1..Len(t), NEW m \in 1..Len(t), j < m PROVE t[j] < t[m]
  <2>1. CASE m < i
    <3>1. j \in 1..Len(s) /\ m \in 1..Len(s) /\ t[j] = s[j] /\ t[m] = s[m]
      BY <2>1, <1>1, <1>2, <1>3
    <3> QED BY <3>1, <1>1, <1>3 DEF Ordered
  <2>2. CASE m = i
    <3>1. j \in 1..Len(s) /\ t[j] = s[j] /\ t[m] = e BY <2>2, <1>1, <1>2, <1>3
    <3> QED BY <2>2, <3>1, <1>3
  <2>3. CASE i < m
    <3>1. m - 1 \in 1..Len(s) /\ ~(m - 1 < i) /\ t[m] = s[m - 1] BY <2>3, <1>1, <1>2
    <3>2. e < s[m - 1] BY <3>1
    <3>3. CASE j = i BY <3>1, <3>2, <3>3, <1>2
    <3>4. CASE j < i
      <4>1. j \in 1..Len(s) /\ t[j] = s[j] /\ s[j] < e BY <3>4, <1>1, <1>2
      <4>2. s[j] \in Int /\ s[m - 1] \in Int /\ e \in Int BY <3>1, <4>1, <1>1
      <4>3. \A a, b, c \in Int : a < b /\ b < c => a < c OBVIOUS
      <4>4. s[j] < s[m - 1] BY <3>2, <4>1, <4>2, <4>3
      <4> QED BY <3>1, <4>1, <4>4
    <3>5. CASE i < j
      <4>1. j - 1 \in 1..Len(s) /\ t[j] = s[j - 1] /\ j - 1 < m - 1 BY <3>5, <1>1, <1>2, <1>3
      <4> QED BY <3>1, <4>1, <1>1 DEF Ordered
    <3> QED BY <3>3, <3>4, <3>5
  <2> QED BY <2>1, <2>2, <2>3, <1>1
<1>4. ASSUME NEW j \in 1..Len(t) PROVE t[j] = e \/ \E m \in 1..Len(s) : t[j] = s[m]
  <2>1. CASE j < i BY <2>1, <1>1, <1>2
  <2>2. CASE j = i BY <2>2, <1>2
  <2>3. CASE i < j
    <3>1. j - 1 \in 1..Len(s) BY <2>3, <1>1
    <3> QED BY <2>3, <3>1, <1>2
  <2> QED BY <2>1, <2>2, <2>3
<1> QED BY <1>1, <1>3, <1>4 DEF Ordered

(* A key taken out.                                                        *)
LEMMA RemovedOrdered ==
  ASSUME NEW s \in Seq(Key), NEW t \in Seq(Key), NEW i, NEW e,
         i \in 1..Len(t), Inserted(t, s, i, e), Ordered(t)
  PROVE  /\ Ordered(s)
         /\ \A j \in 1..Len(s) : \E m \in 1..Len(t) : s[j] = t[m]
<1>1. /\ Len(s) \in Nat /\ DOMAIN s = 1..Len(s) /\ DOMAIN t = 1..Len(t)
      /\ Len(t) = Len(s) + 1
  BY LenProperties DEF Inserted
<1>2. ASSUME NEW j \in 1..Len(s)
      PROVE  \E m \in 1..Len(t) : s[j] = t[m] /\ m = IF j < i THEN j ELSE j + 1
  <2>1. j \in 1..Len(t) /\ j + 1 \in 1..Len(t) BY <1>1
  <2> QED BY <2>1 DEF Inserted
<1>3. ASSUME NEW j \in 1..Len(s), NEW m \in 1..Len(s), j < m PROVE s[j] < s[m]
  <2>1. PICK a \in 1..Len(t) : s[j] = t[a] /\ a = IF j < i THEN j ELSE j + 1 BY <1>2
  <2>2. PICK b \in 1..Len(t) : s[m] = t[b] /\ b = IF m < i THEN m ELSE m + 1 BY <1>2
  <2>3. a < b BY <1>3, <2>1, <2>2
  <2> QED BY <2>1, <2>2, <2>3, <1>1 DEF Ordered
<1> QED BY <1>1, <1>2, <1>3 DEF Ordered

(* Both parts of an ordered sequence.                                      *)
LEMMA JoinedOrdered ==
  ASSUME NEW n \in Seq(Key), NEW l \in Seq(Key), NEW r \in Seq(Key), Joined(n, l, r), Ordered(n)
  PROVE  /\ Ordered(l) /\ Ordered(r)
         /\ r # <<>> => /\ \A i \in 1..Len(l) : l[i] < r[1]
                        /\ \A i \in 1..Len(r) : r[1] <= r[i]
<1>1. /\ Len(l) \in Nat /\ DOMAIN l = 1..Len(l) /\ Len(r) \in Nat /\ DOMAIN r = 1..Len(r)
      /\ DOMAIN n = 1..Len(n) /\ Len(n) = Len(l) + Len(r)
      /\ \A i \in 1..Len(r) : r[i] \in Int
      /\ r # <<>> => Len(r) >= 1
  <2>1. r # <<>> => Len(r) >= 1 BY EmptySeq
  <2> QED BY <2>1, LenProperties, ElementOfSeq, KeyAssumption DEF Joined
<1>2. \A i \in 1..Len(l) : i \in 1..Len(n) /\ l[i] = n[i] BY <1>1, SMTT(20) DEF Joined
<1>3. \A i \in 1..Len(r) : Len(l) + i \in 1..Len(n) /\ r[i] = n[Len(l) + i] BY <1>1 DEF Joined
<1>4. \A i, j \in 1..Len(l) : i < j => l[i] < l[j] BY <1>1, <1>2 DEF Ordered
<1>5. ASSUME NEW i \in 1..Len(r), NEW j \in 1..Len(r), i < j PROVE r[i] < r[j]
  <2>1. Len(l) + i < Len(l) + j BY <1>1, <1>5
  <2> QED BY <2>1, <1>1, <1>3 DEF Ordered
<1>6. ASSUME r # <<>> PROVE \A i \in 1..Len(r) : r[1] <= r[i]
  <2>1. 1 \in 1..Len(r) BY <1>1, <1>6
  <2> TAKE i \in 1..Len(r)
  <2>2. CASE i = 1 BY <2>1, <2>2, <1>1
  <2>3. CASE i # 1 BY <2>1, <2>3, <1>1, <1>5
  <2> QED BY <2>2, <2>3
<1>7. ASSUME r # <<>> PROVE \A i \in 1..Len(l) : l[i] < r[1]
  <2>1. 1 \in 1..Len(r) BY <1>1, <1>7
  <2> TAKE i \in 1..Len(l)
  <2>2. i < Len(l) + 1 BY <1>1
  <2> QED BY <2>1, <2>2, <1>1, <1>2, <1>3 DEF Ordered
<1> QED BY <1>1, <1>4, <1>5, <1>6, <1>7 DEF Ordered

(* Two ordered sequences, one below a key and the other not.               *)
LEMMA OrderedJoined ==
  ASSUME NEW n \in Seq(Key), NEW l \in Seq(Key), NEW r \in Seq(Key), NEW k \in Key,
         Joined(n, l, r), Ordered(l), Ordered(r),
         \A i \in 1..Len(l) : l[i] < k, \A i \in 1..Len(r) : k <= r[i]
  PROVE  /\ Ordered(n)
         /\ \A i \in 1..Len(n) : \/ \E j \in 1..Len(l) : n[i] = l[j]
                                 \/ \E j \in 1..Len(r) : n[i] = r[j]
<1>1. /\ Len(l) \in Nat /\ DOMAIN l = 1..Len(l) /\ Len(r) \in Nat /\ DOMAIN r = 1..Len(r)
      /\ DOMAIN n = 1..Len(n) /\ Len(n) = Len(l) + Len(r) /\ k \in Int
      /\ \A i \in 1..Len(r) : r[i] \in Int
      /\ \A i \in 1..Len(l) : l[i] \in Int
  BY LenProperties, ElementOfSeq, KeyAssumption DEF Joined
<1>2. ASSUME NEW i \in 1..Len(n)
      PROVE  n[i] = IF i <= Len(l) THEN l[i] ELSE r[i - Len(l)]
  <2>1. CASE i <= Len(l)
    <3>1. i \in 1..Len(l) BY <2>1, <1>1
    <3> QED BY <2>1, <3>1 DEF Joined
  <2>2. CASE ~(i <= Len(l))
    <3>1. i - Len(l) \in 1..Len(r) /\ Len(l) + (i - Len(l)) = i BY <2>2, <1>1
    <3>2. r[i - Len(l)] = n[Len(l) + (i - Len(l))] BY <3>1 DEF Joined
    <3> QED BY <2>2, <3>1, <3>2
  <2> QED BY <2>1, <2>2
<1>3. ASSUME NEW i \in 1..Len(n), NEW j \in 1..Len(n), i < j PROVE n[i] < n[j]
  <2>1. CASE j <= Len(l)
    <3>1. i \in 1..Len(l) /\ j \in 1..Len(l) /\ n[i] = l[i] /\ n[j] = l[j]
      BY <2>1, <1>1, <1>2, <1>3
    <3> QED BY <3>1, <1>1, <1>3 DEF Ordered
  <2>2. CASE i <= Len(l) /\ ~(j <= Len(l))
    <3>1. i \in 1..Len(l) /\ j - Len(l) \in 1..Len(r) /\ n[i] = l[i] /\ n[j] = r[j - Len(l)]
      BY <2>2, <1>1, <1>2
    <3>2. l[i] < k /\ k <= r[j - Len(l)] /\ l[i] \in Int /\ r[j - Len(l)] \in Int /\ k \in Int
      BY <3>1, <1>1
    <3>3. \A a, b, c \in Int : a < b /\ b <= c => a < c OBVIOUS
    <3>4. l[i] < r[j - Len(l)] BY <3>2, <3>3
    <3> QED BY <3>1, <3>4
  <2>3. CASE ~(i <= Len(l))
    <3>1. /\ i - Len(l) \in 1..Len(r) /\ j - Len(l) \in 1..Len(r)
          /\ i - Len(l) < j - Len(l) /\ n[i] = r[i - Len(l)] /\ n[j] = r[j - Len(l)]
      BY <2>3, <1>1, <1>2, <1>3
    <3> QED BY <3>1, <1>1 DEF Ordered
  <2> QED BY <2>1, <2>2, <2>3
<1>4. ASSUME NEW i \in 1..Len(n)
      PROVE  \/ \E j \in 1..Len(l) : n[i] = l[j]
             \/ \E j \in 1..Len(r) : n[i] = r[j]
  <2>1. CASE i <= Len(l)
    <3>1. i \in 1..Len(l) BY <2>1, <1>1
    <3> QED BY <2>1, <3>1, <1>2
  <2>2. CASE ~(i <= Len(l))
    <3>1. i - Len(l) \in 1..Len(r) BY <2>2, <1>1
    <3> QED BY <2>2, <3>1, <1>2
  <2> QED BY <2>1, <2>2
<1> QED BY <1>1, <1>3, <1>4 DEF Ordered

(* The parts of an ordered sequence with the key between them.             *)
LEMMA JoinedAtOrdered ==
  ASSUME NEW n \in Seq(Key), NEW l \in Seq(Key), NEW r \in Seq(Key), NEW k \in Key,
         JoinedAt(n, l, r, k), Ordered(n)
  PROVE  /\ Ordered(l) /\ Ordered(r)
         /\ \A i \in 1..Len(l) : l[i] < k
         /\ \A i \in 1..Len(r) : k < r[i]
<1>1. /\ Len(l) \in Nat /\ DOMAIN l = 1..Len(l) /\ Len(r) \in Nat /\ DOMAIN r = 1..Len(r)
      /\ DOMAIN n = 1..Len(n) /\ Len(n) = Len(l) + 1 + Len(r)
  BY LenProperties DEF JoinedAt
<1>2. \A i \in 1..Len(l) : i \in 1..Len(n) /\ l[i] = n[i] BY <1>1 DEF JoinedAt
<1>3. \A i \in 1..Len(r) : Len(l) + 1 + i \in 1..Len(n) /\ r[i] = n[Len(l) + 1 + i]
  BY <1>1 DEF JoinedAt
<1>4. \A i, j \in 1..Len(l) : i < j => l[i] < l[j] BY <1>1, <1>2 DEF Ordered
<1>5. ASSUME NEW i \in 1..Len(r), NEW j \in 1..Len(r), i < j PROVE r[i] < r[j]
  <2>1. Len(l) + 1 + i < Len(l) + 1 + j BY <1>1, <1>5
  <2> QED BY <2>1, <1>1, <1>3 DEF Ordered
<1>6. Len(l) + 1 \in 1..Len(n) /\ n[Len(l) + 1] = k BY <1>1 DEF JoinedAt
<1>7. \A i \in 1..Len(l) : i < Len(l) + 1 BY <1>1
<1>8. \A i \in 1..Len(r) : Len(l) + 1 < Len(l) + 1 + i BY <1>1
<1> QED BY <1>1, <1>2, <1>3, <1>4, <1>5, <1>6, <1>7, <1>8 DEF Ordered

(* Two ordered sequences, one below a key and the other above it.          *)
LEMMA OrderedJoinedAt ==
  ASSUME NEW n \in Seq(Key), NEW l \in Seq(Key), NEW r \in Seq(Key), NEW k \in Key,
         JoinedAt(n, l, r, k), Ordered(l), Ordered(r),
         \A i \in 1..Len(l) : l[i] < k, \A i \in 1..Len(r) : k < r[i]
  PROVE  /\ Ordered(n)
         /\ \A i \in 1..Len(n) : \/ n[i] = k
                                 \/ \E j \in 1..Len(l) : n[i] = l[j]
                                 \/ \E j \in 1..Len(r) : n[i] = r[j]
<1>1. /\ Len(l) \in Nat /\ DOMAIN l = 1..Len(l) /\ Len(r) \in Nat /\ DOMAIN r = 1..Len(r)
      /\ DOMAIN n = 1..Len(n) /\ Len(n) = Len(l) + 1 + Len(r) /\ k \in Int
      /\ \A i \in 1..Len(r) : r[i] \in Int
      /\ \A i \in 1..Len(l) : l[i] \in Int
  BY LenProperties, ElementOfSeq, KeyAssumption DEF JoinedAt
<1> DEFINE m == Len(l) + 1
<1>2. ASSUME NEW i \in 1..Len(n)
      PROVE  n[i] = IF i < m THEN l[i] ELSE IF i = m THEN k ELSE r[i - m]
  <2>1. CASE i < m
    <3>1. i \in 1..Len(l) BY <2>1, <1>1
    <3> QED BY <2>1, <3>1 DEF JoinedAt
  <2>2. CASE i = m BY <2>2 DEF JoinedAt
  <2>3. CASE m < i
    <3>1. i - m \in 1..Len(r) /\ Len(l) + 1 + (i - m) = i BY <2>3, <1>1
    <3>2. r[i - m] = n[Len(l) + 1 + (i - m)] BY <3>1 DEF JoinedAt
    <3> QED BY <2>3, <3>1, <3>2
  <2> QED BY <2>1, <2>2, <2>3, <1>1
<1>3. ASSUME NEW i \in 1..Len(n)
      PROVE  /\ i < m => i \in 1..Len(l) /\ n[i] = l[i] /\ l[i] < k
             /\ i > m => i - m \in 1..Len(r) /\ n[i] = r[i - m] /\ k < r[i - m]
             /\ i = m => n[i] = k
  <2>1. i < m => i \in 1..Len(l) BY <1>1
  <2>2. i > m => i - m \in 1..Len(r) BY <1>1
  <2> QED BY <1>1, <1>2, <2>1, <2>2
<1>4. m \in Int BY <1>1
<1> HIDE DEF m
<1>5. ASSUME NEW i \in 1..Len(n), NEW j \in 1..Len(n), i < j PROVE n[i] < n[j]
  <2>1. CASE j < m
    <3>1. i \in 1..Len(l) /\ j \in 1..Len(l) /\ n[i] = l[i] /\ n[j] = l[j]
      BY <2>1, <1>1, <1>3, <1>4, <1>5
    <3> QED BY <3>1, <1>1, <1>5 DEF Ordered
  <2>2. CASE i > m
    <3>1. /\ i - m \in 1..Len(r) /\ j - m \in 1..Len(r)
          /\ i - m < j - m /\ n[i] = r[i - m] /\ n[j] = r[j - m]
      BY <2>2, <1>1, <1>3, <1>4, <1>5
    <3> QED BY <3>1, <1>1 DEF Ordered
  <2>3. CASE i < m /\ j > m
    <3>1. l[i] < k /\ k < r[j - m] /\ l[i] \in Int /\ r[j - m] \in Int /\ k \in Int
      BY <2>3, <1>1, <1>3
    <3>2. l[i] < r[j - m] BY <3>1
    <3> QED BY <2>3, <3>2, <1>3
  <2>4. CASE i = m BY <2>4, <1>3, <1>4, <1>5
  <2>5. CASE j = m BY <2>5, <1>3, <1>4, <1>5
  <2> QED BY <2>1, <2>2, <2>3, <2>4, <2>5, <1>1, <1>4
<1>6. ASSUME NEW i \in 1..Len(n)
      PROVE  n[i] = k \/ (\E j \in 1..Len(l) : n[i] = l[j]) \/ (\E j \in 1..Len(r) : n[i] = r[j])
  <2>1. i < m \/ i = m \/ i > m BY <1>1, <1>4
  <2> QED BY <2>1, <1>3
<1> QED BY <1>1, <1>5, <1>6 DEF Ordered

-----------------------------------------------------------------------------
(* What the operations of a node do to its keys and children.              *)

(* insert_leaf keeps the keys in order and adds no other key.              *)
LEMMA InsertLeafOrdered ==
  ASSUME NEW n \in WellShaped, IsLeaf(n), Ordered(n.keys), NEW k \in Key, NEW v \in Val
  PROVE  /\ Ordered(InsertLeaf(n, k, v).keys)
         /\ \A i \in 1..Len(InsertLeaf(n, k, v).keys) :
              \/ InsertLeaf(n, k, v).keys[i] = k
              \/ \E j \in 1..Len(n.keys) : InsertLeaf(n, k, v).keys[i] = n.keys[j]
         /\ InsertLeaf(n, k, v).next_leaf = n.next_leaf
         /\ Len(InsertLeaf(n, k, v).keys) \in {Len(n.keys), Len(n.keys) + 1}
<1> DEFINE p == FindKeyIndex(n, k) + 1
           m == InsertLeaf(n, k, v)
           ks == InsertAt(n.keys, p, k)
<1>1. m.next_leaf = n.next_leaf /\ m.keys = IF HasKey(n, k) THEN n.keys ELSE ks
  BY NodeParts DEF InsertLeaf, Node
<1>2. n.keys \in Seq(Key) /\ Len(n.keys) \in Nat /\ DOMAIN n.keys = 1..Len(n.keys)
  BY NodeParts
<1> HIDE DEF m
<1>3. CASE HasKey(n, k) BY <1>1, <1>2, <1>3 DEF m
<1>4. CASE ~HasKey(n, k)
  <2>1. FindKeyIndex(n, k) \in 0..Len(n.keys) BY FindKeyIndexType
  <2>2. p \in 1..(Len(n.keys) + 1) BY <2>1
  <2>3. ks \in Seq(Key) /\ Len(ks) = Len(n.keys) + 1 /\ Inserted(ks, n.keys, p, k)
    BY <2>2, <1>2, InsertAtInserted, InsertAtType
  <2>4. ASSUME NEW j \in 1..Len(n.keys)
        PROVE  IF j < p THEN n.keys[j] < k ELSE k < n.keys[j]
    <3>1. n.keys[j] # k BY <1>2, <1>4 DEF HasKey
    <3>2. j <= FindKeyIndex(n, k) <=> n.keys[j] < k
      BY <3>1, KeyPosition
    <3>3. n.keys[j] \in Int /\ k \in Int BY NodeParts, KeyAssumption
    <3> QED BY <3>1, <3>2, <3>3, <2>1
  <2> HIDE DEF p, ks
  <2>5. /\ Ordered(ks)
        /\ \A j \in 1..Len(ks) : ks[j] = k \/ \E i \in 1..Len(n.keys) : ks[j] = n.keys[i]
    BY <2>2, <2>3, <2>4, <1>2, InsertedOrdered
  <2> QED BY <1>1, <1>4, <2>3, <2>5 DEF m
<1> QED BY <1>3, <1>4

(* remove_leaf keeps the rest of the keys, in order.                       *)
LEMMA RemoveLeafOrdered ==
  ASSUME NEW n \in WellShaped, IsLeaf(n), Ordered(n.keys), NEW k \in Key, HasKey(n, k)
  PROVE  /\ Ordered(RemoveLeaf(n, k).keys)
         /\ \A i \in 1..Len(RemoveLeaf(n, k).keys) :
              \E j \in 1..Len(n.keys) : RemoveLeaf(n, k).keys[i] = n.keys[j]
         /\ RemoveLeaf(n, k).next_leaf = n.next_leaf
         /\ Len(RemoveLeaf(n, k).keys) = Len(n.keys) - 1
         /\ RemoveLeaf(n, k).node_type = n.node_type
<1> DEFINE p == FindKeyIndex(n, k) + 1
           m == RemoveLeaf(n, k)
           ks == RemoveAt(n.keys, p)
<1>1. m.next_leaf = n.next_leaf /\ m.keys = ks /\ m.node_type = n.node_type
  BY NodeParts DEF RemoveLeaf, Node
<1>2. n.keys \in Seq(Key) BY NodeParts
<1> HIDE DEF m
<1>3. p \in 1..Len(n.keys) BY FindKeyIndexFound
<1> HIDE DEF p
<1>4. ks \in Seq(Key) /\ Len(ks) = Len(n.keys) - 1 /\ Inserted(n.keys, ks, p, n.keys[p])
  BY <1>2, <1>3, RemoveAtInserted, RemoveAtType
<1> HIDE DEF ks
<1>5. Ordered(ks) /\ \A j \in 1..Len(ks) : \E i \in 1..Len(n.keys) : ks[j] = n.keys[i]
  BY <1>2, <1>3, <1>4, RemovedOrdered
<1> QED BY <1>1, <1>4, <1>5 DEF m

(* insert_internal, given the child that has been split and a key that     *)
(* belongs there, adds the right half next to it.                          *)
LEMMA InsertInternalAdds ==
  ASSUME NEW n \in WellShaped, IsInternal(n), Ordered(n.keys), NEW k \in Key,
         NEW i \in 1..(Len(n.keys) + 1), NEW right \in Allotted,
         \A j \in 1..Len(n.keys) : IF j < i THEN n.keys[j] < k ELSE k < n.keys[j]
  PROVE  ChildAdded(n, i, k, right, InsertInternal(n, k, n.child_ids[i], right))
<1> DEFINE p == FindKeyIndex(n, k) + 1
           h == i + 1
           left == n.child_ids[i]
           m == InsertInternal(n, k, left, right)
           ks == InsertAt(n.keys, p, k)
           ds == InsertAt(n.child_ids, h, right)
<1>1. /\ n.keys \in Seq(Key) /\ n.child_ids \in Seq(Allotted) /\ Len(n.keys) \in Nat
      /\ Len(n.child_ids) = Len(n.keys) + 1 /\ left \in Allotted
      /\ \A j \in 1..Len(n.keys) : n.keys[j] \in Int
      /\ k \in Int
  BY NodeParts, KeyAssumption
<1>2. p = i
  <2>1. FindKeyIndex(n, k) \in 0..Len(n.keys) BY FindKeyIndexType
  <2>2. \A j \in 1..Len(n.keys) : j <= FindKeyIndex(n, k) <=> n.keys[j] < k \/ n.keys[j] = k
    BY KeyPosition
  <2>3. \A j \in 1..Len(n.keys) : j <= FindKeyIndex(n, k) <=> j < i
    BY <2>2, <1>1
  <2>4. CASE FindKeyIndex(n, k) >= i
    <3>1. i \in 1..Len(n.keys) /\ i <= FindKeyIndex(n, k) BY <2>1, <2>4
    <3> QED BY <3>1, <2>3
  <2>5. CASE FindKeyIndex(n, k) < i - 1
    <3>1. i - 1 \in 1..Len(n.keys) /\ ~(i - 1 <= FindKeyIndex(n, k)) BY <2>1, <2>5, <1>1
    <3> QED BY <3>1, <2>3
  <2> QED BY <2>1, <2>4, <2>5
<1>3. m \in WellShaped BY <1>1, InsertInternalShaped
<1>4. h \in 1..(Len(n.child_ids) + 1) BY <1>1
<1>5. n.child_ids # <<>> BY <1>1
<1>6. /\ m.keys = ks /\ m.node_type = n.node_type
      /\ m.child_ids = ReplaceAt(ds, i, left)
  BY <1>2, <1>5, NodeParts DEF InsertInternal, Node
<1> HIDE DEF m, p, left
<1>7. Inserted(ks, n.keys, i, k) BY <1>1, <1>2, InsertAtInserted
<1> HIDE DEF ks, h
<1>8. Inserted(ds, n.child_ids, h, right) /\ ds \in Seq(Allotted) /\ Len(ds) = Len(n.child_ids) + 1
  <2>1. Inserted(ds, n.child_ids, h, right) BY <1>1, <1>4, InsertAtInserted
  <2>2. n.child_ids \in Seq(Allotted) BY <1>1
  <2>3. ds \in Seq(Allotted) /\ Len(ds) = Len(n.child_ids) + 1 BY <2>2, <1>4, InsertAtType, Zenon
  <2> QED BY <2>1, <2>3
<1> HIDE DEF ds
<1>9. i \in 1..Len(ds) /\ i \in 1..Len(n.child_ids) /\ i < h BY <1>1, <1>8 DEF h
<1>10. ds[i] = left BY <1>8, <1>9 DEF Inserted, left
<1>11. ReplaceAt(ds, i, left) = ds
  <2>1. /\ ReplaceAt(ds, i, left) \in Seq(Allotted) /\ Len(ReplaceAt(ds, i, left)) = Len(ds)
        /\ \A j \in 1..Len(ds) : ReplaceAt(ds, i, left)[j] = IF j = i THEN left ELSE ds[j]
    BY <1>1, <1>8, <1>9, ExceptSeq DEF ReplaceAt
  <2>2. \A j \in 1..Len(ds) : ReplaceAt(ds, i, left)[j] = ds[j] BY <2>1, <1>10
  <2> HIDE DEF ReplaceAt
  <2> QED BY <2>1, <2>2, <1>8, SeqEqual
<1>12. ChildAdded(n, i, k, right, m)
  BY <1>3, <1>6, <1>7, <1>8, <1>11 DEF ChildAdded, h, IsInternal
<1> QED BY <1>12 DEF m, left

(* A parent with another separator in the place of an old one.             *)
LEMMA SeparatorReplaced ==
  ASSUME NEW n, NEW m, NEW i \in Nat \ {0}, NEW k, NEW q, ChildAdded(n, i, k, q, m),
         i \in 1..Len(m.keys), NEW f \in Key
  PROVE  ChildAdded(n, i, f, q, [ m EXCEPT !.keys[i] = f ])
<1> DEFINE u == [ m EXCEPT !.keys[i] = f ]
<1>1. m \in WellShaped /\ n \in WellShaped /\ IsInternal(n) /\ IsInternal(m) BY DEF ChildAdded
<1>2. u \in WellShaped BY <1>1, SeparatorChanged
<1>3. /\ u.keys = [ m.keys EXCEPT ![i] = f ] /\ u.child_ids = m.child_ids
      /\ u.node_type = m.node_type
  BY <1>1, NodeParts DEF Node
<1> HIDE DEF u
<1>4. m.keys \in Seq(Key) /\ n.keys \in Seq(Key) BY <1>1, NodeParts
<1>5. Inserted(m.keys, n.keys, i, k) BY DEF ChildAdded
<1>6. Inserted(u.keys, n.keys, i, f) BY <1>3, <1>4, <1>5, ExceptInserted
<1>7. ChildAdded(n, i, f, q, u) BY <1>1, <1>2, <1>3, <1>6 DEF ChildAdded, IsInternal
<1> QED BY <1>7 DEF u

(* merge_nodes takes the separator and the right child out of the parent.  *)
WithoutChild(n, i) ==
  [ n EXCEPT !.keys = RemoveAt(n.keys, i),
             !.child_ids = RemoveAt(n.child_ids, i + 1),
             !.key_count = n.key_count - 1 ]

(* Putting them in again gives back the parent.                            *)
LEMMA ChildRemovedAdded ==
  ASSUME NEW m \in WellShaped, IsInternal(m), NEW i \in 1..Len(m.keys)
  PROVE  ChildAdded(WithoutChild(m, i), i, m.keys[i], m.child_ids[i + 1], m)
<1> DEFINE n == [ m EXCEPT !.keys = RemoveAt(m.keys, i),
                           !.child_ids = RemoveAt(m.child_ids, i + 1),
                           !.key_count = m.key_count - 1 ]
           h == i + 1
<1>1. n \in WellShaped
  <2> HIDE DEF h
  <2> QED BY ChildRemoved, Zenon
<1>2. /\ n.keys = RemoveAt(m.keys, i) /\ n.child_ids = RemoveAt(m.child_ids, h)
      /\ n.node_type = m.node_type
  BY NodeParts DEF Node
<1> HIDE DEF n
<1>3. m.keys \in Seq(Key) /\ m.child_ids \in Seq(Allotted) /\ h \in 1..Len(m.child_ids)
  BY NodeParts
<1> HIDE DEF h
<1>4. /\ Inserted(m.keys, n.keys, i, m.keys[i])
      /\ Inserted(m.child_ids, n.child_ids, h, m.child_ids[h])
  BY <1>2, <1>3, RemoveAtInserted
<1>5. ChildAdded(n, i, m.keys[i], m.child_ids[i + 1], m)
  BY <1>1, <1>2, <1>4 DEF ChildAdded, IsInternal, h
<1> QED BY <1>5, Zenon DEF n, WithoutChild

-----------------------------------------------------------------------------
(* Splitting, merging and borrowing, seen as cutting and joining.          *)

(* A leaf that is cut may lead to its new right half.                      *)
LEMMA HalvesLinked ==
  ASSUME NEW n \in WellShaped, IsLeaf(n), NEW l, NEW r, NEW k, Halves(n, l, r, k),
         NEW q \in OptionBlockId
  PROVE  /\ Halves(n, [ l EXCEPT !.next_leaf = q ], r, k)
         /\ [ l EXCEPT !.next_leaf = q ].next_leaf = q
         /\ [ l EXCEPT !.next_leaf = q ].keys = l.keys
<1> DEFINE m == [ l EXCEPT !.next_leaf = q ]
<1>1. l \in WellShaped /\ IsLeaf(l) BY DEF Halves, IsLeaf
<1>2. /\ m \in Node /\ m.keys = l.keys /\ m.values = l.values /\ m.key_count = l.key_count
      /\ m.child_ids = l.child_ids /\ m.node_type = l.node_type /\ m.next_leaf = q
  BY <1>1, NodeParts DEF Node
<1> HIDE DEF m
<1>3. m \in WellShaped BY <1>1, <1>2, LeafParts, LeafShaped
<1>4. ~IsInternal(n) BY NodeParts
<1>5. Halves(n, m, r, k) BY <1>2, <1>3, <1>4 DEF Halves
<1> QED BY <1>2, <1>5 DEF m

(* split cuts a node in the middle, at one of its own keys.                *)
LEMMA SplitHalves ==
  ASSUME NEW n \in WellShaped, Ordered(n.keys), Len(n.keys) > 2
  PROVE  LET m == Len(n.keys) \div 2
         IN /\ Halves(n, Split(n).left, Split(n).right, Split(n).key)
            /\ Split(n).key = n.keys[m + 1] /\ Split(n).key \in Key
            /\ Len(Split(n).left.keys) = m
            /\ Len(Split(n).right.keys) = Len(n.keys) - (IF IsLeaf(n) THEN m ELSE m + 1)
<1> DEFINE m == Len(n.keys) \div 2
           l == Split(n).left
           r == Split(n).right
           k == Split(n).key
<1>1. /\ n.keys \in Seq(Key) /\ n.values \in Seq(Val) /\ n.child_ids \in Seq(Allotted)
      /\ n \in Node /\ Len(n.keys) \in Nat
  BY NodeParts
<1>2. m \in 0..Len(n.keys) /\ m + 1 \in 1..Len(n.keys) /\ m \in Nat
  <2>1. \A x \in Nat : x > 2 => x \div 2 \in 0..x /\ (x \div 2) + 1 \in 1..x
    BY HalfInside
  <2>2. m \in 0..Len(n.keys) /\ m + 1 \in 1..Len(n.keys) BY Zenon, <1>1, <2>1
  <2> HIDE DEF m
  <2> QED BY <1>1, <2>2
<1>3. /\ k \in Key /\ l \in WellShaped /\ l.node_type = n.node_type
      /\ r \in WellShaped /\ r.node_type = n.node_type
  BY SplitShaped
<1>4. k = n.keys[m + 1] BY DEF Split
<1>5. CASE IsLeaf(n)
  <2>1. /\ l.keys = Prefix(n.keys, m) /\ l.values = Prefix(n.values, m)
        /\ r.keys = Suffix(n.keys, m) /\ r.values = Suffix(n.values, m)
        /\ r.next_leaf = n.next_leaf
    BY <1>1, <1>5 DEF Split, Node
  <2> HIDE DEF m, l, r, k
  <2>2. m \in 0..Len(n.values) /\ m \in 0..Len(n.keys) BY <1>2, <1>5, NodeParts
  <2>3. Joined(n.keys, l.keys, r.keys) /\ Joined(n.values, l.values, r.values)
    BY <1>1, <2>1, <2>2, CutJoined
  <2>4. Len(l.keys) = m /\ Len(r.keys) = Len(n.keys) - m
    <3>1. Len(Prefix(n.keys, m)) = m BY <1>1, <2>2, PrefixType
    <3>2. Len(Suffix(n.keys, m)) = Len(n.keys) - m BY <1>1, <2>2, SuffixType
    <3> QED BY <2>1, <3>1, <3>2
  <2>5. r.keys # <<>> /\ 1 \in 1..Len(r.keys)
    <3>1. Len(r.keys) >= 1 BY <1>1, <1>2, <2>4
    <3> QED BY <3>1
  <2>6. k = r.keys[1] BY <1>4, <2>3, <2>4, <2>5 DEF Joined
  <2>7. l.keys \in Seq(Key) /\ r.keys \in Seq(Key) BY <1>3, NodeParts
  <2>8. /\ \A i \in 1..Len(l.keys) : l.keys[i] < k
        /\ \A i \in 1..Len(r.keys) : k <= r.keys[i]
    BY <1>1, <2>3, <2>5, <2>6, <2>7, JoinedOrdered
  <2>9. DOMAIN l.keys = 1..Len(l.keys) /\ DOMAIN r.keys = 1..Len(r.keys)
    BY <2>7, LenProperties
  <2>10. Halves(n, l, r, k)
    BY <1>3, <1>5, <2>1, <2>3, <2>8, <2>9, NodeParts DEF Halves
  <2> QED BY <1>3, <1>4, <1>5, <2>4, <2>10 DEF m, l, r, k
<1>6. CASE IsInternal(n)
  <2>1. ~IsLeaf(n) /\ Len(n.child_ids) = Len(n.keys) + 1 BY <1>6, NodeParts
  <2> DEFINE h == m + 1
  <2>2. /\ l.keys = Prefix(n.keys, m) /\ l.child_ids = Prefix(n.child_ids, h)
        /\ r.keys = Suffix(n.keys, h) /\ r.child_ids = Suffix(n.child_ids, h)
    BY <1>1, <2>1 DEF Split, Node
  <2> HIDE DEF m, l, r, k
  <2>3. m \in 0..(Len(n.keys) - 1) /\ h \in 0..Len(n.keys) /\ h \in 0..Len(n.child_ids)
    BY <1>1, <1>2, <2>1
  <2>4. JoinedAt(n.keys, l.keys, r.keys, k)
    BY <1>1, <1>4, <2>2, <2>3, CutJoinedAt
  <2> HIDE DEF h
  <2>5. Joined(n.child_ids, l.child_ids, r.child_ids)
    BY <1>1, <2>2, <2>3, CutJoined
  <2>6. Len(l.keys) = m /\ Len(r.keys) = Len(n.keys) - h
    BY <1>1, <1>2, <2>2, <2>3, PrefixType, SuffixType, SMTT(20)
  <2>7. Halves(n, l, r, k) BY <1>3, <2>1, <2>4, <2>5 DEF Halves
  <2> QED BY <1>3, <1>4, <2>1, <2>6, <2>7 DEF m, l, r, k, h
<1> QED BY <1>5, <1>6, NodeParts

(* merge_with_right: a node and its right neighbour, separated by k, are   *)
(* the halves of what they are merged to.                                  *)
LEMMA MergeHalves ==
  ASSUME NEW l \in WellShaped, NEW r \in WellShaped, l.node_type = r.node_type, NEW k \in Key,
         IsLeaf(l) => /\ \A i \in DOMAIN l.keys : l.keys[i] < k
                      /\ \A i \in DOMAIN r.keys : k <= r.keys[i]
  PROVE  /\ Halves(Merge(l, r, k), l, r, k)
         /\ Merge(l, r, k) \in WellShaped
<1> DEFINE m == Merge(l, r, k)
<1>1. /\ l.keys \in Seq(Key) /\ l.values \in Seq(Val) /\ l.child_ids \in Seq(Allotted)
      /\ r.keys \in Seq(Key) /\ r.values \in Seq(Val) /\ r.child_ids \in Seq(Allotted)
      /\ l \in Node
  BY NodeParts
<1>2. m \in WellShaped BY MergeShaped DEF IsLeaf
<1>3. /\ m.keys = MergedKeys(l, r, k) /\ m.child_ids = l.child_ids \o r.child_ids
      /\ m.values = l.values \o r.values /\ m.node_type = l.node_type
      /\ m.next_leaf = MergedNext(l, r)
  BY <1>1 DEF Merge, Node
<1> HIDE DEF m
<1>4. Joined(m.values, l.values, r.values) /\ Joined(m.child_ids, l.child_ids, r.child_ids)
  BY <1>1, <1>3, ConcatJoined
<1>5. CASE IsLeaf(l)
  <2>1. ~IsInternal(l) BY <1>5, NodeParts
  <2>2. m.keys = l.keys \o r.keys /\ m.next_leaf = r.next_leaf
    BY <1>3, <1>5, <2>1 DEF MergedKeys, MergedNext
  <2>3. Joined(m.keys, l.keys, r.keys) BY <1>1, <2>2, ConcatJoined
  <2>4. IsLeaf(m) /\ ~IsInternal(m) BY <1>3, <1>5, <2>1 DEF IsLeaf, IsInternal
  <2>5. Halves(m, l, r, k) BY <1>3, <1>4, <1>5, <2>2, <2>3, <2>4 DEF Halves
  <2> QED BY <1>2, <2>5 DEF m
<1>6. CASE IsInternal(l)
  <2>1. m.keys = Append(l.keys, k) \o r.keys BY <1>3, <1>6 DEF MergedKeys
  <2>2. JoinedAt(m.keys, l.keys, r.keys, k) BY <1>1, <2>1, ConcatJoinedAt
  <2>3. ~IsLeaf(m)
    <3>1. ~IsLeaf(l) BY <1>6, NodeParts
    <3> QED BY <3>1, <1>3 DEF IsLeaf
  <2>4. Halves(m, l, r, k) BY <1>3, <1>4, <2>2, <2>3 DEF Halves
  <2> QED BY <1>2, <2>4 DEF m
<1> QED BY <1>5, <1>6, NodeParts

(* borrow_from_left cuts the two neighbours, taken together, one place     *)
(* further left, at the last key of the left one.                          *)
LEMMA BorrowLeftHalves ==
  ASSUME NEW m \in WellShaped, Ordered(m.keys), NEW l, NEW r, NEW k \in Key,
         Halves(m, l, r, k), Len(l.keys) # 0
  PROVE  LET b == BorrowFromLeft(r, l, k)
         IN /\ Halves(m, b.sibling, b.node, b.separator)
            /\ b.separator = l.keys[Len(l.keys)] /\ b.separator \in Key
            /\ Len(b.sibling.keys) = Len(l.keys) - 1 /\ Len(b.node.keys) = Len(r.keys) + 1
            /\ b.sibling.next_leaf = l.next_leaf
<1> DEFINE b == BorrowFromLeft(r, l, k)
           s == b.sibling
           c == b.node
           f == b.separator
<1>1. /\ l \in WellShaped /\ r \in WellShaped
      /\ l.node_type = m.node_type /\ r.node_type = m.node_type
  BY DEF Halves
<1>2. /\ l.keys \in Seq(Key) /\ l.values \in Seq(Val) /\ l.child_ids \in Seq(Allotted)
      /\ r.keys \in Seq(Key) /\ r.values \in Seq(Val) /\ r.child_ids \in Seq(Allotted)
      /\ l \in Node /\ r \in Node /\ Len(l.keys) \in Nat /\ l.key_count = Len(l.keys)
  BY <1>1, NodeParts
<1>3. f \in Key /\ c \in WellShaped /\ s \in WellShaped
  <2>1. IsLeaf(r) = IsLeaf(l) /\ l.key_count > 0 BY <1>1, <1>2 DEF IsLeaf
  <2>2. Shapes(WellShaped) BY DEF Shapes
  <2> QED BY <1>1, <2>1, <2>2, BorrowFromLeftShaped
<1>3a. Lendable(r, l) # <<>>
  <2>1. IsLeaf(r) = IsLeaf(l) /\ l.key_count > 0 BY <1>1, <1>2 DEF IsLeaf
  <2>2. Shapes(WellShaped) BY DEF Shapes
  <2> QED BY <1>1, <2>1, <2>2, LendableToKind
<1>4. /\ f = Last(l.keys) /\ Last(l.keys) = l.keys[Len(l.keys)] /\ Last(l.keys) \in Key
      /\ Len(Front(l.keys)) = Len(l.keys) - 1
  BY <1>2, <1>3a, EndsParts DEF BorrowFromLeft, LeftSeparator
<1>5. /\ c.node_type = m.node_type /\ s.node_type = m.node_type
      /\ s.keys = Front(l.keys) /\ s.next_leaf = l.next_leaf
  BY <1>1, <1>2, <1>3a DEF BorrowFromLeft, Node
<1>6. CASE IsLeaf(m)
  <2>1. IsLeaf(r) /\ IsLeaf(l) /\ ~IsInternal(m) BY <1>1, <1>6, NodeParts DEF IsLeaf
  <2>2. /\ c.keys = <<Last(l.keys)>> \o r.keys /\ c.values = <<Last(l.values)>> \o r.values
        /\ c.next_leaf = r.next_leaf /\ s.values = Front(l.values)
    BY <1>2, <1>3a, <2>1 DEF BorrowFromLeft, ReceivedKey, Node
  <2>3. /\ Joined(m.keys, l.keys, r.keys) /\ Joined(m.values, l.values, r.values)
        /\ m.next_leaf = r.next_leaf
    BY <1>6 DEF Halves
  <2> HIDE DEF c, s, f
  <2>4. Len(l.values) = Len(l.keys) /\ Len(l.values) # 0
    <3>1. Len(l.values) = Len(l.keys) BY <1>1, <2>1, NodeParts
    <3> QED BY <3>1
  <2>5. Joined(m.keys, s.keys, c.keys) BY <1>2, <1>5, <2>2, <2>3, JoinedFromLeft
  <2>6. Joined(m.values, s.values, c.values) BY <1>2, <2>2, <2>3, <2>4, JoinedFromLeft
  <2>7. /\ c.keys \in Seq(Key) /\ s.keys \in Seq(Key) /\ m.keys \in Seq(Key)
    BY <1>3, NodeParts
  <2>8. c.keys[1] = f /\ Len(c.keys) = Len(r.keys) + 1
    BY <1>2, <1>4, <2>2, ConsParts
  <2>9. c.keys # <<>>
    <3>1. Len(r.keys) \in Nat BY <1>2, LenProperties
    <3> QED BY <2>8, <3>1
  <2>10. /\ \A i \in 1..Len(s.keys) : s.keys[i] < f
         /\ \A i \in 1..Len(c.keys) : f <= c.keys[i]
    BY <2>5, <2>7, <2>8, <2>9, JoinedOrdered
  <2>11. DOMAIN s.keys = 1..Len(s.keys) /\ DOMAIN c.keys = 1..Len(c.keys)
    BY <2>7, LenProperties
  <2>12. Halves(m, s, c, f)
    BY <1>3, <1>5, <2>1, <2>2, <2>3, <2>5, <2>6, <2>10, <2>11 DEF Halves
  <2> QED BY <1>3, <1>4, <1>5, <2>8, <2>12 DEF c, s, f
<1>7. CASE IsInternal(m)
  <2>1. ~IsLeaf(r) /\ ~IsLeaf(l) /\ ~IsLeaf(m)
    <3>1. ~IsLeaf(m) BY <1>7, NodeParts
    <3> QED BY <1>1, <3>1 DEF IsLeaf
  <2>2. /\ c.keys = <<k>> \o r.keys /\ c.child_ids = <<Last(l.child_ids)>> \o r.child_ids
        /\ s.child_ids = Front(l.child_ids)
    BY <1>2, <1>3a, <2>1 DEF BorrowFromLeft, ReceivedKey, Node
  <2>3. JoinedAt(m.keys, l.keys, r.keys, k) /\ Joined(m.child_ids, l.child_ids, r.child_ids)
    BY <1>7 DEF Halves
  <2>4. Len(l.child_ids) # 0
    <3>1. Len(l.child_ids) = Len(l.keys) + 1 BY <1>1, <2>1, NodeParts
    <3> QED BY <1>2, <3>1
  <2> HIDE DEF c, s, f
  <2>5. JoinedAt(m.keys, s.keys, c.keys, f)
    BY <1>2, <1>4, <1>5, <2>2, <2>3, JoinedAtFromLeft
  <2>6. Joined(m.child_ids, s.child_ids, c.child_ids) BY <1>2, <2>2, <2>3, <2>4, JoinedFromLeft
  <2>7. Halves(m, s, c, f) BY <1>3, <1>5, <2>1, <2>5, <2>6 DEF Halves
  <2>8. Len(c.keys) = Len(r.keys) + 1 BY <1>2, <2>2, ConsParts
  <2> QED BY <1>3, <1>4, <1>5, <2>7, <2>8 DEF c, s, f
<1> QED BY <1>6, <1>7, NodeParts

(* borrow_from_right cuts them one place further right.                    *)
LEMMA BorrowRightHalves ==
  ASSUME NEW m \in WellShaped, Ordered(m.keys), NEW l, NEW r, NEW k \in Key,
         Halves(m, l, r, k), Len(r.keys) > 1
  PROVE  LET b == BorrowFromRight(l, r, k)
         IN /\ Halves(m, b.node, b.sibling, b.separator)
            /\ b.separator = IF IsLeaf(m) THEN r.keys[2] ELSE r.keys[1]
            /\ b.separator \in Key
            /\ Len(b.sibling.keys) = Len(r.keys) - 1 /\ Len(b.node.keys) = Len(l.keys) + 1
            /\ b.node.next_leaf = l.next_leaf
<1> DEFINE b == BorrowFromRight(l, r, k)
           s == b.sibling
           c == b.node
           f == b.separator
<1>1. /\ l \in WellShaped /\ r \in WellShaped
      /\ l.node_type = m.node_type /\ r.node_type = m.node_type
  BY DEF Halves
<1>2. /\ l.keys \in Seq(Key) /\ l.values \in Seq(Val) /\ l.child_ids \in Seq(Allotted)
      /\ r.keys \in Seq(Key) /\ r.values \in Seq(Val) /\ r.child_ids \in Seq(Allotted)
      /\ l \in Node /\ r \in Node /\ Len(r.keys) \in Nat /\ r.key_count = Len(r.keys)
      /\ Len(r.keys) # 0
  BY <1>1, NodeParts
<1>3. f \in Key /\ c \in WellShaped /\ s \in WellShaped
  <2>1. IsLeaf(l) = IsLeaf(r) /\ r.key_count > 0 BY <1>1, <1>2 DEF IsLeaf
  <2>2. Shapes(WellShaped) BY DEF Shapes
  <2>3. Lendable(l, r) # <<>> BY <1>1, <2>1, <2>2, LendableToKind
  <2> QED BY <1>1, <2>1, <2>2, <2>3, BorrowFromRightShaped
<1>4. /\ Head(r.keys) = r.keys[1] /\ Head(r.keys) \in Key
      /\ Len(Tail(r.keys)) = Len(r.keys) - 1
      /\ \A i \in 1..(Len(r.keys) - 1) : Tail(r.keys)[i] = r.keys[i + 1]
  BY <1>2, EndsParts
<1>5. /\ c.node_type = m.node_type /\ s.node_type = m.node_type
      /\ s.keys = Tail(r.keys) /\ c.next_leaf = l.next_leaf /\ s.next_leaf = r.next_leaf
  BY <1>1, <1>2 DEF BorrowFromRight, Node
<1>6. CASE IsLeaf(m)
  <2>1. IsLeaf(r) /\ IsLeaf(l) /\ ~IsInternal(m) BY <1>1, <1>6, NodeParts DEF IsLeaf
  <2>2. /\ c.keys = Append(l.keys, Head(r.keys)) /\ c.values = Append(l.values, Head(r.values))
        /\ s.values = Tail(r.values)
        /\ f = r.keys[2]
    BY <1>2, <2>1 DEF BorrowFromRight, ReceivedKey, RightSeparator, Node
  <2>3. /\ Joined(m.keys, l.keys, r.keys) /\ Joined(m.values, l.values, r.values)
        /\ m.next_leaf = r.next_leaf
    BY <1>6 DEF Halves
  <2> HIDE DEF c, s, f
  <2>4. Len(r.values) = Len(r.keys) /\ Len(r.values) # 0
    <3>1. Len(r.values) = Len(r.keys) BY <1>1, <2>1, NodeParts
    <3> QED BY <1>2, <3>1
  <2>5. Joined(m.keys, c.keys, s.keys) BY <1>2, <1>5, <2>2, <2>3, JoinedFromRight
  <2>6. Joined(m.values, c.values, s.values) BY <1>2, <2>2, <2>3, <2>4, JoinedFromRight
  <2>7. /\ c.keys \in Seq(Key) /\ s.keys \in Seq(Key) /\ m.keys \in Seq(Key)
    BY <1>3, NodeParts
  <2>8. Len(c.keys) = Len(l.keys) + 1 BY <1>2, <1>4, <2>2, AppendProperties
  <2>9. s.keys[1] = f /\ Len(s.keys) = Len(r.keys) - 1
    <3>1. 1 \in 1..(Len(r.keys) - 1) /\ 1 + 1 = 2 BY <1>2
    <3> QED BY <3>1, <1>4, <1>5, <2>2
  <2>10. s.keys # <<>> BY <1>2, <2>9
  <2>11. /\ \A i \in 1..Len(c.keys) : c.keys[i] < f
         /\ \A i \in 1..Len(s.keys) : f <= s.keys[i]
    BY <2>5, <2>7, <2>9, <2>10, JoinedOrdered
  <2>12. DOMAIN s.keys = 1..Len(s.keys) /\ DOMAIN c.keys = 1..Len(c.keys)
    BY <2>7, LenProperties
  <2>13. Halves(m, c, s, f)
    BY <1>3, <1>5, <2>1, <2>3, <2>5, <2>6, <2>11, <2>12 DEF Halves
  <2> QED BY <1>3, <1>5, <1>6, <2>2, <2>8, <2>9, <2>13 DEF c, s, f
<1>7. CASE IsInternal(m)
  <2>1. ~IsLeaf(r) /\ ~IsLeaf(l) /\ ~IsLeaf(m)
    <3>1. ~IsLeaf(m) BY <1>7, NodeParts
    <3> QED BY <1>1, <3>1 DEF IsLeaf
  <2>2. /\ c.keys = Append(l.keys, k) /\ c.child_ids = Append(l.child_ids, Head(r.child_ids))
        /\ s.child_ids = Tail(r.child_ids) /\ f = Head(r.keys)
    BY <1>2, <2>1 DEF BorrowFromRight, ReceivedKey, RightSeparator, Node
  <2>3. JoinedAt(m.keys, l.keys, r.keys, k) /\ Joined(m.child_ids, l.child_ids, r.child_ids)
    BY <1>7 DEF Halves
  <2>4. Len(r.child_ids) # 0
    <3>1. Len(r.child_ids) = Len(r.keys) + 1 BY <1>1, <2>1, NodeParts
    <3> QED BY <1>2, <3>1
  <2> HIDE DEF c, s, f
  <2>5. JoinedAt(m.keys, c.keys, s.keys, f)
    BY <1>2, <1>5, <2>2, <2>3, JoinedAtFromRight
  <2>6. Joined(m.child_ids, c.child_ids, s.child_ids)
    BY <1>2, <2>2, <2>3, <2>4, JoinedFromRight
  <2>7. Halves(m, c, s, f) BY <1>3, <1>5, <2>1, <2>5, <2>6 DEF Halves
  <2>8. Len(c.keys) = Len(l.keys) + 1 BY <1>2, <2>2, AppendProperties
  <2> QED BY <1>3, <1>4, <1>5, <2>1, <2>2, <2>7, <2>8 DEF c, s, f
<1> QED BY <1>6, <1>7, NodeParts

-----------------------------------------------------------------------------
(***************************************************************************)
(* A node by itself, between the bounds lo and hi.                         *)
(***************************************************************************)
Within(n, lo, hi) ==
  /\ n \in WellShaped /\ Ordered(n.keys)
  /\ \A i \in 1..Len(n.keys) : Below(n.keys[i], hi)
  /\ \A m \in lo : Below(m, hi)
  /\ IsLeaf(n) => \A i \in 1..Len(n.keys) : AtLeast(lo, n.keys[i])
  /\ IsInternal(n) => \A i \in 1..Len(n.keys) : Above(lo, n.keys[i])

(* The bounds of a node are keys.                                          *)
LEMMA BoundsType ==
  ASSUME NEW lo \in Bounds
  PROVE  \A m \in lo : m \in Key /\ m \in Int
<1> QED BY KeyAssumption DEF Bounds

(* A key is a bound.                                                       *)
LEMMA KeyBound == ASSUME NEW k \in Key PROVE {k} \in Bounds
<1> QED BY DEF Bounds

(* Where the elements of the parts are in the whole.                       *)
LEMMA JoinedParts ==
  ASSUME NEW n, NEW l, NEW r, Joined(n, l, r), Len(l) \in Nat, Len(r) \in Nat
  PROVE  /\ \A i \in 1..Len(l) : i \in 1..Len(n) /\ l[i] = n[i]
         /\ \A i \in 1..Len(r) : Len(l) + i \in 1..Len(n) /\ r[i] = n[Len(l) + i]
<1>1. Len(n) = Len(l) + Len(r) BY DEF Joined
<1>2. /\ \A i \in 1..Len(l) : i \in 1..Len(n)
      /\ \A i \in 1..Len(r) : Len(l) + i \in 1..Len(n)
  BY <1>1
<1> QED BY <1>2 DEF Joined

(* The same for parts with an element between them.                        *)
LEMMA JoinedAtParts ==
  ASSUME NEW n, NEW l, NEW r, NEW k, JoinedAt(n, l, r, k), Len(l) \in Nat, Len(r) \in Nat
  PROVE  /\ \A i \in 1..Len(l) : i \in 1..Len(n) /\ l[i] = n[i]
         /\ \A i \in 1..Len(r) : Len(l) + 1 + i \in 1..Len(n) /\ r[i] = n[Len(l) + 1 + i]
<1>1. Len(n) = Len(l) + 1 + Len(r) BY DEF JoinedAt
<1>2. /\ \A i \in 1..Len(l) : i \in 1..Len(n)
      /\ \A i \in 1..Len(r) : Len(l) + 1 + i \in 1..Len(n)
  BY <1>1
<1> QED BY <1>2 DEF JoinedAt

(* The halves of a node are on their sides of the key it is cut at.        *)
LEMMA CutWithin ==
  ASSUME NEW n, NEW lo \in Bounds, NEW hi \in Bounds, Within(n, lo, hi),
         NEW l, NEW r, NEW k \in Key, Halves(n, l, r, k), Above(lo, k), Below(k, hi)
  PROVE  Within(l, lo, {k}) /\ Within(r, {k}, hi)
<1>1. /\ n \in WellShaped /\ l \in WellShaped /\ r \in WellShaped
      /\ l.node_type = n.node_type /\ r.node_type = n.node_type
      /\ Ordered(n.keys)
  BY DEF Within, Halves
<1>2. /\ n.keys \in Seq(Key) /\ l.keys \in Seq(Key) /\ r.keys \in Seq(Key)
      /\ DOMAIN l.keys = 1..Len(l.keys) /\ DOMAIN r.keys = 1..Len(r.keys)
      /\ Len(l.keys) \in Nat /\ Len(r.keys) \in Nat
  BY <1>1, NodeParts
<1>3. /\ \A m \in {k} : Below(m, hi)
      /\ \A m \in lo : Below(m, {k})
  BY DEF Above, Below
<1>4. CASE IsLeaf(n)
  <2>1. IsLeaf(l) /\ IsLeaf(r) BY <1>1, <1>4 DEF IsLeaf
  <2>2. ~IsInternal(l) /\ ~IsInternal(r) BY <1>1, <2>1, NodeParts
  <2> Joined(n.keys, l.keys, r.keys) BY <1>4 DEF Halves
  <2>3. /\ \A i \in 1..Len(l.keys) : l.keys[i] < k
        /\ \A i \in 1..Len(r.keys) : k <= r.keys[i]
    BY <1>2, <1>4 DEF Halves
  <2>4. Ordered(l.keys) /\ Ordered(r.keys) BY <1>1, <1>2, JoinedOrdered
  <2> Len(l.keys) \in Nat /\ Len(r.keys) \in Nat BY <1>2
  <2>5. /\ \A i \in 1..Len(l.keys) : i \in 1..Len(n.keys) /\ l.keys[i] = n.keys[i]
        /\ \A i \in 1..Len(r.keys) : Len(l.keys) + i \in 1..Len(n.keys)
                                      /\ r.keys[i] = n.keys[Len(l.keys) + i]
    <3> DEFINE a == n.keys
               b == l.keys
               d == r.keys
    <3>1. Joined(a, b, d) /\ Len(b) \in Nat /\ Len(d) \in Nat OBVIOUS
    <3> HIDE DEF a, b, d
    <3>2. /\ \A i \in 1..Len(b) : i \in 1..Len(a) /\ b[i] = a[i]
          /\ \A i \in 1..Len(d) : Len(b) + i \in 1..Len(a) /\ d[i] = a[Len(b) + i]
      BY <3>1, JoinedParts
    <3> QED BY <3>2 DEF a, b, d
  <2>7. \A i \in 1..Len(l.keys) : AtLeast(lo, l.keys[i]) BY <1>4, <2>5 DEF Within
  <2>8. \A i \in 1..Len(r.keys) : Below(r.keys[i], hi) BY <2>5 DEF Within
  <2>9. \A i \in 1..Len(l.keys) : Below(l.keys[i], {k}) BY <2>3 DEF Below
  <2>10. \A i \in 1..Len(r.keys) : AtLeast({k}, r.keys[i]) BY <2>3 DEF AtLeast
  <2> QED BY <1>1, <1>3, <2>1, <2>2, <2>4, <2>7, <2>8, <2>9, <2>10 DEF Within
<1>5. CASE IsInternal(n)
  <2>1. IsInternal(l) /\ IsInternal(r) BY <1>1, <1>5 DEF IsInternal
  <2>2. ~IsLeaf(l) /\ ~IsLeaf(r) BY <1>1, <2>1, NodeParts
  <2>3. JoinedAt(n.keys, l.keys, r.keys, k) BY <1>5 DEF Halves
  <2>4. /\ Ordered(l.keys) /\ Ordered(r.keys)
        /\ \A i \in 1..Len(l.keys) : l.keys[i] < k
        /\ \A i \in 1..Len(r.keys) : k < r.keys[i]
    BY <1>1, <1>2, <2>3, JoinedAtOrdered
  <2>5. \A i \in 1..Len(l.keys) : i \in 1..Len(n.keys) /\ l.keys[i] = n.keys[i]
    BY <1>2, <2>3, JoinedAtParts
  <2>6. \A i \in 1..Len(r.keys) : /\ Len(l.keys) + 1 + i \in 1..Len(n.keys)
                                  /\ r.keys[i] = n.keys[Len(l.keys) + 1 + i]
    BY <1>2, <2>3, JoinedAtParts, SMTT(20)
  <2>7. \A i \in 1..Len(l.keys) : Above(lo, l.keys[i]) BY <1>5, <2>5 DEF Within
  <2>8. \A i \in 1..Len(r.keys) : Below(r.keys[i], hi) BY <2>6 DEF Within
  <2>9. \A i \in 1..Len(l.keys) : Below(l.keys[i], {k}) BY <2>4 DEF Below
  <2>10. \A i \in 1..Len(r.keys) : Above({k}, r.keys[i]) BY <2>4 DEF Above
  <2> QED BY <1>1, <1>3, <2>1, <2>2, <2>4, <2>7, <2>8, <2>9, <2>10 DEF Within
<1> QED BY <1>1, <1>4, <1>5, NodeParts

(* Two nodes on the two sides of a key are halves of one between the outer *)
(* bounds.                                                                 *)
LEMMA JoinWithin ==
  ASSUME NEW n \in WellShaped, NEW lo \in Bounds, NEW hi \in Bounds,
         NEW l, NEW r, NEW k \in Key, Within(l, lo, {k}), Within(r, {k}, hi),
         Halves(n, l, r, k), Above(lo, k), Below(k, hi)
  PROVE  Within(n, lo, hi)
<1>1. /\ l \in WellShaped /\ r \in WellShaped
      /\ l.node_type = n.node_type /\ r.node_type = n.node_type
      /\ Ordered(l.keys) /\ Ordered(r.keys)
  BY DEF Within, Halves
<1>2. /\ n.keys \in Seq(Key) /\ l.keys \in Seq(Key) /\ r.keys \in Seq(Key)
      /\ \A i \in 1..Len(l.keys) : l.keys[i] \in Int
      /\ \A i \in 1..Len(r.keys) : r.keys[i] \in Int
  BY <1>1, NodeParts
<1>3. \A a, b, c \in Int : /\ a < b /\ b < c => a < c
                           /\ a < b /\ b <= c => a < c
                           /\ a < b /\ b <= c => a <= c
  OBVIOUS
<1>4. /\ k \in Int /\ \A m \in lo : m \in Int /\ m < k
      /\ \A m \in hi : m \in Int /\ k < m
  BY BoundsType, KeyAssumption DEF Above, Below
<1>5. \A m \in lo : Below(m, hi) BY <1>3, <1>4 DEF Below
<1>6. \A i \in 1..Len(l.keys) : l.keys[i] < k BY DEF Within, Below
<1>7. \A i \in 1..Len(l.keys) : Below(l.keys[i], hi) BY <1>2, <1>3, <1>4, <1>6 DEF Below
<1>8. \A i \in 1..Len(r.keys) : Below(r.keys[i], hi) BY DEF Within
<1>9. CASE IsLeaf(n)
  <2>1. IsLeaf(l) /\ IsLeaf(r) /\ ~IsInternal(n) BY <1>1, <1>9, NodeParts DEF IsLeaf
  <2>2. Joined(n.keys, l.keys, r.keys) BY <1>9 DEF Halves
  <2>3. \A i \in 1..Len(r.keys) : k <= r.keys[i] BY <2>1 DEF Within, AtLeast
  <2>4. /\ Ordered(n.keys)
        /\ \A i \in 1..Len(n.keys) : \/ \E j \in 1..Len(l.keys) : n.keys[i] = l.keys[j]
                                     \/ \E j \in 1..Len(r.keys) : n.keys[i] = r.keys[j]
    BY <1>1, <1>2, <1>6, <2>2, <2>3, OrderedJoined
  <2>5. \A i \in 1..Len(l.keys) : AtLeast(lo, l.keys[i]) BY <2>1 DEF Within
  <2>6. \A i \in 1..Len(r.keys) : AtLeast(lo, r.keys[i])
    BY <1>2, <1>3, <1>4, <2>3 DEF AtLeast
  <2> QED BY <1>5, <1>7, <1>8, <2>1, <2>4, <2>5, <2>6 DEF Within
<1>10. CASE IsInternal(n)
  <2>1. IsInternal(l) /\ IsInternal(r) /\ ~IsLeaf(n) BY <1>1, <1>10, NodeParts DEF IsInternal
  <2>2. JoinedAt(n.keys, l.keys, r.keys, k) BY <1>10 DEF Halves
  <2>3. \A i \in 1..Len(r.keys) : k < r.keys[i] BY <2>1 DEF Within, Above
  <2>4. /\ Ordered(n.keys)
        /\ \A i \in 1..Len(n.keys) : \/ n.keys[i] = k
                                     \/ \E j \in 1..Len(l.keys) : n.keys[i] = l.keys[j]
                                     \/ \E j \in 1..Len(r.keys) : n.keys[i] = r.keys[j]
    BY <1>1, <1>2, <1>6, <2>2, <2>3, OrderedJoinedAt, SMTT(20)
  <2>5. \A i \in 1..Len(l.keys) : Above(lo, l.keys[i]) BY <2>1 DEF Within
  <2>6. \A i \in 1..Len(r.keys) : Above(lo, r.keys[i])
    BY <1>2, <1>3, <1>4, <2>3 DEF Above
  <2> QED BY <1>5, <1>7, <1>8, <2>1, <2>4, <2>5, <2>6 DEF Within
<1> QED BY <1>9, <1>10, NodeParts

(* A parent takes a separator between the ones around it.                  *)
LEMMA AddWithin ==
  ASSUME NEW n, NEW lo \in Bounds, NEW hi \in Bounds, Within(n, lo, hi),
         NEW i \in 1..(Len(n.keys) + 1), NEW k \in Key, NEW q, NEW m, ChildAdded(n, i, k, q, m),
         Above(LowOf(n, lo, i), k), Below(k, HighOf(n, hi, i))
  PROVE  Within(m, lo, hi)
<1>1. /\ m \in WellShaped /\ n \in WellShaped /\ IsInternal(n) /\ IsInternal(m)
      /\ Inserted(m.keys, n.keys, i, k) /\ Ordered(n.keys)
  BY DEF ChildAdded, Within
<1>2. /\ m.keys \in Seq(Key) /\ n.keys \in Seq(Key) /\ ~IsLeaf(m)
      /\ Len(n.keys) \in Nat /\ DOMAIN n.keys = 1..Len(n.keys)
      /\ \A j \in 1..Len(n.keys) : n.keys[j] \in Int
  BY <1>1, NodeParts
<1>3. \A a, b, c \in Int : /\ a < b /\ b < c => a < c
  OBVIOUS
<1>4. k \in Int /\ \A b \in lo \cup hi : b \in Int BY BoundsType, KeyAssumption
<1>5. ASSUME NEW j \in 1..Len(n.keys) PROVE IF j < i THEN n.keys[j] < k ELSE k < n.keys[j]
  <2>1. CASE j < i
    <3>1. i # 1 /\ i - 1 \in 1..Len(n.keys) /\ (j < i - 1 \/ j = i - 1) BY <1>2, <2>1
    <3>2. n.keys[i - 1] < k BY <3>1 DEF LowOf, Above
    <3>3. j < i - 1 => n.keys[j] < n.keys[i - 1] BY <1>1, <1>2, <3>1 DEF Ordered
    <3> QED BY <1>2, <1>3, <1>4, <2>1, <3>1, <3>2, <3>3
  <2>2. CASE ~(j < i)
    <3>1. i # Len(n.keys) + 1 /\ i \in 1..Len(n.keys) /\ (i < j \/ j = i) BY <1>2, <2>2
    <3>2. k < n.keys[i] BY <3>1 DEF HighOf, Below
    <3>3. i < j => n.keys[i] < n.keys[j] BY <1>1, <1>2, <3>1 DEF Ordered
    <3> QED BY <1>2, <1>3, <1>4, <2>2, <3>1, <3>2, <3>3
  <2> QED BY <2>1, <2>2
<1>6. /\ Ordered(m.keys)
      /\ \A j \in 1..Len(m.keys) : m.keys[j] = k \/ \E h \in 1..Len(n.keys) : m.keys[j] = n.keys[h]
  BY <1>1, <1>2, <1>5, InsertedOrdered
<1>7. Above(lo, k)
  <2>1. CASE i = 1 BY <2>1 DEF LowOf
  <2>2. CASE i # 1
    <3>1. i - 1 \in 1..Len(n.keys) /\ i - 1 < i BY <1>2, <2>2
    <3>2. n.keys[i - 1] < k /\ Above(lo, n.keys[i - 1]) /\ n.keys[i - 1] \in Int
      BY <1>1, <1>2, <1>5, <3>1 DEF Within
    <3> QED BY <1>3, <1>4, <3>2 DEF Above
  <2> QED BY <2>1, <2>2
<1>8. Below(k, hi)
  <2>1. CASE i = Len(n.keys) + 1 BY <2>1 DEF HighOf
  <2>2. CASE i # Len(n.keys) + 1
    <3>1. i \in 1..Len(n.keys) /\ ~(i < i) BY <1>2, <2>2
    <3>2. k < n.keys[i] /\ Below(n.keys[i], hi) /\ n.keys[i] \in Int
      BY <1>1, <1>2, <1>5, <3>1 DEF Within
    <3> QED BY <1>3, <1>4, <3>2 DEF Below
  <2> QED BY <2>1, <2>2
<1>9. /\ \A j \in 1..Len(n.keys) : Below(n.keys[j], hi) /\ Above(lo, n.keys[j])
      /\ \A b \in lo : Below(b, hi)
  BY <1>1 DEF Within
<1> QED BY <1>1, <1>2, <1>6, <1>7, <1>8, <1>9 DEF Within

(* A parent that loses a separator keeps the others.                       *)
LEMMA RemoveWithin ==
  ASSUME NEW m, NEW lo, NEW hi, Within(m, lo, hi),
         NEW i \in 1..Len(m.keys), NEW k, NEW q, NEW n, ChildAdded(n, i, k, q, m)
  PROVE  Within(n, lo, hi)
<1>1. /\ m \in WellShaped /\ n \in WellShaped /\ IsInternal(n) /\ IsInternal(m)
      /\ Inserted(m.keys, n.keys, i, k) /\ Ordered(m.keys)
  BY DEF ChildAdded, Within
<1>2. m.keys \in Seq(Key) /\ n.keys \in Seq(Key) /\ ~IsLeaf(n)
  BY <1>1, NodeParts
<1>3. /\ Ordered(n.keys)
      /\ \A j \in 1..Len(n.keys) : \E h \in 1..Len(m.keys) : n.keys[j] = m.keys[h]
  BY <1>1, <1>2, RemovedOrdered
<1>4. /\ \A j \in 1..Len(m.keys) : Below(m.keys[j], hi) /\ Above(lo, m.keys[j])
      /\ \A b \in lo : Below(b, hi)
  BY <1>1 DEF Within
<1> QED BY <1>1, <1>2, <1>3, <1>4 DEF Within

(* The children of l, between lo and hi, are the ones of n from number o+1 *)
(* on, with the same bounds as there.                                      *)
ChildrenFrom(l, lo, hi, n, low, high, o) ==
  \A j \in 1..(Len(l.keys) + 1) :
    /\ o + j \in 1..(Len(n.keys) + 1)
    /\ l.child_ids[j] = n.child_ids[o + j]
    /\ LowOf(l, lo, j) = LowOf(n, low, o + j)
    /\ HighOf(l, hi, j) = HighOf(n, high, o + j)

(* Where the children of an inner node's halves are in the whole.          *)
LEMMA HalvesChildren ==
  ASSUME NEW n \in WellShaped, NEW l, NEW r, NEW k, Halves(n, l, r, k), IsInternal(n),
         NEW lo, NEW hi
  PROVE  /\ Len(l.keys) + 1 \in Nat /\ Len(l.keys) + 1 > 0 /\ Len(r.keys) \in Nat
         /\ IsInternal(l) /\ IsInternal(r)
         /\ ChildrenFrom(l, lo, {k}, n, lo, hi, 0)
         /\ ChildrenFrom(r, {k}, hi, n, lo, hi, Len(l.keys) + 1)
<1> DEFINE h == Len(l.keys) + 1
<1>1. /\ l \in WellShaped /\ r \in WellShaped /\ l.node_type = n.node_type
      /\ r.node_type = n.node_type /\ JoinedAt(n.keys, l.keys, r.keys, k)
      /\ Joined(n.child_ids, l.child_ids, r.child_ids)
  BY DEF Halves
<1>2. IsInternal(l) /\ IsInternal(r) BY <1>1 DEF IsInternal
<1>3. /\ Len(l.keys) \in Nat /\ Len(r.keys) \in Nat
      /\ Len(l.child_ids) = h /\ Len(r.child_ids) = Len(r.keys) + 1
  BY <1>1, <1>2, NodeParts
<1>4. h \in Nat /\ h > 0 BY <1>3
<1>5. Len(n.keys) = h + Len(r.keys) /\ n.keys[h] = k BY <1>1 DEF JoinedAt
<1>a. /\ Len(n.keys) \in Nat /\ Len(r.keys) \in Nat /\ h \in Nat /\ h > 0
      /\ Len(n.keys) = h + Len(r.keys)
  <2>1. Len(n.keys) \in Nat BY NodeParts
  <2> QED BY <1>3, <1>4, <1>5, <2>1
<1> DEFINE nk == n.keys
           lk == l.keys
           rk == r.keys
           nc == n.child_ids
           lc == l.child_ids
           rc == r.child_ids
<1>6. JoinedAt(nk, lk, rk, k) /\ Joined(nc, lc, rc) BY <1>1
<1>7. Len(lk) + 1 = h /\ Len(lk) \in Nat /\ Len(rk) \in Nat /\ Len(lc) = h /\ Len(rc) = Len(rk) + 1
  BY <1>3
<1> HIDE DEF h, nk, lk, rk, nc, lc, rc
<1>8. /\ \A i \in 1..Len(lk) : i \in 1..Len(nk) /\ lk[i] = nk[i]
      /\ \A i \in 1..Len(rk) : Len(lk) + 1 + i \in 1..Len(nk) /\ rk[i] = nk[Len(lk) + 1 + i]
  BY <1>6, <1>7, JoinedAtParts
<1>9. /\ \A i \in 1..Len(lc) : i \in 1..Len(nc) /\ lc[i] = nc[i]
      /\ \A i \in 1..Len(rc) : Len(lc) + i \in 1..Len(nc) /\ rc[i] = nc[Len(lc) + i]
  <2>1. Len(lc) \in Nat /\ Len(rc) \in Nat BY <1>4, <1>7
  <2> QED BY <1>6, <2>1, JoinedParts
<1>10. ASSUME NEW j \in 1..h
       PROVE  /\ j \in 1..(Len(n.keys) + 1)
              /\ l.child_ids[j] = n.child_ids[j]
              /\ LowOf(l, lo, j) = LowOf(n, lo, j)
              /\ HighOf(l, {k}, j) = HighOf(n, hi, j)
  <2>1. j \in 1..(Len(n.keys) + 1) /\ j # Len(n.keys) + 1 BY <1>a
  <2>2. lc[j] = nc[j] BY <1>7, <1>9
  <2>3. j # 1 => j - 1 \in 1..Len(lk) BY <1>7
  <2>4. j # 1 => lk[j - 1] = nk[j - 1] BY <1>8, <2>3
  <2>5. LowOf(l, lo, j) = LowOf(n, lo, j) BY <2>4 DEF LowOf, lk, nk
  <2>6. j = Len(lk) + 1 <=> j = h BY <1>7
  <2>7. j # h => j \in 1..Len(lk) BY <1>7
  <2>8. j # h => lk[j] = nk[j] BY <1>8, <2>7
  <2>9. HighOf(l, {k}, j) = HighOf(n, hi, j)
    BY <1>5, <2>1, <2>6, <2>8 DEF HighOf, lk, nk
  <2> QED BY <2>1, <2>2, <2>5, <2>9 DEF lc, nc
<1>11. ASSUME NEW j \in 1..(Len(r.keys) + 1)
       PROVE  /\ h + j \in 1..(Len(n.keys) + 1)
              /\ r.child_ids[j] = n.child_ids[h + j]
              /\ LowOf(r, {k}, j) = LowOf(n, lo, h + j)
              /\ HighOf(r, hi, j) = HighOf(n, hi, h + j)
  <2>1. h + j \in 1..(Len(n.keys) + 1) /\ h + j # 1 /\ (h + j) - 1 = h + (j - 1)
    BY <1>a
  <2>2. rc[j] = nc[h + j]
    <3>1. j \in 1..Len(rc) BY <1>7 DEF rk
    <3> QED BY <1>7, <1>9, <3>1
  <2>3. j # 1 => j - 1 \in 1..Len(rk) BY <1>7 DEF rk
  <2>4. j # 1 => rk[j - 1] = nk[h + (j - 1)] BY <1>7, <1>8, <2>3
  <2>5. j = 1 => h + (j - 1) = h BY <1>4
  <2>6. LowOf(r, {k}, j) = LowOf(n, lo, h + j)
    <3>1. j = 1 => nk[(h + j) - 1] = k BY <1>5, <2>1, <2>5 DEF nk
    <3>2. j # 1 => rk[j - 1] = nk[(h + j) - 1] BY <2>1, <2>4
    <3>3. LowOf(n, lo, h + j) = {nk[(h + j) - 1]}
      <4>1. h + j # 1 BY <2>1
      <4> DEFINE g == h + j
      <4> HIDE DEF g
      <4>2. g # 1 => LowOf(n, lo, g) = {n.keys[g - 1]} BY DEF LowOf
      <4> QED BY <4>1, <4>2 DEF g, nk
    <3>4. LowOf(r, {k}, j) = IF j = 1 THEN {k} ELSE {rk[j - 1]} BY DEF LowOf, rk
    <3>5. CASE j = 1 BY <3>1, <3>3, <3>4, <3>5
    <3>6. CASE j # 1 BY <3>2, <3>3, <3>4, <3>6
    <3> QED BY <3>5, <3>6
  <2>7. j = Len(r.keys) + 1 <=> h + j = Len(n.keys) + 1 BY <1>a
  <2>8. j # Len(r.keys) + 1 => j \in 1..Len(rk) BY <1>7 DEF rk
  <2>9. j # Len(r.keys) + 1 => rk[j] = nk[h + j] BY <1>7, <1>8, <2>8
  <2>10. HighOf(r, hi, j) = HighOf(n, hi, h + j) BY <2>7, <2>9 DEF HighOf, rk, nk
  <2> QED BY <2>1, <2>2, <2>6, <2>10 DEF rc, nc
<1>13. ChildrenFrom(l, lo, {k}, n, lo, hi, 0)
  <2>1. ASSUME NEW j \in 1..(Len(l.keys) + 1) PROVE j \in 1..h /\ 0 + j = j BY DEF h
  <2> QED BY <1>10, <2>1 DEF ChildrenFrom
<1>14. ChildrenFrom(r, {k}, hi, n, lo, hi, h) BY <1>11 DEF ChildrenFrom
<1> QED BY <1>2, <1>3, <1>4, <1>5, <1>13, <1>14 DEF h

(* The inner node m, between lo and hi, has the children of n with the     *)
(* bounds that they had there, but that the i-th now ends at the separator *)
(* k and q begins there.                                                   *)
ChildrenWith(n, i, k, q, m, lo, hi) ==
  /\ m.child_ids[i] = n.child_ids[i] /\ m.child_ids[i + 1] = q
  /\ LowOf(m, lo, i) = LowOf(n, lo, i) /\ HighOf(m, hi, i) = {k}
  /\ LowOf(m, lo, i + 1) = {k} /\ HighOf(m, hi, i + 1) = HighOf(n, hi, i)
  /\ \A j \in 1..(Len(n.keys) + 1) : j < i =>
       /\ m.child_ids[j] = n.child_ids[j]
       /\ LowOf(m, lo, j) = LowOf(n, lo, j) /\ HighOf(m, hi, j) = HighOf(n, hi, j)
  /\ \A j \in 1..(Len(n.keys) + 1) : i < j =>
       /\ m.child_ids[j + 1] = n.child_ids[j]
       /\ LowOf(m, lo, j + 1) = LowOf(n, lo, j) /\ HighOf(m, hi, j + 1) = HighOf(n, hi, j)

(* Where the children of a node are when one has been added.               *)
LEMMA AddedChildren ==
  ASSUME NEW n, NEW m, NEW i \in 1..(Len(n.keys) + 1), NEW k, NEW q, ChildAdded(n, i, k, q, m),
         NEW lo, NEW hi
  PROVE  ChildrenWith(n, i, k, q, m, lo, hi)
<1> DEFINE nk == n.keys
           mk == m.keys
           nc == n.child_ids
           mc == m.child_ids
           h == i + 1
<1>1. /\ m \in WellShaped /\ n \in WellShaped /\ IsInternal(n) /\ IsInternal(m)
      /\ Inserted(mk, nk, i, k) /\ Inserted(mc, nc, h, q)
  BY DEF ChildAdded
<1>2. Len(nk) \in Nat /\ Len(nc) = Len(nk) + 1 BY <1>1, NodeParts
<1>3. i \in 1..(Len(nk) + 1) /\ h = i + 1 OBVIOUS
<1> HIDE DEF nk, mk, nc, mc, h
<1>4. /\ Len(mk) = Len(nk) + 1 /\ mk[i] = k
      /\ \A j \in 1..Len(nk) : nk[j] = IF j < i THEN mk[j] ELSE mk[j + 1]
  BY <1>1 DEF Inserted
<1>5. /\ mc[h] = q
      /\ \A j \in 1..Len(nc) : nc[j] = IF j < h THEN mc[j] ELSE mc[j + 1]
  BY <1>1 DEF Inserted
<1>6. ASSUME NEW j \in 1..(Len(nk) + 1)
      PROVE  nc[j] = IF j <= i THEN mc[j] ELSE mc[j + 1]
  <2>1. j \in 1..Len(nc) /\ (j < h <=> j <= i) BY <1>2, <1>3
  <2> QED BY <1>5, <2>1
<1>7. mc[i] = nc[i] BY <1>2, <1>3, <1>6
<1>8. i # 1 => i - 1 \in 1..Len(nk) /\ i - 1 < i BY <1>2, <1>3
<1>9. i # 1 => nk[i - 1] = mk[i - 1] BY <1>4, <1>8
<1>10. LowOf(m, lo, i) = LowOf(n, lo, i) BY <1>9 DEF LowOf, nk, mk
<1>11. i # Len(mk) + 1 /\ h # 1 /\ h - 1 = i /\ (h = Len(mk) + 1 <=> i = Len(nk) + 1)
  BY <1>2, <1>3, <1>4
<1>12. HighOf(m, hi, i) = {k} BY <1>4, <1>11 DEF HighOf, mk
<1>13. LowOf(m, lo, h) = {k} BY <1>4, <1>11 DEF LowOf, mk
<1>14. i # Len(nk) + 1 => i \in 1..Len(nk) /\ ~(i < i) BY <1>2, <1>3
<1>15. i # Len(nk) + 1 => nk[i] = mk[h] BY <1>3, <1>4, <1>14
<1>16. HighOf(m, hi, h) = HighOf(n, hi, i) BY <1>11, <1>15 DEF HighOf, nk, mk
<1>17. ASSUME NEW j \in 1..(Len(nk) + 1), j < i
       PROVE  /\ mc[j] = nc[j]
              /\ LowOf(m, lo, j) = LowOf(n, lo, j) /\ HighOf(m, hi, j) = HighOf(n, hi, j)
  <2>1. /\ j <= i /\ j # Len(nk) + 1 /\ j # Len(mk) + 1 /\ j \in 1..Len(nk)
        /\ j # 1 => j - 1 \in 1..Len(nk) /\ j - 1 < i
    BY <1>2, <1>3, <1>4, <1>17
  <2>2. mc[j] = nc[j] BY <1>6, <2>1
  <2>3. j # 1 => nk[j - 1] = mk[j - 1] BY <1>4, <2>1
  <2>4. nk[j] = mk[j] BY <1>4, <1>17, <2>1
  <2> QED BY <2>1, <2>2, <2>3, <2>4 DEF LowOf, HighOf, nk, mk
<1>18. ASSUME NEW j \in 1..(Len(nk) + 1), i < j
       PROVE  /\ mc[j + 1] = nc[j]
              /\ LowOf(m, lo, j + 1) = LowOf(n, lo, j) /\ HighOf(m, hi, j + 1) = HighOf(n, hi, j)
  <2>1. /\ ~(j <= i) /\ j # 1 /\ j + 1 # 1 /\ j - 1 \in 1..Len(nk) /\ ~(j - 1 < i)
        /\ (j - 1) + 1 = j /\ (j + 1) - 1 = j
        /\ j + 1 = Len(mk) + 1 <=> j = Len(nk) + 1
        /\ j # Len(nk) + 1 => j \in 1..Len(nk) /\ ~(j < i)
    <3> Len(nk) \in Nat /\ Len(mk) = Len(nk) + 1 /\ i \in Nat /\ i >= 1 /\ i < j
      BY <1>2, <1>3, <1>4, <1>18
    <3> QED OBVIOUS
  <2>2. mc[j + 1] = nc[j] BY <1>6, <2>1
  <2>3. nk[j - 1] = mk[j] BY <1>4, <2>1
  <2>4. j # Len(nk) + 1 => nk[j] = mk[j + 1] BY <1>4, <2>1
  <2> QED BY <2>1, <2>2, <2>3, <2>4 DEF LowOf, HighOf, nk, mk
<1> QED BY <1>5, <1>7, <1>10, <1>12, <1>13, <1>16, <1>17, <1>18
        DEF nk, mk, nc, mc, h, ChildrenWith

-----------------------------------------------------------------------------
(* What holds anywhere in a tree.                                          *)

(* Types of a block's node and of its place; leaves are at height 0.       *)
LEMMA TreeNode ==
  ASSUME NEW B, NEW s, NEW root, Tree(B, s, root), NEW b \in DOMAIN B
  PROVE  /\ b \in BlockId /\ B[b] \in WellShaped /\ Ordered(B[b].keys)
         /\ NodeOK(B, s, b) /\ HasParent(B, s, root, b)
         /\ s.ht[b] \in Nat /\ s.par[b] \in Nat
         /\ s.lo[b] \in Bounds /\ s.hi[b] \in Bounds
         /\ \A m \in s.lo[b] \cup s.hi[b] : m \in Key /\ m \in Int
         /\ IsLeaf(B[b]) <=> s.ht[b] = 0
         /\ IsInternal(B[b]) <=> s.ht[b] > 0
<1>1. b \in BlockId /\ NodeOK(B, s, b) /\ HasParent(B, s, root, b) /\ s \in Places(B)
  BY DEF Tree
<1>2. /\ s.ht[b] \in Nat /\ s.par[b] \in Nat /\ s.lo[b] \in Bounds /\ s.hi[b] \in Bounds
  BY <1>1 DEF Places
<1>3. \A m \in s.lo[b] \cup s.hi[b] : m \in Key /\ m \in Int
  BY <1>2, KeyAssumption DEF Bounds
<1>4. B[b] \in WellShaped /\ Ordered(B[b].keys) BY <1>1 DEF NodeOK
<1>5. IsLeaf(B[b]) => s.ht[b] = 0 BY <1>1 DEF NodeOK, LeafOK
<1>6. IsInternal(B[b]) => s.ht[b] > 0 BY <1>1 DEF NodeOK, InnerOK
<1> QED BY <1>1, <1>2, <1>3, <1>4, <1>5, <1>6, NodeParts

(* A child of an inner node.                                               *)
LEMMA TreeChild ==
  ASSUME NEW B, NEW s, NEW root, Tree(B, s, root), NEW b \in DOMAIN B, IsInternal(B[b]),
         NEW i \in 1..(Len(B[b].keys) + 1)
  PROVE  LET c == B[b].child_ids[i]
         IN /\ c \in DOMAIN B /\ s.par[c] = b /\ s.ht[c] + 1 = s.ht[b] /\ c # b /\ c # root
            /\ s.lo[c] = LowOf(B[b], s.lo[b], i) /\ s.hi[c] = HighOf(B[b], s.hi[b], i)
            /\ c \in Allotted
<1> DEFINE c == B[b].child_ids[i]
<1>1. B[b] \in WellShaped /\ NodeOK(B, s, b) /\ b \in BlockId BY TreeNode
<1>2. i \in DOMAIN B[b].child_ids /\ c \in Allotted BY <1>1, NodeParts
<1>3. ChildOK(B, s, b, i) BY <1>1, <1>2 DEF NodeOK, InnerOK
<1>4. /\ c \in DOMAIN B /\ s.par[c] = b /\ s.ht[c] + 1 = s.ht[b]
      /\ s.lo[c] = LowOf(B[b], s.lo[b], i) /\ s.hi[c] = HighOf(B[b], s.hi[b], i)
  BY <1>3 DEF ChildOK
<1>5. c # b
  <2>1. s.ht[c] \in Nat BY <1>4, TreeNode
  <2> HIDE DEF c
  <2> QED BY <1>4, <2>1
<1>6. c # root
  <2>1. HasParent(B, s, root, c) BY <1>4, TreeNode
  <2> QED BY <1>1, <1>4, <2>1 DEF HasParent, BlockId, NoBlock
<1> QED BY <1>2, <1>4, <1>5, <1>6

(* The block a block's place names as its parent has it as a child.        *)
LEMMA TreeParent ==
  ASSUME NEW B, NEW s, NEW root, Tree(B, s, root), NEW c \in DOMAIN B,
         c # root \/ s.par[c] # NoBlock
  PROVE  /\ c # root /\ s.par[c] \in DOMAIN B /\ IsInternal(B[s.par[c]])
         /\ s.ht[c] < s.ht[root] /\ s.ht[c] + 1 = s.ht[s.par[c]]
         /\ \E i \in 1..(Len(B[s.par[c]].keys) + 1) : B[s.par[c]].child_ids[i] = c
<1>1. HasParent(B, s, root, c) BY TreeNode
<1>2. c # root /\ s.par[c] \in DOMAIN B /\ IsInternal(B[s.par[c]]) /\ s.ht[c] < s.ht[root]
  BY <1>1 DEF HasParent
<1> DEFINE p == s.par[c]
<1>3. DOMAIN B[p].child_ids = 1..(Len(B[p].keys) + 1)
  BY <1>2, TreeNode, NodeParts
<1>4. PICK i \in 1..(Len(B[p].keys) + 1) : B[p].child_ids[i] = c
  BY <1>1, <1>2, <1>3 DEF HasParent
<1>5. s.ht[c] + 1 = s.ht[p] BY <1>2, <1>4, TreeChild
<1> QED BY <1>2, <1>4, <1>5

(* No block is a child twice of one node.                                  *)
LEMMA ChildrenDistinct ==
  ASSUME NEW B, NEW s, NEW root, Tree(B, s, root), NEW b \in DOMAIN B, IsInternal(B[b]),
         NEW i \in 1..(Len(B[b].keys) + 1), NEW j \in 1..(Len(B[b].keys) + 1), i # j
  PROVE  B[b].child_ids[i] # B[b].child_ids[j]
<1>1. ASSUME NEW g \in 1..(Len(B[b].keys) + 1), NEW h \in 1..(Len(B[b].keys) + 1), g < h
      PROVE  B[b].child_ids[g] # B[b].child_ids[h]
  <2>1. /\ s.lo[B[b].child_ids[g]] = LowOf(B[b], s.lo[b], g)
        /\ s.lo[B[b].child_ids[h]] = LowOf(B[b], s.lo[b], h)
    BY TreeChild
  <2>2. /\ B[b] \in WellShaped /\ Ordered(B[b].keys) /\ NodeOK(B, s, b)
    BY TreeNode
  <2>3. /\ Len(B[b].keys) \in Nat /\ DOMAIN B[b].keys = 1..Len(B[b].keys)
        /\ \A m \in 1..Len(B[b].keys) : B[b].keys[m] \in Int
    BY <2>2, NodeParts
  <2>4. h - 1 \in 1..Len(B[b].keys) /\ LowOf(B[b], s.lo[b], h) = {B[b].keys[h - 1]}
    BY <1>1, <2>3 DEF LowOf
  <2>5. CASE g = 1
    <3>1. LowOf(B[b], s.lo[b], g) = s.lo[b] BY <2>5 DEF LowOf
    <3>2. Above(s.lo[b], B[b].keys[h - 1]) BY <2>2, <2>3, <2>4 DEF NodeOK, InnerOK
    <3>3. B[b].keys[h - 1] \notin s.lo[b]
      <4>1. \A a \in Int : ~(a < a) OBVIOUS
      <4>2. B[b].keys[h - 1] \in Int BY <2>3, <2>4
      <4> QED BY <3>2, <4>1, <4>2 DEF Above
    <3> QED BY <2>1, <2>4, <3>1, <3>3
  <2>6. CASE g # 1
    <3>1. g - 1 \in 1..Len(B[b].keys) /\ g - 1 < h - 1
          /\ LowOf(B[b], s.lo[b], g) = {B[b].keys[g - 1]}
      BY <1>1, <2>3, <2>6 DEF LowOf
    <3>2. B[b].keys[g - 1] < B[b].keys[h - 1] BY <2>2, <2>3, <2>4, <3>1 DEF Ordered
    <3>3. B[b].keys[g - 1] \in Int /\ B[b].keys[h - 1] \in Int BY <2>3, <2>4, <3>1
    <3>4. B[b].keys[g - 1] # B[b].keys[h - 1] BY <3>2, <3>3
    <3> QED BY <2>1, <2>4, <3>1, <3>4
  <2> QED BY <2>5, <2>6
<1>2. Len(B[b].keys) \in Nat BY TreeNode, NodeParts
<1>3. i < j \/ j < i BY <1>2
<1> QED BY <1>1, <1>3

(* Two leaves that begin, or that end, at the same bound are one.          *)
LEMMA LeavesDiffer ==
  ASSUME NEW B, NEW s, NEW root, Tree(B, s, root), NEW b \in DOMAIN B, NEW c \in DOMAIN B,
         s.ht[b] = 0, s.ht[c] = 0, s.lo[b] = s.lo[c] \/ s.hi[b] = s.hi[c]
  PROVE  b = c
<1>1. SUFFICES ASSUME b # c PROVE FALSE OBVIOUS
<1>2. EndsBefore(s.hi[b], s.lo[c]) \/ EndsBefore(s.hi[c], s.lo[b])
  BY <1>1 DEF Tree, LeavesApart
<1>3. \A d \in {b, c} : \A m \in s.lo[d] : \A h \in s.hi[d] : m < h /\ m \in Int /\ h \in Int
  BY TreeNode DEF NodeOK, Below
<1>4. CASE EndsBefore(s.hi[b], s.lo[c])
  <2>1. PICK h \in s.hi[b], m \in s.lo[c] : h <= m BY <1>4 DEF EndsBefore
  <2>2. CASE s.lo[b] = s.lo[c]
    <3>1. m < h /\ m \in Int /\ h \in Int BY <1>3, <2>1, <2>2
    <3> QED BY <2>1, <3>1
  <2>3. CASE s.hi[b] = s.hi[c]
    <3>1. m < h /\ m \in Int /\ h \in Int BY <1>3, <2>1, <2>3
    <3> QED BY <2>1, <3>1
  <2> QED BY <2>2, <2>3
<1>5. CASE EndsBefore(s.hi[c], s.lo[b])
  <2>1. PICK h \in s.hi[c], m \in s.lo[b] : h <= m BY <1>5 DEF EndsBefore
  <2>2. CASE s.lo[b] = s.lo[c]
    <3>1. m < h /\ m \in Int /\ h \in Int BY <1>3, <2>1, <2>2
    <3> QED BY <2>1, <3>1
  <2>3. CASE s.hi[b] = s.hi[c]
    <3>1. m < h /\ m \in Int /\ h \in Int BY <1>3, <2>1, <2>3
    <3> QED BY <2>1, <3>1
  <2> QED BY <2>2, <2>3
<1> QED BY <1>2, <1>4, <1>5

(* Where the next leaf is.                                                 *)
LEMMA NextLeaf ==
  ASSUME NEW B, NEW s, NEW root, Tree(B, s, root), NEW b \in DOMAIN B, s.ht[b] = 0
  PROVE  /\ s.hi[b] = {} => B[b].next_leaf = NoBlock
         /\ s.hi[b] # {} => /\ B[b].next_leaf \in DOMAIN B /\ s.ht[B[b].next_leaf] = 0
                            /\ s.lo[B[b].next_leaf] = s.hi[b]
<1>1. IsLeaf(B[b]) /\ NodeOK(B, s, b) BY TreeNode
<1> QED BY <1>1 DEF NodeOK, LeafOK

(* Two children of a node that are neighbours: the left one ends where the *)
(* right one begins, and if they are leaves it leads to it.                *)
LEMMA TreeNeighbours ==
  ASSUME NEW B, NEW s, NEW root, Tree(B, s, root), NEW p \in DOMAIN B, IsInternal(B[p]),
         NEW i \in 1..Len(B[p].keys)
  PROVE  LET l == B[p].child_ids[i]
             r == B[p].child_ids[i + 1]
             k == B[p].keys[i]
         IN /\ l \in DOMAIN B /\ r \in DOMAIN B /\ l # r /\ l # p /\ r # p /\ k \in Key
            /\ r # root /\ l # root /\ r \in Allotted
            /\ s.ht[l] = s.ht[r] /\ s.ht[l] + 1 = s.ht[p] /\ s.par[l] = p /\ s.par[r] = p
            /\ s.hi[l] = {k} /\ s.lo[r] = {k}
            /\ s.lo[l] = LowOf(B[p], s.lo[p], i)
            /\ s.hi[r] = HighOf(B[p], s.hi[p], i + 1)
            /\ B[l].node_type = B[r].node_type
            /\ IsLeaf(B[l]) => B[l].next_leaf = r
<1> DEFINE l == B[p].child_ids[i]
           j == i + 1
           r == B[p].child_ids[j]
           k == B[p].keys[i]
<1>1. B[p] \in WellShaped BY TreeNode
<1>2. /\ Len(B[p].keys) \in Nat /\ k \in Key /\ i \in 1..(Len(B[p].keys) + 1)
      /\ j \in 1..(Len(B[p].keys) + 1) /\ i # j
  BY <1>1, NodeParts
<1>3. /\ l \in DOMAIN B /\ l # p /\ l # root /\ s.ht[l] + 1 = s.ht[p] /\ s.par[l] = p
      /\ s.lo[l] = LowOf(B[p], s.lo[p], i) /\ s.hi[l] = HighOf(B[p], s.hi[p], i)
  BY <1>2, TreeChild
<1>4. s.hi[l] = {k} BY <1>2, <1>3 DEF HighOf
<1>5. j # 1 /\ j - 1 = i BY <1>2
<1>6. l # r
  <2> HIDE DEF j
  <2> QED BY <1>2, ChildrenDistinct
<1>7. /\ r \in DOMAIN B /\ r # p /\ r # root /\ s.ht[r] + 1 = s.ht[p] /\ s.par[r] = p
      /\ s.lo[r] = LowOf(B[p], s.lo[p], j) /\ s.hi[r] = HighOf(B[p], s.hi[p], j)
      /\ r \in Allotted
  <2> HIDE DEF j
  <2> QED BY <1>2, TreeChild
<1>8. s.lo[r] = {k} BY <1>5, <1>7 DEF LowOf
<1> HIDE DEF l, r, k, j
<1>9. s.ht[l] = s.ht[r]
  <2>1. s.ht[l] \in Nat /\ s.ht[r] \in Nat BY <1>3, <1>7, TreeNode
  <2> QED BY <1>3, <1>7, <2>1, SMTT(20)
<1>10. B[l].node_type = B[r].node_type
  <2>1. /\ B[l] \in WellShaped /\ B[r] \in WellShaped
        /\ IsLeaf(B[l]) <=> IsLeaf(B[r])
    BY <1>3, <1>7, <1>9, TreeNode
  <2>2. B[l].node_type \in {"Leaf", "Internal"} /\ B[r].node_type \in {"Leaf", "Internal"}
    BY <2>1 DEF WellShaped, Node
  <2> QED BY <2>1, <2>2 DEF IsLeaf
<1>11. ASSUME IsLeaf(B[l]) PROVE B[l].next_leaf = r
  <2>1. s.ht[l] = 0 /\ s.ht[r] = 0 BY <1>3, <1>9, <1>11, TreeNode
  <2>2. s.hi[l] # {} BY <1>4
  <2>3. l \in DOMAIN B BY <1>3
  <2>5. /\ B[l].next_leaf \in DOMAIN B /\ s.ht[B[l].next_leaf] = 0
        /\ s.lo[B[l].next_leaf] = s.hi[l]
    BY <2>1, <2>2, <2>3, NextLeaf
  <2>6. s.lo[B[l].next_leaf] = s.lo[r] /\ r \in DOMAIN B BY <1>4, <1>7, <1>8, <2>5
  <2> QED BY <2>1, <2>5, <2>6, LeavesDiffer, Zenon
<1> QED BY <1>2, <1>3, <1>4, <1>6, <1>7, <1>8, <1>9, <1>10, <1>11 DEF l, r, k, j

(* A node that is where it was, or has gone to another block and left its  *)
(* bounds to it, is in its place if its children and its next leaf are.    *)
LEMMA Moved ==
  ASSUME NEW B, NEW s, NEW root, Tree(B, s, root), NEW b \in DOMAIN B,
         NEW C, NEW t, NEW d, C[d] = B[b],
         t.ht[d] = s.ht[b], t.lo[d] = s.lo[b], t.hi[d] = s.hi[b],
         \A c \in DOMAIN B : s.par[c] = b =>
           /\ c \in DOMAIN C /\ t.par[c] = d
           /\ t.ht[c] = s.ht[c] /\ t.lo[c] = s.lo[c] /\ t.hi[c] = s.hi[c],
         s.ht[b] = 0 /\ s.hi[b] # {} =>
           LET e == B[b].next_leaf
           IN e \in DOMAIN C /\ t.ht[e] = 0 /\ t.lo[e] = s.hi[b]
  PROVE  NodeOK(C, t, d)
<1>1. NodeOK(B, s, b) /\ B[b] \in WellShaped BY TreeNode
<1>2. ASSUME IsLeaf(C[d]) PROVE LeafOK(C, t, d)
  <2>1. LeafOK(B, s, b) /\ s.ht[b] = 0 BY <1>1, <1>2 DEF NodeOK, LeafOK
  <2>2. IF t.hi[d] = {} THEN C[d].next_leaf = NoBlock
        ELSE /\ C[d].next_leaf \in DOMAIN C
             /\ t.ht[C[d].next_leaf] = 0
             /\ t.lo[C[d].next_leaf] = t.hi[d]
    BY <2>1 DEF LeafOK
  <2>3. t.ht[d] = 0 /\ \A i \in DOMAIN C[d].keys : AtLeast(t.lo[d], C[d].keys[i])
    BY <2>1 DEF LeafOK
  <2> QED BY <2>2, <2>3 DEF LeafOK
<1>3. ASSUME IsInternal(C[d]) PROVE InnerOK(C, t, d)
  <2>1. InnerOK(B, s, b) BY <1>1, <1>3 DEF NodeOK
  <2>2. ASSUME NEW i \in DOMAIN C[d].child_ids PROVE ChildOK(C, t, d, i)
    <3>1. ChildOK(B, s, b, i) BY <2>1, <2>2 DEF InnerOK
    <3> DEFINE c == B[b].child_ids[i]
    <3>2. /\ c \in DOMAIN B /\ s.par[c] = b /\ s.ht[c] + 1 = s.ht[b]
          /\ s.lo[c] = LowOf(B[b], s.lo[b], i) /\ s.hi[c] = HighOf(B[b], s.hi[b], i)
      BY <3>1 DEF ChildOK
    <3>3. /\ c \in DOMAIN C /\ t.par[c] = d
          /\ t.ht[c] = s.ht[c] /\ t.lo[c] = s.lo[c] /\ t.hi[c] = s.hi[c]
      BY <3>2
    <3>4. C[d].child_ids[i] = c OBVIOUS
    <3> HIDE DEF c
    <3> QED BY <3>2, <3>3, <3>4 DEF ChildOK
  <2> QED BY <2>1, <2>2 DEF InnerOK
<1>4. /\ \A i \in DOMAIN C[d].keys : Below(C[d].keys[i], t.hi[d])
      /\ \A m \in t.lo[d] : Below(m, t.hi[d])
      /\ Ordered(C[d].keys)
  BY <1>1 DEF NodeOK
<1> QED BY <1>1, <1>2, <1>3, <1>4 DEF NodeOK

(* A node of a tree is between its bounds.                                 *)
LEMMA TreeWithin ==
  ASSUME NEW B, NEW s, NEW root, Tree(B, s, root), NEW b \in DOMAIN B
  PROVE  Within(B[b], s.lo[b], s.hi[b])
<1>1. NodeOK(B, s, b) /\ B[b] \in WellShaped /\ DOMAIN B[b].keys = 1..Len(B[b].keys)
  BY TreeNode, NodeParts
<1>2. IsLeaf(B[b]) => LeafOK(B, s, b) BY <1>1 DEF NodeOK
<1>3. IsInternal(B[b]) => InnerOK(B, s, b) BY <1>1 DEF NodeOK
<1> QED BY <1>1, <1>2, <1>3 DEF NodeOK, LeafOK, InnerOK, Within

(* A node between its bounds, with its children or its next leaf in place. *)
LEMMA Placed ==
  ASSUME NEW C, NEW t, NEW d, Within(C[d], t.lo[d], t.hi[d]),
         IsLeaf(C[d]) =>
           /\ t.ht[d] = 0
           /\ t.hi[d] = {} => C[d].next_leaf = NoBlock
           /\ t.hi[d] # {} => /\ C[d].next_leaf \in DOMAIN C /\ t.ht[C[d].next_leaf] = 0
                              /\ t.lo[C[d].next_leaf] = t.hi[d],
         IsInternal(C[d]) =>
           /\ t.ht[d] > 0
           /\ \A i \in 1..(Len(C[d].keys) + 1) : ChildOK(C, t, d, i)
  PROVE  NodeOK(C, t, d)
<1>1. C[d] \in WellShaped /\ DOMAIN C[d].keys = 1..Len(C[d].keys)
  BY NodeParts DEF Within
<1>2. ASSUME IsLeaf(C[d]) PROVE LeafOK(C, t, d) BY <1>1, <1>2 DEF LeafOK, Within
<1>3. ASSUME IsInternal(C[d]) PROVE InnerOK(C, t, d)
  <2>1. DOMAIN C[d].child_ids = 1..(Len(C[d].keys) + 1) BY <1>1, <1>3, NodeParts
  <2>2. \A i \in DOMAIN C[d].child_ids : ChildOK(C, t, d, i) BY <1>3, <2>1
  <2>3. \A i \in DOMAIN C[d].keys : Above(t.lo[d], C[d].keys[i]) BY <1>1, <1>3 DEF Within
  <2> QED BY <1>3, <2>2, <2>3 DEF InnerOK
<1> QED BY <1>1, <1>2, <1>3 DEF NodeOK, Within

(* A block that is the child of its parent.                                *)
LEMMA Parented ==
  ASSUME NEW C, NEW t, NEW root, NEW d, d # root, NEW e, t.par[d] = e, e \in DOMAIN C,
         C[e] \in WellShaped, IsInternal(C[e]),
         \E j \in 1..(Len(C[e].keys) + 1) : C[e].child_ids[j] = d,
         t.ht[d] < t.ht[root]
  PROVE  HasParent(C, t, root, d)
<1>1. DOMAIN C[e].child_ids = 1..(Len(C[e].keys) + 1) BY NodeParts
<1> QED BY <1>1 DEF HasParent

(* Two leaves in different places, whichever of them is first.             *)
Apart(s, b, c) == EndsBefore(s.hi[b], s.lo[c]) \/ EndsBefore(s.hi[c], s.lo[b])

-----------------------------------------------------------------------------
(* How one tree becomes another.                                           *)

(* A leaf whose keys have changed, within its bounds.                      *)
LEMMA PutLeaf ==
  ASSUME NEW B, NEW s, NEW root, Tree(B, s, root), NEW x \in DOMAIN B, IsLeaf(B[x]),
         NEW C, DOMAIN C = DOMAIN B, \A b \in DOMAIN B \ {x} : C[b] = B[b],
         C[x] \in WellShaped, IsLeaf(C[x]), Ordered(C[x].keys),
         C[x].next_leaf = B[x].next_leaf,
         \A i \in 1..Len(C[x].keys) : AtLeast(s.lo[x], C[x].keys[i]) /\ Below(C[x].keys[i], s.hi[x])
  PROVE  Tree(C, s, root)
<1>1. DOMAIN C \subseteq BlockId /\ root \in DOMAIN C /\ s \in Places(B) /\ LeavesApart(B, s)
  BY DEF Tree
<1>2. s \in Places(C) /\ LeavesApart(C, s) BY <1>1 DEF Places, LeavesApart
<1>3. s.ht[x] = 0 /\ NodeOK(B, s, x) BY TreeNode
<1>4. ASSUME NEW b \in DOMAIN C PROVE NodeOK(C, s, b)
  <2>1. CASE b = x
    <3>1. DOMAIN C[x].keys = 1..Len(C[x].keys) BY NodeParts
    <3>2. /\ s.hi[x] = {} => B[x].next_leaf = NoBlock
          /\ s.hi[x] # {} => /\ B[x].next_leaf \in DOMAIN B /\ s.ht[B[x].next_leaf] = 0
                             /\ s.lo[B[x].next_leaf] = s.hi[x]
      BY <1>3, NextLeaf
    <3>3. LeafOK(C, s, x) BY <1>3, <3>1, <3>2 DEF LeafOK
    <3>4. ~IsInternal(C[x]) BY NodeParts
    <3>5. \A m \in s.lo[x] : Below(m, s.hi[x]) BY <1>3 DEF NodeOK
    <3> QED BY <2>1, <3>1, <3>3, <3>4, <3>5 DEF NodeOK
  <2>2. CASE b # x
    <3>1. b \in DOMAIN B /\ C[b] = B[b] BY <2>2
    <3>2. s.ht[b] = 0 /\ s.hi[b] # {} =>
            /\ B[b].next_leaf \in DOMAIN B /\ s.ht[B[b].next_leaf] = 0
            /\ s.lo[B[b].next_leaf] = s.hi[b]
      BY <3>1, NextLeaf
    <3> QED BY <3>1, <3>2, Moved
  <2> QED BY <2>1, <2>2
<1>5. ASSUME NEW b \in DOMAIN C PROVE HasParent(C, s, root, b)
  <2>1. HasParent(B, s, root, b) BY TreeNode
  <2>2. CASE b = root BY <2>1, <2>2 DEF HasParent
  <2>3. CASE b # root
    <3>1. s.par[b] \in DOMAIN B /\ IsInternal(B[s.par[b]]) BY <2>1, <2>3 DEF HasParent
    <3>2. s.par[b] # x BY <3>1, TreeNode, NodeParts
    <3>3. C[s.par[b]] = B[s.par[b]] BY <3>1, <3>2
    <3> QED BY <2>1, <2>3, <3>1, <3>3 DEF HasParent
  <2> QED BY <2>2, <2>3
<1> QED BY <1>1, <1>2, <1>4, <1>5 DEF Tree

(* C is B with the i-th child x of p cut in two at the key k: its right    *)
(* half has gone to the block q, and p has it next to x.                   *)
CutIn(B, s, C, p, i, x, q, k) ==
  /\ p \in DOMAIN B /\ IsInternal(B[p])
  /\ i \in 1..(Len(B[p].keys) + 1) /\ x = B[p].child_ids[i]
  /\ q \in Allotted /\ q \notin DOMAIN B
  /\ DOMAIN C = DOMAIN B \cup {q}
  /\ \A b \in DOMAIN B \ {p, x} : C[b] = B[b]
  /\ k \in Key /\ Above(s.lo[x], k) /\ Below(k, s.hi[x])
  /\ Halves(B[x], C[x], C[q], k)
  /\ IsLeaf(B[x]) => C[x].next_leaf = q
  /\ ChildAdded(B[p], i, k, q, C[p])

(* It is a tree as well, and every block is at the height it was.          *)
LEMMA Cut ==
  ASSUME NEW B, NEW s, NEW root, Tree(B, s, root), NEW C,
         NEW p, NEW i, NEW x, NEW q, NEW k, CutIn(B, s, C, p, i, x, q, k)
  PROVE  \E t : Tree(C, t, root) /\ \A b \in DOMAIN B : t.ht[b] = s.ht[b]
<1>a. /\ p \in DOMAIN B /\ IsInternal(B[p]) /\ i \in 1..(Len(B[p].keys) + 1)
      /\ x = B[p].child_ids[i]
  BY DEF CutIn
<1>b. q \in Allotted /\ q \notin DOMAIN B /\ DOMAIN C = DOMAIN B \cup {q} BY DEF CutIn
<1>c. \A b \in DOMAIN B \ {p, x} : C[b] = B[b] BY DEF CutIn
<1>d. k \in Key /\ Above(s.lo[x], k) /\ Below(k, s.hi[x]) BY DEF CutIn
<1>e. Halves(B[x], C[x], C[q], k) /\ (IsLeaf(B[x]) => C[x].next_leaf = q) BY DEF CutIn
<1>f. ChildAdded(B[p], i, k, q, C[p]) BY DEF CutIn
<1> DEFINE T(b) == IsInternal(B[x]) /\ \E j \in 1..(Len(C[q].keys) + 1) : C[q].child_ids[j] = b
           t == [ ht  |-> [ b \in DOMAIN C |-> IF b = q THEN s.ht[x] ELSE s.ht[b] ],
                  par |-> [ b \in DOMAIN C |-> IF b = q THEN p ELSE IF T(b) THEN q ELSE s.par[b] ],
                  lo  |-> [ b \in DOMAIN C |-> IF b = q THEN {k} ELSE s.lo[b] ],
                  hi  |-> [ b \in DOMAIN C |-> IF b = q THEN s.hi[x]
                                               ELSE IF b = x THEN {k} ELSE s.hi[b] ] ]
<1>1. /\ x \in DOMAIN B /\ x # p /\ x # root /\ s.par[x] = p /\ s.ht[x] + 1 = s.ht[p]
      /\ s.lo[x] = LowOf(B[p], s.lo[p], i) /\ s.hi[x] = HighOf(B[p], s.hi[p], i)
      /\ q # x /\ q # p /\ q # root
  <2>1. /\ x \in DOMAIN B /\ x # p /\ x # root /\ s.par[x] = p /\ s.ht[x] + 1 = s.ht[p]
        /\ s.lo[x] = LowOf(B[p], s.lo[p], i) /\ s.hi[x] = HighOf(B[p], s.hi[p], i)
    BY <1>a, TreeChild
  <2>2. root \in DOMAIN B BY DEF Tree
  <2> QED BY <1>a, <1>b, <2>1, <2>2
<1>2. /\ B[x] \in WellShaped /\ s.ht[x] \in Nat /\ s.lo[x] \in Bounds /\ s.hi[x] \in Bounds
      /\ B[p] \in WellShaped /\ s.lo[p] \in Bounds /\ s.hi[p] \in Bounds /\ p \in Nat
      /\ \A b \in DOMAIN B : /\ s.ht[b] \in Nat /\ s.par[b] \in Nat
                             /\ s.lo[b] \in Bounds /\ s.hi[b] \in Bounds
  BY <1>a, <1>1, TreeNode DEF BlockId
<1>3. t \in Places(C)
  <2>1. t.ht \in [DOMAIN C -> Nat] BY <1>b, <1>2
  <2>2. t.par \in [DOMAIN C -> Nat] BY <1>b, <1>2 DEF Allotted
  <2>3. t.lo \in [DOMAIN C -> Bounds] /\ t.hi \in [DOMAIN C -> Bounds]
    BY <1>b, <1>d, <1>2, KeyBound
  <2> QED BY <2>1, <2>2, <2>3 DEF Places
<1>4. /\ \A b \in DOMAIN B : /\ b # q /\ t.ht[b] = s.ht[b] /\ t.lo[b] = s.lo[b]
                             /\ b # x => t.hi[b] = s.hi[b]
                             /\ T(b) => t.par[b] = q
                             /\ ~T(b) => t.par[b] = s.par[b]
      /\ t.ht[q] = s.ht[x] /\ t.lo[q] = {k} /\ t.hi[q] = s.hi[x] /\ t.hi[x] = {k} /\ t.par[q] = p
  BY <1>b, <1>1
<1> HIDE DEF t
<1>5. /\ Within(C[x], t.lo[x], t.hi[x]) /\ Within(C[q], t.lo[q], t.hi[q])
      /\ C[x].node_type = B[x].node_type /\ C[q].node_type = B[x].node_type
  <2>1. Within(B[x], s.lo[x], s.hi[x]) BY <1>1, TreeWithin
  <2>2. Within(C[x], s.lo[x], {k}) /\ Within(C[q], {k}, s.hi[x])
    BY <1>2, <1>d, <1>e, <2>1, CutWithin
  <2>3. t.lo[x] = s.lo[x] BY <1>1, <1>4
  <2> QED BY <1>e, <1>4, <2>2, <2>3 DEF Halves
<1>6. Within(C[p], t.lo[p], t.hi[p])
  <2>1. Within(B[p], s.lo[p], s.hi[p]) BY <1>a, TreeWithin
  <2>2. Within(C[p], s.lo[p], s.hi[p]) BY <1>a, <1>d, <1>f, <1>1, <1>2, <2>1, AddWithin
  <2> QED BY <1>a, <1>1, <1>4, <2>2
<1>7. /\ C[x] \in WellShaped /\ C[q] \in WellShaped /\ C[p] \in WellShaped /\ IsInternal(C[p])
      /\ Len(B[p].keys) \in Nat
  BY <1>e, <1>f, <1>2, NodeParts DEF Halves, ChildAdded
<1> DEFINE h == Len(C[x].keys) + 1
           old(j) == B[x].child_ids[j]
<1>8. ASSUME IsInternal(B[x])
      PROVE  /\ h \in Nat /\ h > 0 /\ Len(C[q].keys) \in Nat
             /\ \A j \in 1..h : /\ j \in 1..(Len(B[x].keys) + 1)
                                /\ C[x].child_ids[j] = old(j)
                                /\ LowOf(C[x], s.lo[x], j) = LowOf(B[x], s.lo[x], j)
                                /\ HighOf(C[x], {k}, j) = HighOf(B[x], s.hi[x], j)
             /\ \A j \in 1..(Len(C[q].keys) + 1) :
                                /\ h + j \in 1..(Len(B[x].keys) + 1)
                                /\ C[q].child_ids[j] = old(h + j)
                                /\ LowOf(C[q], {k}, j) = LowOf(B[x], s.lo[x], h + j)
                                /\ HighOf(C[q], s.hi[x], j) = HighOf(B[x], s.hi[x], h + j)
             /\ \A j \in 1..(Len(B[x].keys) + 1) : j \in 1..h \/ j - h \in 1..(Len(C[q].keys) + 1)
  <2>1. /\ h \in Nat /\ h > 0 /\ Len(C[q].keys) \in Nat /\ Len(B[x].keys) = h + Len(C[q].keys)
        /\ ChildrenFrom(C[x], s.lo[x], {k}, B[x], s.lo[x], s.hi[x], 0)
        /\ ChildrenFrom(C[q], {k}, s.hi[x], B[x], s.lo[x], s.hi[x], h)
    <3>1. B[x] \in WellShaped /\ IsInternal(B[x]) BY <1>2, <1>8
    <3>2. Halves(B[x], C[x], C[q], k) BY <1>e
    <3>3. ChildrenFrom(C[x], s.lo[x], {k}, B[x], s.lo[x], s.hi[x], 0) BY <3>1, <3>2, HalvesChildren
    <3>4. ChildrenFrom(C[q], {k}, s.hi[x], B[x], s.lo[x], s.hi[x], Len(C[x].keys) + 1)
      BY <3>1, <3>2, HalvesChildren
    <3>5. Len(C[q].keys) \in Nat BY <3>1, <3>2, HalvesChildren
    <3>6. h \in Nat /\ h > 0 BY <3>1, <3>2, HalvesChildren
    <3>7. Len(B[x].keys) = h + Len(C[q].keys) BY <3>1, <3>2 DEF Halves, JoinedAt
    <3> QED BY <3>3, <3>4, <3>5, <3>6, <3>7
  <2> DEFINE m == Len(B[x].keys)
             r == Len(C[q].keys)
  <2>2. /\ \A j \in 1..h : 0 + j = j
        /\ \A j \in 1..(m + 1) : j \in 1..h \/ j - h \in 1..(r + 1)
    <3>1. h \in Nat /\ h > 0 /\ r \in Nat /\ m = h + r BY <2>1
    <3> HIDE DEF h, m, r
    <3> QED BY <3>1
  <2>3. ASSUME NEW j \in 1..h
        PROVE  /\ j \in 1..(m + 1)
               /\ C[x].child_ids[j] = old(j)
               /\ LowOf(C[x], s.lo[x], j) = LowOf(B[x], s.lo[x], j)
               /\ HighOf(C[x], {k}, j) = HighOf(B[x], s.hi[x], j)
    <3>1. 0 + j = j /\ j \in 1..(Len(C[x].keys) + 1) BY <2>2
    <3> QED BY <2>1, <3>1 DEF ChildrenFrom, old
  <2> QED BY <2>1, <2>2, <2>3 DEF ChildrenFrom, old
<1> HIDE DEF h, old
<1>9. ASSUME NEW j \in 1..(Len(B[x].keys) + 1), IsInternal(B[x])
      PROVE  /\ old(j) \in DOMAIN B /\ s.par[old(j)] = x /\ s.ht[old(j)] + 1 = s.ht[x]
             /\ old(j) # x /\ old(j) # p /\ old(j) # root /\ old(j) # q
             /\ s.lo[old(j)] = LowOf(B[x], s.lo[x], j)
             /\ s.hi[old(j)] = HighOf(B[x], s.hi[x], j)
  <2>1. /\ old(j) \in DOMAIN B /\ s.par[old(j)] = x /\ s.ht[old(j)] + 1 = s.ht[x]
        /\ old(j) # x /\ old(j) # root
        /\ s.lo[old(j)] = LowOf(B[x], s.lo[x], j)
        /\ s.hi[old(j)] = HighOf(B[x], s.hi[x], j)
    BY <1>1, <1>9, TreeChild DEF old
  <2>2. old(j) # p
    <3>1. s.ht[x] \in Nat /\ s.ht[p] \in Nat /\ s.ht[x] + 1 = s.ht[p] BY <1>1, <1>2
    <3> QED BY <2>1, <3>1
  <2> QED BY <1>b, <2>1, <2>2
<1>10. ASSUME NEW b, T(b) PROVE b \in DOMAIN B /\ s.par[b] = x /\ b # root /\ IsInternal(B[x])
  <2>1. PICK j \in 1..(Len(C[q].keys) + 1) : C[q].child_ids[j] = b BY <1>10
  <2>2. IsInternal(B[x]) BY <1>10
  <2>3. b = old(h + j) /\ h + j \in 1..(Len(B[x].keys) + 1) BY <1>8, <2>1, <2>2
  <2> QED BY <1>9, <2>2, <2>3
<1>11. ASSUME NEW j \in 1..h, IsInternal(B[x]) PROVE ~T(C[x].child_ids[j])
  <2>1. SUFFICES ASSUME NEW g \in 1..(Len(C[q].keys) + 1), C[q].child_ids[g] = C[x].child_ids[j]
                 PROVE  FALSE
    OBVIOUS
  <2>2. old(h + g) = old(j) /\ h + g \in 1..(Len(B[x].keys) + 1) /\ j \in 1..(Len(B[x].keys) + 1)
    BY <1>8, <1>11, <2>1
  <2>3. h + g # j BY <1>8, <1>11
  <2> QED BY <1>1, <1>11, <2>2, <2>3, ChildrenDistinct DEF old
<1> HIDE DEF T
<1>12. NodeOK(C, t, x)
  <2>1. ASSUME IsLeaf(C[x])
        PROVE  /\ t.ht[x] = 0 /\ t.hi[x] # {}
               /\ C[x].next_leaf \in DOMAIN C /\ t.ht[C[x].next_leaf] = 0
               /\ t.lo[C[x].next_leaf] = t.hi[x]
    <3>1. IsLeaf(B[x]) BY <1>5, <2>1 DEF IsLeaf
    <3>2. s.ht[x] = 0 BY <1>1, <3>1, TreeNode
    <3> QED BY <1>b, <1>e, <1>1, <1>4, <3>1, <3>2
  <2>2. ASSUME IsInternal(C[x])
        PROVE  t.ht[x] > 0 /\ \A j \in 1..(Len(C[x].keys) + 1) : ChildOK(C, t, x, j)
    <3>1. IsInternal(B[x]) BY <1>5, <2>2 DEF IsInternal
    <3>2. s.ht[x] > 0 /\ t.ht[x] = s.ht[x] /\ t.lo[x] = s.lo[x] /\ t.hi[x] = {k}
      BY <1>1, <1>4, <3>1, TreeNode
    <3>3. ASSUME NEW j \in 1..(Len(C[x].keys) + 1) PROVE ChildOK(C, t, x, j)
      <4>1. j \in 1..h BY DEF h
      <4>2. /\ j \in 1..(Len(B[x].keys) + 1) /\ C[x].child_ids[j] = old(j)
            /\ LowOf(C[x], s.lo[x], j) = LowOf(B[x], s.lo[x], j)
            /\ HighOf(C[x], {k}, j) = HighOf(B[x], s.hi[x], j)
        BY <1>8, <3>1, <4>1
      <4>3. /\ old(j) \in DOMAIN B /\ s.par[old(j)] = x /\ s.ht[old(j)] + 1 = s.ht[x]
            /\ old(j) # x
            /\ s.lo[old(j)] = LowOf(B[x], s.lo[x], j)
            /\ s.hi[old(j)] = HighOf(B[x], s.hi[x], j)
        BY <1>9, <3>1, <4>2
      <4>4. ~T(old(j)) BY <1>11, <3>1, <4>1, <4>2
      <4>5. /\ old(j) \in DOMAIN C /\ t.par[old(j)] = x /\ t.ht[old(j)] = s.ht[old(j)]
            /\ t.lo[old(j)] = s.lo[old(j)] /\ t.hi[old(j)] = s.hi[old(j)]
        BY <1>b, <1>4, <4>3, <4>4
      <4> QED BY <3>2, <4>2, <4>3, <4>5 DEF ChildOK
    <3> QED BY <3>2, <3>3
  <2> QED BY <1>5, <2>1, <2>2, Placed
<1>13. NodeOK(C, t, q)
  <2>1. ASSUME IsLeaf(C[q])
        PROVE  /\ t.ht[q] = 0
               /\ t.hi[q] = {} => C[q].next_leaf = NoBlock
               /\ t.hi[q] # {} => /\ C[q].next_leaf \in DOMAIN C /\ t.ht[C[q].next_leaf] = 0
                                  /\ t.lo[C[q].next_leaf] = t.hi[q]
    <3>1. IsLeaf(B[x]) BY <1>5, <2>1 DEF IsLeaf
    <3>2. s.ht[x] = 0 BY <1>1, <3>1, TreeNode
    <3>3. C[q].next_leaf = B[x].next_leaf BY <1>e, <3>1 DEF Halves
    <3>4. /\ s.hi[x] = {} => B[x].next_leaf = NoBlock
          /\ s.hi[x] # {} => /\ B[x].next_leaf \in DOMAIN B /\ s.ht[B[x].next_leaf] = 0
                             /\ s.lo[B[x].next_leaf] = s.hi[x]
      BY <1>1, <3>2, NextLeaf
    <3> QED BY <1>b, <1>4, <3>2, <3>3, <3>4
  <2>2. ASSUME IsInternal(C[q])
        PROVE  t.ht[q] > 0 /\ \A j \in 1..(Len(C[q].keys) + 1) : ChildOK(C, t, q, j)
    <3>1. IsInternal(B[x]) BY <1>5, <2>2 DEF IsInternal
    <3>2. s.ht[x] > 0 /\ t.ht[q] = s.ht[x] /\ t.lo[q] = {k} /\ t.hi[q] = s.hi[x]
      BY <1>1, <1>4, <3>1, TreeNode
    <3>3. ASSUME NEW j \in 1..(Len(C[q].keys) + 1) PROVE ChildOK(C, t, q, j)
      <4>2. /\ h + j \in 1..(Len(B[x].keys) + 1) /\ C[q].child_ids[j] = old(h + j)
            /\ LowOf(C[q], {k}, j) = LowOf(B[x], s.lo[x], h + j)
            /\ HighOf(C[q], s.hi[x], j) = HighOf(B[x], s.hi[x], h + j)
        BY <1>8, <3>1
      <4>3. /\ old(h + j) \in DOMAIN B /\ s.ht[old(h + j)] + 1 = s.ht[x]
            /\ old(h + j) # x
            /\ s.lo[old(h + j)] = LowOf(B[x], s.lo[x], h + j)
            /\ s.hi[old(h + j)] = HighOf(B[x], s.hi[x], h + j)
        BY <1>9, <3>1, <4>2
      <4>4. T(old(h + j)) BY <3>1, <4>2 DEF T
      <4>5. /\ old(h + j) \in DOMAIN C /\ t.par[old(h + j)] = q
            /\ t.ht[old(h + j)] = s.ht[old(h + j)]
            /\ t.lo[old(h + j)] = s.lo[old(h + j)] /\ t.hi[old(h + j)] = s.hi[old(h + j)]
        BY <1>b, <1>4, <4>3, <4>4
      <4> QED BY <3>2, <4>2, <4>3, <4>5 DEF ChildOK
    <3> QED BY <3>2, <3>3
  <2> QED BY <1>5, <2>1, <2>2, Placed
<1>14. ASSUME NEW b \in DOMAIN B, s.par[b] = p
       PROVE  /\ b \in DOMAIN C /\ t.par[b] = p /\ t.ht[b] = s.ht[b] /\ t.lo[b] = s.lo[b]
              /\ b # x => t.hi[b] = s.hi[b]
  <2>1. ~T(b) BY <1>1, <1>10, <1>14
  <2> QED BY <1>b, <1>4, <1>14, <2>1
<1>15. /\ Len(C[p].keys) = Len(B[p].keys) + 1
       /\ C[p].child_ids[i] = x /\ C[p].child_ids[i + 1] = q
       /\ LowOf(C[p], s.lo[p], i) = LowOf(B[p], s.lo[p], i) /\ HighOf(C[p], s.hi[p], i) = {k}
       /\ LowOf(C[p], s.lo[p], i + 1) = {k}
       /\ HighOf(C[p], s.hi[p], i + 1) = HighOf(B[p], s.hi[p], i)
       /\ \A j \in 1..(Len(B[p].keys) + 1) : j < i =>
            /\ C[p].child_ids[j] = B[p].child_ids[j]
            /\ LowOf(C[p], s.lo[p], j) = LowOf(B[p], s.lo[p], j)
            /\ HighOf(C[p], s.hi[p], j) = HighOf(B[p], s.hi[p], j)
       /\ \A j \in 1..(Len(B[p].keys) + 1) : i < j =>
            /\ C[p].child_ids[j + 1] = B[p].child_ids[j]
            /\ LowOf(C[p], s.lo[p], j + 1) = LowOf(B[p], s.lo[p], j)
            /\ HighOf(C[p], s.hi[p], j + 1) = HighOf(B[p], s.hi[p], j)
  <2>1. i \in 1..(Len(B[p].keys) + 1) /\ x = B[p].child_ids[i] BY <1>a
  <2>2. Len(C[p].keys) = Len(B[p].keys) + 1 BY <1>f DEF ChildAdded, Inserted
  <2>3. ChildrenWith(B[p], i, k, q, C[p], s.lo[p], s.hi[p]) BY <1>f, <2>1, AddedChildren
  <2> QED BY <2>1, <2>2, <2>3 DEF ChildrenWith
<1>16. ASSUME NEW j \in 1..(Len(B[p].keys) + 1), j # i
       PROVE  LET c == B[p].child_ids[j]
              IN /\ c \in DOMAIN C /\ t.par[c] = p /\ t.ht[c] + 1 = t.ht[p]
                 /\ t.lo[c] = LowOf(B[p], s.lo[p], j) /\ t.hi[c] = HighOf(B[p], s.hi[p], j)
                 /\ c # x
  <2> DEFINE c == B[p].child_ids[j]
  <2>1. /\ c \in DOMAIN B /\ s.par[c] = p /\ s.ht[c] + 1 = s.ht[p]
        /\ s.lo[c] = LowOf(B[p], s.lo[p], j) /\ s.hi[c] = HighOf(B[p], s.hi[p], j)
    BY <1>a, TreeChild
  <2>2. c # x BY <1>a, <1>16, ChildrenDistinct
  <2> HIDE DEF c
  <2>3. /\ c \in DOMAIN C /\ t.par[c] = p /\ t.ht[c] = s.ht[c] /\ t.lo[c] = s.lo[c]
        /\ t.hi[c] = s.hi[c] /\ t.ht[p] = s.ht[p]
    BY <1>a, <1>4, <1>14, <2>1, <2>2
  <2> QED BY <2>1, <2>2, <2>3 DEF c
<1>17. NodeOK(C, t, p)
  <2>1. /\ ~IsLeaf(C[p]) /\ t.ht[p] = s.ht[p] /\ s.ht[p] > 0 /\ t.lo[p] = s.lo[p]
        /\ t.hi[p] = s.hi[p]
    <3>1. ~IsLeaf(C[p]) BY <1>7, NodeParts
    <3>2. s.ht[p] > 0 BY <1>a, TreeNode
    <3> QED BY <1>a, <1>1, <1>4, <3>1, <3>2
  <2>2. ASSUME NEW j \in 1..(Len(C[p].keys) + 1) PROVE ChildOK(C, t, p, j)
    <3>1. i \in Nat /\ Len(B[p].keys) \in Nat /\ Len(C[p].keys) = Len(B[p].keys) + 1
      BY <1>a, <1>7, <1>15
    <3>2. CASE j = i
      <4>1. x \in DOMAIN C /\ t.par[x] = p /\ t.ht[x] + 1 = t.ht[p]
        BY <1>1, <1>4, <1>14, <2>1
      <4>2. t.lo[x] = LowOf(C[p], t.lo[p], i) /\ t.hi[x] = HighOf(C[p], t.hi[p], i)
        BY <1>1, <1>4, <1>15, <2>1
      <4> QED BY <1>15, <3>2, <4>1, <4>2 DEF ChildOK
    <3>3. CASE j = i + 1
      <4>1. q \in DOMAIN C /\ t.par[q] = p /\ t.ht[q] + 1 = t.ht[p]
        BY <1>b, <1>1, <1>4, <2>1
      <4>2. t.lo[q] = LowOf(C[p], t.lo[p], i + 1) /\ t.hi[q] = HighOf(C[p], t.hi[p], i + 1)
        BY <1>1, <1>4, <1>15, <2>1
      <4> QED BY <1>15, <3>3, <4>1, <4>2 DEF ChildOK
    <3>4. CASE j < i
      <4>1. j \in 1..(Len(B[p].keys) + 1) /\ j # i BY <1>a, <3>1, <3>4
      <4>2. /\ C[p].child_ids[j] = B[p].child_ids[j]
            /\ LowOf(C[p], s.lo[p], j) = LowOf(B[p], s.lo[p], j)
            /\ HighOf(C[p], s.hi[p], j) = HighOf(B[p], s.hi[p], j)
        BY <1>15, <3>4, <4>1
      <4> QED BY <1>16, <2>1, <4>1, <4>2 DEF ChildOK
    <3>5. CASE i + 1 < j
      <4> DEFINE g == j - 1
      <4>1. g \in 1..(Len(B[p].keys) + 1) /\ g # i /\ i < g /\ g + 1 = j BY <1>a, <3>1, <3>5
      <4> HIDE DEF g
      <4>2. /\ C[p].child_ids[g + 1] = B[p].child_ids[g]
            /\ LowOf(C[p], s.lo[p], g + 1) = LowOf(B[p], s.lo[p], g)
            /\ HighOf(C[p], s.hi[p], g + 1) = HighOf(B[p], s.hi[p], g)
        BY <1>15, <4>1
      <4>3. ChildOK(C, t, p, g + 1) BY <1>16, <2>1, <4>1, <4>2 DEF ChildOK
      <4> QED BY <4>1, <4>3
    <3> QED BY <3>1, <3>2, <3>3, <3>4, <3>5
  <2> QED BY <1>6, <2>1, <2>2, Placed
<1>18. ASSUME NEW b \in DOMAIN B \ {p, x} PROVE NodeOK(C, t, b)
  <2>1. ASSUME NEW c \in DOMAIN B, s.par[c] = b
        PROVE  /\ c \in DOMAIN C /\ t.par[c] = b
               /\ t.ht[c] = s.ht[c] /\ t.lo[c] = s.lo[c] /\ t.hi[c] = s.hi[c]
    <3>1. ~T(c) /\ c # x BY <1>1, <1>10, <1>18, <2>1
    <3> QED BY <1>b, <1>4, <2>1, <3>1
  <2>2. s.ht[b] = 0 /\ s.hi[b] # {} =>
          /\ B[b].next_leaf \in DOMAIN B /\ s.ht[B[b].next_leaf] = 0
          /\ s.lo[B[b].next_leaf] = s.hi[b]
    BY NextLeaf
  <2>3. s.ht[b] = 0 /\ s.hi[b] # {} =>
          /\ B[b].next_leaf \in DOMAIN C /\ t.ht[B[b].next_leaf] = 0
          /\ t.lo[B[b].next_leaf] = s.hi[b]
    BY <1>b, <1>4, <2>2
  <2>4. /\ b \in DOMAIN B /\ C[b] = B[b] /\ t.ht[b] = s.ht[b] /\ t.lo[b] = s.lo[b]
        /\ t.hi[b] = s.hi[b]
    BY <1>c, <1>4
  <2> QED BY <2>1, <2>3, <2>4, Moved
<1>19. root \in DOMAIN B /\ root # x /\ root # q /\ t.ht[root] = s.ht[root]
  <2>1. root \in DOMAIN B BY DEF Tree
  <2> QED BY <1>1, <1>4, <2>1
<1>20. HasParent(C, t, root, root)
  <2>1. HasParent(B, s, root, root) BY <1>19, TreeNode
  <2>2. ~T(root) BY <1>10
  <2> QED BY <1>4, <1>19, <2>1, <2>2 DEF HasParent
<1>21. HasParent(C, t, root, q)
  <2>1. s.ht[x] < s.ht[root] /\ Len(C[p].keys) \in Nat BY <1>1, <1>7, <1>15, TreeParent
  <2>2. i + 1 \in 1..(Len(C[p].keys) + 1) /\ p \in DOMAIN C /\ t.par[q] = p /\ t.ht[q] < t.ht[root]
    BY <1>a, <1>b, <1>4, <1>7, <1>15, <1>19, <2>1
  <2> QED BY <1>7, <1>15, <1>19, <2>2, Parented
<1>22. ASSUME NEW b \in DOMAIN B, b # root PROVE HasParent(C, t, root, b)
  <2>1. /\ s.par[b] \in DOMAIN B /\ IsInternal(B[s.par[b]]) /\ s.ht[b] < s.ht[root]
        /\ \E j \in 1..(Len(B[s.par[b]].keys) + 1) : B[s.par[b]].child_ids[j] = b
    BY <1>22, TreeParent
  <2>2. t.ht[b] < t.ht[root] BY <1>4, <1>19, <2>1
  <2>3. CASE T(b)
    <3>1. /\ IsInternal(B[x]) /\ t.par[b] = q /\ q \in DOMAIN C
          /\ \E j \in 1..(Len(C[q].keys) + 1) : C[q].child_ids[j] = b
      BY <1>b, <1>4, <2>3 DEF T
    <3>2. IsInternal(C[q]) BY <1>5, <3>1 DEF IsInternal
    <3> QED BY <1>7, <1>22, <2>2, <3>1, <3>2, Parented
  <2>4. CASE ~T(b) /\ s.par[b] = x
    <3>1. t.par[b] = x /\ x \in DOMAIN C /\ IsInternal(B[x]) BY <1>b, <1>1, <1>4, <2>1, <2>4
    <3>2. IsInternal(C[x]) BY <1>5, <3>1 DEF IsInternal
    <3>3. PICK j \in 1..(Len(B[x].keys) + 1) : old(j) = b BY <2>1, <2>4 DEF old
    <3>4. j \in 1..h
      <4>1. SUFFICES ASSUME j - h \in 1..(Len(C[q].keys) + 1) PROVE FALSE BY <1>8, <3>1
      <4>2. h + (j - h) = j BY <1>8, <3>1
      <4>3. C[q].child_ids[j - h] = b BY <1>8, <3>1, <3>3, <4>1, <4>2
      <4> QED BY <2>4, <3>1, <4>1, <4>3 DEF T
    <3>5. j \in 1..(Len(C[x].keys) + 1) /\ C[x].child_ids[j] = b BY <1>8, <3>1, <3>3, <3>4 DEF h
    <3> QED BY <1>7, <1>22, <2>2, <3>1, <3>2, <3>5, Parented
  <2>5. CASE ~T(b) /\ s.par[b] = p
    <3>1. t.par[b] = p /\ p \in DOMAIN C BY <1>a, <1>b, <1>4, <2>5
    <3>2. PICK j \in 1..(Len(B[p].keys) + 1) : B[p].child_ids[j] = b BY <2>1, <2>5
    <3>3. \E g \in 1..(Len(C[p].keys) + 1) : C[p].child_ids[g] = b
      <4>1. /\ i \in Nat /\ Len(B[p].keys) \in Nat /\ Len(C[p].keys) = Len(B[p].keys) + 1
        BY <1>a, <1>7, <1>15
      <4>2. /\ j \in 1..(Len(C[p].keys) + 1) /\ j + 1 \in 1..(Len(C[p].keys) + 1)
            /\ (j < i \/ j = i \/ i < j)
        BY <4>1
      <4>3. C[p].child_ids[j] = b \/ C[p].child_ids[j + 1] = b BY <1>a, <1>15, <3>2, <4>2
      <4> QED BY <4>2, <4>3
    <3> QED BY <1>7, <1>22, <2>2, <3>1, <3>3, Parented
  <2>6. CASE ~T(b) /\ s.par[b] \notin {p, x}
    <3>1. /\ t.par[b] = s.par[b] /\ s.par[b] \in DOMAIN C /\ C[s.par[b]] = B[s.par[b]]
      BY <1>b, <1>c, <1>4, <2>1, <2>6
    <3>2. B[s.par[b]] \in WellShaped BY <2>1, TreeNode
    <3> QED BY <1>22, <2>1, <2>2, <3>1, <3>2, Parented
  <2> QED BY <2>3, <2>4, <2>5, <2>6
<1>23. \A b, c \in DOMAIN B : b # c /\ s.ht[b] = 0 /\ s.ht[c] = 0 => Apart(s, b, c)
  BY DEF Tree, LeavesApart, Apart
<1>24. ASSUME NEW b \in DOMAIN B, b # x, s.ht[b] = 0, s.ht[x] = 0
       PROVE  Apart(t, x, b) /\ Apart(t, q, b)
  <2>1. /\ t.lo[b] = s.lo[b] /\ t.hi[b] = s.hi[b] /\ t.lo[x] = s.lo[x] /\ t.hi[x] = {k}
        /\ t.lo[q] = {k} /\ t.hi[q] = s.hi[x]
    BY <1>1, <1>4, <1>24
  <2>2. \A m, g, d \in Int : m < g /\ g <= d => m <= d OBVIOUS
  <2>3. \A m, g, d \in Int : m <= g /\ g < d => m <= d OBVIOUS
  <2>4. /\ k \in Int
        /\ \A m \in s.lo[x] : m \in Int /\ m < k
        /\ \A m \in s.hi[x] : m \in Int /\ k < m
        /\ \A m \in s.lo[b] : m \in Int
        /\ \A m \in s.hi[b] : m \in Int
    BY <1>d, <1>2, BoundsType, KeyAssumption DEF Above, Below
  <2>5. CASE EndsBefore(s.hi[x], s.lo[b])
    <3>1. PICK m \in s.hi[x], g \in s.lo[b] : m <= g BY <2>5 DEF EndsBefore
    <3>2. k <= g BY <2>2, <2>4, <3>1
    <3>3. EndsBefore({k}, s.lo[b]) BY <3>1, <3>2 DEF EndsBefore
    <3> QED BY <2>1, <2>5, <3>3 DEF Apart
  <2>6. CASE EndsBefore(s.hi[b], s.lo[x])
    <3>1. PICK m \in s.hi[b], g \in s.lo[x] : m <= g BY <2>6 DEF EndsBefore
    <3>2. m <= k BY <2>3, <2>4, <3>1
    <3>3. EndsBefore(s.hi[b], {k}) BY <3>1, <3>2 DEF EndsBefore
    <3> QED BY <2>1, <2>6, <3>3 DEF Apart
  <2>7. Apart(s, x, b) BY <1>1, <1>23, <1>24
  <2> QED BY <2>5, <2>6, <2>7 DEF Apart
<1>25. Apart(t, x, q)
  <2>1. k <= k BY <1>d, KeyAssumption
  <2>2. EndsBefore({k}, {k}) BY <2>1 DEF EndsBefore
  <2> QED BY <1>4, <2>2 DEF Apart
<1>26. \A b, c : Apart(t, b, c) => Apart(t, c, b) BY DEF Apart
<1>27. ASSUME NEW b \in DOMAIN C, NEW c \in DOMAIN C, b # c, t.ht[b] = 0, t.ht[c] = 0
       PROVE  Apart(t, b, c)
  <2>1. CASE b \in DOMAIN B \ {x} /\ c \in DOMAIN B \ {x}
    <3>1. /\ s.ht[b] = 0 /\ s.ht[c] = 0 /\ t.lo[b] = s.lo[b] /\ t.hi[b] = s.hi[b]
          /\ t.lo[c] = s.lo[c] /\ t.hi[c] = s.hi[c]
      BY <1>4, <1>27, <2>1
    <3>2. Apart(s, b, c) BY <1>23, <1>27, <2>1, <3>1
    <3> QED BY <3>1, <3>2 DEF Apart
  <2>2. CASE b \in {x, q} /\ c \in DOMAIN B \ {x}
    <3>1. s.ht[c] = 0 /\ s.ht[x] = 0 BY <1>1, <1>4, <1>27, <2>2
    <3> QED BY <1>24, <2>2, <3>1
  <2>3. CASE c \in {x, q} /\ b \in DOMAIN B \ {x}
    <3>1. s.ht[b] = 0 /\ s.ht[x] = 0 BY <1>1, <1>4, <1>27, <2>3
    <3> QED BY <1>24, <1>26, <2>3, <3>1
  <2>4. CASE b \in {x, q} /\ c \in {x, q} BY <1>25, <1>26, <1>27, <2>4
  <2> QED BY <1>b, <2>1, <2>2, <2>3, <2>4
<1>28. LeavesApart(C, t) BY <1>27 DEF LeavesApart, Apart
<1>29. \A b \in DOMAIN C : NodeOK(C, t, b) /\ HasParent(C, t, root, b)
  BY <1>b, <1>12, <1>13, <1>17, <1>18, <1>20, <1>21, <1>22
<1>30. DOMAIN C \subseteq BlockId /\ root \in DOMAIN C
  <2>1. DOMAIN B \subseteq BlockId BY DEF Tree
  <2> QED BY <1>b, <1>19, <2>1 DEF Allotted, BlockId
<1>31. Tree(C, t, root) BY <1>3, <1>28, <1>29, <1>30 DEF Tree
<1> QED BY <1>4, <1>31

(* C is B with the child r of p joined to its left neighbour l, the i-th   *)
(* child: r is gone, and p has neither it nor the separator before it.     *)
JoinIn(B, C, p, i, l, r) ==
  /\ p \in DOMAIN B /\ IsInternal(B[p])
  /\ i \in 1..Len(B[p].keys) /\ l = B[p].child_ids[i] /\ r = B[p].child_ids[i + 1]
  /\ DOMAIN C = DOMAIN B \ {r}
  /\ \A b \in DOMAIN B \ {p, l, r} : C[b] = B[b]
  /\ C[l] \in WellShaped /\ Halves(C[l], B[l], B[r], B[p].keys[i])
  /\ ChildAdded(C[p], i, B[p].keys[i], r, B[p])

(* It is a tree as well, and every block left is at the height it was.     *)
LEMMA Join ==
  ASSUME NEW B, NEW s, NEW root, Tree(B, s, root), NEW C,
         NEW p, NEW i, NEW l, NEW r, JoinIn(B, C, p, i, l, r)
  PROVE  \E t : Tree(C, t, root) /\ \A b \in DOMAIN C : t.ht[b] = s.ht[b]
<1> DEFINE k == B[p].keys[i]
           t == [ ht  |-> [ b \in DOMAIN C |-> s.ht[b] ],
                  par |-> [ b \in DOMAIN C |-> IF s.par[b] = r THEN l ELSE s.par[b] ],
                  lo  |-> [ b \in DOMAIN C |-> s.lo[b] ],
                  hi  |-> [ b \in DOMAIN C |-> IF b = l THEN s.hi[r] ELSE s.hi[b] ] ]
<1>a. /\ p \in DOMAIN B /\ IsInternal(B[p]) /\ i \in 1..Len(B[p].keys)
      /\ l = B[p].child_ids[i] /\ r = B[p].child_ids[i + 1]
  BY DEF JoinIn
<1>b. DOMAIN C = DOMAIN B \ {r} BY DEF JoinIn
<1>c. \A b \in DOMAIN B \ {p, l, r} : C[b] = B[b] BY DEF JoinIn
<1>d. C[l] \in WellShaped /\ Halves(C[l], B[l], B[r], k) BY DEF JoinIn
<1>e. ChildAdded(C[p], i, k, r, B[p]) BY DEF JoinIn
<1>1. /\ l \in DOMAIN B /\ r \in DOMAIN B /\ l # r /\ l # p /\ r # p /\ k \in Key
      /\ r # root /\ l # root
      /\ s.ht[l] = s.ht[r] /\ s.ht[l] + 1 = s.ht[p] /\ s.par[l] = p /\ s.par[r] = p
      /\ s.hi[l] = {k} /\ s.lo[r] = {k}
      /\ s.lo[l] = LowOf(B[p], s.lo[p], i)
      /\ s.hi[r] = HighOf(B[p], s.hi[p], i + 1)
  BY <1>a, TreeNeighbours
<1>2. /\ B[l] \in WellShaped /\ B[r] \in WellShaped /\ B[p] \in WellShaped
      /\ \A b \in DOMAIN B : /\ s.ht[b] \in Nat /\ s.par[b] \in Nat
                             /\ s.lo[b] \in Bounds /\ s.hi[b] \in Bounds
      /\ l \in Nat
  BY <1>a, <1>1, TreeNode DEF BlockId
<1>3. t \in Places(C)
  <2>1. t.ht \in [DOMAIN C -> Nat] BY <1>b, <1>2
  <2>2. t.par \in [DOMAIN C -> Nat] BY <1>b, <1>2
  <2>3. t.lo \in [DOMAIN C -> Bounds] /\ t.hi \in [DOMAIN C -> Bounds] BY <1>b, <1>1, <1>2, SMTT(20)
  <2> QED BY <2>1, <2>2, <2>3 DEF Places
<1>4. /\ \A b \in DOMAIN C : /\ b \in DOMAIN B /\ b # r
                             /\ t.ht[b] = s.ht[b] /\ t.lo[b] = s.lo[b]
                             /\ b # l => t.hi[b] = s.hi[b]
                             /\ s.par[b] = r => t.par[b] = l
                             /\ s.par[b] # r => t.par[b] = s.par[b]
      /\ t.hi[l] = s.hi[r] /\ l \in DOMAIN C /\ p \in DOMAIN C
  BY <1>a, <1>b, <1>1, SMTT(20)
<1> HIDE DEF t, k
<1>5. /\ Within(C[l], t.lo[l], t.hi[l])
      /\ B[l].node_type = C[l].node_type /\ B[r].node_type = C[l].node_type
      /\ Above(s.lo[l], k) /\ Below(k, s.hi[r])
  <2>1. Within(B[l], s.lo[l], {k}) /\ Within(B[r], {k}, s.hi[r])
    <3>1. Within(B[l], s.lo[l], s.hi[l]) /\ Within(B[r], s.lo[r], s.hi[r]) BY <1>1, TreeWithin
    <3> QED BY <1>1, <3>1
  <2>2. Above(s.lo[l], k) /\ Below(k, s.hi[r]) BY <2>1 DEF Within, Above, Below
  <2>3. Within(C[l], s.lo[l], s.hi[r]) BY <1>d, <1>1, <1>2, <2>1, <2>2, JoinWithin
  <2> QED BY <1>d, <1>4, <2>2, <2>3 DEF Halves
<1>6. Within(C[p], t.lo[p], t.hi[p])
  <2>1. Within(B[p], s.lo[p], s.hi[p]) BY <1>a, TreeWithin
  <2>2. Within(C[p], s.lo[p], s.hi[p]) BY <1>a, <1>e, <2>1, RemoveWithin
  <2> QED BY <1>1, <1>4, <2>2
<1>7. /\ C[p] \in WellShaped /\ IsInternal(C[p]) /\ Len(C[p].keys) \in Nat
      /\ Len(B[p].keys) = Len(C[p].keys) + 1
  BY <1>e, NodeParts DEF ChildAdded, Inserted
<1> DEFINE h == Len(B[l].keys) + 1
           new(j) == C[l].child_ids[j]
<1>8. ASSUME IsInternal(C[l])
      PROVE  /\ h \in Nat /\ h > 0 /\ Len(B[r].keys) \in Nat
             /\ IsInternal(B[l]) /\ IsInternal(B[r])
             /\ \A j \in 1..h : /\ j \in 1..(Len(C[l].keys) + 1)
                                /\ B[l].child_ids[j] = new(j)
                                /\ LowOf(B[l], s.lo[l], j) = LowOf(C[l], s.lo[l], j)
                                /\ HighOf(B[l], {k}, j) = HighOf(C[l], s.hi[r], j)
             /\ \A j \in 1..(Len(B[r].keys) + 1) :
                                /\ h + j \in 1..(Len(C[l].keys) + 1)
                                /\ B[r].child_ids[j] = new(h + j)
                                /\ LowOf(B[r], {k}, j) = LowOf(C[l], s.lo[l], h + j)
                                /\ HighOf(B[r], s.hi[r], j) = HighOf(C[l], s.hi[r], h + j)
             /\ \A j \in 1..(Len(C[l].keys) + 1) : j \in 1..h \/ j - h \in 1..(Len(B[r].keys) + 1)
  <2>1. /\ h \in Nat /\ h > 0 /\ Len(B[r].keys) \in Nat /\ Len(C[l].keys) = h + Len(B[r].keys)
        /\ IsInternal(B[l]) /\ IsInternal(B[r])
        /\ ChildrenFrom(B[l], s.lo[l], {k}, C[l], s.lo[l], s.hi[r], 0)
        /\ ChildrenFrom(B[r], {k}, s.hi[r], C[l], s.lo[l], s.hi[r], h)
    <3>1. C[l] \in WellShaped /\ IsInternal(C[l]) BY <1>d, <1>8
    <3>2. Halves(C[l], B[l], B[r], k) BY <1>d
    <3>3. /\ ChildrenFrom(B[l], s.lo[l], {k}, C[l], s.lo[l], s.hi[r], 0)
          /\ ChildrenFrom(B[r], {k}, s.hi[r], C[l], s.lo[l], s.hi[r], Len(B[l].keys) + 1)
      BY <3>1, <3>2, HalvesChildren
    <3>4. /\ Len(B[l].keys) + 1 \in Nat /\ Len(B[l].keys) + 1 > 0 /\ Len(B[r].keys) \in Nat
          /\ IsInternal(B[l]) /\ IsInternal(B[r])
      BY <3>1, <3>2, HalvesChildren
    <3>5. Len(C[l].keys) = h + Len(B[r].keys) BY <3>1, <3>2 DEF Halves, JoinedAt
    <3> QED BY <3>3, <3>4, <3>5
  <2> DEFINE m == Len(C[l].keys)
             g == Len(B[r].keys)
  <2>2. /\ \A j \in 1..h : 0 + j = j
        /\ \A j \in 1..(m + 1) : j \in 1..h \/ j - h \in 1..(g + 1)
    <3>1. h \in Nat /\ h > 0 /\ g \in Nat /\ m = h + g BY <2>1
    <3> HIDE DEF h, m, g
    <3> QED BY <3>1
  <2>3. ASSUME NEW j \in 1..h
        PROVE  /\ j \in 1..(m + 1)
               /\ B[l].child_ids[j] = new(j)
               /\ LowOf(B[l], s.lo[l], j) = LowOf(C[l], s.lo[l], j)
               /\ HighOf(B[l], {k}, j) = HighOf(C[l], s.hi[r], j)
    <3>1. 0 + j = j /\ j \in 1..(Len(B[l].keys) + 1) BY <2>2
    <3> QED BY <2>1, <3>1 DEF ChildrenFrom
  <2> QED BY <2>1, <2>2, <2>3 DEF ChildrenFrom
<1> HIDE DEF h, new
<1>9. ASSUME NEW b \in {l, r}, IsInternal(B[b]), NEW j \in 1..(Len(B[b].keys) + 1)
      PROVE  LET c == B[b].child_ids[j]
             IN /\ c \in DOMAIN C /\ t.par[c] = l /\ t.ht[c] + 1 = t.ht[l]
                /\ t.lo[c] = LowOf(B[b], s.lo[b], j) /\ t.hi[c] = HighOf(B[b], s.hi[b], j)
  <2> DEFINE c == B[b].child_ids[j]
  <2>1. /\ c \in DOMAIN B /\ s.par[c] = b /\ s.ht[c] + 1 = s.ht[b]
        /\ s.lo[c] = LowOf(B[b], s.lo[b], j) /\ s.hi[c] = HighOf(B[b], s.hi[b], j)
    <3>1. b \in DOMAIN B BY <1>1
    <3> QED BY <1>9, <3>1, TreeChild
  <2> HIDE DEF c
  <2>2. c # l /\ c # r BY <1>1, <2>1
  <2>3. /\ c \in DOMAIN C /\ t.par[c] = l /\ t.ht[c] = s.ht[c] /\ t.lo[c] = s.lo[c]
        /\ t.hi[c] = s.hi[c] /\ t.ht[l] = s.ht[b]
    BY <1>b, <1>1, <1>4, <2>1, <2>2
  <2> QED BY <2>1, <2>3 DEF c
<1>10. NodeOK(C, t, l)
  <2>1. ASSUME IsLeaf(C[l])
        PROVE  /\ t.ht[l] = 0
               /\ t.hi[l] = {} => C[l].next_leaf = NoBlock
               /\ t.hi[l] # {} => /\ C[l].next_leaf \in DOMAIN C /\ t.ht[C[l].next_leaf] = 0
                                  /\ t.lo[C[l].next_leaf] = t.hi[l]
    <3>1. IsLeaf(B[l]) BY <1>5, <2>1 DEF IsLeaf
    <3>2. s.ht[l] = 0 /\ s.ht[r] = 0 BY <1>1, <3>1, TreeNode
    <3>3. C[l].next_leaf = B[r].next_leaf BY <1>d, <2>1 DEF Halves
    <3>4. /\ s.hi[r] = {} => B[r].next_leaf = NoBlock
          /\ s.hi[r] # {} => /\ B[r].next_leaf \in DOMAIN B /\ s.ht[B[r].next_leaf] = 0
                             /\ s.lo[B[r].next_leaf] = s.hi[r]
      BY <1>1, <3>2, NextLeaf
    <3>5. {k} # s.hi[r]
      <4>1. ~(k < k) BY <1>1, KeyAssumption
      <4> QED BY <1>5, <4>1 DEF Below
    <3>6. s.hi[r] # {} => B[r].next_leaf # r BY <1>1, <3>4, <3>5
    <3> QED BY <1>b, <1>4, <3>2, <3>3, <3>4, <3>6
  <2>2. ASSUME IsInternal(C[l])
        PROVE  t.ht[l] > 0 /\ \A j \in 1..(Len(C[l].keys) + 1) : ChildOK(C, t, l, j)
    <3>1. IsInternal(B[l]) /\ IsInternal(B[r]) BY <1>8, <2>2
    <3>2. t.ht[l] > 0 /\ t.lo[l] = s.lo[l] /\ t.hi[l] = s.hi[r] BY <1>1, <1>4, <3>1, TreeNode
    <3>3. ASSUME NEW j \in 1..(Len(C[l].keys) + 1) PROVE ChildOK(C, t, l, j)
      <4>1. CASE j \in 1..h
        <5>1. /\ B[l].child_ids[j] = new(j)
              /\ LowOf(B[l], s.lo[l], j) = LowOf(C[l], s.lo[l], j)
              /\ HighOf(B[l], {k}, j) = HighOf(C[l], s.hi[r], j)
          BY <1>8, <2>2, <4>1
        <5>2. j \in 1..(Len(B[l].keys) + 1) BY <4>1 DEF h
        <5>3. /\ new(j) \in DOMAIN C /\ t.par[new(j)] = l /\ t.ht[new(j)] + 1 = t.ht[l]
              /\ t.lo[new(j)] = LowOf(B[l], s.lo[l], j)
              /\ t.hi[new(j)] = HighOf(B[l], s.hi[l], j)
          BY <1>9, <3>1, <5>1, <5>2
        <5> QED BY <1>1, <3>2, <5>1, <5>3 DEF ChildOK, new
      <4>2. CASE j - h \in 1..(Len(B[r].keys) + 1)
        <5> DEFINE g == j - h
        <5>1. h + g = j /\ g \in 1..(Len(B[r].keys) + 1) BY <1>8, <2>2, <4>2
        <5> HIDE DEF g
        <5>2. /\ B[r].child_ids[g] = new(j)
              /\ LowOf(B[r], {k}, g) = LowOf(C[l], s.lo[l], j)
              /\ HighOf(B[r], s.hi[r], g) = HighOf(C[l], s.hi[r], j)
          BY <1>8, <2>2, <5>1
        <5>3. /\ new(j) \in DOMAIN C /\ t.par[new(j)] = l /\ t.ht[new(j)] + 1 = t.ht[l]
              /\ t.lo[new(j)] = LowOf(B[r], s.lo[r], g)
              /\ t.hi[new(j)] = HighOf(B[r], s.hi[r], g)
          BY <1>9, <3>1, <5>1, <5>2
        <5> QED BY <1>1, <3>2, <5>2, <5>3 DEF ChildOK, new
      <4> QED BY <1>8, <2>2, <4>1, <4>2
    <3> QED BY <3>2, <3>3
  <2> QED BY <1>5, <2>1, <2>2, Placed
<1>11. /\ B[p].child_ids[i] = C[p].child_ids[i]
       /\ LowOf(B[p], s.lo[p], i) = LowOf(C[p], s.lo[p], i)
       /\ HighOf(B[p], s.hi[p], i + 1) = HighOf(C[p], s.hi[p], i)
       /\ \A j \in 1..(Len(C[p].keys) + 1) : j < i =>
            /\ B[p].child_ids[j] = C[p].child_ids[j]
            /\ LowOf(B[p], s.lo[p], j) = LowOf(C[p], s.lo[p], j)
            /\ HighOf(B[p], s.hi[p], j) = HighOf(C[p], s.hi[p], j)
       /\ \A j \in 1..(Len(C[p].keys) + 1) : i < j =>
            /\ B[p].child_ids[j + 1] = C[p].child_ids[j]
            /\ LowOf(B[p], s.lo[p], j + 1) = LowOf(C[p], s.lo[p], j)
            /\ HighOf(B[p], s.hi[p], j + 1) = HighOf(C[p], s.hi[p], j)
  <2>1. i \in 1..(Len(C[p].keys) + 1) BY <1>a, <1>7
  <2>2. ChildrenWith(C[p], i, k, r, B[p], s.lo[p], s.hi[p]) BY <1>e, <2>1, AddedChildren
  <2> QED BY <2>2 DEF ChildrenWith
<1>12. ASSUME NEW j \in 1..(Len(B[p].keys) + 1), j # i, j # i + 1
       PROVE  LET c == B[p].child_ids[j]
              IN /\ c \in DOMAIN C /\ t.par[c] = p /\ t.ht[c] + 1 = t.ht[p]
                 /\ t.lo[c] = LowOf(B[p], s.lo[p], j) /\ t.hi[c] = HighOf(B[p], s.hi[p], j)
  <2> DEFINE c == B[p].child_ids[j]
             g == i + 1
  <2>1. /\ c \in DOMAIN B /\ s.par[c] = p /\ s.ht[c] + 1 = s.ht[p]
        /\ s.lo[c] = LowOf(B[p], s.lo[p], j) /\ s.hi[c] = HighOf(B[p], s.hi[p], j)
    BY <1>a, TreeChild
  <2>2. g \in 1..(Len(B[p].keys) + 1) /\ i \in 1..(Len(B[p].keys) + 1) /\ j # g
    BY <1>a, <1>7, <1>12
  <2>3. r = B[p].child_ids[g] BY <1>a
  <2> HIDE DEF g
  <2>4. c # l /\ c # r BY <1>a, <1>12, <2>2, <2>3, ChildrenDistinct
  <2> HIDE DEF c
  <2>5. /\ c \in DOMAIN C /\ t.par[c] = p /\ t.ht[c] = s.ht[c] /\ t.lo[c] = s.lo[c]
        /\ t.hi[c] = s.hi[c] /\ t.ht[p] = s.ht[p]
    BY <1>b, <1>1, <1>4, <2>1, <2>4
  <2> QED BY <2>1, <2>5 DEF c
<1>13. NodeOK(C, t, p)
  <2>1. /\ ~IsLeaf(C[p]) /\ t.ht[p] = s.ht[p] /\ s.ht[p] > 0 /\ t.lo[p] = s.lo[p]
        /\ t.hi[p] = s.hi[p]
    <3>1. ~IsLeaf(C[p]) BY <1>7, NodeParts
    <3>2. s.ht[p] > 0 BY <1>a, TreeNode
    <3> QED BY <1>1, <1>4, <3>1, <3>2
  <2>2. ASSUME NEW j \in 1..(Len(C[p].keys) + 1) PROVE ChildOK(C, t, p, j)
    <3>1. i \in Nat /\ Len(B[p].keys) \in Nat /\ Len(B[p].keys) = Len(C[p].keys) + 1
      BY <1>a, <1>7
    <3>2. CASE j = i
      <4>1. l \in DOMAIN C /\ t.par[l] = p /\ t.ht[l] + 1 = t.ht[p]
        BY <1>1, <1>4, <2>1
      <4>2. t.lo[l] = LowOf(C[p], t.lo[p], i) /\ t.hi[l] = HighOf(C[p], t.hi[p], i)
        BY <1>1, <1>4, <1>11, <2>1
      <4> QED BY <1>a, <1>11, <3>2, <4>1, <4>2 DEF ChildOK
    <3>3. CASE j < i
      <4>1. j \in 1..(Len(B[p].keys) + 1) /\ j # i /\ j # i + 1 BY <1>a, <3>1, <3>3
      <4>2. /\ B[p].child_ids[j] = C[p].child_ids[j]
            /\ LowOf(B[p], s.lo[p], j) = LowOf(C[p], s.lo[p], j)
            /\ HighOf(B[p], s.hi[p], j) = HighOf(C[p], s.hi[p], j)
        BY <1>11, <3>3
      <4> QED BY <1>12, <2>1, <4>1, <4>2 DEF ChildOK
    <3>4. CASE i < j
      <4> DEFINE g == j + 1
      <4>1. g \in 1..(Len(B[p].keys) + 1) /\ g # i /\ g # i + 1 BY <1>a, <3>1, <3>4
      <4>2. /\ B[p].child_ids[g] = C[p].child_ids[j]
            /\ LowOf(B[p], s.lo[p], g) = LowOf(C[p], s.lo[p], j)
            /\ HighOf(B[p], s.hi[p], g) = HighOf(C[p], s.hi[p], j)
        BY <1>11, <3>4
      <4> HIDE DEF g
      <4> QED BY <1>12, <2>1, <4>1, <4>2 DEF ChildOK
    <3> QED BY <3>1, <3>2, <3>3, <3>4
  <2> QED BY <1>6, <2>1, <2>2, Placed
<1>14. ASSUME NEW b \in DOMAIN C \ {p, l} PROVE NodeOK(C, t, b)
  <2>1. /\ b \in DOMAIN B /\ b # r /\ C[b] = B[b] /\ t.ht[b] = s.ht[b] /\ t.lo[b] = s.lo[b]
        /\ t.hi[b] = s.hi[b]
    BY <1>c, <1>4
  <2>2. ASSUME NEW c \in DOMAIN B, s.par[c] = b
        PROVE  /\ c \in DOMAIN C /\ t.par[c] = b
               /\ t.ht[c] = s.ht[c] /\ t.lo[c] = s.lo[c] /\ t.hi[c] = s.hi[c]
    <3>1. c # r /\ c # l BY <1>1, <1>14, <2>2
    <3> QED BY <1>b, <1>4, <2>1, <2>2, <3>1
  <2>3. ASSUME s.ht[b] = 0, s.hi[b] # {}
        PROVE  /\ B[b].next_leaf \in DOMAIN C /\ t.ht[B[b].next_leaf] = 0
               /\ t.lo[B[b].next_leaf] = s.hi[b]
    <3>1. /\ B[b].next_leaf \in DOMAIN B /\ s.ht[B[b].next_leaf] = 0
          /\ s.lo[B[b].next_leaf] = s.hi[b]
      BY <2>1, <2>3, NextLeaf
    <3>2. B[b].next_leaf # r
      <4>1. SUFFICES ASSUME B[b].next_leaf = r PROVE FALSE OBVIOUS
      <4>2. s.hi[b] = s.hi[l] /\ s.ht[l] = 0 BY <1>1, <3>1, <4>1
      <4>3. b = l BY <1>1, <2>1, <2>3, <4>2, LeavesDiffer
      <4> QED BY <1>14, <4>3
    <3> QED BY <1>b, <1>4, <3>1, <3>2
  <2> QED BY <2>1, <2>2, <2>3, Moved
<1>15. root \in DOMAIN B /\ root \in DOMAIN C /\ t.ht[root] = s.ht[root]
  <2>1. root \in DOMAIN B BY DEF Tree
  <2> QED BY <1>b, <1>1, <1>4, <2>1
<1>16. HasParent(C, t, root, root)
  <2>1. HasParent(B, s, root, root) BY <1>15, TreeNode
  <2>2. r # NoBlock BY <1>1, TreeNode DEF BlockId, NoBlock
  <2> QED BY <1>1, <1>4, <1>15, <2>1, <2>2 DEF HasParent
<1>17. ASSUME NEW b \in DOMAIN C, b # root PROVE HasParent(C, t, root, b)
  <2>1. /\ s.par[b] \in DOMAIN B /\ IsInternal(B[s.par[b]]) /\ s.ht[b] < s.ht[root]
        /\ \E j \in 1..(Len(B[s.par[b]].keys) + 1) : B[s.par[b]].child_ids[j] = b
    BY <1>4, <1>17, TreeParent
  <2>2. t.ht[b] < t.ht[root] BY <1>4, <1>15, <2>1
  <2>3. CASE s.par[b] \in {l, r}
    <3>1. t.par[b] = l /\ l \in DOMAIN C BY <1>4, <2>3
    <3>2. IsInternal(C[l]) BY <1>5, <2>1, <2>3 DEF IsInternal
    <3>3. PICK j \in 1..(Len(B[s.par[b]].keys) + 1) : B[s.par[b]].child_ids[j] = b BY <2>1
    <3>4. \E g \in 1..(Len(C[l].keys) + 1) : C[l].child_ids[g] = b
      <4>1. CASE s.par[b] = l
        <5>1. j \in 1..h BY <3>3, <4>1 DEF h
        <5> QED BY <1>8, <3>2, <3>3, <4>1, <5>1 DEF new
      <4>2. CASE s.par[b] = r BY <1>8, <3>2, <3>3, <4>2, ZenonT(40) DEF new
      <4> QED BY <2>3, <4>1, <4>2
    <3> QED BY <1>d, <1>17, <2>2, <3>1, <3>2, <3>4, Parented
  <2>4. CASE s.par[b] = p
    <3>1. t.par[b] = p /\ p \in DOMAIN C BY <1>1, <1>4, <2>4
    <3>2. PICK j \in 1..(Len(B[p].keys) + 1) : B[p].child_ids[j] = b BY <2>1, <2>4
    <3>3. \E g \in 1..(Len(C[p].keys) + 1) : C[p].child_ids[g] = b
      <4>1. i \in Nat /\ Len(C[p].keys) \in Nat /\ Len(B[p].keys) = Len(C[p].keys) + 1
            /\ i \in 1..Len(B[p].keys)
        BY <1>a, <1>7
      <4>2. j # i + 1 BY <1>a, <1>4, <3>2
      <4>3. CASE j <= i
        <5>1. j \in 1..(Len(C[p].keys) + 1) /\ (j < i \/ j = i) BY <4>1, <4>3
        <5> QED BY <1>11, <3>2, <5>1
      <4>4. CASE i + 1 < j
        <5> DEFINE g == j - 1
        <5>1. g \in 1..(Len(C[p].keys) + 1) /\ i < g /\ g + 1 = j BY <4>1, <4>4
        <5> HIDE DEF g
        <5> QED BY <1>11, <3>2, <5>1
      <4> QED BY <4>1, <4>2, <4>3, <4>4
    <3> QED BY <1>7, <1>17, <2>2, <3>1, <3>3, Parented
  <2>5. CASE s.par[b] \notin {p, l, r}
    <3>1. /\ t.par[b] = s.par[b] /\ s.par[b] \in DOMAIN C /\ C[s.par[b]] = B[s.par[b]]
      BY <1>b, <1>c, <1>4, <2>1, <2>5
    <3>2. B[s.par[b]] \in WellShaped BY <2>1, TreeNode
    <3> QED BY <1>17, <2>1, <2>2, <3>1, <3>2, Parented
  <2> QED BY <2>3, <2>4, <2>5
<1>18. \A b, c \in DOMAIN B : b # c /\ s.ht[b] = 0 /\ s.ht[c] = 0 => Apart(s, b, c)
  BY DEF Tree, LeavesApart, Apart
<1>19. ASSUME NEW c \in DOMAIN C, c # l, s.ht[c] = 0, s.ht[l] = 0 PROVE Apart(t, l, c)
  <2>1. /\ t.lo[c] = s.lo[c] /\ t.hi[c] = s.hi[c] /\ t.lo[l] = s.lo[l] /\ t.hi[l] = s.hi[r]
    BY <1>4, <1>19
  <2>2. \A m, d, g \in Int : ~(m <= d /\ d <= g /\ g < m) OBVIOUS
  <2>3. /\ k \in Int
        /\ \A m \in s.lo[c] : \A g \in s.hi[c] : m \in Int /\ g \in Int /\ m < g
    <3>1. c \in DOMAIN B BY <1>4
    <3>2. \A m \in s.lo[c] : Below(m, s.hi[c]) BY <3>1, TreeWithin DEF Within
    <3>3. \A m \in s.lo[c] \cup s.hi[c] : m \in Int BY <3>1, TreeNode
    <3> QED BY <1>1, <3>2, <3>3, KeyAssumption DEF Below
  <2>4. ~(EndsBefore(s.hi[c], {k}) /\ EndsBefore({k}, s.lo[c]))
    <3>1. SUFFICES ASSUME EndsBefore(s.hi[c], {k}), EndsBefore({k}, s.lo[c]) PROVE FALSE
      OBVIOUS
    <3>2. PICK m \in s.hi[c] : m <= k BY <3>1 DEF EndsBefore
    <3>3. PICK g \in s.lo[c] : k <= g BY <3>1 DEF EndsBefore
    <3>4. m \in Int /\ g \in Int /\ g < m BY <2>3, <3>2, <3>3
    <3> QED BY <2>2, <2>3, <3>2, <3>3, <3>4
  <2>5. Apart(s, l, c) /\ Apart(s, r, c) BY <1>1, <1>4, <1>18, <1>19
  <2> QED BY <1>1, <2>1, <2>4, <2>5 DEF Apart
<1>20. \A b, c : Apart(t, b, c) => Apart(t, c, b) BY DEF Apart
<1>21. ASSUME NEW b \in DOMAIN C, NEW c \in DOMAIN C, b # c, t.ht[b] = 0, t.ht[c] = 0
       PROVE  Apart(t, b, c)
  <2>1. s.ht[b] = 0 /\ s.ht[c] = 0 BY <1>4, <1>21
  <2>2. CASE b # l /\ c # l
    <3>1. /\ t.lo[b] = s.lo[b] /\ t.hi[b] = s.hi[b] /\ t.lo[c] = s.lo[c] /\ t.hi[c] = s.hi[c]
      BY <1>4, <2>2
    <3>2. Apart(s, b, c) BY <1>4, <1>18, <1>21, <2>1
    <3> QED BY <3>1, <3>2 DEF Apart
  <2>3. CASE b = l BY <1>19, <1>21, <2>1, <2>3
  <2>4. CASE c = l BY <1>19, <1>20, <1>21, <2>1, <2>4
  <2> QED BY <2>2, <2>3, <2>4
<1>22. LeavesApart(C, t) BY <1>21 DEF LeavesApart, Apart
<1>23. \A b \in DOMAIN C : NodeOK(C, t, b) /\ HasParent(C, t, root, b)
  BY <1>10, <1>13, <1>14, <1>16, <1>17
<1>24. DOMAIN C \subseteq BlockId
  <2>1. DOMAIN B \subseteq BlockId BY DEF Tree
  <2> QED BY <1>b, <2>1
<1>25. Tree(C, t, root) BY <1>3, <1>15, <1>22, <1>23, <1>24 DEF Tree
<1> QED BY <1>4, <1>25

(* C is B with the root's node moved to a new block r, which has become    *)
(* the only child of the root.                                             *)
GrowIn(B, C, root, r) ==
  /\ r \in Allotted /\ r \notin DOMAIN B
  /\ DOMAIN C = DOMAIN B \cup {r}
  /\ C[r] = B[root]
  /\ \A b \in DOMAIN B \ {root} : C[b] = B[b]
  /\ C[root] \in WellShaped /\ IsInternal(C[root])
  /\ Len(C[root].keys) = 0 /\ C[root].child_ids[1] = r

(* It is a tree one level higher.                                          *)
LEMMA Grow ==
  ASSUME NEW B, NEW s, NEW root, Tree(B, s, root), NEW C, NEW r, GrowIn(B, C, root, r)
  PROVE  \E t : Tree(C, t, root) /\ t.lo[r] = {} /\ t.hi[r] = {}
<1> DEFINE t == [ ht  |-> [ b \in DOMAIN C |-> IF b = r THEN s.ht[root]
                                               ELSE IF b = root THEN s.ht[root] + 1
                                               ELSE s.ht[b] ],
                  par |-> [ b \in DOMAIN C |-> IF b = r THEN root
                                               ELSE IF s.par[b] = root THEN r ELSE s.par[b] ],
                  lo  |-> [ b \in DOMAIN C |-> IF b = r THEN {} ELSE s.lo[b] ],
                  hi  |-> [ b \in DOMAIN C |-> IF b = r THEN {} ELSE s.hi[b] ] ]
<1>a. r \in Allotted /\ r \notin DOMAIN B /\ DOMAIN C = DOMAIN B \cup {r} BY DEF GrowIn
<1>b. C[r] = B[root] /\ \A b \in DOMAIN B \ {root} : C[b] = B[b] BY DEF GrowIn
<1>c. /\ C[root] \in WellShaped /\ IsInternal(C[root])
      /\ Len(C[root].keys) = 0 /\ C[root].child_ids[1] = r
  BY DEF GrowIn
<1>1. /\ root \in DOMAIN B /\ root \in BlockId /\ root # NoBlock /\ root # r
      /\ s.par[root] = NoBlock /\ s.lo[root] = {} /\ s.hi[root] = {}
      /\ B[root] \in WellShaped
  <2>1. root \in DOMAIN B BY DEF Tree
  <2>2. HasParent(B, s, root, root) /\ root \in BlockId /\ B[root] \in WellShaped
    BY <2>1, TreeNode
  <2> QED BY <1>a, <2>1, <2>2 DEF HasParent, BlockId, NoBlock
<1>2. /\ \A b \in DOMAIN B : /\ s.ht[b] \in Nat /\ s.par[b] \in Nat
                             /\ s.lo[b] \in Bounds /\ s.hi[b] \in Bounds
      /\ root \in Nat /\ r \in Nat /\ {} \in Bounds
  BY <1>a, <1>1, TreeNode DEF BlockId, Allotted, Bounds
<1>3. t \in Places(C)
  <2>1. t.ht \in [DOMAIN C -> Nat] BY <1>a, <1>1, <1>2
  <2>2. t.par \in [DOMAIN C -> Nat] BY <1>a, <1>2
  <2>3. t.lo \in [DOMAIN C -> Bounds] /\ t.hi \in [DOMAIN C -> Bounds] BY <1>a, <1>2
  <2> QED BY <2>1, <2>2, <2>3 DEF Places
<1>4. /\ t.ht[r] = s.ht[root] /\ t.par[r] = root /\ t.lo[r] = {} /\ t.hi[r] = {}
      /\ t.ht[root] = s.ht[root] + 1 /\ t.par[root] = NoBlock
      /\ t.lo[root] = {} /\ t.hi[root] = {}
      /\ \A b \in DOMAIN B : /\ b \in DOMAIN C /\ b # r
                             /\ b # root => t.ht[b] = s.ht[b]
                             /\ t.lo[b] = s.lo[b] /\ t.hi[b] = s.hi[b]
                             /\ s.par[b] = root => t.par[b] = r
                             /\ s.par[b] # root => t.par[b] = s.par[b]
  BY <1>a, <1>1
<1> HIDE DEF t
<1>5. ASSUME NEW b \in DOMAIN B, NEW d, C[d] = B[b],
             t.ht[d] = s.ht[b], t.lo[d] = s.lo[b], t.hi[d] = s.hi[b],
             \A c \in DOMAIN B : s.par[c] = b => t.par[c] = d
      PROVE  NodeOK(C, t, d)
  <2>1. ASSUME NEW c \in DOMAIN B, s.par[c] = b
        PROVE  /\ c \in DOMAIN C /\ t.par[c] = d
               /\ t.ht[c] = s.ht[c] /\ t.lo[c] = s.lo[c] /\ t.hi[c] = s.hi[c]
    <3>1. b # NoBlock BY TreeNode DEF BlockId, NoBlock
    <3> QED BY <1>1, <1>4, <1>5, <2>1, <3>1
  <2>2. ASSUME s.ht[b] = 0, s.hi[b] # {}
        PROVE  /\ B[b].next_leaf \in DOMAIN C /\ t.ht[B[b].next_leaf] = 0
               /\ t.lo[B[b].next_leaf] = s.hi[b]
    <3>1. /\ B[b].next_leaf \in DOMAIN B /\ s.ht[B[b].next_leaf] = 0
          /\ s.lo[B[b].next_leaf] = s.hi[b]
      BY <2>2, NextLeaf
    <3> QED BY <1>1, <1>4, <2>2, <3>1
  <2> QED BY <1>5, <2>1, <2>2, Moved
<1>6. NodeOK(C, t, r) BY <1>1, <1>b, <1>4, <1>5, ZenonT(40)
<1>7. ASSUME NEW b \in DOMAIN B \ {root} PROVE NodeOK(C, t, b)
  <2>1. C[b] = B[b] /\ t.ht[b] = s.ht[b] /\ t.lo[b] = s.lo[b] /\ t.hi[b] = s.hi[b]
    BY <1>b, <1>4
  <2>2. \A c \in DOMAIN B : s.par[c] = b => t.par[c] = b BY <1>4
  <2> QED BY <1>5, <2>1, <2>2
<1>8. NodeOK(C, t, root)
  <2>1. ~IsLeaf(C[root]) BY <1>c, NodeParts
  <2>2. Within(C[root], t.lo[root], t.hi[root])
    <3>1. Ordered(C[root].keys) /\ 1..Len(C[root].keys) = {} BY <1>c, NodeParts DEF Ordered
    <3> QED BY <1>c, <1>4, <3>1 DEF Within
  <2>3. t.ht[root] > 0 BY <1>1, <1>2, <1>4
  <2>4. ASSUME NEW i \in 1..(Len(C[root].keys) + 1) PROVE ChildOK(C, t, root, i)
    <3>1. i = 1 /\ i = Len(C[root].keys) + 1 BY <1>c
    <3> QED BY <1>a, <1>c, <1>4, <3>1 DEF ChildOK, LowOf, HighOf
  <2> QED BY <2>1, <2>2, <2>3, <2>4, Placed
<1>9. HasParent(C, t, root, root) BY <1>4 DEF HasParent
<1>10. HasParent(C, t, root, r)
  <2>1. root \in DOMAIN C /\ t.ht[r] < t.ht[root] BY <1>1, <1>2, <1>4
  <2>2. \E j \in 1..(Len(C[root].keys) + 1) : C[root].child_ids[j] = r BY <1>c
  <2> QED BY <1>1, <1>c, <1>4, <2>1, <2>2, Parented
<1>11. ASSUME NEW b \in DOMAIN B \ {root} PROVE HasParent(C, t, root, b)
  <2>1. /\ s.par[b] \in DOMAIN B /\ IsInternal(B[s.par[b]]) /\ s.ht[b] < s.ht[root]
        /\ \E j \in 1..(Len(B[s.par[b]].keys) + 1) : B[s.par[b]].child_ids[j] = b
    BY TreeParent
  <2>2. t.ht[b] < t.ht[root] BY <1>1, <1>2, <1>4, <2>1
  <2>3. CASE s.par[b] = root
    <3>1. t.par[b] = r /\ r \in DOMAIN C /\ C[r] = B[s.par[b]] BY <1>a, <1>b, <1>4, <2>3
    <3> QED BY <1>1, <2>1, <2>2, <2>3, <3>1, Parented
  <2>4. CASE s.par[b] # root
    <3>1. t.par[b] = s.par[b] /\ s.par[b] \in DOMAIN C /\ C[s.par[b]] = B[s.par[b]]
      BY <1>b, <1>4, <2>1, <2>4
    <3>2. B[s.par[b]] \in WellShaped BY <2>1, TreeNode
    <3> QED BY <2>1, <2>2, <3>1, <3>2, Parented
  <2> QED BY <2>3, <2>4
<1>12. LeavesApart(C, t)
  <2> DEFINE from(b) == IF b = r THEN root ELSE b
  <2>1. ASSUME NEW b \in DOMAIN C, t.ht[b] = 0
        PROVE  /\ from(b) \in DOMAIN B /\ s.ht[from(b)] = 0 /\ b # root
               /\ t.lo[b] = s.lo[from(b)] /\ t.hi[b] = s.hi[from(b)]
    <3>1. b # root BY <1>1, <1>2, <1>4, <2>1
    <3> QED BY <1>a, <1>1, <1>4, <2>1, <3>1
  <2>2. \A b, c \in DOMAIN B : b # c /\ s.ht[b] = 0 /\ s.ht[c] = 0 => Apart(s, b, c)
    BY DEF Tree, LeavesApart, Apart
  <2>3. ASSUME NEW b \in DOMAIN C, NEW c \in DOMAIN C, b # c, t.ht[b] = 0, t.ht[c] = 0
        PROVE  Apart(t, b, c)
    <3>1. from(b) # from(c) BY <2>1, <2>3
    <3> HIDE DEF from
    <3>2. Apart(s, from(b), from(c)) BY <2>1, <2>2, <2>3, <3>1
    <3> QED BY <2>1, <2>3, <3>2 DEF Apart
  <2> QED BY <2>3 DEF LeavesApart, Apart
<1>13. \A b \in DOMAIN C : NodeOK(C, t, b) /\ HasParent(C, t, root, b)
  BY <1>a, <1>6, <1>7, <1>8, <1>9, <1>10, <1>11
<1>14. DOMAIN C \subseteq BlockId /\ root \in DOMAIN C
  <2>1. DOMAIN B \subseteq BlockId BY DEF Tree
  <2> QED BY <1>a, <1>1, <2>1 DEF Allotted, BlockId
<1>15. Tree(C, t, root) BY <1>3, <1>12, <1>13, <1>14 DEF Tree
<1> QED BY <1>4, <1>15

(* C is B with the root's only child r moved into the root's block.        *)
ShrinkIn(B, C, root, r) ==
  /\ IsInternal(B[root]) /\ Len(B[root].keys) = 0 /\ r = B[root].child_ids[1]
  /\ DOMAIN C = DOMAIN B \ {r}
  /\ C[root] = B[r]
  /\ \A b \in DOMAIN B \ {root, r} : C[b] = B[b]

(* It is a tree one level lower.                                           *)
LEMMA Shrink ==
  ASSUME NEW B, NEW s, NEW root, Tree(B, s, root), NEW C, NEW r, ShrinkIn(B, C, root, r)
  PROVE  \E t : Tree(C, t, root)
<1> DEFINE t == [ ht  |-> [ b \in DOMAIN C |-> IF b = root THEN s.ht[r] ELSE s.ht[b] ],
                  par |-> [ b \in DOMAIN C |-> IF s.par[b] = r THEN root ELSE s.par[b] ],
                  lo  |-> [ b \in DOMAIN C |-> s.lo[b] ],
                  hi  |-> [ b \in DOMAIN C |-> s.hi[b] ] ]
<1>a. /\ IsInternal(B[root]) /\ Len(B[root].keys) = 0 /\ r = B[root].child_ids[1]
  BY DEF ShrinkIn
<1>b. DOMAIN C = DOMAIN B \ {r} BY DEF ShrinkIn
<1>c. C[root] = B[r] /\ \A b \in DOMAIN B \ {root, r} : C[b] = B[b] BY DEF ShrinkIn
<1>1. /\ root \in DOMAIN B /\ root \in Nat /\ root # NoBlock
      /\ s.par[root] = NoBlock /\ s.lo[root] = {} /\ s.hi[root] = {}
      /\ B[root] \in WellShaped
  <2>1. root \in DOMAIN B BY DEF Tree
  <2>2. HasParent(B, s, root, root) /\ root \in BlockId /\ B[root] \in WellShaped
    BY <2>1, TreeNode
  <2> QED BY <2>1, <2>2 DEF HasParent, BlockId, NoBlock
<1>2. /\ r \in DOMAIN B /\ s.par[r] = root /\ s.ht[r] + 1 = s.ht[root] /\ r # root
      /\ s.lo[r] = {} /\ s.hi[r] = {} /\ r # NoBlock
  <2>1. 1 \in 1..(Len(B[root].keys) + 1) /\ Len(B[root].keys) + 1 = 1 BY <1>a
  <2>2. /\ r \in DOMAIN B /\ s.par[r] = root /\ s.ht[r] + 1 = s.ht[root] /\ r # root
        /\ s.lo[r] = LowOf(B[root], s.lo[root], 1) /\ s.hi[r] = HighOf(B[root], s.hi[root], 1)
        /\ r \in Allotted
    <3> DEFINE i == 1
               c == B[root].child_ids[i]
    <3>1. i \in 1..(Len(B[root].keys) + 1) /\ r = c BY <1>a, <2>1
    <3>2. root \in DOMAIN B /\ IsInternal(B[root]) BY <1>1, <1>a
    <3> HIDE DEF i
    <3>3. /\ c \in DOMAIN B /\ s.par[c] = root /\ s.ht[c] + 1 = s.ht[root] /\ c # root
          /\ s.lo[c] = LowOf(B[root], s.lo[root], i) /\ s.hi[c] = HighOf(B[root], s.hi[root], i)
          /\ c \in Allotted
      <4>1. i \in 1..(Len(B[root].keys) + 1) BY <3>1
      <4> QED BY <3>2, <4>1, TreeChild
    <3> QED BY <3>1, <3>3 DEF i
  <2> QED BY <1>1, <2>1, <2>2 DEF LowOf, HighOf, Allotted, NoBlock
<1>3. \A b \in DOMAIN B : /\ s.ht[b] \in Nat /\ s.par[b] \in Nat
                          /\ s.lo[b] \in Bounds /\ s.hi[b] \in Bounds
  BY TreeNode
<1>4. t \in Places(C)
  <2>1. t.ht \in [DOMAIN C -> Nat] BY <1>b, <1>2, <1>3
  <2>2. t.par \in [DOMAIN C -> Nat] BY <1>b, <1>1, <1>3
  <2>3. t.lo \in [DOMAIN C -> Bounds] /\ t.hi \in [DOMAIN C -> Bounds] BY <1>b, <1>3
  <2> QED BY <2>1, <2>2, <2>3 DEF Places
<1>5. /\ root \in DOMAIN C /\ t.ht[root] = s.ht[r] /\ t.par[root] = NoBlock
      /\ \A b \in DOMAIN C : /\ b \in DOMAIN B /\ b # r
                             /\ b # root => t.ht[b] = s.ht[b]
                             /\ t.lo[b] = s.lo[b] /\ t.hi[b] = s.hi[b]
                             /\ s.par[b] = r => t.par[b] = root
                             /\ s.par[b] # r => t.par[b] = s.par[b]
  BY <1>b, <1>1, <1>2
<1> HIDE DEF t
<1>6. ASSUME NEW b \in DOMAIN B, NEW d, C[d] = B[b],
             t.ht[d] = s.ht[b], t.lo[d] = s.lo[b], t.hi[d] = s.hi[b], b # root,
             \A c \in DOMAIN C : s.par[c] = b => t.par[c] = d
      PROVE  NodeOK(C, t, d)
  <2>1. ASSUME NEW c \in DOMAIN B, s.par[c] = b
        PROVE  /\ c \in DOMAIN C /\ t.par[c] = d
               /\ t.ht[c] = s.ht[c] /\ t.lo[c] = s.lo[c] /\ t.hi[c] = s.hi[c]
    <3>1. b # NoBlock BY TreeNode DEF BlockId, NoBlock
    <3>2. c # r /\ c # root BY <1>1, <1>2, <1>6, <2>1, <3>1
    <3> QED BY <1>b, <1>5, <1>6, <2>1, <3>2
  <2>2. ASSUME s.ht[b] = 0, s.hi[b] # {}
        PROVE  /\ B[b].next_leaf \in DOMAIN C /\ t.ht[B[b].next_leaf] = 0
               /\ t.lo[B[b].next_leaf] = s.hi[b]
    <3>1. /\ B[b].next_leaf \in DOMAIN B /\ s.ht[B[b].next_leaf] = 0
          /\ s.lo[B[b].next_leaf] = s.hi[b]
      BY <2>2, NextLeaf
    <3>2. B[b].next_leaf # r /\ B[b].next_leaf # root BY <1>1, <1>2, <2>2, <3>1
    <3> QED BY <1>b, <1>5, <3>1, <3>2
  <2> QED BY <1>6, <2>1, <2>2, Moved
<1>7. NodeOK(C, t, root) BY <1>1, <1>2, <1>c, <1>5, <1>6, ZenonT(40)
<1>8. ASSUME NEW b \in DOMAIN C \ {root} PROVE NodeOK(C, t, b)
  <2>1. C[b] = B[b] /\ t.ht[b] = s.ht[b] /\ t.lo[b] = s.lo[b] /\ t.hi[b] = s.hi[b]
        /\ b \in DOMAIN B /\ b # r
    BY <1>b, <1>c, <1>5
  <2>2. \A c \in DOMAIN C : s.par[c] = b => t.par[c] = b BY <1>5, <2>1
  <2> QED BY <1>6, <1>8, <2>1, <2>2
<1>9. HasParent(C, t, root, root) BY <1>1, <1>5 DEF HasParent
<1>10. ASSUME NEW b \in DOMAIN C \ {root} PROVE HasParent(C, t, root, b)
  <2>1. b \in DOMAIN B /\ b # r /\ t.ht[b] = s.ht[b] BY <1>5
  <2>2. /\ s.par[b] \in DOMAIN B /\ IsInternal(B[s.par[b]]) /\ s.ht[b] + 1 = s.ht[s.par[b]]
        /\ \E j \in 1..(Len(B[s.par[b]].keys) + 1) : B[s.par[b]].child_ids[j] = b
    BY <2>1, TreeParent
  <2>3. s.par[b] # root
    <3>1. 1..(Len(B[root].keys) + 1) = {1} BY <1>a
    <3> QED BY <1>a, <2>1, <2>2, <3>1
  <2>4. s.ht[s.par[b]] < s.ht[root] BY <2>2, <2>3, TreeParent
  <2>5. t.ht[b] < t.ht[root] BY <1>1, <1>2, <1>3, <1>5, <2>1, <2>2, <2>4
  <2>6. B[s.par[b]] \in WellShaped BY <2>2, TreeNode
  <2>7. CASE s.par[b] = r
    <3>1. t.par[b] = root /\ C[root] = B[s.par[b]] BY <1>c, <1>5, <2>7
    <3> QED BY <1>5, <2>2, <2>5, <2>6, <3>1, Parented
  <2>8. CASE s.par[b] # r
    <3>1. t.par[b] = s.par[b] /\ s.par[b] \in DOMAIN C /\ C[s.par[b]] = B[s.par[b]]
      BY <1>b, <1>c, <1>5, <2>2, <2>3, <2>8
    <3> QED BY <2>2, <2>5, <2>6, <3>1, Parented
  <2> QED BY <2>7, <2>8
<1>11. LeavesApart(C, t)
  <2> DEFINE from(b) == IF b = root THEN r ELSE b
  <2>1. ASSUME NEW b \in DOMAIN C, t.ht[b] = 0
        PROVE  /\ from(b) \in DOMAIN B /\ s.ht[from(b)] = 0 /\ b # r
               /\ t.lo[b] = s.lo[from(b)] /\ t.hi[b] = s.hi[from(b)]
    BY <1>1, <1>2, <1>5, <2>1
  <2>2. \A b, c \in DOMAIN B : b # c /\ s.ht[b] = 0 /\ s.ht[c] = 0 => Apart(s, b, c)
    BY DEF Tree, LeavesApart, Apart
  <2>3. ASSUME NEW b \in DOMAIN C, NEW c \in DOMAIN C, b # c, t.ht[b] = 0, t.ht[c] = 0
        PROVE  Apart(t, b, c)
    <3>1. from(b) # from(c) BY <2>1, <2>3
    <3> HIDE DEF from
    <3>2. Apart(s, from(b), from(c)) BY <2>1, <2>2, <2>3, <3>1
    <3> QED BY <2>1, <2>3, <3>2 DEF Apart
  <2> QED BY <2>3 DEF LeavesApart, Apart
<1>12. \A b \in DOMAIN C : NodeOK(C, t, b) /\ HasParent(C, t, root, b)
  BY <1>7, <1>8, <1>9, <1>10
<1>13. DOMAIN C \subseteq BlockId
  <2>1. DOMAIN B \subseteq BlockId BY DEF Tree
  <2> QED BY <1>b, <2>1
<1>14. Tree(C, t, root) BY <1>4, <1>5, <1>11, <1>12, <1>13 DEF Tree
<1> QED BY <1>14

-----------------------------------------------------------------------------
(* A key of a node, and not the first one if the node is a leaf.           *)
InnerKey(m, e) == \E i \in 1..Len(m.keys) : m.keys[i] = e /\ (IsLeaf(m) => i > 1)

(* Such a key is strictly within the node's bounds.                        *)
LEMMA InnerKeyWithin ==
  ASSUME NEW m, NEW lo \in Bounds, NEW hi \in Bounds, Within(m, lo, hi),
         NEW e, InnerKey(m, e)
  PROVE  e \in Key /\ Above(lo, e) /\ Below(e, hi)
<1> PICK i \in 1..Len(m.keys) : m.keys[i] = e /\ (IsLeaf(m) => i > 1) BY DEF InnerKey
<1>1. m \in WellShaped /\ Ordered(m.keys) /\ Below(m.keys[i], hi) BY DEF Within
<1>2. /\ Len(m.keys) \in Nat /\ DOMAIN m.keys = 1..Len(m.keys)
      /\ \A j \in 1..Len(m.keys) : m.keys[j] \in Key /\ m.keys[j] \in Int
      /\ IsLeaf(m) \/ IsInternal(m)
  BY <1>1, NodeParts
<1>3. CASE IsInternal(m) BY <1>1, <1>2, <1>3 DEF Within
<1>4. CASE IsLeaf(m)
  <2>1. 1 \in 1..Len(m.keys) /\ 1 < i BY <1>2, <1>4
  <2>2. AtLeast(lo, m.keys[1]) BY <1>4, <2>1 DEF Within
  <2>3. m.keys[1] < m.keys[i] BY <1>1, <1>2, <2>1, SMTT(20) DEF Ordered
  <2>4. \A x \in lo : x \in Int BY BoundsType
  <2> DEFINE a == m.keys[1]
             b == m.keys[i]
  <2>5. a \in Int /\ b \in Int /\ a < b /\ \A x \in lo : x <= a
    BY <1>2, <2>1, <2>2, <2>3 DEF AtLeast
  <2> HIDE DEF a, b
  <2>6. Above(lo, b) BY <2>4, <2>5, SMTT(20) DEF Above
  <2> QED BY <1>1, <1>2, <2>6 DEF b
<1> QED BY <1>2, <1>3, <1>4

(* Two children of a node that are neighbours are the halves of what they  *)
(* are merged to, which is within the bounds of the two.                   *)
LEMMA Merged ==
  ASSUME NEW B, NEW s, NEW root, Tree(B, s, root), NEW p \in DOMAIN B, IsInternal(B[p]),
         NEW i \in 1..Len(B[p].keys), NEW l, NEW r,
         l = B[p].child_ids[i], r = B[p].child_ids[i + 1]
  PROVE  /\ Halves(Merge(B[l], B[r], B[p].keys[i]), B[l], B[r], B[p].keys[i])
         /\ Within(Merge(B[l], B[r], B[p].keys[i]), s.lo[l], s.hi[r])
<1> DEFINE k == B[p].keys[i]
           x == B[p].child_ids[i]
           y == B[p].child_ids[i + 1]
<1>1. /\ l \in DOMAIN B /\ r \in DOMAIN B /\ k \in Key
      /\ s.hi[l] = {k} /\ s.lo[r] = {k} /\ B[l].node_type = B[r].node_type
  <2>1. /\ x \in DOMAIN B /\ y \in DOMAIN B /\ k \in Key
        /\ s.hi[x] = {k} /\ s.lo[y] = {k} /\ B[x].node_type = B[y].node_type
    BY TreeNeighbours
  <2> QED BY <2>1
<1> HIDE DEF k
<1>2. /\ B[l] \in WellShaped /\ B[r] \in WellShaped /\ s.lo[l] \in Bounds /\ s.hi[r] \in Bounds
      /\ NodeOK(B, s, l) /\ NodeOK(B, s, r)
      /\ DOMAIN B[l].keys = 1..Len(B[l].keys) /\ DOMAIN B[r].keys = 1..Len(B[r].keys)
  BY <1>1, TreeNode, NodeParts
<1>3. Within(B[l], s.lo[l], {k}) /\ Within(B[r], {k}, s.hi[r])
  <2>1. Within(B[l], s.lo[l], s.hi[l]) BY <1>1, TreeWithin
  <2>2. Within(B[r], s.lo[r], s.hi[r]) BY <1>1, TreeWithin
  <2> QED BY <1>1, <2>1, <2>2
<1>4. Above(s.lo[l], k) /\ Below(k, s.hi[r]) BY <1>1, <1>2 DEF NodeOK, Above, Below
<1>5. IsLeaf(B[l]) => /\ \A j \in DOMAIN B[l].keys : B[l].keys[j] < k
                      /\ \A j \in DOMAIN B[r].keys : k <= B[r].keys[j]
  <2>1. \A j \in DOMAIN B[l].keys : B[l].keys[j] < k BY <1>2, <1>3, ZenonT(40) DEF Within, Below
  <2>2. IsLeaf(B[l]) => \A j \in DOMAIN B[r].keys : k <= B[r].keys[j]
    BY <1>1, <1>2, <1>3, SMTT(20) DEF Within, AtLeast, IsLeaf
  <2> QED BY <2>1, <2>2, SMTT(20)
<1>6. Halves(Merge(B[l], B[r], k), B[l], B[r], k) /\ Merge(B[l], B[r], k) \in WellShaped
  <2> DEFINE left == B[l]
             right == B[r]
  <2>1. left \in WellShaped /\ right \in WellShaped /\ left.node_type = right.node_type /\ k \in Key
    BY <1>1, <1>2
  <2>2. IsLeaf(left) => /\ \A j \in DOMAIN left.keys : left.keys[j] < k
                     /\ \A j \in DOMAIN right.keys : k <= right.keys[j]
    BY <1>5
  <2> HIDE DEF left, right
  <2>3. Halves(Merge(left, right, k), left, right, k) /\ Merge(left, right, k) \in WellShaped
    BY <2>1, <2>2, MergeHalves
  <2> QED BY <2>3 DEF left, right
<1> QED BY <1>1, <1>2, <1>3, <1>4, <1>6, JoinWithin, SMTT(20) DEF k

(* A parent with another separator.                                        *)
WithSeparator(n, i, k) == [ n EXCEPT !.keys[i] = k ]

(* l and r are children number i and i + 1 of p.                           *)
SiblingsAt(B, p, i, l, r) ==
  /\ p \in DOMAIN B /\ IsInternal(B[p]) /\ i \in 1..Len(B[p].keys)
  /\ l = B[p].child_ids[i] /\ r = B[p].child_ids[i + 1]

(* C is B with the boundary between two neighbouring children l and r of p *)
(* moved to e, a key of what the two are taken together.                   *)
ShiftIn(B, C, p, i, l, r, m, e) ==
  /\ SiblingsAt(B, p, i, l, r)
  /\ DOMAIN C = DOMAIN B
  /\ \A b \in DOMAIN B \ {p, l, r} : C[b] = B[b]
  /\ m \in WellShaped /\ Halves(m, B[l], B[r], B[p].keys[i])
  /\ InnerKey(m, e) /\ Halves(m, C[l], C[r], e)
  /\ C[l].next_leaf = B[l].next_leaf
  /\ C[p] = WithSeparator(B[p], i, e)

(* It is a tree as well, and every other block is at the height it was.    *)
LEMMA Shift ==
  ASSUME NEW B, NEW s, NEW root, Tree(B, s, root), NEW C,
         NEW p, NEW i, NEW l, NEW r, NEW m, NEW e, ShiftIn(B, C, p, i, l, r, m, e)
  PROVE  \E t : Tree(C, t, root) /\ \A b \in DOMAIN B \ {r} : t.ht[b] = s.ht[b]
<1> DEFINE k == B[p].keys[i]
           n == WithoutChild(B[p], i)
           J == [ b \in DOMAIN B \ {r} |-> IF b = p THEN n ELSE IF b = l THEN m ELSE B[b] ]
<1>a. /\ p \in DOMAIN B /\ IsInternal(B[p])
      /\ i \in 1..Len(B[p].keys) /\ l = B[p].child_ids[i] /\ r = B[p].child_ids[i + 1]
  BY DEF ShiftIn, SiblingsAt
<1>b. DOMAIN C = DOMAIN B /\ \A b \in DOMAIN B \ {p, l, r} : C[b] = B[b] BY DEF ShiftIn
<1>c. m \in WellShaped /\ Halves(m, B[l], B[r], k) BY DEF ShiftIn
<1>d. InnerKey(m, e) /\ Halves(m, C[l], C[r], e) /\ C[l].next_leaf = B[l].next_leaf
  BY DEF ShiftIn
<1>e. C[p] = WithSeparator(B[p], i, e) BY DEF ShiftIn
<1>1. /\ l \in DOMAIN B /\ r \in DOMAIN B /\ l # r /\ l # p /\ r # p /\ k \in Key
      /\ r # root /\ r \in Allotted /\ (IsLeaf(B[l]) => B[l].next_leaf = r)
  BY <1>a, TreeNeighbours
<1>2. B[p] \in WellShaped /\ Len(B[p].keys) \in Nat /\ i \in Nat \ {0}
  BY <1>a, TreeNode, NodeParts
<1>3. ChildAdded(n, i, k, r, B[p])
  <2> HIDE DEF J
  <2> DEFINE x == B[p]
  <2>1. x \in WellShaped /\ IsInternal(x) /\ i \in 1..Len(x.keys) BY <1>a, <1>2
  <2> HIDE DEF x
  <2>2. ChildAdded(WithoutChild(x, i), i, x.keys[i], x.child_ids[i + 1], x)
    BY <2>1, ChildRemovedAdded
  <2> QED BY <1>a, <2>2 DEF x
<1> HIDE DEF n
<1>4. /\ DOMAIN J = DOMAIN B \ {r} /\ J[p] = n /\ J[l] = m
      /\ \A b \in DOMAIN B \ {p, l, r} : J[b] = B[b]
  <2>1. p \in DOMAIN B BY <1>a
  <2> QED BY <1>1, <2>1
<1> HIDE DEF J
<1>5. JoinIn(B, J, p, i, l, r) BY <1>a, <1>c, <1>1, <1>3, <1>4 DEF JoinIn
<1>6. PICK t : Tree(J, t, root) /\ \A b \in DOMAIN J : t.ht[b] = s.ht[b] BY <1>5, Join
<1>7. e \in Key /\ Above(t.lo[l], e) /\ Below(e, t.hi[l])
  <2>1. l \in DOMAIN J BY <1>1, <1>4
  <2>2. Within(m, t.lo[l], t.hi[l]) /\ t.lo[l] \in Bounds /\ t.hi[l] \in Bounds
    BY <1>4, <1>6, <2>1, TreeWithin, TreeNode
  <2> QED BY <1>d, <2>2, InnerKeyWithin
<1>8. ChildAdded(n, i, e, r, C[p])
  <2>1. i \in 1..Len(B[p].keys) /\ C[p] = [ B[p] EXCEPT !.keys[i] = e ]
    BY <1>a, <1>e DEF WithSeparator
  <2> HIDE DEF k
  <2> QED BY <1>2, <1>3, <1>7, <2>1, SeparatorReplaced
<1>9. /\ p \in DOMAIN J /\ IsInternal(n) /\ i \in 1..(Len(n.keys) + 1) /\ l = n.child_ids[i]
  <2>1. IsInternal(n) /\ Inserted(B[p].keys, n.keys, i, k) /\ n \in WellShaped
        /\ Inserted(B[p].child_ids, n.child_ids, i + 1, r)
    BY <1>3 DEF ChildAdded
  <2>2. Len(n.keys) \in Nat /\ Len(n.child_ids) = Len(n.keys) + 1 BY <2>1, NodeParts
  <2>3. Len(B[p].keys) = Len(n.keys) + 1 BY <2>1 DEF Inserted
  <2>4. i \in 1..Len(n.child_ids) /\ i < i + 1
    <3>1. i \in 1..Len(B[p].keys) BY <1>a
    <3> QED BY <1>2, <2>2, <2>3, <3>1
  <2>5. n.child_ids[i] = B[p].child_ids[i] BY <2>1, <2>4 DEF Inserted
  <2>6. p \in DOMAIN B /\ l = B[p].child_ids[i] BY <1>a
  <2> QED BY <1>1, <1>4, <2>1, <2>2, <2>4, <2>5, <2>6
<1>10. CutIn(J, t, C, p, i, l, r, e)
  <2>1. DOMAIN C = DOMAIN J \cup {r} /\ r \notin DOMAIN J BY <1>b, <1>1, <1>4
  <2>2. \A b \in DOMAIN J \ {p, l} : C[b] = J[b] BY <1>b, <1>4
  <2>3. IsLeaf(m) => C[l].next_leaf = r
    <3>1. m.node_type = B[l].node_type BY <1>c DEF Halves
    <3> QED BY <1>d, <1>1, <3>1 DEF IsLeaf
  <2> QED BY <1>d, <1>1, <1>4, <1>7, <1>8, <1>9, <2>1, <2>2, <2>3 DEF CutIn
<1>11. PICK u : Tree(C, u, root) /\ \A b \in DOMAIN J : u.ht[b] = t.ht[b]
  BY <1>6, <1>10, Cut
<1> QED BY <1>4, <1>6, <1>11

-----------------------------------------------------------------------------
(* What becomes of the entries.                                            *)

(* In an ordered leaf the position of a key is find_key_index's, and there *)
(* is no other.                                                            *)
LEMMA FoundAt ==
  ASSUME NEW n \in WellShaped, IsLeaf(n), Ordered(n.keys), NEW k \in Key, NEW i \in DOMAIN n.keys,
         n.keys[i] = k
  PROVE  i = FindKeyIndex(n, k) + 1
<1> DEFINE f == FindKeyIndex(n, k)
<1>1. /\ Len(n.keys) \in Nat /\ i \in 1..Len(n.keys) /\ DOMAIN n.keys = 1..Len(n.keys)
      /\ \A j \in 1..Len(n.keys) : n.keys[j] \in Int
      /\ ~IsInternal(n)
  BY NodeParts
<1>2. f \in 0..Len(n.keys) BY FindKeyIndexType
<1>3. \A j \in 1..Len(n.keys) : j <= f <=> n.keys[j] < k BY <1>1, KeyPosition
<1> HIDE DEF f
<1>4. f < i BY <1>1, <1>2, <1>3
<1>5. ~(f + 1 < i)
  <2> SUFFICES ASSUME f + 1 < i PROVE FALSE OBVIOUS
  <2>1. f + 1 \in 1..Len(n.keys) BY <1>1, <1>2
  <2>2. n.keys[f + 1] < n.keys[i] BY <1>1, <2>1 DEF Ordered
  <2> QED BY <1>2, <1>3, <2>1, <2>2
<1>6. i \in Nat /\ f \in Nat BY <1>1, <1>2
<1> QED BY <1>4, <1>5, <1>6 DEF f

(* get answers the value that the leaf has under the key.                  *)
LEMMA GetHas ==
  ASSUME NEW n \in WellShaped, IsLeaf(n), Ordered(n.keys), NEW k \in Key
  PROVE  /\ Get(n, k) = None <=> ~HasKey(n, k)
         /\ Get(n, k) \in Val \cup {None}
         /\ \A v \in Val : Has(n, k, v) <=> Get(n, k) = v
<1>1. CASE HasKey(n, k)
  <2>1. PICK i \in DOMAIN n.keys : n.keys[i] = k BY <1>1 DEF HasKey
  <2>2. \A j \in DOMAIN n.keys : n.keys[j] = k => j = FindKeyIndex(n, k) + 1 BY FoundAt
  <2>3. Get(n, k) = n.values[i] BY <1>1, <2>1, <2>2 DEF Get
  <2>4. n.values[i] \in Val
    <3>1. n.values \in Seq(Val) /\ DOMAIN n.keys = 1..Len(n.keys) /\ Len(n.values) = Len(n.keys)
      BY NodeParts
    <3> QED BY <3>1, <2>1
  <2> QED BY <1>1, <2>1, <2>2, <2>3, <2>4, NoneAssumption DEF Has
<1>2. CASE ~HasKey(n, k)
  <2>1. Get(n, k) = None BY <1>2 DEF Get
  <2> QED BY <1>2, <2>1, NoneAssumption DEF Has, HasKey
<1> QED BY <1>1, <1>2

(* insert_leaf puts the value under the key and leaves the other entries.  *)
LEMMA InsertLeafHas ==
  ASSUME NEW n \in WellShaped, IsLeaf(n), Ordered(n.keys), NEW k \in Key, NEW v \in Val,
         NEW x, NEW w
  PROVE  Has(InsertLeaf(n, k, v), x, w) <=> IF x = k THEN w = v ELSE Has(n, x, w)
<1> DEFINE p == FindKeyIndex(n, k) + 1
           m == InsertLeaf(n, k, v)
<1>1. /\ n \in Node /\ n.keys \in Seq(Key) /\ n.values \in Seq(Val)
      /\ Len(n.keys) \in Nat /\ DOMAIN n.keys = 1..Len(n.keys) /\ Len(n.values) = Len(n.keys)
      /\ DOMAIN n.values = 1..Len(n.values)
  BY NodeParts
<1>2. CASE HasKey(n, k)
  <2>1. PICK i \in DOMAIN n.keys : n.keys[i] = k BY <1>2 DEF HasKey
  <2>2. \A j \in DOMAIN n.keys : n.keys[j] = k => j = p BY FoundAt
  <2>3. p \in DOMAIN n.keys /\ n.keys[p] = k BY <2>1, <2>2
  <2>4. m.keys = n.keys /\ m.values = [ n.values EXCEPT ![p] = v ]
    BY <1>1, <1>2 DEF InsertLeaf, Node
  <2> HIDE DEF m, p
  <2>5. \A j \in DOMAIN n.keys : m.values[j] = IF j = p THEN v ELSE n.values[j]
    BY <1>1, <2>4
  <2> QED BY <2>2, <2>3, <2>4, <2>5 DEF Has, m
<1>3. CASE ~HasKey(n, k)
  <2>1. p \in 1..(Len(n.keys) + 1) BY <1>1, FindKeyIndexType
  <2>2. m.keys = InsertAt(n.keys, p, k) /\ m.values = InsertAt(n.values, p, v)
    BY <1>1, <1>3 DEF InsertLeaf, Node
  <2> HIDE DEF m, p
  <2>3. /\ m.keys \in Seq(Key) /\ Inserted(m.keys, n.keys, p, k)
        /\ Inserted(m.values, n.values, p, v)
    BY <1>1, <2>1, <2>2, InsertAtInserted, InsertAtType
  <2>4. DOMAIN m.keys = 1..(Len(n.keys) + 1) BY <1>1, <2>3 DEF Inserted
  <2>5. \A j \in 1..Len(n.keys) : n.keys[j] # k BY <1>1, <1>3 DEF HasKey
  <2>6. \A j \in 1..Len(n.keys) :
          LET i == IF j < p THEN j ELSE j + 1
          IN i \in DOMAIN m.keys /\ i # p /\ m.keys[i] = n.keys[j] /\ m.values[i] = n.values[j]
    BY <1>1, <2>1, <2>3, <2>4 DEF Inserted
  <2>7. \A i \in DOMAIN m.keys \ {p} : \E j \in 1..Len(n.keys) :
          m.keys[i] = n.keys[j] /\ m.values[i] = n.values[j]
    <3> TAKE i \in DOMAIN m.keys \ {p}
    <3> DEFINE j == IF i < p THEN i ELSE i - 1
    <3>1. j \in 1..Len(n.keys) /\ i = IF j < p THEN j ELSE j + 1 BY <1>1, <2>1, <2>4
    <3> QED BY <2>6, <3>1
  <2>8. p \in DOMAIN m.keys /\ m.keys[p] = k /\ m.values[p] = v
    <3>1. p \in DOMAIN m.keys BY <2>1, <2>4
    <3> QED BY <3>1, <2>3, Zenon DEF Inserted
  <2>9. CASE x = k
    <3>1. \A i \in DOMAIN m.keys : m.keys[i] = k => i = p BY <2>5, <2>7
    <3> QED BY <2>8, <2>9, <3>1 DEF Has, m
  <2>10. CASE x # k
    <3>1. Has(m, x, w) => Has(n, x, w) BY <1>1, <2>7, <2>8, <2>10 DEF Has
    <3>2. Has(n, x, w) => Has(m, x, w) BY <1>1, <2>6, Zenon DEF Has
    <3> QED BY <2>10, <3>1, <3>2 DEF m
  <2> QED BY <2>9, <2>10
<1> QED BY <1>2, <1>3

(* remove_leaf takes the key out and leaves the other entries.             *)
LEMMA RemoveLeafHas ==
  ASSUME NEW n \in WellShaped, IsLeaf(n), Ordered(n.keys), NEW k \in Key, HasKey(n, k),
         NEW x, NEW w
  PROVE  Has(RemoveLeaf(n, k), x, w) <=> x # k /\ Has(n, x, w)
<1> DEFINE p == FindKeyIndex(n, k) + 1
           m == RemoveLeaf(n, k)
<1>1. /\ n \in Node /\ n.keys \in Seq(Key) /\ n.values \in Seq(Val)
      /\ Len(n.keys) \in Nat /\ DOMAIN n.keys = 1..Len(n.keys) /\ Len(n.values) = Len(n.keys)
      /\ DOMAIN n.values = 1..Len(n.values)
  BY NodeParts
<1>2. PICK e \in DOMAIN n.keys : n.keys[e] = k BY DEF HasKey
<1>3. \A j \in DOMAIN n.keys : n.keys[j] = k => j = p BY FoundAt
<1>4. p \in 1..Len(n.keys) /\ n.keys[p] = k BY <1>1, <1>2, <1>3
<1>5. m.keys = RemoveAt(n.keys, p) /\ m.values = RemoveAt(n.values, p)
  BY <1>1 DEF RemoveLeaf, Node
<1> HIDE DEF m, p
<1>6. /\ m.keys \in Seq(Key) /\ Inserted(n.keys, m.keys, p, k)
      /\ Inserted(n.values, m.values, p, n.values[p])
  BY <1>1, <1>4, <1>5, RemoveAtInserted, RemoveAtType
<1>7. DOMAIN m.keys = 1..Len(m.keys) /\ Len(m.keys) \in Nat /\ Len(n.keys) = Len(m.keys) + 1
  BY <1>1, <1>6 DEF Inserted
<1>8. \A j \in 1..Len(m.keys) :
        LET i == IF j < p THEN j ELSE j + 1
        IN i \in DOMAIN n.keys /\ i # p /\ n.keys[i] = m.keys[j] /\ n.values[i] = m.values[j]
  BY <1>1, <1>4, <1>6, <1>7 DEF Inserted
<1>9. \A i \in DOMAIN n.keys \ {p} : \E j \in 1..Len(m.keys) :
        n.keys[i] = m.keys[j] /\ n.values[i] = m.values[j]
  <2> TAKE i \in DOMAIN n.keys \ {p}
  <2> DEFINE j == IF i < p THEN i ELSE i - 1
  <2>1. j \in 1..Len(m.keys) /\ i = IF j < p THEN j ELSE j + 1 BY <1>1, <1>4, <1>7
  <2> QED BY <1>8, <2>1
<1>10. Has(m, x, w) => x # k /\ Has(n, x, w)
  <2>1. Has(m, x, w) => Has(n, x, w) BY <1>7, <1>8, Zenon DEF Has
  <2>2. \A j \in DOMAIN m.keys : m.keys[j] # k BY <1>3, <1>7, <1>8
  <2> QED BY <2>1, <2>2 DEF Has
<1>11. x # k /\ Has(n, x, w) => Has(m, x, w) BY <1>4, <1>7, <1>9 DEF Has
<1> QED BY <1>10, <1>11 DEF m

(* The entries of a leaf are those of its halves.                          *)
LEMMA HalvesHas ==
  ASSUME NEW n \in WellShaped, IsLeaf(n), NEW l, NEW r, NEW k, Halves(n, l, r, k), NEW x, NEW v
  PROVE  Has(n, x, v) <=> Has(l, x, v) \/ Has(r, x, v)
<1>1. /\ l \in WellShaped /\ r \in WellShaped /\ IsLeaf(l) /\ IsLeaf(r)
      /\ Joined(n.keys, l.keys, r.keys) /\ Joined(n.values, l.values, r.values)
  BY DEF Halves, IsLeaf
<1>2. /\ DOMAIN n.keys = 1..Len(n.keys) /\ Len(n.keys) \in Nat
      /\ DOMAIN l.keys = 1..Len(l.keys) /\ Len(l.keys) \in Nat /\ Len(l.values) = Len(l.keys)
      /\ DOMAIN r.keys = 1..Len(r.keys) /\ Len(r.keys) \in Nat /\ Len(r.values) = Len(r.keys)
  BY <1>1, NodeParts
<1>3. \A i \in 1..Len(l.keys) : /\ i \in 1..Len(n.keys)
                                /\ l.keys[i] = n.keys[i] /\ l.values[i] = n.values[i]
  BY <1>1, <1>2, JoinedParts
<1>4. \A i \in 1..Len(r.keys) : /\ Len(l.keys) + i \in 1..Len(n.keys)
                                /\ r.keys[i] = n.keys[Len(l.keys) + i]
                                /\ r.values[i] = n.values[Len(l.keys) + i]
  <2>1. ASSUME NEW whole, NEW left, NEW right, Joined(whole, left, right),
               Len(left) \in Nat, Len(right) \in Nat, NEW i \in 1..Len(right)
        PROVE  Len(left) + i \in 1..Len(whole) /\ right[i] = whole[Len(left) + i]
    BY <2>1, JoinedParts
  <2>2. \A i \in 1..Len(r.keys) : /\ Len(l.keys) + i \in 1..Len(n.keys)
                                  /\ r.keys[i] = n.keys[Len(l.keys) + i]
    BY <1>1, <1>2, <2>1
  <2>3. \A i \in 1..Len(r.values) : r.values[i] = n.values[Len(l.values) + i]
    <3> DEFINE nv == n.values
               lv == l.values
               rv == r.values
    <3>1. Joined(nv, lv, rv) /\ Len(lv) \in Nat /\ Len(rv) \in Nat BY <1>1, <1>2
    <3> HIDE DEF nv, lv, rv
    <3>2. \A i \in 1..Len(rv) : rv[i] = nv[Len(lv) + i] BY <2>1, <3>1
    <3> QED BY <3>2 DEF nv, lv, rv
  <2> QED BY <1>2, <2>2, <2>3
<1>5. \A i \in 1..Len(n.keys) :
        i \in 1..Len(l.keys) \/ \E j \in 1..Len(r.keys) : i = Len(l.keys) + j
  <2> DEFINE a == Len(l.keys)
             c == Len(r.keys)
  <2>1. Len(n.keys) = a + c /\ a \in Nat /\ c \in Nat BY <1>1, <1>2 DEF Joined
  <2> HIDE DEF a, c
  <2>2. \A i \in 1..(a + c) : i \in 1..a \/ (i - a \in 1..c /\ i = a + (i - a)) BY <2>1
  <2> QED BY <2>1, <2>2 DEF a, c
<1>6. Has(l, x, v) => Has(n, x, v) BY <1>2, <1>3 DEF Has
<1>7. Has(r, x, v) => Has(n, x, v) BY <1>2, <1>4, Zenon DEF Has
<1>8. Has(n, x, v) => Has(l, x, v) \/ Has(r, x, v)
  <2> SUFFICES ASSUME NEW i \in 1..Len(n.keys), n.keys[i] = x, n.values[i] = v
               PROVE  Has(l, x, v) \/ Has(r, x, v)
    BY <1>2 DEF Has
  <2>1. CASE i \in 1..Len(l.keys) BY <1>2, <1>3, <2>1 DEF Has
  <2>2. CASE \E j \in 1..Len(r.keys) : i = Len(l.keys) + j
    <3>1. PICK j \in 1..Len(r.keys) : i = Len(l.keys) + j BY <2>2
    <3>2. r.keys[j] = x /\ r.values[j] = v BY <1>4, <3>1
    <3> QED BY <1>2, <3>2 DEF Has
  <2> QED BY <1>5, <2>1, <2>2
<1> QED BY <1>6, <1>7, <1>8

(* Blocks that differ in the blocks X and Y only, which have the same      *)
(* entries, have the same entries.                                         *)
LEMMA SameElsewhere ==
  ASSUME NEW B, NEW C, NEW X, NEW Y, X \subseteq DOMAIN B, Y \subseteq DOMAIN C,
         DOMAIN B \ X = DOMAIN C \ Y, \A b \in DOMAIN B \ X : C[b] = B[b],
         \A x \in Key, v \in Val :
           (\E b \in X : IsLeaf(B[b]) /\ Has(B[b], x, v)) <=>
           (\E b \in Y : IsLeaf(C[b]) /\ Has(C[b], x, v))
  PROVE  SameEntries(B, C)
<1> SUFFICES ASSUME NEW x \in Key, NEW v \in Val PROVE Stores(B, x, v) <=> Stores(C, x, v)
  BY DEF SameEntries
<1> DEFINE InB(b) == IsLeaf(B[b]) /\ Has(B[b], x, v)
           InC(b) == IsLeaf(C[b]) /\ Has(C[b], x, v)
<1>1. (\E b \in X : InB(b)) <=> (\E b \in Y : InC(b)) OBVIOUS
<1>2. \A b \in DOMAIN B \ X : b \in DOMAIN C \ Y /\ (InB(b) <=> InC(b)) OBVIOUS
<1>3. \A b \in DOMAIN C \ Y : b \in DOMAIN B \ X OBVIOUS
<1>4. /\ Stores(B, x, v) <=> \E b \in DOMAIN B : InB(b)
      /\ Stores(C, x, v) <=> \E b \in DOMAIN C : InC(b)
  BY DEF Stores
<1> HIDE DEF InB, InC
<1> QED BY <1>1, <1>2, <1>3, <1>4

(* That is an equivalence.                                                 *)
LEMMA SameEntriesTransitive ==
  ASSUME NEW B, NEW C, NEW D, SameEntries(B, C), SameEntries(C, D)
  PROVE  SameEntries(B, D)
BY DEF SameEntries

(* Only one leaf may have a key: the one that it is in the bounds of.      *)
LEMMA NoOtherLeaf ==
  ASSUME NEW B, NEW s, NEW root, Tree(B, s, root), NEW b \in DOMAIN B, IsLeaf(B[b]),
         NEW k \in Key, AtLeast(s.lo[b], k), Below(k, s.hi[b]),
         NEW v, NEW c \in DOMAIN B, c # b, IsLeaf(B[c])
  PROVE  ~Has(B[c], k, v)
<1> SUFFICES ASSUME Has(B[c], k, v) PROVE FALSE OBVIOUS
<1>1. s.ht[b] = 0 /\ s.ht[c] = 0 BY TreeNode
<1>2. EndsBefore(s.hi[b], s.lo[c]) \/ EndsBefore(s.hi[c], s.lo[b])
  BY <1>1 DEF Tree, LeavesApart
<1>3. PICK i \in DOMAIN B[c].keys : B[c].keys[i] = k BY DEF Has
<1>4. AtLeast(s.lo[c], k) /\ Below(k, s.hi[c])
  <2>1. NodeOK(B, s, c) BY TreeNode
  <2> QED BY <1>3, <2>1 DEF NodeOK, LeafOK
<1>5. k \in Int BY KeyAssumption
<1>6. /\ \A m \in s.lo[b] \cup s.hi[b] : m \in Int
      /\ \A m \in s.lo[c] \cup s.hi[c] : m \in Int
  BY TreeNode
<1>7. ASSUME EndsBefore(s.hi[b], s.lo[c]) PROVE FALSE
  <2>1. PICK m \in s.hi[b], l \in s.lo[c] : m <= l BY <1>7 DEF EndsBefore
  <2>2. k < m /\ l <= k BY <1>4, <2>1 DEF Below, AtLeast
  <2> QED BY <1>5, <1>6, <2>1, <2>2
<1>8. ASSUME EndsBefore(s.hi[c], s.lo[b]) PROVE FALSE
  <2>1. PICK m \in s.hi[c], l \in s.lo[b] : m <= l BY <1>8 DEF EndsBefore
  <2>2. k < m /\ l <= k BY <1>4, <2>1 DEF Below, AtLeast
  <2> QED BY <1>5, <1>6, <2>1, <2>2
<1> QED BY <1>2, <1>7, <1>8

(* So it is stored if that leaf has it.                                    *)
LEMMA OnlyLeaf ==
  ASSUME NEW B, NEW s, NEW root, Tree(B, s, root), NEW b \in DOMAIN B, IsLeaf(B[b]),
         NEW k \in Key, AtLeast(s.lo[b], k), Below(k, s.hi[b]),
         NEW v
  PROVE  Stores(B, k, v) <=> Has(B[b], k, v)
<1>1. Has(B[b], k, v) => Stores(B, k, v) BY DEF Stores
<1>2. \A c \in DOMAIN B : c # b /\ IsLeaf(B[c]) => ~Has(B[c], k, v) BY NoOtherLeaf
<1> QED BY <1>1, <1>2 DEF Stores

(* A key is in one leaf, once.                                             *)
LEMMA OneEntry ==
  ASSUME NEW B, NEW s, NEW root, Tree(B, s, root), NEW k \in Key, NEW v, NEW w,
         Stores(B, k, v), Stores(B, k, w)
  PROVE  v = w
<1>1. PICK b \in DOMAIN B : IsLeaf(B[b]) /\ Has(B[b], k, v) BY DEF Stores
<1>2. PICK i \in DOMAIN B[b].keys : B[b].keys[i] = k /\ B[b].values[i] = v BY <1>1 DEF Has
<1>3. AtLeast(s.lo[b], k) /\ Below(k, s.hi[b])
  <2>1. NodeOK(B, s, b) BY <1>1, TreeNode
  <2> QED BY <1>1, <1>2, <2>1 DEF NodeOK, LeafOK
<1>4. Has(B[b], k, w) BY <1>1, <1>3, OnlyLeaf
<1>5. B[b] \in WellShaped /\ Ordered(B[b].keys) BY TreeNode
<1> QED BY <1>1, <1>2, <1>4, <1>5, FoundAt DEF Has

(* A node and its halves have the same entries.                            *)
LEMMA CutEntries ==
  ASSUME NEW B, NEW x \in DOMAIN B, NEW q, q \notin DOMAIN B, B[x] \in WellShaped,
         NEW C, DOMAIN C = DOMAIN B \cup {q}, \A b \in DOMAIN B \ {x} : C[b] = B[b],
         NEW k, Halves(B[x], C[x], C[q], k)
  PROVE  SameEntries(B, C)
<1>1. IsLeaf(C[x]) <=> IsLeaf(B[x]) BY DEF Halves, IsLeaf
<1>2. IsLeaf(C[q]) <=> IsLeaf(B[x]) BY DEF Halves, IsLeaf
<1>3. \A y, v : IsLeaf(B[x]) => (Has(B[x], y, v) <=> Has(C[x], y, v) \/ Has(C[q], y, v))
  BY HalvesHas
<1>4. \A y \in Key, v \in Val :
        (\E b \in {x} : IsLeaf(B[b]) /\ Has(B[b], y, v)) <=>
        (\E b \in {x, q} : IsLeaf(C[b]) /\ Has(C[b], y, v))
  BY <1>1, <1>2, <1>3
<1>5. DOMAIN B \ {x} = DOMAIN C \ {x, q} OBVIOUS
<1> QED BY <1>4, <1>5, SameElsewhere, SMTT(20)

(* A join keeps the entries.                                               *)
LEMMA JoinEntries ==
  ASSUME NEW B, NEW s, NEW root, Tree(B, s, root), NEW C,
         NEW p, NEW i, NEW l, NEW r, JoinIn(B, C, p, i, l, r)
  PROVE  SameEntries(B, C)
<1>1. /\ p \in DOMAIN B /\ IsInternal(B[p]) /\ i \in 1..Len(B[p].keys)
      /\ l = B[p].child_ids[i] /\ r = B[p].child_ids[i + 1]
      /\ DOMAIN C = DOMAIN B \ {r} /\ \A b \in DOMAIN B \ {p, l, r} : C[b] = B[b]
      /\ C[l] \in WellShaped /\ Halves(C[l], B[l], B[r], B[p].keys[i])
      /\ IsInternal(C[p])
  BY DEF JoinIn, ChildAdded
<1>2. l \in DOMAIN B /\ r \in DOMAIN B /\ l # r /\ l # p /\ r # p BY <1>1, TreeNeighbours
<1>3. IsLeaf(B[l]) <=> IsLeaf(C[l]) BY <1>1 DEF Halves, IsLeaf
<1>4. IsLeaf(B[r]) <=> IsLeaf(C[l]) BY <1>1 DEF Halves, IsLeaf
<1>5. ~IsLeaf(B[p]) /\ ~IsLeaf(C[p]) BY <1>1 DEF IsLeaf, IsInternal
<1>6. \A y, v : IsLeaf(C[l]) => (Has(C[l], y, v) <=> Has(B[l], y, v) \/ Has(B[r], y, v))
  BY <1>1, HalvesHas
<1>7. \A y \in Key, v \in Val :
        (\E b \in {p, l, r} : IsLeaf(B[b]) /\ Has(B[b], y, v)) <=>
        (\E b \in {p, l} : IsLeaf(C[b]) /\ Has(C[b], y, v))
  BY <1>3, <1>4, <1>5, <1>6
<1>8. DOMAIN B \ {p, l, r} = DOMAIN C \ {p, l} BY <1>1
<1>9. {p, l, r} \subseteq DOMAIN B /\ {p, l} \subseteq DOMAIN C BY <1>1, <1>2
<1>10. \A b \in DOMAIN B \ {p, l, r} : C[b] = B[b] BY <1>1
<1> QED BY <1>7, <1>8, <1>9, <1>10, SameElsewhere, Zenon

(* So does a loan between neighbours.                                      *)
LEMMA ShiftEntries ==
  ASSUME NEW B, NEW s, NEW root, Tree(B, s, root), NEW C,
         NEW p, NEW i, NEW l, NEW r, NEW m, NEW e, ShiftIn(B, C, p, i, l, r, m, e)
  PROVE  SameEntries(B, C)
<1>1. /\ p \in DOMAIN B /\ IsInternal(B[p]) /\ i \in 1..Len(B[p].keys)
      /\ l = B[p].child_ids[i] /\ r = B[p].child_ids[i + 1]
      /\ DOMAIN C = DOMAIN B /\ \A b \in DOMAIN B \ {p, l, r} : C[b] = B[b]
      /\ m \in WellShaped /\ Halves(m, B[l], B[r], B[p].keys[i]) /\ Halves(m, C[l], C[r], e)
      /\ C[p] = WithSeparator(B[p], i, e)
  BY DEF ShiftIn, SiblingsAt
<1>2. l \in DOMAIN B /\ r \in DOMAIN B /\ l # r /\ l # p /\ r # p BY <1>1, TreeNeighbours
<1>3. /\ IsLeaf(B[l]) <=> IsLeaf(m)
      /\ IsLeaf(B[r]) <=> IsLeaf(m)
      /\ IsLeaf(C[l]) <=> IsLeaf(m)
      /\ IsLeaf(C[r]) <=> IsLeaf(m)
  BY <1>1 DEF Halves, IsLeaf
<1>4. ~IsLeaf(B[p]) /\ ~IsLeaf(C[p])
  <2>1. B[p] \in WellShaped BY <1>1, TreeNode
  <2>2. C[p].node_type = B[p].node_type BY <1>1, <2>1 DEF WithSeparator, WellShaped, Node
  <2> QED BY <1>1, <2>2 DEF IsLeaf, IsInternal
<1>5. \A y, v : IsLeaf(m) => (Has(m, y, v) <=> Has(B[l], y, v) \/ Has(B[r], y, v))
  BY <1>1, HalvesHas
<1>6. \A y, v : IsLeaf(m) => (Has(m, y, v) <=> Has(C[l], y, v) \/ Has(C[r], y, v))
  BY <1>1, HalvesHas
<1>7. \A y \in Key, v \in Val :
        (\E b \in {p, l, r} : IsLeaf(B[b]) /\ Has(B[b], y, v)) <=>
        (\E b \in {p, l, r} : IsLeaf(C[b]) /\ Has(C[b], y, v))
  BY <1>3, <1>4, <1>5, <1>6
<1>8. DOMAIN B \ {p, l, r} = DOMAIN C \ {p, l, r} BY <1>1
<1>9. {p, l, r} \subseteq DOMAIN B /\ {p, l, r} \subseteq DOMAIN C BY <1>1, <1>2
<1>10. \A b \in DOMAIN B \ {p, l, r} : C[b] = B[b] BY <1>1
<1> QED BY <1>7, <1>8, <1>9, <1>10, SameElsewhere, Zenon

(* A root that gives way to its child takes its entries over.              *)
LEMMA ShrinkEntries ==
  ASSUME NEW B, NEW s, NEW root, Tree(B, s, root), NEW C, NEW r, ShrinkIn(B, C, root, r)
  PROVE  SameEntries(B, C)
<1>1. /\ IsInternal(B[root]) /\ Len(B[root].keys) = 0 /\ r = B[root].child_ids[1]
      /\ DOMAIN C = DOMAIN B \ {r} /\ C[root] = B[r]
      /\ \A b \in DOMAIN B \ {root, r} : C[b] = B[b]
  BY DEF ShrinkIn
<1>2. root \in DOMAIN B BY DEF Tree
<1>3. r \in DOMAIN B /\ r # root BY <1>1, <1>2, TreeChild
<1>4. ~IsLeaf(B[root]) BY <1>1 DEF IsLeaf, IsInternal
<1>5. \A y \in Key, v \in Val :
        (\E b \in {root, r} : IsLeaf(B[b]) /\ Has(B[b], y, v)) <=>
        (\E b \in {root} : IsLeaf(C[b]) /\ Has(C[b], y, v))
  BY <1>1, <1>4
<1>6. DOMAIN B \ {root, r} = DOMAIN C \ {root} BY <1>1
<1>7. {root, r} \subseteq DOMAIN B /\ {root} \subseteq DOMAIN C BY <1>1, <1>2, <1>3
<1>8. \A b \in DOMAIN B \ {root, r} : C[b] = B[b] BY <1>1
<1> QED BY <1>5, <1>6, <1>7, <1>8, SameElsewhere, Zenon
=============================================================================
