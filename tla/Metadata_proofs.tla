--------------------------- MODULE Metadata_proofs ---------------------------
(***************************************************************************)
(* For photos with any sections, opened and saved as often as one likes:   *)
(* the profile and the metadata arrive in the result, and the array of     *)
(* sections always has room.                                               *)
(***************************************************************************)
EXTENDS Metadata, SequenceTheorems, FiniteSetTheorems, WellFoundedInduction, TLAPS

-----------------------------------------------------------------------------
(* Induction over numbers and over sequences, for a set of them.           *)

LEMMA Kleinste ==
  ASSUME NEW T, T \subseteq Nat, T # {}
  PROVE  \E x \in T : \A y \in T : x <= y
<1>1. PICK x \in T : \A y \in T : ~(<<y, x>> \in OpToRel(<, Nat))
  BY NatLessThanWellFounded, WFMin, Zenon
<1>2. ASSUME NEW y \in T PROVE x <= y
  <2>1. <<y, x>> \notin {ss \in Nat \X Nat : ss[1] < ss[2]}
    BY <1>1 DEF OpToRel
  <2> QED
    BY <2>1
<1> QED
  BY <1>2

LEMMA Schritte ==
  ASSUME NEW T, 0 \in T, \A n \in Nat : n \in T => n + 1 \in T
  PROVE  Nat \subseteq T
<1>1. ASSUME NEW n \in Nat, n \notin T PROVE FALSE
  <2> DEFINE U == Nat \ T
  <2>1. U \subseteq Nat /\ U # {}
    BY <1>1
  <2> HIDE DEF U
  <2>2. PICK x \in U : \A y \in U : x <= y
    BY <2>1, Kleinste
  <2>3. x \in Nat /\ x # 0 /\ x - 1 \in Nat /\ x \notin T
    BY <2>2 DEF U
  <2>4. x - 1 \in T
    BY <2>2, <2>3 DEF U
  <2> QED
    BY <2>3, <2>4
<1> QED
  BY <1>1

LEMMA FolgenSchritte ==
  ASSUME NEW S, NEW T, <<>> \in T,
         \A s \in Seq(S) : s \in T => \A e \in S : Append(s, e) \in T
  PROVE  Seq(S) \subseteq T
<1> DEFINE U == {n \in Nat : \A s \in Seq(S) : Len(s) = n => s \in T}
<1>1. 0 \in U
  BY EmptySeq
<1>2. ASSUME NEW n \in Nat, n \in U PROVE n + 1 \in U
  <2> SUFFICES ASSUME NEW s \in Seq(S), Len(s) = n + 1 PROVE s \in T
    OBVIOUS
  <2>1. s # <<>>
    OBVIOUS
  <2>2. PICK t \in Seq(S), e \in S : s = Append(t, e)
    BY <2>1, SequenceEmptyOrAppend
  <2>3. Len(t) = n /\ Len(t) \in Nat
    BY <2>2
  <2>4. t \in T
    BY <1>2, <2>3
  <2> QED
    BY <2>2, <2>4
<1> HIDE DEF U
<1>3. Nat \subseteq U
  BY <1>1, <1>2, Schritte
<1>4. ASSUME NEW s \in Seq(S) PROVE s \in T
  <2>1. Len(s) \in U
    BY <1>3
  <2> QED
    BY <2>1 DEF U
<1> QED
  BY <1>4

-----------------------------------------------------------------------------
(* Sections of some kinds.                                                 *)

NurLoest(f, T, n, nur) ==
  nur = [k \in 0 .. n |->
           IF k = 0 THEN <<>>
           ELSE IF f[k].typ \in T THEN Append(nur[k - 1], f[k]) ELSE nur[k - 1]]

(* The recursion has a solution.                                           *)
LEMMA NurDa ==
  ASSUME NEW f, NEW T
  PROVE  \A n \in Nat : \E nur : NurLoest(f, T, n, nur)
<1> DEFINE U == {n \in Nat : \E nur : NurLoest(f, T, n, nur)}
<1>1. 0 \in U
  <2>1. NurLoest(f, T, 0, [k \in 0 .. 0 |-> <<>>])
    BY DEF NurLoest
  <2> QED
    BY <2>1
<1>2. ASSUME NEW n \in Nat, n \in U PROVE n + 1 \in U
  <2>1. PICK nur : NurLoest(f, T, n, nur)
    BY <1>2
  <2> DEFINE x == IF f[n + 1].typ \in T THEN Append(nur[n], f[n + 1]) ELSE nur[n]
             neu2 == [k \in 0 .. n + 1 |-> IF k = n + 1 THEN x ELSE nur[k]]
  <2>2. \A k \in 0 .. n : nur[k] = IF k = 0 THEN <<>>
                                  ELSE IF f[k].typ \in T THEN Append(nur[k - 1], f[k])
                                       ELSE nur[k - 1]
    BY <2>1 DEF NurLoest
  <2> HIDE DEF x
  <2>3. neu2[n + 1] = x /\ \A k \in 0 .. n : neu2[k] = nur[k]
    OBVIOUS
  <2>4. DOMAIN neu2 = 0 .. n + 1 /\ neu2 = [k \in 0 .. n + 1 |-> neu2[k]]
    OBVIOUS
  <2> HIDE DEF neu2
  <2>5. ASSUME NEW k \in 0 .. n + 1
        PROVE  neu2[k] = IF k = 0 THEN <<>>
                         ELSE IF f[k].typ \in T THEN Append(neu2[k - 1], f[k])
                              ELSE neu2[k - 1]
    <3>1. CASE k = n + 1
      <4>1. k # 0 /\ k - 1 = n /\ neu2[n] = nur[n]
        BY <2>3, <3>1
      <4> QED
        BY <2>3, <3>1, <4>1 DEF x
    <3>2. CASE k \in 1 .. n
      <4>1. neu2[k] = nur[k] /\ neu2[k - 1] = nur[k - 1] /\ k # 0
        BY <2>3, <3>2
      <4> QED
        BY <2>2, <3>2, <4>1
    <3>3. CASE k = 0
      <4>1. neu2[k] = nur[k]
        BY <2>3, <3>3
      <4> QED
        BY <2>2, <3>3, <4>1
    <3> QED
      BY <3>1, <3>2, <3>3
  <2>6. NurLoest(f, T, n + 1, neu2)
    BY <2>4, <2>5 DEF NurLoest
  <2> QED
    BY <2>6
<1> HIDE DEF U
<1>3. Nat \subseteq U
  BY <1>1, <1>2, Schritte
<1> QED
  BY <1>3 DEF U

(* Nur is a solution.                                                      *)
LEMMA NurRechnet ==
  ASSUME NEW f, NEW T, Len(f) \in Nat
  PROVE  \E nur : NurLoest(f, T, Len(f), nur) /\ Nur(f, T) = nur[Len(f)]
<1> DEFINE L(nur) == NurLoest(f, T, Len(f), nur)
<1>1. L(CHOOSE nur : L(nur))
  <2>1. \E nur : L(nur)
    BY NurDa
  <2> HIDE DEF L
  <2> QED
    BY <2>1
<1>2. Nur(f, T) = (CHOOSE nur : L(nur))[Len(f)]
  BY DEF Nur, NurLoest
<1> QED
  BY <1>1, <1>2

(* What comes later does not matter for it.                                *)
LEMMA NurGleich ==
  ASSUME NEW f, NEW g, NEW T, NEW n \in Nat, NEW m \in Nat, n <= m,
         \A k \in 1 .. n : f[k] = g[k],
         NEW nur, NurLoest(f, T, n, nur), NEW mehr, NurLoest(g, T, m, mehr)
  PROVE  nur[n] = mehr[n]
<1> DEFINE U == {k \in Nat : k <= n => nur[k] = mehr[k]}
<1>1. \A k \in 0 .. n : nur[k] = IF k = 0 THEN <<>>
                                ELSE IF f[k].typ \in T THEN Append(nur[k - 1], f[k])
                                     ELSE nur[k - 1]
  BY DEF NurLoest
<1>2. \A k \in 0 .. m : mehr[k] = IF k = 0 THEN <<>>
                                 ELSE IF g[k].typ \in T THEN Append(mehr[k - 1], g[k])
                                      ELSE mehr[k - 1]
  BY DEF NurLoest
<1>3. 0 \in U
  BY <1>1, <1>2
<1>4. ASSUME NEW k \in Nat, k \in U PROVE k + 1 \in U
  <2> SUFFICES ASSUME k + 1 <= n PROVE nur[k + 1] = mehr[k + 1]
    OBVIOUS
  <2>1. k + 1 \in 1 .. n /\ k + 1 \in 0 .. n /\ k + 1 \in 0 .. m /\ (k + 1) - 1 = k /\ k + 1 # 0
    OBVIOUS
  <2>2. nur[k] = mehr[k] /\ f[k + 1] = g[k + 1]
    BY <1>4, <2>1
  <2> QED
    BY <1>1, <1>2, <2>1, <2>2
<1> HIDE DEF U
<1>5. n \in U
  BY <1>3, <1>4, Schritte
<1> QED
  BY <1>5 DEF U

LEMMA NurLeer == \A T : Nur(<<>>, T) = <<>>
<1> TAKE T
<1>1. PICK nur : NurLoest(<<>>, T, Len(<<>>), nur) /\ Nur(<<>>, T) = nur[Len(<<>>)]
  BY NurRechnet
<1> QED
  BY <1>1 DEF NurLoest

LEMMA NurAppend ==
  ASSUME NEW S, NEW f \in Seq(S), NEW s \in S, NEW T
  PROVE  Nur(Append(f, s), T) = IF s.typ \in T THEN Append(Nur(f, T), s) ELSE Nur(f, T)
<1> DEFINE n == Len(f)
           g == Append(f, s)
<1>1. n \in Nat /\ Len(g) = n + 1 /\ g[n + 1] = s /\ \A k \in 1 .. n : f[k] = g[k]
  OBVIOUS
<1>2. PICK nur : NurLoest(f, T, n, nur) /\ Nur(f, T) = nur[n]
  BY <1>1, NurRechnet
<1> HIDE DEF g
<1>3. PICK mehr : NurLoest(g, T, n + 1, mehr) /\ Nur(g, T) = mehr[n + 1]
  BY <1>1, NurRechnet
<1> HIDE DEF n
<1>4. nur[n] = mehr[n]
  BY <1>1, <1>2, <1>3, NurGleich
<1>5. mehr[n + 1] = IF g[n + 1].typ \in T THEN Append(mehr[n], g[n + 1]) ELSE mehr[n]
  <2>1. n + 1 \in 0 .. n + 1 /\ n + 1 # 0 /\ (n + 1) - 1 = n
    BY <1>1
  <2> QED
    BY <1>3, <2>1 DEF NurLoest
<1>6. Nur(g, T) = IF s.typ \in T THEN Append(Nur(f, T), s) ELSE Nur(f, T)
  BY <1>1, <1>2, <1>3, <1>4, <1>5
<1> QED
  BY <1>6 DEF g

LEMMA NurTypen ==
  ASSUME NEW S, NEW f \in Seq(S), NEW T
  PROVE  Nur(f, T) \in Seq({s \in S : s.typ \in T}) /\ Nur(f, T) \in Seq(S)
<1> DEFINE A == {s \in S : s.typ \in T}
           U == {g \in Seq(S) : Nur(g, T) \in Seq(A)}
<1>1. <<>> \in U
  <2> HIDE DEF A
  <2>1. Nur(<<>>, T) = <<>> /\ <<>> \in Seq(A) /\ <<>> \in Seq(S)
    BY NurLeer, EmptySeq
  <2> QED
    BY <2>1
<1>2. ASSUME NEW g \in Seq(S), g \in U, NEW e \in S PROVE Append(g, e) \in U
  <2>1. Append(g, e) \in Seq(S) /\ Nur(g, T) \in Seq(A)
    BY <1>2
  <2>2. CASE e.typ \in T
    <3>1. e \in A
      BY <2>2
    <3> HIDE DEF A
    <3>2. Append(Nur(g, T), e) \in Seq(A)
      BY <2>1, <3>1
    <3> QED
      BY <2>1, <2>2, <3>2, NurAppend
  <2>3. CASE e.typ \notin T
    <3> HIDE DEF A
    <3> QED
      BY <2>1, <2>3, NurAppend
  <2> QED
    BY <2>2, <2>3
<1> HIDE DEF U
<1>3. f \in U
  BY <1>1, <1>2, FolgenSchritte
<1>4. Nur(f, T) \in Seq(A)
  BY <1>3 DEF U
<1>5. A \subseteq S
  OBVIOUS
<1> HIDE DEF A
<1>6. Nur(f, T) \in Seq(S)
  BY <1>4, <1>5, SeqMonotonic
<1> QED
  BY <1>4, <1>6 DEF A

LEMMA NurAlle ==
  ASSUME NEW T, NEW S, \A s \in S : s.typ \in T, NEW f \in Seq(S)
  PROVE  Nur(f, T) = f
<1> DEFINE U == {g \in Seq(S) : Nur(g, T) = g}
<1>1. <<>> \in U
  BY NurLeer
<1>2. ASSUME NEW g \in Seq(S), g \in U, NEW e \in S PROVE Append(g, e) \in U
  BY <1>2, NurAppend
<1> HIDE DEF U
<1>3. f \in U
  BY <1>1, <1>2, FolgenSchritte
<1> QED
  BY <1>3 DEF U

LEMMA NurKeine ==
  ASSUME NEW T, NEW S, \A s \in S : s.typ \notin T, NEW f \in Seq(S)
  PROVE  Nur(f, T) = <<>>
<1> DEFINE U == {g \in Seq(S) : Nur(g, T) = <<>>}
<1>1. <<>> \in U
  BY NurLeer
<1>2. ASSUME NEW g \in Seq(S), g \in U, NEW e \in S PROVE Append(g, e) \in U
  BY <1>2, NurAppend
<1> HIDE DEF U
<1>3. f \in U
  BY <1>1, <1>2, FolgenSchritte
<1> QED
  BY <1>3 DEF U

LEMMA AppendVerkettet ==
  ASSUME NEW S, NEW f \in Seq(S), NEW g \in Seq(S), NEW e \in S
  PROVE  f \o Append(g, e) = Append(f \o g, e)
<1>1. /\ f \o g \in Seq(S) /\ Append(g, e) = g \o <<e>> /\ <<e>> \in Seq(S)
      /\ Append(f \o g, e) = (f \o g) \o <<e>>
  BY ConcatProperties, AppendIsConcat
<1> QED
  BY <1>1, ConcatAssociative

LEMMA AppendSektion ==
  ASSUME NEW f \in Seq(Sektion), NEW g \in Seq(Sektion), NEW e \in Sektion
  PROVE  f \o Append(g, e) = Append(f \o g, e)
BY AppendVerkettet

LEMMA NurVerkettet ==
  ASSUME NEW S, NEW f \in Seq(S), NEW g \in Seq(S), NEW T
  PROVE  Nur(f \o g, T) = Nur(f, T) \o Nur(g, T)
<1> DEFINE U == {h \in Seq(S) : Nur(f \o h, T) = Nur(f, T) \o Nur(h, T)}
<1>0. Nur(f, T) \in Seq(S)
  BY NurTypen
<1>1. <<>> \in U
  BY <1>0, NurLeer, ConcatEmptySeq
<1>2. ASSUME NEW h \in Seq(S), h \in U, NEW e \in S PROVE Append(h, e) \in U
  <2>1. Nur(f \o h, T) = Nur(f, T) \o Nur(h, T)
    BY <1>2
  <2>2. f \o Append(h, e) = Append(f \o h, e)
    BY AppendVerkettet
  <2> HIDE DEF U
  <2>3. PICK w \in Seq(S) : w = f \o h
    <3>1. f \o h \in Seq(S)
      BY ConcatProperties
    <3> QED
      BY <3>1
  <2>4. PICK p \in Seq(S) : p = Nur(f, T)
    BY <1>0
  <2>5. PICK q \in Seq(S) : q = Nur(h, T)
    <3>1. Nur(h, T) \in Seq(S)
      BY NurTypen
    <3> QED
      BY <3>1
  <2>6. Nur(w, T) = p \o q
    BY <2>1, <2>3, <2>4, <2>5
  <2>7. Nur(Append(w, e), T) = p \o Nur(Append(h, e), T)
    <3>1. CASE e.typ \in T
      <4>1. Nur(Append(w, e), T) = Append(p \o q, e) /\ Nur(Append(h, e), T) = Append(q, e)
        BY <2>5, <2>6, <3>1, NurAppend
      <4>2. p \o Append(q, e) = Append(p \o q, e)
        BY AppendVerkettet
      <4> QED
        BY <4>1, <4>2
    <3>2. CASE e.typ \notin T
      <4>1. Nur(Append(w, e), T) = Nur(w, T) /\ Nur(Append(h, e), T) = q
        BY <2>5, <3>2, NurAppend
      <4> QED
        BY <2>6, <4>1
    <3> QED
      BY <3>1, <3>2
  <2>8. Append(h, e) \in Seq(S)
    OBVIOUS
  <2>9. Nur(f \o Append(h, e), T) = Nur(f, T) \o Nur(Append(h, e), T)
    BY <2>2, <2>3, <2>4, <2>7
  <2> QED
    BY <2>8, <2>9 DEF U
<1> HIDE DEF U
<1>3. g \in U
  BY <1>1, <1>2, FolgenSchritte
<1> QED
  BY <1>3 DEF U

(* One that is not empty has a first one.                                  *)
LEMMA Erstes ==
  ASSUME NEW S, NEW f \in Seq(S), NEW g \in Seq(S), f # <<>>
  PROVE  f[1] \in S /\ f \o g # <<>> /\ (f \o g)[1] = f[1]
<1>1. Len(f) \in Nat \ {0} /\ Len(g) \in Nat
  BY EmptySeq
<1>2. /\ f \o g \in Seq(S) /\ Len(f \o g) = Len(f) + Len(g)
      /\ 1 \in 1 .. Len(f) /\ 1 \in 1 .. Len(f) + Len(g) /\ 1 <= Len(f)
  BY <1>1, ConcatProperties
<1>3. (f \o g)[1] = f[1]
  BY <1>2, ConcatProperties
<1>4. f[1] \in S
  BY <1>2, ElementOfSeq
<1>5. f \o g # <<>>
  BY <1>1, <1>2
<1> QED
  BY <1>3, <1>4, <1>5

-----------------------------------------------------------------------------
(* Sequences joined.                                                       *)

FlattenLoest(s, n, fl) == fl = [i \in 1 .. n |-> IF i = 1 THEN s[i] ELSE fl[i - 1] \o s[i]]

LEMMA FlattenDa ==
  ASSUME NEW s
  PROVE  \A n \in Nat : \E fl : FlattenLoest(s, n, fl)
<1> DEFINE U == {n \in Nat : \E fl : FlattenLoest(s, n, fl)}
<1>1. 0 \in U
  <2>1. FlattenLoest(s, 0, [i \in 1 .. 0 |-> s[i]])
    BY DEF FlattenLoest
  <2> QED
    BY <2>1
<1>2. ASSUME NEW n \in Nat, n \in U PROVE n + 1 \in U
  <2>1. PICK fl : FlattenLoest(s, n, fl)
    BY <1>2
  <2> DEFINE x == IF n = 0 THEN s[1] ELSE fl[n] \o s[n + 1]
             mehr == [i \in 1 .. n + 1 |-> IF i = n + 1 THEN x ELSE fl[i]]
  <2>2. \A i \in 1 .. n : fl[i] = IF i = 1 THEN s[i] ELSE fl[i - 1] \o s[i]
    BY <2>1 DEF FlattenLoest
  <2> HIDE DEF x
  <2>3. mehr[n + 1] = x /\ \A i \in 1 .. n : mehr[i] = fl[i]
    OBVIOUS
  <2>4. mehr = [i \in 1 .. n + 1 |-> mehr[i]]
    OBVIOUS
  <2> HIDE DEF mehr
  <2>5. ASSUME NEW i \in 1 .. n + 1
        PROVE  mehr[i] = IF i = 1 THEN s[i] ELSE mehr[i - 1] \o s[i]
    <3>1. CASE i = n + 1 /\ n = 0
      BY <2>3, <3>1 DEF x
    <3>2. CASE i = n + 1 /\ n # 0
      <4>1. i # 1 /\ i - 1 = n /\ mehr[n] = fl[n]
        BY <2>3, <3>2
      <4> QED
        BY <2>3, <3>2, <4>1 DEF x
    <3>3. CASE i \in 2 .. n
      <4>1. mehr[i] = fl[i] /\ mehr[i - 1] = fl[i - 1] /\ i # 1 /\ i \in 1 .. n
        BY <2>3, <3>3
      <4> QED
        BY <2>2, <4>1
    <3>4. CASE i = 1 /\ n # 0
      <4>1. mehr[i] = fl[i] /\ i \in 1 .. n
        BY <2>3, <3>4
      <4> QED
        BY <2>2, <3>4, <4>1
    <3> QED
      BY <3>1, <3>2, <3>3, <3>4
  <2>6. FlattenLoest(s, n + 1, mehr)
    BY <2>4, <2>5 DEF FlattenLoest
  <2> QED
    BY <2>6
<1> HIDE DEF U
<1>3. Nat \subseteq U
  BY <1>1, <1>2, Schritte
<1> QED
  BY <1>3 DEF U

LEMMA FlattenRechnet ==
  ASSUME NEW s, Len(s) \in Nat \ {0}
  PROVE  \E fl : /\ \A i \in 1 .. Len(s) : fl[i] = IF i = 1 THEN s[i] ELSE fl[i - 1] \o s[i]
                 /\ FlattenSeq(s) = fl[Len(s)]
<1> DEFINE L(fl) == FlattenLoest(s, Len(s), fl)
<1>1. L(CHOOSE fl : L(fl))
  <2>1. \E fl : L(fl)
    BY FlattenDa
  <2> HIDE DEF L
  <2> QED
    BY <2>1
<1>2. FlattenSeq(s) = (CHOOSE fl : L(fl))[Len(s)]
  BY DEF FlattenSeq, FlattenLoest
<1>3. PICK fl : L(fl) /\ FlattenSeq(s) = fl[Len(s)]
  BY <1>1, <1>2
<1>4. \A i \in 1 .. Len(s) : fl[i] = IF i = 1 THEN s[i] ELSE fl[i - 1] \o s[i]
  BY <1>3 DEF FlattenLoest
<1> QED
  BY <1>3, <1>4

(* Joined, they are as long as all of them.                                *)
LEMMA FlattenLaenge ==
  ASSUME NEW X, NEW m \in Nat, NEW n \in Nat \ {0}, NEW s, Len(s) = n,
         \A i \in 1 .. n : s[i] \in Seq(X) /\ Len(s[i]) <= m
  PROVE  FlattenSeq(s) \in Seq(X) /\ Len(FlattenSeq(s)) <= n * m
<1>1. PICK fl : /\ \A i \in 1 .. n : fl[i] = IF i = 1 THEN s[i] ELSE fl[i - 1] \o s[i]
                /\ FlattenSeq(s) = fl[n]
  BY FlattenRechnet
<1> DEFINE U == {i \in Nat : i + 1 <= n =>
                               fl[i + 1] \in Seq(X) /\ Len(fl[i + 1]) <= (i + 1) * m}
<1>2. 0 \in U
  <2>1. 1 \in 1 .. n /\ fl[1] = s[1] /\ 1 * m = m
    BY <1>1
  <2> QED
    BY <2>1
<1>3. ASSUME NEW i \in Nat, i \in U PROVE i + 1 \in U
  <2> DEFINE j == i + 1
  <2> SUFFICES ASSUME j + 1 <= n
               PROVE  fl[j + 1] \in Seq(X) /\ Len(fl[j + 1]) <= (j + 1) * m
    OBVIOUS
  <2>1. fl[j] \in Seq(X) /\ Len(fl[j]) <= j * m
    BY <1>3
  <2>2. j \in Nat /\ j + 1 \in 1 .. n /\ j + 1 # 1 /\ (j + 1) - 1 = j
    OBVIOUS
  <2> HIDE DEF j
  <2>3. fl[j + 1] = fl[j] \o s[j + 1] /\ s[j + 1] \in Seq(X) /\ Len(s[j + 1]) <= m
    BY <1>1, <2>2
  <2>4. fl[j + 1] \in Seq(X) /\ Len(fl[j + 1]) = Len(fl[j]) + Len(s[j + 1])
    BY <2>1, <2>3, ConcatProperties
  <2>5. Len(fl[j]) \in Nat /\ Len(s[j + 1]) \in Nat
    BY <2>1, <2>3, LenProperties
  <2>6. PICK q \in Nat : q = j * m /\ (j + 1) * m = q + m
    <3>1. j * m \in Nat /\ (j + 1) * m = j * m + m
      BY <2>2
    <3> QED
      BY <3>1
  <2>7. Len(fl[j + 1]) <= q + m
    <3>1. PICK x \in Nat, y \in Nat : x = Len(fl[j]) /\ y = Len(s[j + 1])
      BY <2>5
    <3>2. x <= q /\ y <= m
      BY <2>1, <2>3, <2>6, <3>1
    <3>3. Len(fl[j + 1]) = x + y
      BY <2>4, <3>1
    <3> QED
      BY <3>2, <3>3
  <2> QED
    BY <2>4, <2>6, <2>7
<1> HIDE DEF U
<1>4. n - 1 \in U /\ (n - 1) + 1 = n
  <2>1. Nat \subseteq U
    BY <1>2, <1>3, Schritte
  <2>2. n - 1 \in Nat /\ (n - 1) + 1 = n
    OBVIOUS
  <2> QED
    BY <2>1, <2>2
<1> QED
  BY <1>1, <1>4 DEF U

(* The n parts s of d, cut at the places a.                                *)
Stuecke(d, n, a, s) ==
  /\ \A k \in 0 .. n : a[k] \in 0 .. Len(d)
  /\ \A k \in 1 .. n : a[k - 1] <= a[k]
  /\ a[0] = 0 /\ a[n] = Len(d)
  /\ Len(s) = n /\ \A k \in 1 .. n : s[k] = SubSeq(d, a[k - 1] + 1, a[k])

(* Joined again they give what was cut.                                    *)
LEMMA FlattenStuecke ==
  ASSUME NEW X, NEW d \in Seq(X), NEW n \in Nat \ {0}, NEW a, NEW s, Stuecke(d, n, a, s)
  PROVE  FlattenSeq(s) = d
<1> USE DEF Stuecke
<1>1. PICK fl : /\ \A i \in 1 .. n : fl[i] = IF i = 1 THEN s[i] ELSE fl[i - 1] \o s[i]
                /\ FlattenSeq(s) = fl[n]
  BY FlattenRechnet
<1> DEFINE U == {i \in Nat : i + 1 <= n => fl[i + 1] = SubSeq(d, 1, a[i + 1])}
<1>2. 0 \in U
  <2>1. 1 \in 1 .. n /\ fl[1] = s[1] /\ 1 - 1 = 0 /\ a[0] + 1 = 1
    BY <1>1
  <2>2. s[1] = SubSeq(d, a[0] + 1, a[1])
    BY <2>1
  <2> QED
    BY <2>1, <2>2
<1>3. ASSUME NEW i \in Nat, i \in U PROVE i + 1 \in U
  <2> DEFINE j == i + 1
  <2> SUFFICES ASSUME j + 1 <= n PROVE fl[j + 1] = SubSeq(d, 1, a[j + 1])
    OBVIOUS
  <2>1. fl[j] = SubSeq(d, 1, a[j])
    BY <1>3
  <2>2. j \in Nat /\ j + 1 \in 1 .. n /\ j + 1 # 1 /\ (j + 1) - 1 = j /\ j \in 0 .. n
        /\ j + 1 \in 0 .. n
    OBVIOUS
  <2> HIDE DEF j
  <2>3. fl[j + 1] = fl[j] \o s[j + 1] /\ s[j + 1] = SubSeq(d, a[j] + 1, a[j + 1])
    BY <1>1, <2>2
  <2>4. a[j] \in 0 .. Len(d) /\ a[j + 1] \in 0 .. Len(d) /\ a[j] <= a[j + 1] /\ Len(d) \in Nat
    BY <2>2
  <2>5. SubSeq(d, 1, a[j]) \o SubSeq(d, a[j] + 1, a[j + 1]) = SubSeq(d, 1, a[j + 1])
    <3>1. /\ 1 \in 1 .. Len(d) + 1 /\ a[j] \in 1 - 1 .. Len(d)
          /\ a[j + 1] \in a[j] .. Len(d)
      BY <2>4
    <3> QED
      BY <3>1, ConcatAdjacentSubSeq
  <2> QED
    BY <2>1, <2>3, <2>5
<1> HIDE DEF U
<1>4. n - 1 \in U /\ (n - 1) + 1 = n
  <2>1. Nat \subseteq U
    BY <1>2, <1>3, Schritte
  <2>2. n - 1 \in Nat /\ (n - 1) + 1 = n
    OBVIOUS
  <2> QED
    BY <2>1, <2>2
<1>5. fl[n] = SubSeq(d, 1, Len(d))
  BY <1>4 DEF U
<1> QED
  BY <1>1, <1>5, SubSeqFull

-----------------------------------------------------------------------------
(* The profile.                                                            *)

LEMMA Geteilt ==
  ASSUME NEW a \in Nat, NEW b \in Nat \ {0}
  PROVE  /\ a \div b \in Nat /\ a % b \in Nat
         /\ (a \div b) * b <= a /\ a < (a \div b) * b + b
         /\ a = (a \div b) * b + (a % b)
<1>1. a \div b \in Nat /\ (a \div b) * b <= a /\ a < (a \div b) * b + b
  OBVIOUS
<1>2. a % b \in Nat
  OBVIOUS
<1>3. a = b * (a \div b) + (a % b)
  OBVIOUS
<1>4. b * (a \div b) = (a \div b) * b
  BY <1>1
<1> QED
  BY <1>1, <1>2, <1>3, <1>4

LEMMA Produkt ==
  ASSUME NEW a \in Nat, NEW b \in Nat
  PROVE  a * b \in Nat /\ (a + 1) * b = a * b + b
OBVIOUS

LEMMA ProduktMonoton ==
  ASSUME NEW a \in Int, NEW b \in Int, NEW c \in Nat, a <= b
  PROVE  a * c <= b * c
OBVIOUS

LEMMA Rest ==
  ASSUME NEW a \in Nat, NEW b \in Nat, a < b
  PROVE  a % b = a
OBVIOUS

(* A multiple between two others that are next to each other.              *)
LEMMA ProduktKleiner ==
  ASSUME NEW a \in Nat, NEW b \in Nat, NEW c \in Nat \ {0}, a * c < b * c + c
  PROVE  a <= b
<1>1. ASSUME b + 1 <= a PROVE FALSE
  <2>1. (b + 1) * c <= a * c
    BY <1>1, ProduktMonoton
  <2>2. (b + 1) * c = b * c + c /\ a * c \in Nat /\ b * c \in Nat
    BY Produkt
  <2> QED
    BY <2>1, <2>2
<1> QED
  BY <1>1

(* How many markers it takes.                                              *)
LEMMA Teilung ==
  ASSUME NEW l \in Nat, NEW m \in Nat \ {0}
  PROVE  LET n == (l + m - 1) \div m
         IN /\ n \in Nat /\ l <= n * m /\ n * m < l + m
            /\ l \div m + (IF l % m = 0 THEN 0 ELSE 1) = n
<1> DEFINE n == (l + m - 1) \div m
           q == l \div m
           r == l % m
<1>1. l + m - 1 \in Nat
  OBVIOUS
<1>2. n \in Nat /\ n * m <= l + m - 1 /\ l + m - 1 < n * m + m /\ n * m \in Nat
  BY <1>1, Geteilt, Produkt
<1>3. q \in Nat /\ r \in Nat /\ q * m <= l /\ l < q * m + m /\ l = q * m + r /\ q * m \in Nat
  BY Geteilt, Produkt
<1> HIDE DEF n, q, r
<1>4. l <= n * m /\ n * m < l + m
  BY <1>2
<1>5. CASE r = 0
  <2>1. n * m < q * m + m /\ q * m < n * m + m
    BY <1>2, <1>3, <1>5
  <2>2. n <= q /\ q <= n
    BY <1>2, <1>3, <2>1, ProduktKleiner
  <2> QED
    BY <1>2, <1>3, <1>4, <1>5, <2>2 DEF n, q, r
<1>6. CASE r # 0
  <2>1. (q + 1) * m = q * m + m
    BY <1>3, Produkt
  <2>2. n * m < (q + 1) * m + m /\ (q + 1) * m < n * m + m
    BY <1>2, <1>3, <1>6, <2>1
  <2>3. n <= q + 1 /\ q + 1 <= n
    BY <1>2, <1>3, <2>2, ProduktKleiner
  <2>4. q + 1 = n
    BY <1>2, <1>3, <2>3
  <2> QED
    BY <1>2, <1>4, <1>6, <2>4 DEF n, q, r
<1> QED
  BY <1>5, <1>6

(* What read_icc_profile makes of the markers.                             *)
Gelesen(m) ==
  LET stelle(n) == CHOOSE k \in DOMAIN m : m[k].nr = n
  IN IF Vollzaehlig(m) THEN FlattenSeq([n \in DOMAIN m |-> m[stelle(n)].was]) ELSE <<>>

LEMMA ProfilGelesen == \A f : read_icc_profile(f) = Gelesen(Marken(f))
BY DEF read_icc_profile, Gelesen

(* Markers that are complete are as many as they say.                      *)
LEMMA MarkenAnzahl ==
  ASSUME NEW m \in Seq(Sektion), Vollzaehlig(m)
  PROVE  Len(m) \in 1 .. MaxNummer /\ \A n \in DOMAIN m : \E k \in DOMAIN m : m[k].nr = n
<1>1. Len(m) \in Nat \ {0} /\ DOMAIN m = 1 .. Len(m) /\ 1 \in DOMAIN m
  BY EmptySeq, LenProperties DEF Vollzaehlig
<1>2. PICK v \in Nat : v = m[1].von /\ v <= MaxNummer
  <2>1. m[1] \in Sektion
    BY <1>1
  <2>2. m[1].von \in 0 .. MaxNummer
    BY <2>1 DEF Sektion
  <2> QED
    BY <2>2, ZahlenAssumption
<1> DEFINE g == [k \in 1 .. Len(m) |-> m[k].nr]
<1>3. /\ g \in [1 .. Len(m) -> 1 .. v]
      /\ \A k, l \in 1 .. Len(m) : g[k] = g[l] => k = l
      /\ \A n \in 1 .. v : \E k \in 1 .. Len(m) : g[k] = n
  BY <1>1, <1>2 DEF Vollzaehlig
<1> HIDE DEF g
<1>4. g \in Bijection(1 .. Len(m), 1 .. v)
  BY <1>3 DEF Bijection, Injection, Surjection, IsInjective
<1>5. Cardinality(1 .. Len(m)) = Cardinality(1 .. v)
  <2>1. IsFiniteSet(1 .. Len(m)) /\ Cardinality(1 .. Len(m)) = Len(m)
    BY <1>1, FS_Interval
  <2>2. ExistsBijection(1 .. Len(m), 1 .. v)
    BY <1>4 DEF ExistsBijection
  <2> QED
    BY <2>1, <2>2, FS_Bijection
<1>6. Len(m) = v
  <2>1. PICK l \in Nat : l = Len(m)
    BY <1>1
  <2>2. Cardinality(1 .. l) = IF 1 > l THEN 0 ELSE l - 1 + 1
    BY FS_Interval
  <2>3. Cardinality(1 .. v) = IF 1 > v THEN 0 ELSE v - 1 + 1
    BY FS_Interval
  <2>4. Cardinality(1 .. l) = l /\ Cardinality(1 .. v) = v
    BY <2>2, <2>3
  <2> QED
    BY <1>5, <2>1, <2>4
<1>7. \A n \in DOMAIN m : \E k \in DOMAIN m : m[k].nr = n
  BY <1>1, <1>2, <1>6 DEF Vollzaehlig
<1> QED
  BY <1>1, <1>2, <1>6, <1>7

(* A profile fits into the markers there can be.                           *)
LEMMA GelesenPasst ==
  ASSUME NEW m \in Seq(Sektion), \A k \in DOMAIN m : Len(m[k].was) <= MaxBytes
  PROVE  Gelesen(m) \in Seq(Nat) /\ Len(Gelesen(m)) <= MaxNummer * MaxBytes
<1>0. MaxBytes \in Nat /\ MaxNummer \in Nat /\ MaxNummer * MaxBytes \in Nat
  BY ZahlenAssumption, Produkt
<1>1. CASE ~Vollzaehlig(m)
  <2>1. Gelesen(m) = <<>>
    BY <1>1 DEF Gelesen
  <2> QED
    BY <1>0, <2>1, EmptySeq
<1>2. CASE Vollzaehlig(m)
  <2> DEFINE stelle(n) == CHOOSE k \in DOMAIN m : m[k].nr = n
             s == [n \in DOMAIN m |-> m[stelle(n)].was]
  <2>1. PICK l \in 1 .. MaxNummer : l = Len(m)
    BY <1>2, MarkenAnzahl
  <2>2. DOMAIN m = 1 .. l
    BY <2>1
  <2>3. ASSUME NEW n \in 1 .. l PROVE s[n] \in Seq(Nat) /\ Len(s[n]) <= MaxBytes
    <3>1. stelle(n) \in DOMAIN m
      BY <1>2, <2>2, MarkenAnzahl
    <3>2. s[n] = m[stelle(n)].was
      BY <2>2
    <3> HIDE DEF stelle, s
    <3>3. m[stelle(n)] \in Sektion
      BY <3>1
    <3>4. m[stelle(n)].was \in Seq(Nat)
      BY <3>3 DEF Sektion
    <3> QED
      BY <3>1, <3>2, <3>4
  <2>4. s \in Seq(Seq(Nat)) /\ Len(s) = l
    <3>1. s = [n \in 1 .. l |-> s[n]]
      BY <2>2
    <3> HIDE DEF s
    <3>2. \A n \in 1 .. l : s[n] \in Seq(Nat)
      BY <2>3
    <3> QED
      BY <2>1, <3>1, <3>2
  <2>5. Gelesen(m) = FlattenSeq(s)
    BY <1>2 DEF Gelesen
  <2> HIDE DEF s
  <2>6. l \in Nat \ {0} /\ l <= MaxNummer
    BY <1>0, <2>1
  <2>7. FlattenSeq(s) \in Seq(Nat) /\ Len(FlattenSeq(s)) <= l * MaxBytes
    BY <1>0, <2>3, <2>4, <2>6, FlattenLaenge
  <2>8. PICK x \in Nat, y \in Nat :
          x = l * MaxBytes /\ y = MaxNummer * MaxBytes /\ x <= y
    <3>1. l * MaxBytes \in Nat
      BY <1>0, <2>6, Produkt
    <3>2. l * MaxBytes <= MaxNummer * MaxBytes
      BY <1>0, <2>6, ProduktMonoton
    <3> QED
      BY <1>0, <3>1, <3>2
  <2>9. Len(FlattenSeq(s)) \in Nat /\ Len(FlattenSeq(s)) <= x
    BY <2>7, <2>8
  <2> QED
    BY <2>5, <2>7, <2>8, <2>9
<1> QED
  BY <1>1, <1>2

Icc == {s \in Sektion : s.typ = "ICC"}
ProfilPasst == icc_data \in Seq(Nat) /\ Len(icc_data) <= MaxNummer * MaxBytes

(* The markers that are written.                                           *)
LEMMA ProfilForm ==
  ASSUME ProfilPasst
  PROVE  LET l == Len(icc_data)
             n == (l + MaxBytes - 1) \div MaxBytes
             a(k) == IF k * MaxBytes > l THEN l ELSE k * MaxBytes
         IN /\ n \in 0 .. MaxNummer /\ n = 0 <=> l = 0 /\ a(n) = l
            /\ write_icc_profile \in Seq(Icc) /\ Len(write_icc_profile) = n
            /\ \A k \in 1 .. n :
                 /\ a(k - 1) \in 0 .. l /\ a(k) \in 0 .. l /\ a(k - 1) <= a(k)
                 /\ write_icc_profile[k].nr = k /\ write_icc_profile[k].von = n
                 /\ write_icc_profile[k].was = SubSeq(icc_data, a(k - 1) + 1, a(k))
                 /\ Len(write_icc_profile[k].was) <= MaxBytes
<1> DEFINE l == Len(icc_data)
           M == MaxBytes
           n == (l + M - 1) \div M
           a(k) == IF k * M > l THEN l ELSE k * M
           w == write_icc_profile
<1>1. l \in Nat /\ M \in Nat \ {0} /\ MaxNummer \in Nat \ {0} /\ l <= MaxNummer * M
  BY ZahlenAssumption DEF ProfilPasst
<1>2. /\ n \in Nat /\ l <= n * M /\ n * M < l + M
      /\ num_markers = n
  BY <1>1, Teilung DEF num_markers
<1> DEFINE x(k) == [Neue("ICC", SubSeq(icc_data, (k - 1) * M + 1, a(k)))
                      EXCEPT !.nr = k % (MaxNummer + 1), !.von = num_markers % (MaxNummer + 1)]
<1>3. w = [k \in 1 .. n |-> x(k)]
  BY Zenon DEF write_icc_profile
<1> HIDE DEF n, w
<1>4. \A k \in 1 .. n :
        w[k] = [typ |-> "ICC", was |-> SubSeq(icc_data, (k - 1) * M + 1, a(k)), lage |-> 0,
                nr |-> k % (MaxNummer + 1), von |-> n % (MaxNummer + 1)]
  BY <1>2, <1>3 DEF Neue
<1> HIDE DEF x
<1>5. n * M \in Nat /\ MaxNummer * M \in Nat
  BY <1>1, <1>2, Produkt
<1>6. n <= MaxNummer
  <2>1. n * M < MaxNummer * M + M
    BY <1>1, <1>2, <1>5
  <2> QED
    BY <1>1, <1>2, <2>1, ProduktKleiner
<1>7. n = 0 <=> l = 0
  <2>1. n = 0 => n * M = 0
    BY <1>1
  <2>2. l = 0 => n = 0
    <3> HAVE l = 0
    <3>1. n * M < 0 * M + M /\ 0 * M = 0
      BY <1>1, <1>2
    <3> QED
      BY <1>1, <1>2, <3>1, ProduktKleiner
  <2> QED
    BY <1>1, <1>2, <2>1, <2>2
<1>8. a(n) = l
  BY <1>1, <1>2, <1>5
<1>9. ASSUME NEW k \in 1 .. n
      PROVE  /\ (k - 1) * M \in Nat /\ (k - 1) * M < l
             /\ k * M = (k - 1) * M + M /\ a(k - 1) = (k - 1) * M
             /\ a(k) \in 0 .. l /\ a(k) <= (k - 1) * M + M /\ (k - 1) * M <= a(k)
  <2>1. k \in Nat /\ k - 1 \in Nat /\ (k - 1) + 1 = k /\ k <= n
    BY <1>2
  <2>2. (k - 1) * M \in Nat /\ k * M = (k - 1) * M + M
    BY <1>1, <2>1, Produkt
  <2>3. k * M <= n * M
    BY <1>1, <1>2, <2>1, ProduktMonoton
  <2>4. (k - 1) * M < l
    BY <1>1, <1>2, <1>5, <2>2, <2>3
  <2> HIDE DEF l, M
  <2> QED
    BY <1>1, <2>2, <2>4
<1>10. ASSUME NEW k \in 1 .. n
       PROVE  /\ w[k] \in Icc /\ w[k].nr = k /\ w[k].von = n
              /\ w[k].was = SubSeq(icc_data, a(k - 1) + 1, a(k))
              /\ Len(w[k].was) <= M
  <2> DEFINE b == (k - 1) * M
             c == a(k)
             t == SubSeq(icc_data, b + 1, c)
  <2>1. b \in Nat /\ b < l /\ c \in 0 .. l /\ c <= b + M /\ a(k - 1) = b
        /\ a(k) = c
    BY <1>9
  <2>2. w[k] = [typ |-> "ICC", was |-> t, lage |-> 0,
                nr |-> k % (MaxNummer + 1), von |-> n % (MaxNummer + 1)]
    BY <1>4
  <2> HIDE DEF a, b, c
  <2>3. \A i \in b + 1 .. c : icc_data[i] \in Nat
    BY <2>1 DEF ProfilPasst
  <2>4. /\ t \in Seq(Nat)
        /\ Len(t) = IF b + 1 <= c THEN c - (b + 1) + 1 ELSE 0
    <3>1. b + 1 \in Int /\ c \in Int
      BY <1>1, <2>1
    <3> QED
      BY <2>3, <3>1, SubSeqProperties
  <2>5. Len(t) <= M
    BY <1>1, <2>1, <2>4
  <2>6. k % (MaxNummer + 1) = k /\ n % (MaxNummer + 1) = n
    <3>1. k \in Nat /\ k < MaxNummer + 1 /\ n < MaxNummer + 1 /\ MaxNummer + 1 \in Nat
      BY <1>1, <1>2, <1>6
    <3> QED
      BY <1>2, <3>1, Rest
  <2> HIDE DEF t
  <2>7. w[k] = [typ |-> "ICC", was |-> t, lage |-> 0, nr |-> k, von |-> n]
    BY <2>2, <2>6
  <2>8. k \in 0 .. MaxNummer /\ n \in 0 .. MaxNummer
    BY <1>1, <1>2, <1>6
  <2>9. w[k] \in Icc
    BY <2>4, <2>7, <2>8 DEF Icc, Sektion, Typen
  <2> QED
    BY <2>1, <2>5, <2>7, <2>9, SMTT(40) DEF t
<1>11. w \in Seq(Icc) /\ Len(w) = n
  <2>1. w = [k \in 1 .. n |-> w[k]]
    BY <1>3
  <2>2. \A k \in 1 .. n : w[k] \in Icc
    BY <1>10
  <2> HIDE DEF l, M
  <2> QED
    BY <1>2, <2>1, <2>2
<1>12. \A k \in 1 .. n : a(k - 1) \in 0 .. l /\ a(k) \in 0 .. l /\ a(k - 1) <= a(k)
  BY <1>1, <1>9
<1>13. n \in 0 .. MaxNummer
  BY <1>1, <1>2, <1>6
<1> HIDE DEF l, M, a
<1> QED
  BY <1>7, <1>8, <1>10, <1>11, <1>12, <1>13 DEF l, M, a, n, w

(* Read again they give the profile.                                       *)
LEMMA ProfilRund ==
  ASSUME ProfilPasst
  PROVE  Gelesen(write_icc_profile) = icc_data
<1> DEFINE l == Len(icc_data)
           n == (l + MaxBytes - 1) \div MaxBytes
           a(k) == IF k * MaxBytes > l THEN l ELSE k * MaxBytes
           w == write_icc_profile
           af == [k \in 0 .. n |-> a(k)]
<1>1. /\ n \in 0 .. MaxNummer /\ n = 0 <=> l = 0 /\ a(n) = l
      /\ w \in Seq(Icc) /\ Len(w) = n
  BY ProfilForm
<1>2. \A k \in 1 .. n :
        /\ a(k - 1) \in 0 .. l /\ a(k) \in 0 .. l /\ a(k - 1) <= a(k)
        /\ w[k].nr = k /\ w[k].von = n
        /\ w[k].was = SubSeq(icc_data, a(k - 1) + 1, a(k))
  BY ProfilForm
<1>3. l \in Nat /\ MaxBytes \in Nat /\ icc_data \in Seq(Nat) /\ MaxNummer \in Nat
  BY ZahlenAssumption DEF ProfilPasst
<1>4. a(0) = 0
  BY <1>3
<1> HIDE DEF n, w, a
<1>5. n \in Nat /\ DOMAIN w = 1 .. n
  BY <1>1, <1>3
<1>6. CASE n = 0
  <2>1. w = <<>> /\ icc_data = <<>>
    BY <1>1, <1>3, <1>6
  <2>2. Gelesen(w) = <<>>
    BY <2>1 DEF Gelesen, Vollzaehlig
  <2> QED
    BY <2>1, <2>2 DEF w
<1>7. CASE n # 0
  <2> DEFINE stelle(i) == CHOOSE k \in DOMAIN w : w[k].nr = i
             s == [i \in DOMAIN w |-> w[stelle(i)].was]
  <2>1. w # <<>> /\ 1 \in 1 .. n
    BY <1>1, <1>5, <1>7
  <2>2. w[1].von = n
    BY <1>2, <2>1
  <2>3. Vollzaehlig(w)
    <3>1. \A k \in DOMAIN w : w[k].nr = k /\ w[k].von = n /\ k \in 1 .. n
      BY <1>2, <1>5
    <3>2. \A k \in 1 .. n : \E i \in DOMAIN w : w[i].nr = k
      BY <1>5, <3>1
    <3> QED
      BY <2>1, <2>2, <3>1, <3>2 DEF Vollzaehlig
  <2>4. \A i \in 1 .. n : stelle(i) = i
    BY <1>2, <1>5
  <2>5. s = [i \in 1 .. n |-> w[i].was]
    <3> HIDE DEF stelle
    <3> QED
      BY <1>5, <2>4
  <2>6. Gelesen(w) = FlattenSeq(s)
    BY <2>3 DEF Gelesen
  <2> HIDE DEF s
  <2>7. ASSUME NEW k \in 1 .. n
        PROVE  /\ s[k] = SubSeq(icc_data, af[k - 1] + 1, af[k]) /\ af[k - 1] <= af[k]
    <3>1. k - 1 \in 0 .. n /\ k \in 0 .. n
      BY <1>5
    <3> QED
      BY <1>2, <2>5, <3>1
  <2>8. ASSUME NEW k \in 0 .. n PROVE af[k] \in 0 .. Len(icc_data)
    <3>1. CASE k = 0
      BY <1>3, <1>4, <3>1
    <3>2. CASE k # 0
      BY <1>2, <1>5, <3>2
    <3> QED
      BY <3>1, <3>2
  <2>9. Len(s) = n
    <3>1. s \in Seq({w[i].was : i \in 1 .. n})
      BY <1>5, <2>5
    <3> QED
      BY <1>5, <2>5, <3>1
  <2>10. af[0] = 0 /\ af[n] = Len(icc_data)
    <3>1. 0 \in 0 .. n /\ n \in 0 .. n
      BY <1>5
    <3>2. af[0] = a(0) /\ af[n] = a(n)
      BY <3>1
    <3> QED
      BY <1>1, <1>4, <3>2
  <2>11. n \in Nat \ {0}
    BY <1>5, <1>7
  <2> HIDE DEF af, l
  <2>12. /\ \A k \in 1 .. n : s[k] = SubSeq(icc_data, af[k - 1] + 1, af[k])
         /\ \A k \in 1 .. n : af[k - 1] <= af[k]
         /\ \A k \in 0 .. n : af[k] \in 0 .. Len(icc_data)
    BY <2>7, <2>8
  <2>13. FlattenSeq(s) = icc_data
    <3>1. Stuecke(icc_data, n, af, s)
      BY <2>9, <2>10, <2>12 DEF Stuecke
    <3> QED
      BY <1>3, <2>11, <3>1, FlattenStuecke
  <2> QED
    BY <2>6, <2>13 DEF w
<1> QED
  BY <1>6, <1>7

-----------------------------------------------------------------------------
(* The metadata.                                                           *)

(* The first section of a kind, if there is one.                           *)
Erste(S, t) == IF Nur(S, {t}) = <<>> THEN <<>> ELSE <<Nur(S, {t})[1]>>
GleicheErste(S, f) == \A t \in Angaben : Erste(S, t) = Erste(f, t)

(* Metadata as a result carries it: an Exif section is the first.          *)
Angabe == {s \in Sektion : s.typ \in Angaben}
Ordentlich(v) == v \in Seq(Angabe) /\ \A k \in DOMAIN v : v[k].typ = "EXIF" => k = 1

Reihe(a, b, c, d) == a \o b \o c \o d
Rechts(a, b, c, d) == a \o (b \o (c \o d))

(* The result of the save with content w, with the sections v of the photo.*)
Eigene(w) == [k \in 1 .. 5 |-> Neue(<<"DQT", "SOF", "DHT", "SOS", "REST">>[k], w)]
Kopf(v, c) == IF v # <<>> /\ v[1].typ = "EXIF" THEN <<>> ELSE <<Neue("JFIF", c)>>
Aufbau(f, v) ==
  \E c \in Seq(Nat) :
    f = Reihe(Kopf(v, c), v, write_icc_profile, Eigene(<<geladen, gesichert - 1>>))

Von == NurExif(foto)
Ziel == IF exifdreh > 1 THEN Gedreht(Von) ELSE Von

(* What a read of the picture alone keeps, and behind what.                *)
EigeneTypen == Typen \ (Angaben \cup {"JFIF", "APP1"})
Basis == IF pass = "drehen" /\ Orientation \in 2 .. 8 THEN Gedreht(Von) ELSE Von

LEMMA ErsteEine ==
  ASSUME NEW X, NEW S \in Seq(X), NEW t
  PROVE  Erste(S, t) = <<>> \/ \E e \in X : e.typ = t /\ Erste(S, t) = <<e>>
<1> DEFINE A == {s \in X : s.typ \in {t}}
           f == Nur(S, {t})
<1>1. f \in Seq(A)
  BY NurTypen
<1>2. \A s \in A : s \in X /\ s.typ = t
  OBVIOUS
<1> HIDE DEF A
<1>3. f # <<>> => f[1] \in A
  <2> HIDE DEF f
  <2>1. f # <<>> => 1 \in 1 .. Len(f)
    BY <1>1, EmptySeq
  <2> QED
    BY <1>1, <2>1, ElementOfSeq
<1>4. Erste(S, t) = IF f = <<>> THEN <<>> ELSE <<f[1]>>
  BY DEF Erste
<1> HIDE DEF f
<1> QED
  BY <1>2, <1>3, <1>4

LEMMA ErsteTyp ==
  ASSUME NEW X, NEW S \in Seq(X), NEW t
  PROVE  Erste(S, t) \in Seq({s \in X : s.typ = t})
<1> DEFINE A == {s \in X : s.typ = t}
<1>1. CASE Erste(S, t) = <<>>
  BY <1>1
<1>2. ASSUME NEW e \in X, e.typ = t, Erste(S, t) = <<e>> PROVE Erste(S, t) \in Seq(A)
  <2>1. e \in A
    BY <1>2
  <2> HIDE DEF A
  <2> QED
    BY <1>2, <2>1
<1> QED
  BY <1>1, <1>2, ErsteEine

LEMMA ErsteVerkettet ==
  ASSUME NEW X, NEW a \in Seq(X), NEW b \in Seq(X), NEW t
  PROVE  Erste(a \o b, t) = IF Erste(a, t) = <<>> THEN Erste(b, t) ELSE Erste(a, t)
<1> DEFINE f == Nur(a, {t})
           g == Nur(b, {t})
<1>1. f \in Seq(X) /\ g \in Seq(X) /\ Nur(a \o b, {t}) = f \o g
  <2>1. f \in Seq(X) /\ g \in Seq(X)
    BY NurTypen
  <2>2. Nur(a \o b, {t}) = f \o g
    BY NurVerkettet
  <2> QED
    BY <2>1, <2>2
<1>2. /\ Erste(a, t) = IF f = <<>> THEN <<>> ELSE <<f[1]>>
      /\ Erste(b, t) = IF g = <<>> THEN <<>> ELSE <<g[1]>>
      /\ Erste(a \o b, t) = IF f \o g = <<>> THEN <<>> ELSE <<(f \o g)[1]>>
  BY <1>1 DEF Erste
<1> HIDE DEF f, g
<1>3. CASE f = <<>>
  BY <1>1, <1>2, <1>3, ConcatEmptySeq
<1>4. CASE f # <<>>
  <2>1. f \o g # <<>> /\ (f \o g)[1] = f[1]
    BY <1>1, <1>4, Erstes
  <2>2. <<f[1]>> # <<>>
    OBVIOUS
  <2> QED
    BY <1>2, <1>4, <2>1, <2>2
<1> QED
  BY <1>3, <1>4

LEMMA ErsteAppend ==
  ASSUME NEW X, NEW a \in Seq(X), NEW s \in X, NEW t
  PROVE  Erste(Append(a, s), t) = IF Erste(a, t) = <<>> /\ s.typ = t THEN <<s>> ELSE Erste(a, t)
<1> DEFINE f == Nur(a, {t})
<1>1. f \in Seq(X) /\ Nur(Append(a, s), {t}) = IF s.typ = t THEN Append(f, s) ELSE f
  <2>1. f \in Seq(X)
    BY NurTypen
  <2>2. Nur(Append(a, s), {t}) = IF s.typ = t THEN Append(f, s) ELSE f
    BY NurAppend
  <2> QED
    BY <2>1, <2>2
<1>2. /\ Erste(a, t) = IF f = <<>> THEN <<>> ELSE <<f[1]>>
      /\ s.typ # t => Erste(Append(a, s), t) = Erste(a, t)
      /\ s.typ = t => Erste(Append(a, s), t) = <<Append(f, s)[1]>>
  <2>1. Append(f, s) # <<>>
    BY <1>1, AppendProperties
  <2> HIDE DEF f
  <2>2. f = Nur(a, {t})
    BY DEF f
  <2> QED
    BY <1>1, <2>1, <2>2 DEF Erste
<1> HIDE DEF f
<1>3. f = <<>> => Append(f, s)[1] = s
  OBVIOUS
<1>4. f # <<>> => Append(f, s)[1] = f[1]
  <2>1. f # <<>> => 1 \in 1 .. Len(f)
    BY <1>1, EmptySeq
  <2> QED
    BY <1>1, <2>1, AppendProperties
<1>5. <<f[1]>> # <<>>
  OBVIOUS
<1> QED
  BY <1>2, <1>3, <1>4, <1>5

LEMMA ErsteLeer == \A t : Erste(<<>>, t) = <<>>
BY NurLeer DEF Erste

LEMMA ErsteEins ==
  ASSUME NEW e, NEW t
  PROVE  Erste(<<e>>, t) = IF e.typ = t THEN <<e>> ELSE <<>>
<1>1. Append(<<>>, e) = <<e>> /\ <<>> \in Seq({e}) /\ e \in {e}
  OBVIOUS
<1>2. Erste(Append(<<>>, e), t) = IF Erste(<<>>, t) = <<>> /\ e.typ = t THEN <<e>>
                                  ELSE Erste(<<>>, t)
  BY <1>1, ErsteAppend
<1> QED
  BY <1>1, <1>2, ErsteLeer

(* DiscardAllButExif keeps the first sections, and puts them in its order. *)
LEMMA VonForm ==
  ASSUME NEW X, NEW S \in Seq(X)
  PROVE  /\ NurExif(S) = Erste(S, "EXIF") \o Erste(S, "COM") \o Erste(S, "IPTC") \o Erste(S, "XMP")
         /\ \A t \in Angaben : Erste(S, t) \in Seq(X)
         /\ NurExif(S) \in Seq(X)
<1>1. NurExif(S) = Erste(S, "EXIF") \o Erste(S, "COM") \o Erste(S, "IPTC") \o Erste(S, "XMP")
  BY DEF NurExif, Erste
<1>2. ASSUME NEW t PROVE Erste(S, t) \in Seq(X)
  <2> DEFINE A == {s \in X : s.typ = t}
  <2>1. A \subseteq X
    OBVIOUS
  <2>2. Erste(S, t) \in Seq(A)
    BY ErsteTyp
  <2> HIDE DEF A
  <2> QED
    BY <2>1, <2>2, SeqMonotonic
<1> QED
  BY <1>1, <1>2, ConcatProperties

LEMMA ErsteVon ==
  ASSUME NEW X, NEW S \in Seq(X)
  PROVE  GleicheErste(NurExif(S), S)
<1> DEFINE E(t) == Erste(S, t)
           zwei == E("EXIF") \o E("COM")
           drei == zwei \o E("IPTC")
<1>1. ASSUME NEW t \in Angaben, NEW u \in Angaben
      PROVE  Erste(E(u), t) = IF t = u THEN E(u) ELSE <<>>
  <2>1. CASE E(u) = <<>>
    BY <2>1, ErsteLeer
  <2>2. ASSUME NEW e \in X, e.typ = u, E(u) = <<e>>
        PROVE  Erste(E(u), t) = IF t = u THEN E(u) ELSE <<>>
    <3> HIDE DEF E
    <3> QED
      BY <2>2, ErsteEins
  <2> QED
    BY <2>1, <2>2, ErsteEine
<1>2. \A t \in Angaben : E(t) \in Seq(X)
  BY VonForm
<1> HIDE DEF E
<1>3. /\ E("EXIF") \in Seq(X) /\ E("COM") \in Seq(X) /\ E("IPTC") \in Seq(X)
      /\ E("XMP") \in Seq(X) /\ zwei \in Seq(X) /\ drei \in Seq(X)
  BY <1>2, ConcatProperties DEF Angaben
<1>4. NurExif(S) = drei \o E("XMP")
  BY VonForm DEF E
<1>5. ASSUME NEW t \in Angaben
      PROVE  Erste(NurExif(S), t) = E(t)
  <2>1. Erste(zwei, t) = IF Erste(E("EXIF"), t) = <<>> THEN Erste(E("COM"), t)
                         ELSE Erste(E("EXIF"), t)
    BY <1>3, ErsteVerkettet
  <2>2. Erste(drei, t) = IF Erste(zwei, t) = <<>> THEN Erste(E("IPTC"), t) ELSE Erste(zwei, t)
    BY <1>3, ErsteVerkettet
  <2>3. Erste(NurExif(S), t) = IF Erste(drei, t) = <<>> THEN Erste(E("XMP"), t)
                               ELSE Erste(drei, t)
    <3> HIDE DEF drei
    <3> QED
      BY <1>3, <1>4, ErsteVerkettet
  <2>4. \A u \in Angaben : Erste(E(u), t) = IF t = u THEN E(u) ELSE <<>>
    BY <1>1
  <2> HIDE DEF zwei, drei
  <2> QED
    BY <2>1, <2>2, <2>3, <2>4 DEF Angaben
<1> QED
  BY <1>5 DEF GleicheErste, E

LEMMA VonGleich ==
  ASSUME NEW S, NEW f, GleicheErste(S, f)
  PROVE  NurExif(S) = NurExif(f)
<1>1. \A s : NurExif(s) = Erste(s, "EXIF") \o Erste(s, "COM") \o Erste(s, "IPTC") \o Erste(s, "XMP")
  BY DEF NurExif, Erste
<1>2. /\ Erste(S, "EXIF") = Erste(f, "EXIF") /\ Erste(S, "COM") = Erste(f, "COM")
      /\ Erste(S, "IPTC") = Erste(f, "IPTC") /\ Erste(S, "XMP") = Erste(f, "XMP")
  BY DEF GleicheErste, Angaben
<1> QED
  BY <1>1, <1>2

LEMMA VonOrdentlich ==
  ASSUME NEW S \in Seq(Sektion)
  PROVE  Ordentlich(NurExif(S))
<1> DEFINE E(t) == Erste(S, t)
           O == {s \in Angabe : s.typ # "EXIF"}
           R == E("COM") \o E("IPTC") \o E("XMP")
<1>1. ASSUME NEW t \in Angaben
      PROVE  /\ E(t) \in Seq(Angabe) /\ Len(E(t)) \in 0 .. 1
             /\ t # "EXIF" => E(t) \in Seq(O)
  <2>1. CASE E(t) = <<>>
    <3> HIDE DEF E, O
    <3> QED
      BY <2>1
  <2>2. ASSUME NEW e \in Sektion, e.typ = t, E(t) = <<e>>
        PROVE  /\ E(t) \in Seq(Angabe) /\ Len(E(t)) \in 0 .. 1
               /\ t # "EXIF" => E(t) \in Seq(O)
    <3>1. e \in Angabe /\ (t # "EXIF" => e \in O)
      BY <2>2 DEF Angabe
    <3> HIDE DEF E, O
    <3> QED
      BY <2>2, <3>1
  <2>3. E(t) = <<>> \/ \E e \in Sektion : e.typ = t /\ E(t) = <<e>>
    BY ErsteEine
  <2> HIDE DEF E, O
  <2> QED
    BY <2>1, <2>2, <2>3
<1>2. NurExif(S) = E("EXIF") \o E("COM") \o E("IPTC") \o E("XMP")
  BY DEF NurExif, Erste
<1>3. O \subseteq Angabe
  OBVIOUS
<1>4. \A s \in O : s.typ # "EXIF"
  OBVIOUS
<1> HIDE DEF E, O
<1>5. /\ E("EXIF") \in Seq(Angabe) /\ E("COM") \in Seq(Angabe)
      /\ E("IPTC") \in Seq(Angabe) /\ E("XMP") \in Seq(Angabe)
      /\ E("COM") \in Seq(O) /\ E("IPTC") \in Seq(O) /\ E("XMP") \in Seq(O)
      /\ Len(E("EXIF")) \in 0 .. 1
  BY <1>1 DEF Angaben
<1>6. R \in Seq(O) /\ R \in Seq(Angabe)
  BY <1>5, ConcatProperties
<1>7. NurExif(S) = E("EXIF") \o R
  <2> DEFINE a == E("EXIF")  b == E("COM")  c == E("IPTC")  d == E("XMP")
  <2>1. (a \o b) \o c = a \o (b \o c)
    BY <1>5, ConcatAssociative, SMTT(40)
  <2>2. (a \o (b \o c)) \o d = a \o ((b \o c) \o d)
    <3>1. b \o c \in Seq(Angabe)
      BY <1>5, ConcatProperties
    <3> QED
      BY <1>5, <3>1, ConcatAssociative, SMTT(40)
  <2> QED
    BY <1>2, <2>1, <2>2
<1> HIDE DEF R
<1>8. PICK v, a : v = NurExif(S) /\ a = E("EXIF")
  OBVIOUS
<1>9. /\ v = a \o R /\ v \in Seq(Angabe) /\ Len(v) = Len(a) + Len(R)
      /\ Len(a) \in 0 .. 1 /\ Len(R) \in Nat /\ DOMAIN v = 1 .. Len(v)
  BY <1>5, <1>6, <1>7, <1>8, ConcatProperties, LenProperties
<1>10. ASSUME NEW k \in DOMAIN v, k # 1 PROVE v[k].typ # "EXIF"
  <2>1. k \in 1 .. Len(a) + Len(R) /\ ~(k <= Len(a)) /\ k - Len(a) \in 1 .. Len(R)
    BY <1>9, <1>10
  <2>2. v[k] = R[k - Len(a)]
    BY <1>5, <1>6, <1>8, <1>9, <2>1, ConcatProperties
  <2>3. R[k - Len(a)] \in O
    BY <1>6, <2>1, ElementOfSeq
  <2> QED
    BY <1>4, <2>2, <2>3
<1> QED
  BY <1>8, <1>9, <1>10 DEF Ordentlich

(* Turned upright they are the same but for the orientation.               *)
LEMMA GedrehtForm ==
  ASSUME NEW v, Ordentlich(v)
  PROVE  /\ Ordentlich(Gedreht(v)) /\ Len(Gedreht(v)) = Len(v)
         /\ \A c : Kopf(Gedreht(v), c) = Kopf(v, c)
         /\ (v # <<>> /\ v[1].typ = "EXIF" => v[1].lage \in {0, 1}) => Gedreht(v) = v
<1> DEFINE g == Gedreht(v)
<1>1. v \in Seq(Angabe) /\ Len(v) \in Nat /\ DOMAIN v = 1 .. Len(v)
  BY LenProperties DEF Ordentlich
<1>2. ASSUME NEW k \in DOMAIN v
      PROVE  /\ g[k] \in Angabe /\ g[k].typ = v[k].typ
             /\ v[k].typ = "EXIF" /\ v[k].lage # 0 => g[k] = [v[k] EXCEPT !.lage = 1]
             /\ ~(v[k].typ = "EXIF" /\ v[k].lage # 0) => g[k] = v[k]
  <2>1. v[k] \in Angabe
    BY <1>1
  <2>2. g[k] = IF v[k].typ = "EXIF" /\ v[k].lage # 0 THEN [v[k] EXCEPT !.lage = 1] ELSE v[k]
    BY DEF Gedreht
  <2> QED
    BY <2>1, <2>2 DEF Angabe, Sektion
<1>3. g = [k \in 1 .. Len(v) |-> g[k]]
  BY <1>1 DEF Gedreht
<1> HIDE DEF g
<1>4. g \in Seq(Angabe) /\ Len(g) = Len(v) /\ DOMAIN g = DOMAIN v
  <2>1. \A k \in 1 .. Len(v) : g[k] \in Angabe
    BY <1>1, <1>2
  <2> QED
    BY <1>1, <1>3, <2>1
<1>5. Ordentlich(g)
  BY <1>2, <1>4 DEF Ordentlich
<1>6. ASSUME NEW c PROVE Kopf(g, c) = Kopf(v, c)
  <2>1. CASE v = <<>>
    <3>1. g = <<>>
      BY <1>1, <1>4, <2>1, EmptySeq
    <3> QED
      BY <2>1, <3>1
  <2>2. CASE v # <<>>
    <3>1. 1 \in DOMAIN v
      BY <1>1, <2>2, EmptySeq
    <3>2. g # <<>> /\ g[1].typ = v[1].typ
      BY <1>1, <1>2, <1>4, <3>1
    <3> QED
      BY <2>2, <3>2 DEF Kopf
  <2> QED
    BY <2>1, <2>2
<1>7. ASSUME v # <<>> /\ v[1].typ = "EXIF" => v[1].lage \in {0, 1} PROVE g = v
  <2>1. ASSUME NEW k \in 1 .. Len(v) PROVE g[k] = v[k]
    <3>1. CASE v[k].typ = "EXIF" /\ v[k].lage # 0
      <4>1. k = 1 /\ v # <<>>
        BY <1>1, <3>1 DEF Ordentlich
      <4>2. v[k].lage = 1
        BY <1>7, <3>1, <4>1
      <4>3. v[k] \in Sektion
        BY <1>1 DEF Angabe
      <4>4. [v[k] EXCEPT !.lage = 1] = v[k]
        BY <4>2, <4>3 DEF Sektion
      <4> QED
        BY <1>1, <1>2, <3>1, <4>4
    <3> QED
      BY <1>1, <1>2, <3>1
  <2> QED
    BY <1>1, <1>4, <2>1, SeqEqual
<1> QED
  BY <1>4, <1>5, <1>6, <1>7 DEF g

(* Sections of which none has more of a profile than a marker holds, and   *)
(* those of some kinds.                                                    *)
Gut == {s \in Sektion : s.typ = "ICC" => Len(s.was) <= MaxBytes}
Art(T) == {s \in Gut : s.typ \in T}

LEMMA GutSektion == Gut \subseteq Sektion /\ Seq(Gut) \subseteq Seq(Sektion)
<1>1. Gut \subseteq Sektion
  BY DEF Gut
<1> QED
  BY <1>1, SeqMonotonic

LEMMA ArtGut == \A A : Seq(Art(A)) \subseteq Seq(Gut)
<1> SUFFICES ASSUME NEW A PROVE Seq(Art(A)) \subseteq Seq(Gut)
  OBVIOUS
<1>1. Art(A) \subseteq Gut
  BY DEF Art
<1> QED
  BY <1>1, SeqMonotonic

LEMMA NurArt ==
  ASSUME NEW A, NEW T, NEW f \in Seq(Art(A))
  PROVE  /\ A \subseteq T => Nur(f, T) = f
         /\ A \cap T = {} => Nur(f, T) = <<>>
<1> DEFINE S == Art(A)
<1>1. \A s \in S : s.typ \in A
  BY DEF Art
<1> HIDE DEF S
<1>2. f \in Seq(S)
  BY DEF S
<1>3. ASSUME A \subseteq T PROVE Nur(f, T) = f
  <2>1. \A s \in S : s.typ \in T
    BY <1>1, <1>3
  <2> QED
    BY <1>2, <2>1, NurAlle
<1>4. ASSUME A \cap T = {} PROVE Nur(f, T) = <<>>
  <2>1. \A s \in S : s.typ \notin T
    BY <1>1, <1>4
  <2> QED
    BY <1>2, <2>1, NurKeine
<1> QED
  BY <1>3, <1>4

(* Read on by one section.                                                 *)
LEMMA Vorne ==
  ASSUME NEW S, NEW f \in Seq(S), NEW p \in 1 .. Len(f)
  PROVE  /\ SubSeq(f, 1, p) = Append(SubSeq(f, 1, p - 1), f[p])
         /\ SubSeq(f, 1, p) \in Seq(S) /\ SubSeq(f, 1, p - 1) \in Seq(S)
<1>1. Len(f) \in Nat /\ 1 \in 1 .. Len(f) /\ p \in 1 .. Len(f) /\ f[p] \in S
  BY LenProperties, ElementOfSeq
<1>2. SubSeq(f, 1, p) = SubSeq(f, 1, p - 1) \o <<f[p]>>
  BY <1>1, SubSeqRecursiveSecond
<1>3. SubSeq(f, 1, p) \in Seq(S) /\ SubSeq(f, 1, p - 1) \in Seq(S)
  BY <1>1
<1> QED
  BY <1>1, <1>2, <1>3, AppendIsConcat

LEMMA NurVerkettung ==
  ASSUME NEW S
  PROVE  \A T : \A x, y \in Seq(S) : Nur(x \o y, T) = Nur(x, T) \o Nur(y, T)
BY NurVerkettet

(* Four parts in a row.                                                    *)
LEMMA VierTeile ==
  ASSUME NEW a \in Seq(Gut), NEW b \in Seq(Gut), NEW c \in Seq(Gut), NEW d \in Seq(Gut)
  PROVE  /\ Reihe(a, b, c, d) \in Seq(Gut)
         /\ Len(Reihe(a, b, c, d)) = Len(a) + Len(b) + Len(c) + Len(d)
<1> DEFINE ab == a \o b  abc == ab \o c
<1>1. ab \in Seq(Gut) /\ abc \in Seq(Gut) /\ abc \o d \in Seq(Gut)
  BY ConcatProperties
<1>2. /\ Len(ab) = Len(a) + Len(b) /\ Len(abc) = Len(ab) + Len(c)
      /\ Len(abc \o d) = Len(abc) + Len(d)
  BY <1>1, ConcatProperties
<1> QED
  BY <1>1, <1>2 DEF Reihe

LEMMA VierRechts ==
  ASSUME NEW a \in Seq(Gut), NEW b \in Seq(Gut), NEW c \in Seq(Gut), NEW d \in Seq(Gut)
  PROVE  Reihe(a, b, c, d) = Rechts(a, b, c, d)
<1> DEFINE ab == a \o b
<1>1. ab \in Seq(Gut) /\ c \o d \in Seq(Gut)
  BY ConcatProperties
<1>2. ab \o (c \o d) = a \o (b \o (c \o d))
  BY <1>1, ConcatAssociative, SMTT(40)
<1> HIDE DEF ab
<1>3. ab \o c \o d = ab \o (c \o d)
  BY <1>1, ConcatAssociative, SMTT(40)
<1> QED
  BY <1>2, <1>3 DEF ab, Reihe, Rechts

LEMMA VierNur ==
  ASSUME NEW a \in Seq(Gut), NEW b \in Seq(Gut), NEW c \in Seq(Gut), NEW d \in Seq(Gut), NEW T
  PROVE  Nur(Reihe(a, b, c, d), T) = Reihe(Nur(a, T), Nur(b, T), Nur(c, T), Nur(d, T))
<1> DEFINE ab == a \o b  abc == ab \o c
<1>1. \A x, y \in Seq(Gut) : Nur(x \o y, T) = Nur(x, T) \o Nur(y, T)
  BY NurVerkettung
<1>2. ab \in Seq(Gut) /\ abc \in Seq(Gut)
  BY ConcatProperties
<1>3. Nur(ab, T) = Nur(a, T) \o Nur(b, T)
  BY <1>1
<1> HIDE DEF ab
<1>4. Nur(abc, T) = Nur(ab, T) \o Nur(c, T)
  BY <1>1, <1>2
<1> HIDE DEF abc
<1>5. Nur(abc \o d, T) = Nur(abc, T) \o Nur(d, T)
  BY <1>1, <1>2
<1> QED
  BY <1>3, <1>4, <1>5 DEF ab, abc, Reihe

(* The parts of a result, and what each reading of it finds.               *)
Bildteile == {"DQT", "DHT", "SOF", "SOS", "REST"}

Teile(K, v, w, g) ==
  /\ K \in Seq(Art({"JFIF"})) /\ v \in Seq(Art(Angaben))
  /\ w \in Seq(Art({"ICC"})) /\ g \in Seq(Art(Bildteile))

Gefunden(f, K, v, w, g) ==
  /\ Nur(f, Angaben) = v /\ Marken(f) = w /\ Nur(f, EigeneTypen) = w \o g
  /\ Nur(f, Typen \ (Angaben \cup {"ICC"})) = K \o g
  /\ GleicheErste(f, v)

LEMMA ArtMehr ==
  ASSUME NEW A, NEW B, A \subseteq B
  PROVE  Seq(Art(A)) \subseteq Seq(Art(B))
<1>1. Art(A) \subseteq Art(B)
  BY DEF Art
<1> QED
  BY <1>1, SeqMonotonic

LEMMA TeileNur ==
  ASSUME NEW K, NEW v, NEW w, NEW g, Teile(K, v, w, g),
         NEW f, f = Reihe(K, v, w, g)
  PROVE  Gefunden(f, K, v, w, g)
<1>1. K \in Seq(Gut) /\ v \in Seq(Gut) /\ w \in Seq(Gut) /\ g \in Seq(Gut)
  BY ArtGut DEF Teile
<1>2. \A T : Nur(f, T) = Reihe(Nur(K, T), Nur(v, T), Nur(w, T), Nur(g, T))
  BY <1>1, VierNur
<1>3. /\ \A x \in Seq(Gut) : Reihe(<<>>, x, <<>>, <<>>) = x
      /\ Reihe(<<>>, <<>>, w, g) = w \o g /\ Reihe(<<>>, <<>>, w, <<>>) = w
      /\ Reihe(K, <<>>, <<>>, g) = K \o g
  <2>1. \A s \in Seq(Gut) : s \o <<>> = s /\ <<>> \o s = s
    BY ConcatEmptySeq
  <2>2. <<>> \o <<>> = <<>>
    BY <2>1, EmptySeq
  <2>3. \A x \in Seq(Gut) : <<>> \o x \o <<>> \o <<>> = x
    BY <2>1
  <2> QED
    BY <1>1, <2>1, <2>2, <2>3 DEF Reihe
<1>4. \A T : /\ {"JFIF"} \subseteq T => Nur(K, T) = K
             /\ {"JFIF"} \cap T = {} => Nur(K, T) = <<>>
  BY NurArt DEF Teile
<1>5. \A T : /\ Angaben \subseteq T => Nur(v, T) = v
             /\ Angaben \cap T = {} => Nur(v, T) = <<>>
  BY NurArt DEF Teile
<1>6. \A T : /\ {"ICC"} \subseteq T => Nur(w, T) = w
             /\ {"ICC"} \cap T = {} => Nur(w, T) = <<>>
  BY NurArt DEF Teile
<1>7. \A T : /\ Bildteile \subseteq T => Nur(g, T) = g
             /\ Bildteile \cap T = {} => Nur(g, T) = <<>>
  BY NurArt DEF Teile
<1>8. Nur(f, Angaben) = v
  <2>1. /\ {"JFIF"} \cap Angaben = {} /\ {"ICC"} \cap Angaben = {}
        /\ Bildteile \cap Angaben = {} /\ Angaben \subseteq Angaben
    BY DEF Angaben, Bildteile
  <2>2. /\ Nur(K, Angaben) = <<>> /\ Nur(v, Angaben) = v
        /\ Nur(w, Angaben) = <<>> /\ Nur(g, Angaben) = <<>>
    BY <1>4, <1>5, <1>6, <1>7, <2>1
  <2> QED
    BY <1>1, <1>2, <1>3, <2>2
<1>9. Marken(f) = w
  <2> DEFINE T == {"ICC"}
  <2>1. /\ {"JFIF"} \cap T = {} /\ Angaben \cap T = {} /\ Bildteile \cap T = {}
    BY DEF Angaben, Bildteile
  <2>2. Nur(K, T) = <<>> /\ Nur(v, T) = <<>> /\ Nur(w, T) = w /\ Nur(g, T) = <<>>
    BY <1>4, <1>5, <1>6, <1>7, <2>1
  <2>3. Marken(f) = Nur(f, T)
    BY DEF Marken
  <2> QED
    BY <1>2, <1>3, <2>2, <2>3
<1>10. Nur(f, EigeneTypen) = w \o g
  <2>1. /\ {"JFIF"} \cap EigeneTypen = {} /\ Angaben \cap EigeneTypen = {}
        /\ {"ICC"} \subseteq EigeneTypen /\ Bildteile \subseteq EigeneTypen
    BY DEF Angaben, Bildteile, EigeneTypen, Typen
  <2>2. /\ Nur(K, EigeneTypen) = <<>> /\ Nur(v, EigeneTypen) = <<>>
        /\ Nur(w, EigeneTypen) = w /\ Nur(g, EigeneTypen) = g
    BY <1>4, <1>5, <1>6, <1>7, <2>1
  <2> QED
    BY <1>2, <1>3, <2>2
<1>11. Nur(f, Typen \ (Angaben \cup {"ICC"})) = K \o g
  <2> DEFINE T == Typen \ (Angaben \cup {"ICC"})
  <2>1. /\ {"JFIF"} \subseteq T /\ Angaben \cap T = {}
        /\ {"ICC"} \cap T = {} /\ Bildteile \subseteq T
    BY DEF Angaben, Bildteile, Typen
  <2> HIDE DEF T
  <2>2. Nur(K, T) = K /\ Nur(v, T) = <<>> /\ Nur(w, T) = <<>> /\ Nur(g, T) = g
    BY <1>4, <1>5, <1>6, <1>7, <2>1
  <2>3. Nur(f, T) = K \o g
    BY <1>2, <1>3, <2>2
  <2> QED
    BY <2>3 DEF T
<1>12. GleicheErste(f, v)
  <2> SUFFICES ASSUME NEW t \in Angaben PROVE Nur(f, {t}) = Nur(v, {t})
    BY DEF GleicheErste, Erste
  <2>1. {"JFIF"} \cap {t} = {} /\ {"ICC"} \cap {t} = {} /\ Bildteile \cap {t} = {}
    BY DEF Angaben, Bildteile
  <2>2. Nur(K, {t}) = <<>> /\ Nur(w, {t}) = <<>> /\ Nur(g, {t}) = <<>>
    BY <1>4, <1>6, <1>7, <2>1
  <2>3. Nur(v, {t}) \in Seq(Gut)
    BY <1>1, NurTypen
  <2> QED
    BY <1>2, <1>3, <2>2, <2>3
<1> QED
  BY <1>8, <1>9, <1>10, <1>11, <1>12 DEF Gefunden

LEMMA Stellen ==
  ASSUME NEW a \in Seq(Gut), NEW b \in Seq(Gut), NEW k \in 1 .. Len(a) + Len(b)
  PROVE  IF k <= Len(a) THEN k \in 1 .. Len(a) /\ (a \o b)[k] = a[k]
         ELSE k - Len(a) \in 1 .. Len(b) /\ (a \o b)[k] = b[k - Len(a)]
<1>1. Len(a) \in Nat /\ Len(b) \in Nat
  BY LenProperties
<1>2. CASE k <= Len(a)
  BY <1>1, <1>2, ConcatProperties, ElementOfSeq
<1>3. CASE ~(k <= Len(a))
  <2>1. k - Len(a) \in 1 .. Len(b)
    BY <1>1, <1>3
  <2> QED
    BY <1>1, <1>3, <2>1, ConcatProperties, ElementOfSeq
<1> QED
  BY <1>2, <1>3

LEMMA Hinten ==
  ASSUME NEW a \in Seq(Gut), NEW b \in Seq(Gut), NEW k \in 1 .. Len(b)
  PROVE  (a \o b)[Len(a) + k] = b[k]
<1>1. Len(a) \in Nat /\ Len(b) \in Nat
  BY LenProperties
<1>2. /\ Len(a) + k \in 1 .. Len(a) + Len(b) /\ ~(Len(a) + k <= Len(a))
      /\ (Len(a) + k) - Len(a) = k
  BY <1>1
<1> QED
  BY <1>2, Stellen

(* It is a file like those that are opened.                                *)
LEMMA TeileJpeg ==
  ASSUME NEW K, NEW v, NEW w, NEW g, Teile(K, v, w, g),
         Len(g) = 5, g[4].typ = "SOS", g[5].typ = "REST",
         \A k \in 1 .. 3 : g[k].typ \notin {"SOS", "REST"},
         NEW f, f = Reihe(K, v, w, g)
  PROVE  Jpeg(f) /\ f \in Seq(Gut) /\ f # <<>>
<1> DEFINE B == Angaben \cup {"JFIF", "ICC"}
           a == K \o v \o w
<1>1. K \in Seq(Gut) /\ v \in Seq(Gut) /\ w \in Seq(Gut) /\ g \in Seq(Gut)
  BY ArtGut DEF Teile
<1>2. a \in Seq(Art(B)) /\ a \in Seq(Gut)
  <2> HIDE DEF a
  <2>1. {"JFIF"} \subseteq B /\ Angaben \subseteq B /\ {"ICC"} \subseteq B
    OBVIOUS
  <2> HIDE DEF B
  <2>2. K \in Seq(Art(B)) /\ v \in Seq(Art(B)) /\ w \in Seq(Art(B))
    BY <2>1, ArtMehr DEF Teile
  <2>3. K \o v \in Seq(Art(B))
    BY <2>2, ConcatProperties
  <2>4. a \in Seq(Art(B))
    BY <2>2, <2>3, ConcatProperties DEF a
  <2> QED
    BY <2>4, ArtGut
<1>3. \A s \in Art(B) : s.typ \notin {"SOS", "REST"}
  BY DEF Art, Angaben
<1>4. f = a \o g
  BY DEF Reihe
<1> HIDE DEF B, a
<1>5. f \in Seq(Gut) /\ Len(f) = Len(a) + 5 /\ Len(a) \in Nat
  <2>1. a \o g \in Seq(Gut) /\ Len(a \o g) = Len(a) + Len(g)
    BY <1>1, <1>2, ConcatProperties
  <2>2. Len(a) \in Nat
    BY <1>2, LenProperties
  <2> QED
    BY <1>4, <2>1, <2>2
<1>6. PICK n \in Nat : n = Len(a)
  BY <1>5
<1>7. /\ \A k \in 1 .. n : f[k] = a[k] /\ a[k] \in Art(B)
      /\ \A k \in 1 .. 5 : f[n + k] = g[k]
  <2>1. ASSUME NEW k \in 1 .. n PROVE f[k] = a[k] /\ a[k] \in Art(B)
    BY <1>1, <1>2, <1>4, <1>6, ConcatProperties, ElementOfSeq
  <2>2. ASSUME NEW k \in 1 .. 5 PROVE f[n + k] = g[k]
    <3>0. k \in 1 .. Len(g) /\ a \in Seq(Gut) /\ g \in Seq(Gut)
      BY <1>1, <1>2
    <3>1. (a \o g)[Len(a) + k] = g[k]
      BY <3>0, Hinten, Zenon
    <3> QED
      BY <1>4, <1>6, <3>1
  <2> QED
    BY <2>1, <2>2
<1>8. f[n + 4].typ = "SOS" /\ f[n + 5].typ = "REST"
  BY <1>7
<1>9. ASSUME NEW k \in 1 .. n + 3 PROVE f[k].typ \notin {"SOS", "REST"}
  <2>1. CASE k \in 1 .. n
    BY <1>3, <1>7, <2>1
  <2>2. CASE k \notin 1 .. n
    <3>1. k - n \in 1 .. 3 /\ k - n \in 1 .. 5 /\ n + (k - n) = k
      BY <2>2
    <3>2. f[k] = g[k - n]
      BY <1>7, <3>1
    <3> QED
      BY <3>1, <3>2
  <2> QED
    BY <2>1, <2>2
<1>10. Len(f) = n + 5 /\ Len(f) > 1 /\ Len(f) - 1 = n + 4 /\ Len(f) - 2 = n + 3
  BY <1>5, <1>6
<1>11. Jpeg(f)
  BY <1>8, <1>9, <1>10 DEF Jpeg
<1> QED
  BY <1>5, <1>10, <1>11, EmptySeq

(* An Exif section is its first.                                           *)
LEMMA TeileExif ==
  ASSUME NEW K, NEW v, NEW w, NEW g, Teile(K, v, w, g),
         \A k \in DOMAIN v : v[k].typ = "EXIF" => k = 1,
         v # <<>> /\ v[1].typ = "EXIF" => K = <<>>,
         NEW f, f = Reihe(K, v, w, g),
         NEW k \in DOMAIN f, f[k].typ = "EXIF"
  PROVE  k = 1 /\ v # <<>> /\ K = <<>>
<1> DEFINE B == {"JFIF", "ICC"} \cup Bildteile
           r == w \o g
           a == v \o r
<1>1. /\ K \in Seq(Gut) /\ v \in Seq(Gut) /\ w \in Seq(Gut) /\ g \in Seq(Gut)
  BY ArtGut DEF Teile
<1>2. /\ r \in Seq(Art(B)) /\ K \in Seq(Art(B))
  <2>1. {"JFIF"} \subseteq B /\ Bildteile \subseteq B /\ {"ICC"} \subseteq B
    OBVIOUS
  <2> HIDE DEF B
  <2>2. K \in Seq(Art(B)) /\ g \in Seq(Art(B)) /\ w \in Seq(Art(B))
    BY <2>1, ArtMehr DEF Teile
  <2> QED
    BY <2>2, ConcatProperties
<1>3. \A s \in Art(B) : s.typ # "EXIF"
  BY DEF Art, Bildteile
<1>4. f = K \o a
  <2>1. f = Rechts(K, v, w, g)
    BY <1>1, VierRechts
  <2> QED
    BY <2>1 DEF Rechts
<1>5. r \in Seq(Gut)
  BY <1>2, ArtGut
<1> HIDE DEF B, r
<1>6. a \in Seq(Gut) /\ Len(a) = Len(v) + Len(r) /\ Len(v) \in Nat /\ Len(r) \in Nat
  BY <1>1, <1>5, ConcatProperties, LenProperties
<1>7. \A i \in 1 .. Len(v) + Len(r) :
        a[i].typ = "EXIF" => i \in 1 .. Len(v) /\ a[i] = v[i]
  <2> SUFFICES ASSUME NEW i \in 1 .. Len(v) + Len(r), a[i].typ = "EXIF"
               PROVE  i \in 1 .. Len(v) /\ a[i] = v[i]
    OBVIOUS
  <2>1. CASE i <= Len(v)
    BY <1>1, <1>5, <2>1, Stellen
  <2>2. CASE ~(i <= Len(v))
    <3>1. i - Len(v) \in 1 .. Len(r) /\ a[i] = r[i - Len(v)]
      BY <1>1, <1>5, <2>2, Stellen
    <3>2. r[i - Len(v)] \in Art(B)
      BY <1>2, <3>1, ElementOfSeq
    <3> QED
      BY <1>3, <3>1, <3>2
  <2> QED
    BY <2>1, <2>2
<1> HIDE DEF a
<1>8. Len(K) \in Nat /\ k \in 1 .. Len(K) + Len(a)
  BY <1>1, <1>4, <1>6, ConcatProperties, LenProperties
<1>9. ~(k <= Len(K))
  <2> SUFFICES ASSUME k <= Len(K) PROVE FALSE
    OBVIOUS
  <2>1. k \in 1 .. Len(K) /\ f[k] = K[k]
    BY <1>1, <1>4, <1>6, <1>8, Stellen
  <2>2. K[k] \in Art(B)
    BY <1>2, <2>1, ElementOfSeq
  <2> QED
    BY <1>3, <2>1, <2>2
<1>10. k - Len(K) \in 1 .. Len(a) /\ f[k] = a[k - Len(K)]
  BY <1>1, <1>4, <1>6, <1>8, <1>9, Stellen, SMTT(40)
<1>11. k - Len(K) \in 1 .. Len(v) /\ v[k - Len(K)].typ = "EXIF"
  BY <1>6, <1>7, <1>10
<1>12. DOMAIN v = 1 .. Len(v)
  BY LenProperties
<1>13. k - Len(K) = 1 /\ v # <<>>
  BY <1>6, <1>11, <1>12, EmptySeq
<1>14. K = <<>>
  BY <1>11, <1>13
<1>15. Len(K) = 0
  BY <1>14
<1> QED
  BY <1>8, <1>13, <1>14, <1>15

(* The parts that are written, for any photo.                              *)
LEMMA EigeneForm ==
  ASSUME NEW i \in Seq(Nat)
  PROVE  /\ Eigene(i) \in Seq(Art(Bildteile)) /\ Len(Eigene(i)) = 5
         /\ [k \in DOMAIN Eigene(i) |-> Eigene(i)[k].typ] = <<"DQT", "SOF", "DHT", "SOS", "REST">>
         /\ \A k \in 1 .. 5 : Eigene(i)[k].was = i
         /\ Eigene(i)[1].typ = "DQT" /\ Eigene(i)[4].typ = "SOS" /\ Eigene(i)[5].typ = "REST"
         /\ \A k \in 1 .. 3 : Eigene(i)[k].typ \notin {"SOS", "REST"}
<1> DEFINE b == <<"DQT", "SOF", "DHT", "SOS", "REST">>
           g == Eigene(i)
<1>1. g = [k \in 1 .. 5 |-> Neue(b[k], i)]
  BY DEF Eigene
<1>2. b \in [1 .. 5 -> Bildteile]
  BY DEF Bildteile
<1>3. \A k \in 1 .. 5 : b[k] \in Bildteile
  BY DEF Bildteile
<1>4. \A k \in 1 .. 3 : b[k] \notin {"SOS", "REST"}
  OBVIOUS
<1>5. b[1] = "DQT" /\ b[4] = "SOS" /\ b[5] = "REST"
  OBVIOUS
<1>6. b = [k \in 1 .. 5 |-> b[k]]
  OBVIOUS
<1> HIDE DEF b, g
<1>7. ASSUME NEW k \in 1 .. 5
      PROVE  g[k] \in Art(Bildteile) /\ g[k].typ = b[k] /\ g[k].was = i
  <2>1. g[k] = [typ |-> b[k], was |-> i, lage |-> 0, nr |-> 0, von |-> 0]
    BY <1>1 DEF Neue
  <2>2. b[k] \in Typen /\ b[k] # "ICC" /\ b[k] \in Bildteile
    BY <1>3 DEF Typen, Bildteile
  <2>3. 0 \in 0 .. MaxNummer
    BY ZahlenAssumption
  <2>4. g[k] \in Sektion /\ g[k].typ = b[k] /\ g[k].was = i
    BY <2>1, <2>2, <2>3 DEF Sektion
  <2> QED
    BY <2>2, <2>4 DEF Art, Gut
<1>8. g \in Seq(Art(Bildteile)) /\ Len(g) = 5 /\ DOMAIN g = 1 .. 5
  BY <1>1, <1>7
<1>9. [k \in DOMAIN g |-> g[k].typ] = b
  BY <1>6, <1>7, <1>8
<1> QED
  BY <1>4, <1>5, <1>7, <1>8, <1>9 DEF b, g

LEMMA MarkenForm ==
  ASSUME ProfilPasst
  PROVE  write_icc_profile \in Seq(Art({"ICC"}))
<1> DEFINE w == write_icc_profile
           n == (Len(icc_data) + MaxBytes - 1) \div MaxBytes
<1>1. w \in Seq(Icc) /\ Len(w) = n /\ \A k \in 1 .. n : Len(w[k].was) <= MaxBytes
  BY ProfilForm
<1> HIDE DEF w, n
<1>2. DOMAIN w = 1 .. n
  BY <1>1
<1>3. ASSUME NEW k \in 1 .. n PROVE w[k] \in Art({"ICC"})
  BY <1>1, <1>2, <1>3 DEF Art, Gut, Icc
<1>4. \A k \in DOMAIN w : w[k] \in Art({"ICC"})
  BY <1>2, <1>3
<1>5. w \in Seq(Art({"ICC"}))
  BY <1>1, <1>4
<1> QED
  BY <1>5 DEF w

LEMMA KopfForm ==
  ASSUME NEW v, NEW c \in Seq(Nat)
  PROVE  /\ Kopf(v, c) \in Seq(Art({"JFIF"}))
         /\ Kopf(v, c) = <<>> <=> v # <<>> /\ v[1].typ = "EXIF"
         /\ Kopf(v, c) # <<>> => Kopf(v, c) = <<Neue("JFIF", c)>>
<1>1. 0 \in 0 .. MaxNummer
  BY ZahlenAssumption
<1> DEFINE A == Art({"JFIF"})
           e == Neue("JFIF", c)
<1>2. e \in A
  BY <1>1 DEF Neue, Art, Gut, Sektion, Typen
<1>3. Kopf(v, c) = IF v # <<>> /\ v[1].typ = "EXIF" THEN <<>> ELSE <<e>>
  BY DEF Kopf
<1> HIDE DEF A, e
<1>4. <<e>> \in Seq(A) /\ <<>> \in Seq(A) /\ <<e>> # <<>>
  BY <1>2
<1>5. /\ Kopf(v, c) \in Seq(A)
      /\ Kopf(v, c) = <<>> <=> v # <<>> /\ v[1].typ = "EXIF"
      /\ Kopf(v, c) # <<>> => Kopf(v, c) = <<e>>
  BY <1>3, <1>4
<1> QED
  BY <1>5 DEF A, e

(* What a result with the sections v of the photo is.                      *)
Inhalt == <<geladen, gesichert - 1>>
Ergebnis(f, v) ==
  /\ f \in Seq(Gut) /\ f # <<>> /\ Jpeg(f)
  /\ Nur(f, Angaben) = v /\ Marken(f) = write_icc_profile
  /\ Nur(f, EigeneTypen) = write_icc_profile \o Eigene(Inhalt)
  /\ \E c \in Seq(Nat) : Nur(f, Typen \ (Angaben \cup {"ICC"})) = Kopf(v, c) \o Eigene(Inhalt)
  /\ GleicheErste(f, v)
  /\ \A k \in DOMAIN f : f[k].typ = "EXIF" => k = 1 /\ v # <<>> /\ f[1] = v[1]
  /\ v # <<>> /\ v[1].typ = "EXIF" => f[1] = v[1]
  /\ f[1].typ \in {"EXIF", "JFIF"}

LEMMA AufbauForm ==
  ASSUME ProfilPasst, Inhalt \in Seq(Nat), NEW v, Ordentlich(v), NEW f, Aufbau(f, v)
  PROVE  Ergebnis(f, v)
<1>1. PICK c \in Seq(Nat) : f = Reihe(Kopf(v, c), v, write_icc_profile, Eigene(Inhalt))
  BY DEF Aufbau, Inhalt
<1>2. PICK K, w, g : K = Kopf(v, c) /\ w = write_icc_profile /\ g = Eigene(Inhalt)
  OBVIOUS
<1>3. /\ g \in Seq(Art(Bildteile)) /\ Len(g) = 5 /\ g[4].typ = "SOS" /\ g[5].typ = "REST"
      /\ \A k \in 1 .. 3 : g[k].typ \notin {"SOS", "REST"}
  BY <1>2, EigeneForm
<1>4. w \in Seq(Art({"ICC"}))
  BY <1>2, MarkenForm
<1>5. /\ K \in Seq(Art({"JFIF"}))
      /\ K = <<>> <=> v # <<>> /\ v[1].typ = "EXIF"
      /\ K # <<>> => K = <<Neue("JFIF", c)>>
  BY <1>2, KopfForm
<1>6. v \in Seq(Art(Angaben)) /\ \A k \in DOMAIN v : v[k].typ = "EXIF" => k = 1
  <2>1. Angabe \subseteq Art(Angaben)
    BY DEF Angabe, Angaben, Art, Gut
  <2>2. v \in Seq(Art(Angaben))
    BY <2>1, SeqMonotonic DEF Ordentlich
  <2> QED
    BY <2>2 DEF Ordentlich
<1>7. Teile(K, v, w, g) /\ f = Reihe(K, v, w, g)
  BY <1>1, <1>2, <1>3, <1>4, <1>5, <1>6 DEF Teile
<1>8. Jpeg(f) /\ f \in Seq(Gut) /\ f # <<>>
  BY <1>3, <1>7, TeileJpeg
<1>9. Gefunden(f, K, v, w, g)
  BY <1>7, TeileNur
<1>10. ASSUME NEW k \in DOMAIN f, f[k].typ = "EXIF" PROVE k = 1 /\ v # <<>> /\ K = <<>>
  BY <1>5, <1>6, <1>7, <1>10, TeileExif
<1>11. /\ K = <<>> => f[1] = v[1]
       /\ f[1].typ \in {"EXIF", "JFIF"}
  <2> DEFINE r == w \o g
             a == v \o r
  <2>1. K \in Seq(Gut) /\ v \in Seq(Gut) /\ w \in Seq(Gut) /\ g \in Seq(Gut)
    BY <1>7, ArtGut DEF Teile
  <2>2. f = K \o a
    <3>1. f = Rechts(K, v, w, g)
      BY <1>7, <2>1, VierRechts
    <3> QED
      BY <3>1 DEF Rechts
  <2>3. r \in Seq(Gut)
    BY <2>1, ConcatProperties
  <2> HIDE DEF r
  <2>4. a \in Seq(Gut)
    BY <2>1, <2>3, ConcatProperties
  <2>5. CASE K = <<>>
    <3>1. v # <<>> /\ v[1].typ = "EXIF"
      BY <1>5, <2>5
    <3>2. a[1] = v[1]
      BY <2>1, <2>3, <3>1, Erstes
    <3> HIDE DEF a
    <3>3. f = a
      BY <2>2, <2>4, <2>5, ConcatEmptySeq
    <3> QED
      BY <3>1, <3>2, <3>3
  <2>6. CASE K # <<>>
    <3> HIDE DEF a
    <3>1. f[1] = K[1]
      BY <2>1, <2>2, <2>4, <2>6, Erstes
    <3>2. K[1] = Neue("JFIF", c)
      BY <1>5, <2>6
    <3>3. K[1].typ = "JFIF"
      BY <3>2 DEF Neue
    <3> QED
      BY <2>6, <3>1, <3>3
  <2> QED
    BY <2>5, <2>6
<1>12. \A k \in DOMAIN f : f[k].typ = "EXIF" => k = 1 /\ v # <<>> /\ f[1] = v[1]
  BY <1>10, <1>11
<1>13. v # <<>> /\ v[1].typ = "EXIF" => f[1] = v[1]
  BY <1>5, <1>11
<1> QED
  BY <1>2, <1>8, <1>9, <1>11, <1>12, <1>13 DEF Ergebnis, Gefunden

(* The photo and the profile in it, and the result.                        *)
FotoInv ==
  /\ foto \in Seq(Gut) /\ neu \in Seq(Gut)
  /\ foto # <<>> => Jpeg(foto) /\ icc_data = read_icc_profile(foto)
  /\ neu # <<>> => Jpeg(neu)
  /\ ProfilPasst
  /\ gesichert > 0 <=> neu # <<>>
  /\ gesichert > 0 => foto # <<>>

(* Which file is read for what, and how far the result is.                 *)
PassInv ==
  /\ schritt # "offen" =>
       /\ Jpeg(datei) /\ pos \in 1 .. Len(datei) - 1
       /\ schritt = "gelesen" => pos = Len(datei) - 1
       /\ gesichert = 0 <=> pass = "laden"
       /\ pass = "uebertrag" =>
            /\ Aufbau(neu, <<>>)
            /\ \/ modus = {"METADATA"} /\ datei = foto
               \/ modus = {"IMAGE"} /\ datei = neu
       /\ pass \in {"nochmal", "drehen"} => Aufbau(neu, Von) /\ datei = neu
       /\ pass = "drehen" => exifdreh > 1 /\ modus \in {{"METADATA"}, {"IMAGE"}}
  /\ schritt = "offen" /\ gesichert > 0 => Aufbau(neu, Ziel)

(* What has been collected of the file that is read.                       *)
SammelInv ==
  pass \in {"uebertrag", "drehen"} =>
    LET gelesen == SubSeq(datei, 1, pos - 1)
    IN /\ schritt = "lesen" /\ modus = {"METADATA"} =>
            GleicheErste(Sections, gelesen) /\ (HaveCom => Erste(Sections, "COM") # <<>>)
       /\ schritt = "gelesen" /\ modus = {"METADATA"} => GleicheErste(Sections, datei)
       /\ schritt = "lesen" /\ modus = {"IMAGE"} =>
            Sections = Basis \o Nur(gelesen, EigeneTypen)
       /\ schritt = "gelesen" /\ modus = {"IMAGE"} =>
            Sections = Basis \o Nur(datei, EigeneTypen)

(* The orientation that is to be cleared has been found.                   *)
LageInv ==
  schritt # "offen" /\ pass = "drehen" /\ (modus = {"IMAGE"} \/ pos > 1)
    /\ neu[1].typ = "EXIF" /\ neu[1].lage # 0 => Orientation = neu[1].lage

IInv == TypeOK /\ FotoInv /\ PassInv /\ SammelInv /\ LageInv

LEMMA VonDa ==
  ASSUME foto \in Seq(Gut)
  PROVE  /\ Von \in Seq(Sektion) /\ NurExif(Von) = Von /\ GleicheErste(Von, foto)
         /\ Ordentlich(Von) /\ Ordentlich(Gedreht(Von)) /\ Ordentlich(<<>>)
<1>1. foto \in Seq(Sektion)
  BY GutSektion
<1>2. Von \in Seq(Sektion)
  BY <1>1, VonForm DEF Von
<1>3. GleicheErste(Von, foto)
  BY <1>1, ErsteVon DEF Von
<1>4. NurExif(Von) = NurExif(foto)
  BY <1>3, VonGleich
<1>5. Ordentlich(Von)
  BY <1>1, VonOrdentlich DEF Von
<1>6. Ordentlich(Gedreht(Von))
  BY <1>5, GedrehtForm
<1>7. Ordentlich(<<>>)
  BY DEF Ordentlich
<1> QED
  BY <1>2, <1>3, <1>4, <1>5, <1>6, <1>7 DEF Von

LEMMA BasisDa ==
  ASSUME foto \in Seq(Gut)
  PROVE  Ordentlich(Basis) /\ Ordentlich(Ziel)
BY VonDa DEF Basis, Ziel

LEMMA InhaltDa ==
  ASSUME TypeOK, gesichert > 0
  PROVE  Inhalt \in Seq(Nat)
<1>1. geladen \in Nat /\ gesichert - 1 \in Nat
  BY ZahlenAssumption DEF TypeOK
<1> QED
  BY <1>1 DEF Inhalt

(* Steps that leave all this alone.                                        *)
LEMMA Bestand ==
  ASSUME UNCHANGED <<icc_data, geladen, gesichert>>
  PROVE  write_icc_profile' = write_icc_profile /\ Inhalt' = Inhalt
BY DEF write_icc_profile, num_markers, Inhalt

LEMMA AufbauBleibt ==
  ASSUME UNCHANGED <<foto, icc_data, geladen, gesichert, neu>>
  PROVE  /\ Von' = Von
         /\ Aufbau(neu, <<>>)' <=> Aufbau(neu, <<>>)
         /\ Aufbau(neu, Von)' <=> Aufbau(neu, Von)
         /\ exifdreh' = exifdreh => Ziel' = Ziel /\ (Aufbau(neu, Ziel)' <=> Aufbau(neu, Ziel))
<1>1. Von' = Von
  BY DEF Von
<1>2. exifdreh' = exifdreh => Ziel' = Ziel
  BY <1>1 DEF Ziel
<1>3. write_icc_profile' = write_icc_profile /\ Inhalt' = Inhalt
  BY Bestand
<1> QED
  BY <1>1, <1>2, <1>3 DEF Aufbau, Inhalt

LEMMA FotoBleibt ==
  ASSUME FotoInv, UNCHANGED <<foto, icc_data, gesichert, neu>>
  PROVE  FotoInv'
BY DEF FotoInv, ProfilPasst

-----------------------------------------------------------------------------
(* The steps.                                                              *)

LEMMA LadenBleibt ==
  ASSUME IInv, Laden
  PROVE  IInv'
<1> DEFINE f == foto'
<1>0. TypeOK /\ FotoInv
  BY DEF IInv
<1>1. /\ f \in Fotos \/ (f = neu /\ neu # <<>>)
      /\ icc_data' = read_icc_profile(f)
      /\ pass' = "laden" /\ datei' = f /\ modus' = {"METADATA"} /\ pos' = 1 /\ HaveCom' = FALSE
      /\ schritt' = "lesen" /\ Sections' = <<>> /\ Orientation' = 0
      /\ geladen < MaxLaden /\ geladen' = geladen + 1 /\ gesichert' = 0 /\ neu' = <<>>
      /\ UNCHANGED <<exifdreh, SectionsAllocated, daneben>>
  BY DEF Laden, Rufe, Lies
<1>2. f \in Seq(Gut) /\ Jpeg(f)
  <2>1. CASE f \in Fotos
    <3>1. f \in Seq(Sektion) /\ Jpeg(f)
      BY <2>1, FotosAssumption
    <3>2. \A k \in DOMAIN f : f[k].typ = "ICC" => Len(f[k].was) <= MaxBytes
      BY <2>1, FotosAssumption
    <3> HIDE DEF f
    <3>3. \A k \in DOMAIN f : f[k] \in Gut
      BY <3>1, <3>2 DEF Gut
    <3>4. f \in Seq(Gut)
      BY <3>1, <3>3
    <3> QED
      BY <3>1, <3>4
  <2>2. CASE f = neu /\ neu # <<>>
    BY <1>0, <2>2 DEF FotoInv
  <2> QED
    BY <1>1, <2>1, <2>2
<1>3. icc_data' \in Seq(Nat) /\ Len(icc_data') <= MaxNummer * MaxBytes
  <2> DEFINE m == Marken(f)
  <2>1. m \in Seq({s \in Gut : s.typ \in {"ICC"}})
    BY <1>2, NurTypen DEF Marken
  <2>2. {s \in Gut : s.typ \in {"ICC"}} \subseteq Art({"ICC"})
    BY DEF Art
  <2>3. m \in Seq(Art({"ICC"}))
    BY <2>1, <2>2, SeqMonotonic
  <2>4. icc_data' = Gelesen(m)
    BY <1>1, ProfilGelesen
  <2> HIDE DEF m
  <2>5. m \in Seq(Sektion)
    BY <2>3, ArtGut, GutSektion
  <2>6. \A k \in DOMAIN m : Len(m[k].was) <= MaxBytes
    <3>1. \A s \in Art({"ICC"}) : Len(s.was) <= MaxBytes
      BY DEF Art, Gut
    <3>2. \A k \in DOMAIN m : m[k] \in Art({"ICC"})
      BY <2>3
    <3> QED
      BY <3>1, <3>2
  <2> QED
    BY <2>4, <2>5, <2>6, GelesenPasst
<1> HIDE DEF f
<1>4. f \in Seq(Sektion) /\ f # <<>> /\ Len(f) \in Nat /\ Len(f) > 1
  BY <1>2, GutSektion, LenProperties, EmptySeq DEF Jpeg
<1>5. TypeOK'
  <2>1. geladen' \in 0 .. MaxLaden /\ gesichert' \in 0 .. MaxSichern
    BY <1>0, <1>1, ZahlenAssumption DEF TypeOK
  <2>2. /\ foto' \in Seq(Sektion) /\ neu' \in Seq(Sektion) /\ Sections' \in Seq(Sektion)
        /\ datei' \in Seq(Sektion)
    <3> HIDE DEF f
    <3>1. <<>> \in Seq(Sektion)
      OBVIOUS
    <3>2. foto' = f
      BY DEF f
    <3> QED
      BY <1>1, <1>4, <3>1, <3>2
  <2>3. exifdreh' \in 1 .. 8 /\ Orientation' \in 0 .. 8 /\ SectionsAllocated' \in Nat
    BY <1>0, <1>1 DEF TypeOK
  <2>4. HaveCom' \in BOOLEAN /\ daneben' \in BOOLEAN /\ pos' \in Nat
    BY <1>0, <1>1 DEF TypeOK
  <2>5. /\ schritt' \in {"offen", "lesen", "gelesen"}
        /\ pass' \in {"laden", "uebertrag", "nochmal", "drehen"}
        /\ modus' \subseteq {"METADATA", "IMAGE"}
    BY <1>1
  <2> QED
    BY <1>3, <2>1, <2>2, <2>3, <2>4, <2>5 DEF TypeOK
<1>6. FotoInv'
  BY <1>1, <1>2, <1>3, <1>4 DEF FotoInv, ProfilPasst, f
<1>7. PassInv'
  <2>1. 1 \in 1 .. Len(f) - 1
    BY <1>4
  <2> QED
    BY <1>1, <1>2, <2>1 DEF PassInv, f
<1>8. SammelInv' /\ LageInv'
  BY <1>1 DEF SammelInv, LageInv
<1> QED
  BY <1>5, <1>6, <1>7, <1>8 DEF IInv

LEMMA GeladenBleibt ==
  ASSUME IInv, Geladen
  PROVE  IInv'
<1>1. TypeOK /\ FotoInv /\ PassInv
  BY DEF IInv
<1>2. /\ schritt = "gelesen" /\ pass = "laden"
      /\ exifdreh' \in {1, IF Orientation > 1 THEN Orientation ELSE 1}
      /\ Sections' = <<>> /\ Orientation' = 0 /\ schritt' = "offen"
      /\ UNCHANGED <<foto, icc_data, geladen, gesichert>>
      /\ UNCHANGED <<neu, SectionsAllocated, HaveCom, pass, modus, datei, pos, daneben>>
  BY DEF Geladen, Entlassen, bildvars
<1>3. TypeOK'
  BY <1>1, <1>2 DEF TypeOK
<1>4. FotoInv'
  BY <1>1, <1>2, FotoBleibt
<1>5. PassInv'
  BY <1>1, <1>2 DEF PassInv
<1>6. SammelInv' /\ LageInv'
  BY <1>2 DEF SammelInv, LageInv
<1> QED
  BY <1>3, <1>4, <1>5, <1>6 DEF IInv

LEMMA NeuDa ==
  ASSUME TypeOK, FotoInv, gesichert > 0, Aufbau(neu, Von)
  PROVE  Ergebnis(neu, Von)
<1>1. Inhalt \in Seq(Nat)
  BY InhaltDa
<1>2. ProfilPasst /\ Ordentlich(Von)
  BY VonDa DEF FotoInv
<1> QED
  BY <1>1, <1>2, AufbauForm

(* Of the sections that go, none is the first of its kind.                 *)
LEMMA SammelnBleibt ==
  ASSUME NEW S \in Seq(Sektion), NEW f \in Seq(Sektion), NEW s \in Sektion,
         GleicheErste(S, f), HaveCom \in BOOLEAN, "METADATA" \in modus,
         HaveCom => Erste(S, "COM") # <<>>
  PROVE  LET T == IF Bleibt(s) THEN Append(S, s) ELSE S
         IN /\ GleicheErste(T, Append(f, s))
            /\ HaveCom \/ (s.typ = "COM" /\ Bleibt(s)) => Erste(T, "COM") # <<>>
<1>1. \A t : /\ Erste(Append(S, s), t) = IF Erste(S, t) = <<>> /\ s.typ = t THEN <<s>> ELSE Erste(S, t)
             /\ Erste(Append(f, s), t) = IF Erste(f, t) = <<>> /\ s.typ = t THEN <<s>> ELSE Erste(f, t)
  BY ErsteAppend
<1>2. \A t \in Angaben : Erste(S, t) = Erste(f, t)
  BY DEF GleicheErste
<1>3. <<s>> # <<>>
  OBVIOUS
<1>4. CASE Bleibt(s)
  <2>1. \A t \in Angaben : Erste(Append(S, s), t) = Erste(Append(f, s), t)
    BY <1>1, <1>2
  <2>2. HaveCom \/ s.typ = "COM" => Erste(Append(S, s), "COM") # <<>>
    BY <1>1, <1>3
  <2> QED
    BY <1>4, <2>1, <2>2 DEF GleicheErste
<1>5. CASE ~Bleibt(s)
  <2>1. s.typ \notin {"EXIF", "XMP", "IPTC"} /\ (s.typ = "COM" => HaveCom)
    BY <1>5 DEF Bleibt
  <2>2. ASSUME NEW t \in Angaben PROVE Erste(S, t) = Erste(Append(f, s), t)
    <3>1. CASE s.typ = t
      <4>1. t = "COM" /\ HaveCom
        BY <2>1, <3>1 DEF Angaben
      <4>2. Erste(f, t) # <<>>
        BY <1>2, <4>1
      <4> QED
        BY <1>1, <1>2, <4>2
    <3>2. CASE s.typ # t
      BY <1>1, <1>2, <3>2
    <3> QED
      BY <3>1, <3>2
  <2> QED
    BY <1>5, <2>2 DEF GleicheErste
<1> QED
  BY <1>4, <1>5

LEMMA BildBleibt ==
  ASSUME NEW s \in Sektion, modus = {"IMAGE"}
  PROVE  Bleibt(s) <=> s.typ \in EigeneTypen
BY DEF Bleibt, EigeneTypen, Angaben, Sektion

LEMMA LiesSektionBleibt ==
  ASSUME IInv, LiesSektion
  PROVE  IInv'
<1> DEFINE s == datei[pos]
           gelesen == SubSeq(datei, 1, pos - 1)
<1>0. TypeOK /\ FotoInv /\ PassInv /\ SammelInv /\ LageInv
  BY DEF IInv
<1>1. /\ schritt = "lesen" /\ schritt' = "lesen" /\ s.typ # "SOS"
      /\ SectionsAllocated' = Platz(Len(Sections), SectionsAllocated)
      /\ daneben' = (daneben \/ Len(Sections) >= SectionsAllocated')
      /\ Sections' = IF Bleibt(s) THEN Append(Sections, s) ELSE Sections
      /\ HaveCom' = (HaveCom \/ (s.typ = "COM" /\ Bleibt(s)))
      /\ Orientation' = IF s.typ = "EXIF" /\ Bleibt(s) /\ s.lage # 0 THEN s.lage ELSE Orientation
      /\ pos' = pos + 1
      /\ UNCHANGED <<foto, icc_data, geladen, gesichert>>
      /\ UNCHANGED <<exifdreh, neu, pass, modus, datei>>
  BY <1>0 DEF LiesSektion, bildvars
<1>2. /\ Jpeg(datei) /\ pos \in 1 .. Len(datei) - 1 /\ (gesichert = 0 <=> pass = "laden")
      /\ datei \in Seq(Sektion) /\ Sections \in Seq(Sektion)
      /\ pass \in {"uebertrag", "drehen"} => modus \in {{"METADATA"}, {"IMAGE"}}
      /\ pass = "drehen" => datei = neu /\ Aufbau(neu, Von)
  BY <1>0, <1>1 DEF TypeOK, PassInv
<1>3. Len(datei) \in Nat /\ pos \in Nat
  BY <1>2, LenProperties
<1>4. pos \in 1 .. Len(datei) - 2 /\ pos \in 1 .. Len(datei)
  BY <1>1, <1>2, <1>3 DEF Jpeg
<1>5. s \in Sektion
  BY <1>2, <1>4, ElementOfSeq
<1> HIDE DEF s
<1>6. TypeOK'
  <2>1. Sections' \in Seq(Sektion) /\ Len(Sections) \in Nat
    BY <1>1, <1>2, <1>5, AppendProperties, LenProperties
  <2>2. Orientation' \in 0 .. 8
    BY <1>0, <1>1, <1>5 DEF TypeOK, Sektion
  <2>3. SectionsAllocated' \in Nat
    BY <1>0, <1>1, <2>1 DEF Platz, TypeOK
  <2>4. HaveCom' \in BOOLEAN /\ daneben' \in BOOLEAN /\ pos' \in Nat
    BY <1>0, <1>1, <1>3 DEF TypeOK
  <2>5. /\ foto' \in Seq(Sektion) /\ neu' \in Seq(Sektion) /\ icc_data' \in Seq(Nat)
        /\ exifdreh' \in 1 .. 8 /\ datei' \in Seq(Sektion) /\ modus' \subseteq {"METADATA", "IMAGE"}
        /\ pass' \in {"laden", "uebertrag", "nochmal", "drehen"}
        /\ geladen' \in 0 .. MaxLaden /\ gesichert' \in 0 .. MaxSichern
    BY <1>0, <1>1 DEF TypeOK
  <2> QED
    BY <1>1, <2>1, <2>2, <2>3, <2>4, <2>5 DEF TypeOK
<1>7. FotoInv'
  BY <1>0, <1>1, FotoBleibt
<1>8. PassInv'
  <2>1. pos + 1 \in 1 .. Len(datei) - 1
    BY <1>3, <1>4
  <2>2. Aufbau(neu, <<>>)' <=> Aufbau(neu, <<>>)
    BY <1>1, AufbauBleibt
  <2>3. Aufbau(neu, Von)' <=> Aufbau(neu, Von)
    BY <1>1, AufbauBleibt
  <2> QED
    BY <1>0, <1>1, <1>2, <2>1, <2>2, <2>3 DEF PassInv
<1>9. SammelInv'
  <2> SUFFICES ASSUME pass \in {"uebertrag", "drehen"} PROVE SammelInv'
    BY <1>1 DEF SammelInv
  <2>1. /\ SubSeq(datei, 1, pos) = Append(gelesen, s)
        /\ gelesen \in Seq(Sektion)
    BY <1>2, <1>4, Vorne DEF s
  <2>2. (pos + 1) - 1 = pos
    BY <1>3
  <2> HIDE DEF gelesen
  <2>3. CASE modus = {"METADATA"}
    <3>1. GleicheErste(Sections, gelesen) /\ (HaveCom => Erste(Sections, "COM") # <<>>)
      BY <1>0, <1>1, <2>3 DEF SammelInv, gelesen
    <3>2. HaveCom \in BOOLEAN /\ "METADATA" \in modus
      BY <1>0, <2>3 DEF TypeOK
    <3>3. /\ GleicheErste(Sections', Append(gelesen, s))
          /\ HaveCom' => Erste(Sections', "COM") # <<>>
      BY <1>1, <1>2, <1>5, <2>1, <3>1, <3>2, SammelnBleibt
    <3>4. modus' # {"IMAGE"}
      BY <1>1, <2>3
    <3> QED
      BY <1>1, <2>1, <2>2, <3>3, <3>4 DEF SammelInv
  <2>4. CASE modus = {"IMAGE"}
    <3>1. Sections = Basis \o Nur(gelesen, EigeneTypen)
      BY <1>0, <1>1, <2>4 DEF SammelInv, gelesen
    <3>2. Bleibt(s) <=> s.typ \in EigeneTypen
      BY <1>5, <2>4, BildBleibt
    <3>3. Orientation' = Orientation
      BY <1>1, <3>2 DEF EigeneTypen, Angaben
    <3>4. Basis' = Basis
      BY <1>1, <3>3 DEF Basis, Von
    <3>5. Nur(Append(gelesen, s), EigeneTypen) =
            IF s.typ \in EigeneTypen THEN Append(Nur(gelesen, EigeneTypen), s)
            ELSE Nur(gelesen, EigeneTypen)
      BY <1>5, <2>1, NurAppend
    <3>6. Basis \in Seq(Sektion) /\ Nur(gelesen, EigeneTypen) \in Seq(Sektion)
      <4>1. Ordentlich(Basis)
        BY <1>0, BasisDa DEF FotoInv
      <4>2. Basis \in Seq(Angabe) /\ Angabe \subseteq Sektion
        BY <4>1 DEF Ordentlich, Angabe
      <4>3. Basis \in Seq(Sektion)
        BY <4>2, SeqMonotonic
      <4>4. Nur(gelesen, EigeneTypen) \in Seq(Sektion)
        BY <2>1, NurTypen
      <4> QED
        BY <4>3, <4>4
    <3>7. Basis \o Append(Nur(gelesen, EigeneTypen), s) =
            Append(Basis \o Nur(gelesen, EigeneTypen), s)
      BY <1>5, <3>6, AppendVerkettet
    <3>8. Sections' = Basis \o Nur(Append(gelesen, s), EigeneTypen)
      BY <1>1, <3>1, <3>2, <3>5, <3>7
    <3>9. modus' # {"METADATA"}
      BY <1>1, <2>4
    <3> QED
      BY <1>1, <2>1, <2>2, <3>4, <3>8, <3>9 DEF SammelInv
  <2> QED
    BY <1>2, <2>3, <2>4
<1>10. LageInv'
  <2> SUFFICES ASSUME pass = "drehen", modus = {"IMAGE"} \/ pos + 1 > 1,
                      neu[1].typ = "EXIF", neu[1].lage # 0
               PROVE  Orientation' = neu[1].lage
    BY <1>1 DEF LageInv
  <2>1. datei = neu /\ Aufbau(neu, Von) /\ modus \in {{"METADATA"}, {"IMAGE"}}
    BY <1>2
  <2>2. CASE modus = {"IMAGE"}
    <3>1. Orientation' = Orientation
      BY <1>1, <1>5, <2>2, BildBleibt DEF EigeneTypen, Angaben
    <3> QED
      BY <1>0, <1>1, <2>2, <3>1 DEF LageInv
  <2>3. CASE modus = {"METADATA"}
    <3>1. CASE pos = 1
      <4>1. s = neu[1]
        BY <2>1, <3>1 DEF s
      <4>2. Bleibt(s)
        BY <2>3, <4>1 DEF Bleibt
      <4> QED
        BY <1>1, <4>1, <4>2
    <3>2. CASE pos # 1
      <4>1. gesichert > 0
        BY <1>0, <1>2 DEF TypeOK
      <4>2. Ergebnis(neu, Von)
        BY <1>0, <2>1, <4>1, NeuDa
      <4>3. s.typ # "EXIF"
        BY <1>2, <1>4, <2>1, <3>2, <4>2 DEF Ergebnis, s
      <4>4. Orientation' = Orientation /\ pos > 1
        BY <1>1, <1>4, <3>2, <4>3
      <4> QED
        BY <1>0, <1>1, <4>4 DEF LageInv
    <3> QED
      BY <3>1, <3>2
  <2> QED
    BY <2>1, <2>2, <2>3
<1> QED
  BY <1>6, <1>7, <1>8, <1>9, <1>10 DEF IInv

(* A file ends with the two sections that the last step reads.             *)
LEMMA Ende ==
  ASSUME NEW f \in Seq(Sektion), Jpeg(f), NEW p \in 1 .. Len(f) - 1, f[p].typ = "SOS"
  PROVE  /\ p = Len(f) - 1 /\ f[p] \in Sektion /\ f[p + 1] \in Sektion
         /\ f[p].typ = "SOS" /\ f[p + 1].typ = "REST"
         /\ SubSeq(f, 1, p - 1) \in Seq(Sektion)
         /\ f = Append(Append(SubSeq(f, 1, p - 1), f[p]), f[p + 1])
<1>1. Len(f) \in Nat
  BY LenProperties
<1>2. p = Len(f) - 1
  BY <1>1 DEF Jpeg
<1>3. f[p].typ = "SOS" /\ f[p + 1].typ = "REST"
  BY <1>1, <1>2 DEF Jpeg
<1>4. p \in 1 .. Len(f) /\ p + 1 \in 1 .. Len(f) /\ (p + 1) - 1 = p /\ p + 1 = Len(f)
  BY <1>1, <1>2
<1>5. f[p] \in Sektion /\ f[p + 1] \in Sektion
  BY <1>4, ElementOfSeq
<1>6. /\ SubSeq(f, 1, p) = Append(SubSeq(f, 1, p - 1), f[p])
      /\ SubSeq(f, 1, p - 1) \in Seq(Sektion)
  BY <1>4, Vorne
<1>7. SubSeq(f, 1, p + 1) = Append(SubSeq(f, 1, p), f[p + 1])
  <2>1. SubSeq(f, 1, p + 1) = Append(SubSeq(f, 1, (p + 1) - 1), f[p + 1])
    BY <1>4, Vorne
  <2> QED
    BY <1>4, <2>1
<1>8. SubSeq(f, 1, p + 1) = f
  BY <1>4, SubSeqFull
<1> QED
  BY <1>2, <1>3, <1>5, <1>6, <1>7, <1>8

LEMMA LiesSOSBleibt ==
  ASSUME IInv, LiesSOS
  PROVE  IInv'
<1> DEFINE s == datei[pos]
           r == datei[pos + 1]
           g == SubSeq(datei, 1, pos - 1)
           n == Len(Sections)
           a == Platz(n, SectionsAllocated)
<1>0. TypeOK /\ FotoInv /\ PassInv /\ SammelInv /\ LageInv
  BY DEF IInv
<1>1. /\ schritt = "lesen" /\ schritt' = "gelesen" /\ s.typ = "SOS"
      /\ Sections' = IF "IMAGE" \in modus THEN Append(Append(Sections, s), r)
                     ELSE Append(Sections, s)
      /\ SectionsAllocated' = IF "IMAGE" \in modus THEN Platz(n + 1, a) ELSE a
      /\ daneben' = (daneben \/ Len(Sections') > SectionsAllocated')
      /\ UNCHANGED <<foto, icc_data, geladen, gesichert>>
      /\ UNCHANGED <<exifdreh, neu, HaveCom, Orientation, pass, modus, datei, pos>>
  BY <1>0 DEF LiesSOS, bildvars
<1>2. /\ Jpeg(datei) /\ pos \in 1 .. Len(datei) - 1 /\ (gesichert = 0 <=> pass = "laden")
      /\ datei \in Seq(Sektion) /\ Sections \in Seq(Sektion)
      /\ pass \in {"uebertrag", "drehen"} => modus \in {{"METADATA"}, {"IMAGE"}}
  BY <1>0, <1>1 DEF TypeOK, PassInv
<1>3. /\ pos = Len(datei) - 1 /\ s \in Sektion /\ r \in Sektion
      /\ s.typ = "SOS" /\ r.typ = "REST" /\ g \in Seq(Sektion)
      /\ datei = Append(Append(g, s), r)
  BY <1>1, <1>2, Ende
<1> HIDE DEF s, r, g
<1>4. TypeOK'
  <2>1. Sections' \in Seq(Sektion) /\ n \in Nat
    BY <1>1, <1>2, <1>3, AppendProperties, LenProperties
  <2>2. SectionsAllocated' \in Nat
    BY <1>0, <1>1, <2>1 DEF Platz, TypeOK
  <2>3. /\ daneben' \in BOOLEAN /\ HaveCom' \in BOOLEAN /\ pos' \in Nat
        /\ exifdreh' \in 1 .. 8 /\ Orientation' \in 0 .. 8
    BY <1>0, <1>1 DEF TypeOK
  <2>4. /\ foto' \in Seq(Sektion) /\ neu' \in Seq(Sektion) /\ icc_data' \in Seq(Nat)
        /\ datei' \in Seq(Sektion) /\ modus' \subseteq {"METADATA", "IMAGE"}
        /\ pass' \in {"laden", "uebertrag", "nochmal", "drehen"}
        /\ geladen' \in 0 .. MaxLaden /\ gesichert' \in 0 .. MaxSichern
    BY <1>0, <1>1 DEF TypeOK
  <2> QED
    BY <1>1, <2>1, <2>2, <2>3, <2>4 DEF TypeOK
<1>5. FotoInv'
  BY <1>0, <1>1, FotoBleibt
<1>6. PassInv'
  <2>1. Aufbau(neu, <<>>)' <=> Aufbau(neu, <<>>)
    BY <1>1, AufbauBleibt
  <2>2. Aufbau(neu, Von)' <=> Aufbau(neu, Von)
    BY <1>1, AufbauBleibt
  <2> QED
    BY <1>0, <1>1, <1>2, <1>3, <2>1, <2>2 DEF PassInv
<1>7. SammelInv'
  <2> SUFFICES ASSUME pass \in {"uebertrag", "drehen"} PROVE SammelInv'
    BY <1>1 DEF SammelInv
  <2>1. PICK h \in Seq(Sektion) : h = Append(g, s)
    BY <1>3, AppendProperties
  <2>2. CASE modus = {"METADATA"}
    <3>1. GleicheErste(Sections, g)
      BY <1>0, <1>1, <2>2 DEF SammelInv, g
    <3>2. ASSUME NEW t \in Angaben PROVE Erste(Sections', t) = Erste(datei, t)
      <4>1. Sections' = Append(Sections, s)
        BY <1>1, <2>2
      <4>2. Erste(Append(Sections, s), t) = Erste(Sections, t)
        BY <1>2, <1>3, ErsteAppend DEF Angaben
      <4>3. Erste(Append(g, s), t) = Erste(g, t)
        BY <1>3, ErsteAppend DEF Angaben
      <4>4. Erste(Append(h, r), t) = Erste(h, t)
        BY <1>3, ErsteAppend DEF Angaben
      <4>5. Erste(Sections, t) = Erste(g, t)
        BY <3>1 DEF GleicheErste
      <4> QED
        BY <1>3, <2>1, <4>1, <4>2, <4>3, <4>4, <4>5
    <3>3. GleicheErste(Sections', datei)
      BY <3>2 DEF GleicheErste
    <3>4. modus' # {"IMAGE"}
      BY <1>1, <2>2
    <3> QED
      BY <1>1, <3>3, <3>4 DEF SammelInv
  <2>3. CASE modus = {"IMAGE"}
    <3> DEFINE N == Nur(g, EigeneTypen)
    <3>1. Sections = Basis \o N /\ Basis' = Basis
      BY <1>0, <1>1, <2>3 DEF SammelInv, g, Basis, Von
    <3>2. Nur(datei, EigeneTypen) = Append(Append(N, s), r)
      <4>1. s.typ \in EigeneTypen /\ r.typ \in EigeneTypen
        BY <1>3 DEF EigeneTypen, Typen, Angaben
      <4>2. Nur(Append(g, s), EigeneTypen) = Append(N, s)
        BY <1>3, <4>1, NurAppend
      <4>3. Nur(Append(h, r), EigeneTypen) = Append(Nur(h, EigeneTypen), r)
        BY <1>3, <4>1, NurAppend
      <4> QED
        BY <1>3, <2>1, <4>2, <4>3
    <3>3. Basis \in Seq(Sektion) /\ N \in Seq(Sektion)
      <4>1. Ordentlich(Basis)
        BY <1>0, BasisDa DEF FotoInv
      <4>2. Basis \in Seq(Angabe) /\ Angabe \subseteq Sektion
        BY <4>1 DEF Ordentlich, Angabe
      <4>3. Basis \in Seq(Sektion)
        BY <4>2, SeqMonotonic
      <4>4. N \in Seq(Sektion)
        BY <1>3, NurTypen
      <4> QED
        BY <4>3, <4>4
    <3> HIDE DEF N
    <3>4. PICK M \in Seq(Sektion) : M = Append(N, s)
      BY <1>3, <3>3, AppendProperties
    <3>5. Basis \o Append(N, s) = Append(Basis \o N, s)
      BY <1>3, <3>3, AppendSektion
    <3>6. Basis \o Append(M, r) = Append(Basis \o M, r)
      BY <1>3, <3>3, AppendSektion
    <3>7. Sections' = Append(Append(Sections, s), r)
      BY <1>1, <2>3
    <3>8. Sections' = Basis \o Nur(datei, EigeneTypen)
      BY <3>1, <3>2, <3>4, <3>5, <3>6, <3>7
    <3>9. modus' # {"METADATA"}
      BY <1>1, <2>3
    <3> QED
      BY <1>1, <3>1, <3>8, <3>9 DEF SammelInv
  <2> QED
    BY <1>2, <2>2, <2>3
<1>8. LageInv'
  BY <1>0, <1>1 DEF LageInv
<1> QED
  BY <1>4, <1>5, <1>6, <1>7, <1>8 DEF IInv

(* The result is long enough to be read.                                   *)
LEMMA NeuLesbar ==
  ASSUME FotoInv, gesichert > 0
  PROVE  /\ neu \in Seq(Sektion) /\ Jpeg(neu) /\ 1 \in 1 .. Len(neu) - 1
         /\ SubSeq(neu, 1, 1 - 1) = <<>>
<1>1. neu # <<>> /\ Jpeg(neu) /\ neu \in Seq(Sektion)
  BY GutSektion DEF FotoInv
<1>2. Len(neu) \in Nat /\ Len(neu) > 1
  BY <1>1, LenProperties DEF Jpeg
<1>3. SubSeq(neu, 1, 1 - 1) = <<>>
  BY SubSeqEmpty
<1> QED
  BY <1>1, <1>2, <1>3

LEMMA BehalteBleibt ==
  ASSUME IInv, Behalte
  PROVE  IInv'
<1>0. TypeOK /\ FotoInv /\ PassInv /\ SammelInv /\ LageInv
  BY DEF IInv
<1>1. /\ schritt = "gelesen" /\ pass \in {"uebertrag", "drehen"} /\ modus = {"METADATA"}
      /\ Sections' = IF pass = "drehen" /\ Orientation \in 2 .. 8
                     THEN Gedreht(NurExif(Sections)) ELSE NurExif(Sections)
      /\ datei' = neu /\ modus' = {"IMAGE"} /\ pos' = 1 /\ HaveCom' = FALSE /\ schritt' = "lesen"
      /\ UNCHANGED <<foto, icc_data, geladen, gesichert>>
      /\ UNCHANGED <<exifdreh, neu, SectionsAllocated, Orientation, pass, daneben>>
  BY DEF Behalte, Lies, bildvars
<1>2. /\ gesichert > 0 /\ Jpeg(datei) /\ pos \in 1 .. Len(datei) - 1 /\ pos = Len(datei) - 1
      /\ pass = "uebertrag" => Aufbau(neu, <<>>) /\ datei = foto
      /\ pass = "drehen" => Aufbau(neu, Von) /\ datei = neu /\ exifdreh > 1
  <2>1. gesichert \in Nat
    BY <1>0, ZahlenAssumption DEF TypeOK
  <2>2. (gesichert = 0 <=> pass = "laden") /\ pass # "laden"
    BY <1>0, <1>1 DEF PassInv
  <2>3. modus # {"IMAGE"}
    BY <1>1
  <2> QED
    BY <1>0, <1>1, <2>1, <2>2, <2>3 DEF PassInv
<1>3. NurExif(Sections) = Von
  <2>1. GleicheErste(Sections, datei)
    BY <1>0, <1>1 DEF SammelInv
  <2>2. NurExif(Sections) = NurExif(datei)
    BY <2>1, VonGleich
  <2>3. CASE pass = "uebertrag"
    BY <1>2, <2>2, <2>3 DEF Von
  <2>4. CASE pass = "drehen"
    <3>1. Ergebnis(neu, Von)
      BY <1>0, <1>2, <2>4, NeuDa
    <3>2. GleicheErste(neu, Von)
      BY <3>1 DEF Ergebnis
    <3>3. NurExif(neu) = NurExif(Von)
      BY <3>2, VonGleich
    <3>4. NurExif(Von) = Von
      BY <1>0, VonDa DEF FotoInv
    <3> QED
      BY <1>2, <2>2, <2>4, <3>3, <3>4
  <2> QED
    BY <1>1, <2>3, <2>4
<1>4. Sections' = Basis /\ Basis' = Basis
  <2>1. Sections' = Basis
    BY <1>1, <1>3 DEF Basis
  <2>2. Von' = Von
    BY <1>1 DEF Von
  <2> QED
    BY <1>1, <2>1, <2>2 DEF Basis
<1>5. Basis \in Seq(Sektion)
  <2>1. Ordentlich(Basis)
    BY <1>0, BasisDa DEF FotoInv
  <2>2. Basis \in Seq(Angabe) /\ Angabe \subseteq Sektion
    BY <2>1 DEF Ordentlich, Angabe
  <2> QED
    BY <2>2, SeqMonotonic
<1>6. /\ neu \in Seq(Sektion) /\ Jpeg(neu) /\ 1 \in 1 .. Len(neu) - 1
      /\ SubSeq(neu, 1, 1 - 1) = <<>>
  BY <1>0, <1>2, NeuLesbar
<1>7. TypeOK'
  <2>1. Sections' \in Seq(Sektion) /\ datei' \in Seq(Sektion) /\ neu' \in Seq(Sektion)
    BY <1>1, <1>4, <1>5, <1>6
  <2>2. /\ daneben' \in BOOLEAN /\ HaveCom' \in BOOLEAN /\ pos' \in Nat
        /\ exifdreh' \in 1 .. 8 /\ Orientation' \in 0 .. 8 /\ SectionsAllocated' \in Nat
    BY <1>0, <1>1 DEF TypeOK
  <2>3. /\ foto' \in Seq(Sektion) /\ icc_data' \in Seq(Nat) /\ modus' \subseteq {"METADATA", "IMAGE"}
        /\ pass' \in {"laden", "uebertrag", "nochmal", "drehen"}
        /\ geladen' \in 0 .. MaxLaden /\ gesichert' \in 0 .. MaxSichern
    BY <1>0, <1>1 DEF TypeOK
  <2> QED
    BY <1>1, <2>1, <2>2, <2>3 DEF TypeOK
<1>8. FotoInv'
  BY <1>0, <1>1, FotoBleibt
<1>9. PassInv'
  <2>1. Aufbau(neu, <<>>)' <=> Aufbau(neu, <<>>)
    BY <1>1, AufbauBleibt
  <2>2. Aufbau(neu, Von)' <=> Aufbau(neu, Von)
    BY <1>1, AufbauBleibt
  <2>3. (gesichert = 0 <=> pass = "laden")'
    BY <1>1, <1>2
  <2> QED
    BY <1>1, <1>2, <1>6, <2>1, <2>2, <2>3 DEF PassInv
<1>10. SammelInv'
  <2>1. Nur(<<>>, EigeneTypen) = <<>>
    BY NurLeer
  <2>2. Basis \o <<>> = Basis
    BY <1>5, ConcatEmptySeq
  <2>3. Sections' = Basis' \o Nur(SubSeq(datei', 1, pos' - 1), EigeneTypen)
    BY <1>1, <1>4, <1>6, <2>1, <2>2
  <2>4. modus' # {"METADATA"}
    BY <1>1
  <2> QED
    BY <1>1, <2>3, <2>4 DEF SammelInv
<1>11. LageInv'
  <2> SUFFICES ASSUME pass = "drehen", neu[1].typ = "EXIF", neu[1].lage # 0
               PROVE  Orientation = neu[1].lage
    BY <1>1 DEF LageInv
  <2>1. datei = neu /\ Len(neu) \in Nat
    BY <1>2, <1>6, LenProperties
  <2>2. pos > 1
    BY <1>2, <2>1 DEF Jpeg
  <2> QED
    BY <1>0, <1>1, <2>2 DEF LageInv
<1> QED
  BY <1>7, <1>8, <1>9, <1>10, <1>11 DEF IInv

LEMMA NochmalBleibt ==
  ASSUME IInv, Nochmal
  PROVE  IInv'
<1>0. TypeOK /\ FotoInv /\ PassInv
  BY DEF IInv
<1>1. /\ schritt = "gelesen" /\ pass = "nochmal"
      /\ Sections' = <<>> /\ Orientation' = 0
      /\ UNCHANGED <<foto, icc_data, geladen, gesichert>>
      /\ UNCHANGED <<exifdreh, neu, SectionsAllocated, daneben>>
      /\ \/ /\ datei' = neu /\ pos' = 1 /\ HaveCom' = FALSE /\ schritt' = "lesen"
            /\ \/ pass' = "nochmal" /\ modus' = {"METADATA", "IMAGE"}
               \/ pass' = "drehen" /\ modus' = {"METADATA"} /\ exifdreh > 1
         \/ /\ schritt' = "offen" /\ ~(exifdreh > 1)
            /\ UNCHANGED <<HaveCom, pass, modus, datei, pos>>
  BY DEF Nochmal, Rufe, Lies, Entlassen, bildvars
<1>2. gesichert > 0 /\ gesichert # 0 /\ Aufbau(neu, Von)
  BY <1>0, <1>1 DEF PassInv, TypeOK
<1>3. /\ neu \in Seq(Sektion) /\ Jpeg(neu) /\ 1 \in 1 .. Len(neu) - 1
      /\ SubSeq(neu, 1, 1 - 1) = <<>>
  BY <1>0, <1>2, NeuLesbar
<1>4. TypeOK'
  <2>1. Sections' \in Seq(Sektion) /\ datei' \in Seq(Sektion) /\ neu' \in Seq(Sektion)
    BY <1>0, <1>1, <1>3 DEF TypeOK
  <2>2. exifdreh' \in 1 .. 8 /\ Orientation' \in 0 .. 8 /\ SectionsAllocated' \in Nat
    BY <1>0, <1>1 DEF TypeOK
  <2>3. /\ foto' \in Seq(Sektion) /\ icc_data' \in Seq(Nat) /\ modus' \subseteq {"METADATA", "IMAGE"}
        /\ pass' \in {"laden", "uebertrag", "nochmal", "drehen"}
        /\ schritt' \in {"offen", "lesen", "gelesen"}
        /\ geladen' \in 0 .. MaxLaden /\ gesichert' \in 0 .. MaxSichern
    BY <1>0, <1>1 DEF TypeOK
  <2>4. daneben' \in BOOLEAN /\ HaveCom' \in BOOLEAN /\ pos' \in Nat
    <3>1. daneben \in BOOLEAN /\ HaveCom \in BOOLEAN /\ pos \in Nat
      BY <1>0 DEF TypeOK
    <3>2. daneben' \in BOOLEAN /\ pos' \in Nat
      BY <1>1, <3>1
    <3>3. HaveCom' = FALSE \/ HaveCom' = HaveCom
      BY <1>1
    <3>4. HaveCom' \in BOOLEAN
      BY <3>1, <3>3, Zenon
    <3> QED
      BY <3>2, <3>4
  <2> QED
    BY <2>1, <2>2, <2>3, <2>4 DEF TypeOK
<1>5. FotoInv'
  BY <1>0, <1>1, FotoBleibt
<1>6. PassInv'
  <2>1. Aufbau(neu, Von)' <=> Aufbau(neu, Von)
    BY <1>1, AufbauBleibt
  <2>2. Aufbau(neu, Ziel)' <=> Aufbau(neu, Ziel)
    BY <1>1, AufbauBleibt
  <2>3. ~(exifdreh > 1) => Ziel = Von
    BY DEF Ziel
  <2>4. {"METADATA", "IMAGE"} # {"METADATA"}
    OBVIOUS
  <2> QED
    BY <1>1, <1>2, <1>3, <2>1, <2>2, <2>3 DEF PassInv
<1>7. SammelInv'
  <2>1. CASE schritt' = "lesen" /\ pass' = "drehen"
    <3>1. GleicheErste(Sections', SubSeq(datei', 1, pos' - 1)) /\ HaveCom' = FALSE
      BY <1>1, <1>3, <2>1 DEF GleicheErste
    <3>2. modus' = {"METADATA"} /\ modus' # {"IMAGE"}
      BY <1>1, <2>1
    <3> QED
      BY <2>1, <3>1, <3>2 DEF SammelInv
  <2>2. CASE ~(schritt' = "lesen" /\ pass' = "drehen")
    BY <1>1, <2>2 DEF SammelInv
  <2> QED
    BY <2>1, <2>2
<1>8. LageInv'
  <2>1. {"METADATA"} # {"IMAGE"}
    OBVIOUS
  <2> QED
    BY <1>1, <2>1 DEF LageInv
<1> QED
  BY <1>4, <1>5, <1>6, <1>7, <1>8 DEF IInv

(* libjpeg's file, before jhead has touched it.                            *)
LEMMA SichernBleibt ==
  ASSUME IInv, Sichern
  PROVE  IInv'
<1> DEFINE i == <<geladen, gesichert>>
           w == write_icc_profile
           g == Eigene(i)
           K == Kopf(<<>>, i)
           f == neu'
<1>0. TypeOK /\ FotoInv
  BY DEF IInv
<1>1. /\ f = <<Neue("JFIF", i)>> \o w \o g
      /\ foto # <<>> /\ gesichert < MaxSichern /\ gesichert' = gesichert + 1
      /\ pass' = "uebertrag" /\ datei' = foto /\ modus' = {"METADATA"} /\ pos' = 1
      /\ HaveCom' = FALSE /\ schritt' = "lesen" /\ Sections' = <<>> /\ Orientation' = 0
      /\ UNCHANGED <<foto, icc_data, exifdreh, SectionsAllocated, geladen, daneben>>
  BY DEF Sichern, Rufe, Lies, Eigene
<1>2. i \in Seq(Nat) /\ gesichert \in Nat /\ geladen \in Nat
  <2>1. geladen \in Nat /\ gesichert \in Nat
    BY <1>0, ZahlenAssumption DEF TypeOK
  <2> QED
    BY <2>1
<1>3. /\ g \in Seq(Art(Bildteile)) /\ Len(g) = 5 /\ g[4].typ = "SOS" /\ g[5].typ = "REST"
      /\ \A k \in 1 .. 3 : g[k].typ \notin {"SOS", "REST"}
  BY <1>2, EigeneForm
<1>4. w \in Seq(Art({"ICC"}))
  BY <1>0, MarkenForm DEF FotoInv
<1>5. K \in Seq(Art({"JFIF"})) /\ K = <<Neue("JFIF", i)>>
  BY <1>2, KopfForm DEF Kopf
<1> HIDE DEF w, g, K, i
<1>6. <<>> \in Seq(Art(Angaben))
  OBVIOUS
<1>7. f = Reihe(K, <<>>, w, g)
  <2>1. K \o <<>> = K
    BY <1>5, ConcatEmptySeq
  <2> QED
    BY <1>1, <1>5, <2>1 DEF Reihe
<1>8. Teile(K, <<>>, w, g)
  BY <1>3, <1>4, <1>5, <1>6 DEF Teile
<1> HIDE DEF f
<1>9. Jpeg(f) /\ f \in Seq(Gut) /\ f # <<>>
  BY <1>3, <1>7, <1>8, TeileJpeg
<1>10. Aufbau(neu, <<>>)'
  <2>1. write_icc_profile' = w
    BY <1>1 DEF w, write_icc_profile, num_markers
  <2>2. <<geladen', gesichert' - 1>> = i
    <3>1. gesichert' - 1 = gesichert /\ geladen' = geladen
      BY <1>1, <1>2
    <3> QED
      BY <3>1 DEF i
  <2>3. f = Reihe(Kopf(<<>>, i), <<>>, write_icc_profile', Eigene(<<geladen', gesichert' - 1>>))
    BY <1>7, <2>1, <2>2 DEF K, g
  <2> QED
    BY <1>2, <2>3 DEF Aufbau, f
<1>11. foto \in Seq(Gut) /\ foto \in Seq(Sektion) /\ f \in Seq(Sektion)
  BY <1>0, <1>9, GutSektion DEF FotoInv
<1>12. TypeOK'
  <2>1. geladen' \in 0 .. MaxLaden /\ gesichert' \in 0 .. MaxSichern
    BY <1>0, <1>1, ZahlenAssumption DEF TypeOK
  <2>2. /\ foto' \in Seq(Sektion) /\ neu' \in Seq(Sektion) /\ Sections' \in Seq(Sektion)
        /\ datei' \in Seq(Sektion)
    <3>1. <<>> \in Seq(Sektion)
      OBVIOUS
    <3> QED
      BY <1>1, <1>11, <3>1 DEF f
  <2>3. exifdreh' \in 1 .. 8 /\ Orientation' \in 0 .. 8 /\ SectionsAllocated' \in Nat
    BY <1>0, <1>1 DEF TypeOK
  <2>4. HaveCom' \in BOOLEAN /\ daneben' \in BOOLEAN /\ pos' \in Nat
    BY <1>0, <1>1 DEF TypeOK
  <2>5. /\ schritt' \in {"offen", "lesen", "gelesen"} /\ icc_data' \in Seq(Nat)
        /\ pass' \in {"laden", "uebertrag", "nochmal", "drehen"}
        /\ modus' \subseteq {"METADATA", "IMAGE"}
    BY <1>0, <1>1 DEF TypeOK
  <2> QED
    BY <2>1, <2>2, <2>3, <2>4, <2>5 DEF TypeOK
<1>13. FotoInv'
  <2>1. gesichert' > 0 /\ gesichert' # 0
    BY <1>1, <1>2
  <2> QED
    BY <1>0, <1>1, <1>9, <2>1 DEF FotoInv, ProfilPasst, f
<1>14. PassInv'
  <2>1. Jpeg(foto) /\ Len(foto) \in Nat
    BY <1>0, <1>1, <1>11, LenProperties DEF FotoInv
  <2>2. 1 \in 1 .. Len(foto) - 1
    BY <2>1 DEF Jpeg
  <2>3. gesichert' # 0
    BY <1>1, <1>2
  <2> QED
    BY <1>1, <1>10, <2>1, <2>2, <2>3 DEF PassInv
<1>15. SammelInv'
  <2>1. SubSeq(foto, 1, 1 - 1) = <<>>
    BY SubSeqEmpty
  <2>2. GleicheErste(Sections', SubSeq(datei', 1, pos' - 1)) /\ HaveCom' = FALSE
    BY <1>1, <2>1 DEF GleicheErste
  <2>3. modus' = {"METADATA"} /\ modus' # {"IMAGE"}
    BY <1>1
  <2> QED
    BY <1>1, <2>2, <2>3 DEF SammelInv
<1>16. LageInv'
  BY <1>1 DEF LageInv
<1> QED
  BY <1>12, <1>13, <1>14, <1>15, <1>16 DEF IInv

(* WriteJpegFile behind the metadata v.                                    *)
LEMMA GeschriebenForm ==
  ASSUME ProfilPasst, Inhalt \in Seq(Nat), geladen \in Nat, gesichert \in Nat,
         NEW v, Ordentlich(v), Sections = v \o (write_icc_profile \o Eigene(Inhalt))
  PROVE  Aufbau(Geschrieben, v)
<1> DEFINE c == <<geladen, gesichert>>
           K == Kopf(v, c)
           w == write_icc_profile
           g == Eigene(Inhalt)
           r == w \o g
<1>1. c \in Seq(Nat)
  OBVIOUS
<1>2. /\ g \in Seq(Art(Bildteile)) /\ Len(g) = 5 /\ g[1].typ = "DQT"
  BY EigeneForm
<1>3. w \in Seq(Art({"ICC"}))
  BY MarkenForm
<1>4. /\ K \in Seq(Art({"JFIF"}))
      /\ K = <<>> <=> v # <<>> /\ v[1].typ = "EXIF"
      /\ K # <<>> => K = <<Neue("JFIF", c)>>
  BY <1>1, KopfForm
<1>5. v \in Seq(Art(Angaben))
  <2>1. Angabe \subseteq Art(Angaben)
    BY DEF Angabe, Angaben, Art, Gut
  <2> QED
    BY <2>1, SeqMonotonic DEF Ordentlich
<1>6. Geschrieben = IF Sections[1].typ \in {"EXIF", "JFIF"} THEN Sections
                    ELSE <<Neue("JFIF", c)>> \o Sections
  BY DEF Geschrieben
<1> HIDE DEF w, g, K, c
<1>7. K \in Seq(Gut) /\ v \in Seq(Gut) /\ w \in Seq(Gut) /\ g \in Seq(Gut)
  BY <1>2, <1>3, <1>4, <1>5, ArtGut
<1>8. r \in Seq(Gut) /\ r # <<>> /\ r[1].typ \notin {"EXIF", "JFIF"}
  <2>1. r \in Seq(Gut)
    BY <1>7, ConcatProperties
  <2>2. CASE w = <<>>
    <3>1. r = g
      BY <1>7, <2>2, ConcatEmptySeq
    <3> QED
      BY <1>2, <2>1, <3>1
  <2>3. CASE w # <<>>
    <3>1. r # <<>> /\ r[1] = w[1]
      BY <1>7, <2>3, Erstes
    <3>2. w[1] \in Art({"ICC"})
      BY <1>3, <2>3, Erstes
    <3> QED
      BY <2>1, <3>1, <3>2 DEF Art
  <2> QED
    BY <2>2, <2>3
<1>9. Sections = v \o r
  BY DEF w, g
<1> HIDE DEF r
<1>10. Sections[1].typ \in {"EXIF", "JFIF"} <=> K = <<>>
  <2>1. CASE v = <<>>
    <3>1. Sections = r
      BY <1>8, <1>9, <2>1, ConcatEmptySeq
    <3> QED
      BY <1>4, <1>8, <2>1, <3>1
  <2>2. CASE v # <<>>
    <3>1. Sections[1] = v[1]
      BY <1>7, <1>8, <1>9, <2>2, Erstes
    <3>2. v[1] \in Art(Angaben)
      BY <1>5, <2>2, Erstes
    <3>3. v[1].typ # "JFIF"
      BY <3>2 DEF Art, Angaben
    <3> QED
      BY <1>4, <2>2, <3>1, <3>3
  <2> QED
    BY <2>1, <2>2
<1>11. Geschrieben = K \o Sections
  <2>1. Sections \in Seq(Gut)
    BY <1>7, <1>8, <1>9, ConcatProperties
  <2>2. CASE K = <<>>
    BY <1>6, <1>10, <2>1, <2>2, ConcatEmptySeq
  <2>3. CASE K # <<>>
    BY <1>4, <1>6, <1>10, <2>3
  <2> QED
    BY <2>2, <2>3
<1>12. Geschrieben = Rechts(K, v, w, g)
  BY <1>9, <1>11 DEF r, Rechts
<1>13. Rechts(K, v, w, g) = Reihe(K, v, w, g)
  BY <1>7, VierRechts
<1> QED
  BY <1>1, <1>12, <1>13 DEF Aufbau, K, w, g, Inhalt

LEMMA SchreibeBleibt ==
  ASSUME IInv, Schreibe
  PROVE  IInv'
<1> DEFINE f == IF pass = "uebertrag" \/ Orientation \in 2 .. 8 THEN Geschrieben ELSE neu
<1>0. TypeOK /\ FotoInv /\ PassInv /\ SammelInv /\ LageInv
  BY DEF IInv
<1>1. /\ schritt = "gelesen" /\ pass \in {"uebertrag", "drehen"} /\ modus = {"IMAGE"}
      /\ neu' = f
      /\ Sections' = <<>> /\ Orientation' = 0
      /\ UNCHANGED <<foto, icc_data, geladen, gesichert>>
      /\ UNCHANGED <<exifdreh, SectionsAllocated, daneben>>
      /\ pass = "uebertrag" =>
           /\ pass' = "nochmal" /\ datei' = f /\ modus' = {"METADATA", "IMAGE"}
           /\ pos' = 1 /\ HaveCom' = FALSE /\ schritt' = "lesen"
      /\ pass = "drehen" => schritt' = "offen" /\ UNCHANGED <<HaveCom, pass, modus, datei, pos>>
  BY DEF Schreibe, Rufe, Lies, Entlassen, bildvars
<1>2. gesichert \in Nat /\ geladen \in Nat
  BY <1>0, ZahlenAssumption DEF TypeOK
<1>3. /\ datei = neu
      /\ pass = "uebertrag" => Aufbau(neu, <<>>)
      /\ pass = "drehen" => Aufbau(neu, Von) /\ exifdreh > 1
      /\ gesichert # 0
  <2>1. modus # {"METADATA"} /\ pass # "laden"
    BY <1>1
  <2> QED
    BY <1>0, <1>1, <2>1 DEF PassInv
<1>4. gesichert > 0
  BY <1>2, <1>3
<1>5. Inhalt \in Seq(Nat) /\ ProfilPasst
  BY <1>0, <1>4, InhaltDa DEF FotoInv
<1>6. Ordentlich(Basis) /\ Ordentlich(Von) /\ Ordentlich(<<>>)
  BY <1>0, BasisDa, VonDa DEF FotoInv
<1>7. Sections = Basis \o (write_icc_profile \o Eigene(Inhalt))
  <2>1. Sections = Basis \o Nur(neu, EigeneTypen)
    BY <1>0, <1>1, <1>3 DEF SammelInv
  <2>2. CASE pass = "uebertrag"
    <3>1. Ergebnis(neu, <<>>)
      BY <1>3, <1>5, <1>6, <2>2, AufbauForm
    <3> QED
      BY <2>1, <3>1 DEF Ergebnis
  <2>3. CASE pass = "drehen"
    <3>1. Ergebnis(neu, Von)
      BY <1>3, <1>5, <1>6, <2>3, AufbauForm
    <3> QED
      BY <2>1, <3>1 DEF Ergebnis
  <2> QED
    BY <1>1, <2>2, <2>3
<1>8. Aufbau(Geschrieben, Basis)
  BY <1>2, <1>5, <1>6, <1>7, GeschriebenForm
<1>9. /\ pass = "uebertrag" => Aufbau(f, Von)
      /\ pass = "drehen" => Aufbau(f, Ziel)
  <2>1. pass = "uebertrag" => Aufbau(f, Von)
    BY <1>8 DEF Basis
  <2>2. CASE pass = "drehen" /\ Orientation \in 2 .. 8
    BY <1>3, <1>8, <2>2 DEF Basis, Ziel
  <2>3. CASE pass = "drehen" /\ Orientation \notin 2 .. 8
    <3>1. Ergebnis(neu, Von)
      BY <1>3, <1>5, <1>6, <2>3, AufbauForm
    <3>2. Von # <<>> /\ Von[1].typ = "EXIF" => Von[1].lage \in {0, 1}
      <4> SUFFICES ASSUME Von # <<>>, Von[1].typ = "EXIF", Von[1].lage # 0
                   PROVE  Von[1].lage = 1
        OBVIOUS
      <4>1. neu[1] = Von[1]
        BY <3>1 DEF Ergebnis
      <4>2. Orientation = Von[1].lage
        BY <1>0, <1>1, <2>3, <4>1 DEF LageInv
      <4>3. Orientation \in 0 .. 8
        BY <1>0 DEF TypeOK
      <4> QED
        BY <2>3, <4>2, <4>3
    <3>3. Gedreht(Von) = Von
      BY <1>6, <3>2, GedrehtForm
    <3>4. Ziel = Von
      BY <3>3 DEF Ziel
    <3> QED
      BY <1>3, <2>3, <3>4
  <2> QED
    BY <2>1, <2>2, <2>3
<1> HIDE DEF f
<1>10. f \in Seq(Gut) /\ f # <<>> /\ Jpeg(f)
  <2>1. Ordentlich(Von) /\ Ordentlich(Ziel)
    BY <1>0, BasisDa, VonDa DEF FotoInv
  <2>2. CASE pass = "uebertrag"
    <3>1. Ergebnis(f, Von)
      BY <1>5, <1>9, <2>1, <2>2, AufbauForm
    <3> QED
      BY <3>1 DEF Ergebnis
  <2>3. CASE pass = "drehen"
    <3>1. Ergebnis(f, Ziel)
      BY <1>5, <1>9, <2>1, <2>3, AufbauForm
    <3> QED
      BY <3>1 DEF Ergebnis
  <2> QED
    BY <1>1, <2>2, <2>3
<1>11. f \in Seq(Sektion) /\ 1 \in 1 .. Len(f) - 1
  <2>1. f \in Seq(Sektion)
    BY <1>10, GutSektion
  <2>2. Len(f) \in Nat /\ Len(f) > 1
    BY <1>10, <2>1, LenProperties DEF Jpeg
  <2> QED
    BY <2>1, <2>2
<1>12. TypeOK'
  <2>1. Sections' \in Seq(Sektion) /\ datei' \in Seq(Sektion) /\ neu' \in Seq(Sektion)
    <3>1. <<>> \in Seq(Sektion) /\ datei \in Seq(Sektion)
      BY <1>0 DEF TypeOK
    <3> QED
      BY <1>1, <1>11, <3>1
  <2>2. exifdreh' \in 1 .. 8 /\ Orientation' \in 0 .. 8 /\ SectionsAllocated' \in Nat
    BY <1>0, <1>1 DEF TypeOK
  <2>3. daneben' \in BOOLEAN /\ HaveCom' \in BOOLEAN /\ pos' \in Nat
    <3>1. daneben \in BOOLEAN /\ HaveCom \in BOOLEAN /\ pos \in Nat
      BY <1>0 DEF TypeOK
    <3>2. daneben' \in BOOLEAN /\ pos' \in Nat
      BY <1>1, <3>1
    <3>3. HaveCom' = FALSE \/ HaveCom' = HaveCom
      BY <1>1
    <3>4. HaveCom' \in BOOLEAN
      BY <3>1, <3>3, Zenon
    <3> QED
      BY <3>2, <3>4
  <2>4. /\ foto' \in Seq(Sektion) /\ icc_data' \in Seq(Nat) /\ modus' \subseteq {"METADATA", "IMAGE"}
        /\ pass' \in {"laden", "uebertrag", "nochmal", "drehen"}
        /\ schritt' \in {"offen", "lesen", "gelesen"}
        /\ geladen' \in 0 .. MaxLaden /\ gesichert' \in 0 .. MaxSichern
    BY <1>0, <1>1 DEF TypeOK
  <2> QED
    BY <2>1, <2>2, <2>3, <2>4 DEF TypeOK
<1>13. FotoInv'
  BY <1>0, <1>1, <1>4, <1>10 DEF FotoInv, ProfilPasst
<1>14. /\ pass = "uebertrag" => Aufbau(neu, Von)'
       /\ pass = "drehen" => Aufbau(neu, Ziel)'
  <2>1. write_icc_profile' = write_icc_profile
    BY <1>1, Bestand
  <2>2. Von' = Von /\ Ziel' = Ziel
    BY <1>1 DEF Von, Ziel
  <2> QED
    BY <1>1, <1>9, <2>1, <2>2 DEF Aufbau
<1>15. PassInv'
  <2>1. CASE pass = "uebertrag"
    BY <1>1, <1>3, <1>10, <1>11, <1>14, <2>1 DEF PassInv
  <2>2. CASE pass = "drehen"
    BY <1>1, <1>14, <2>2 DEF PassInv
  <2> QED
    BY <1>1, <2>1, <2>2
<1>16. SammelInv' /\ LageInv'
  BY <1>1 DEF SammelInv, LageInv
<1> QED
  BY <1>12, <1>13, <1>15, <1>16 DEF IInv

LEMMA StehtBleibt ==
  ASSUME IInv, UNCHANGED vars
  PROVE  IInv'
<1>0. TypeOK /\ FotoInv /\ PassInv /\ SammelInv /\ LageInv
  BY DEF IInv
<1>1. /\ UNCHANGED <<foto, icc_data, geladen, gesichert>>
      /\ UNCHANGED <<exifdreh, neu, Sections, SectionsAllocated, HaveCom, Orientation>>
      /\ UNCHANGED <<schritt, pass, modus, datei, pos, daneben>>
  BY DEF vars
<1>2. TypeOK'
  BY <1>0, <1>1 DEF TypeOK
<1>3. FotoInv'
  BY <1>0, <1>1, FotoBleibt
<1>4. Basis' = Basis
  BY <1>1 DEF Basis, Von
<1>5. PassInv'
  <2>1. Aufbau(neu, <<>>)' <=> Aufbau(neu, <<>>)
    BY <1>1, AufbauBleibt
  <2>2. Aufbau(neu, Von)' <=> Aufbau(neu, Von)
    BY <1>1, AufbauBleibt
  <2>3. Aufbau(neu, Ziel)' <=> Aufbau(neu, Ziel)
    BY <1>1, AufbauBleibt
  <2> QED
    BY <1>0, <1>1, <2>1, <2>2, <2>3 DEF PassInv
<1>6. SammelInv'
  BY <1>0, <1>1, <1>4 DEF SammelInv
<1>7. LageInv'
  BY <1>0, <1>1 DEF LageInv
<1> QED
  BY <1>2, <1>3, <1>5, <1>6, <1>7 DEF IInv

LEMMA Anfang ==
  ASSUME Init
  PROVE  IInv
<1>1. /\ foto = <<>> /\ icc_data = <<>> /\ exifdreh = 1 /\ neu = <<>>
      /\ Sections = <<>> /\ SectionsAllocated = 5 /\ HaveCom = FALSE /\ Orientation = 0
      /\ schritt = "offen" /\ pass = "laden" /\ modus = {} /\ datei = <<>> /\ pos = 1
      /\ geladen = 0 /\ gesichert = 0 /\ daneben = FALSE
  BY DEF Init
<1>2. TypeOK
  <2>1. 0 \in 0 .. MaxLaden /\ 0 \in 0 .. MaxSichern
    BY ZahlenAssumption
  <2>2. foto \in Seq(Sektion) /\ neu \in Seq(Sektion) /\ Sections \in Seq(Sektion)
        /\ datei \in Seq(Sektion) /\ icc_data \in Seq(Nat)
    BY <1>1
  <2>3. exifdreh \in 1 .. 8 /\ Orientation \in 0 .. 8 /\ SectionsAllocated \in Nat /\ pos \in Nat
    BY <1>1
  <2>4. HaveCom \in BOOLEAN /\ daneben \in BOOLEAN
    BY <1>1
  <2>5. /\ schritt \in {"offen", "lesen", "gelesen"} /\ modus \subseteq {"METADATA", "IMAGE"}
        /\ pass \in {"laden", "uebertrag", "nochmal", "drehen"}
    BY <1>1
  <2> QED
    BY <1>1, <2>1, <2>2, <2>3, <2>4, <2>5 DEF TypeOK
<1>3. FotoInv
  <2>1. MaxNummer * MaxBytes \in Nat /\ Len(icc_data) = 0 /\ icc_data \in Seq(Nat)
    BY <1>1, ZahlenAssumption, Produkt
  <2>2. foto \in Seq(Gut) /\ neu \in Seq(Gut)
    BY <1>1
  <2> QED
    BY <1>1, <2>1, <2>2 DEF FotoInv, ProfilPasst
<1>4. PassInv /\ SammelInv /\ LageInv
  BY <1>1 DEF PassInv, SammelInv, LageInv
<1> QED
  BY <1>2, <1>3, <1>4 DEF IInv

LEMMA AllesBleibt ==
  ASSUME IInv, [Next]_vars
  PROVE  IInv'
BY LadenBleibt, LiesSektionBleibt, LiesSOSBleibt, GeladenBleibt, SichernBleibt, BehalteBleibt,
   SchreibeBleibt, NochmalBleibt, StehtBleibt DEF Next

LEMMA Davor ==
  ASSUME NEW S, NEW x \in S, NEW s \in Seq(S), Len(s) = 5
  PROVE  /\ <<x>> \o s \in Seq(S) /\ Len(<<x>> \o s) = 6 /\ (<<x>> \o s)[1] = x
         /\ \A k \in 2 .. 6 : (<<x>> \o s)[k] = s[k - 1]
<1>1. PICK a \in Seq(S) : a = <<x>> /\ Len(a) = 1 /\ a[1] = x
  <2>1. <<x>> \in Seq(S)
    OBVIOUS
  <2>2. Len(<<x>>) = 1 /\ <<x>>[1] = x
    OBVIOUS
  <2> QED
    BY <2>1, <2>2
<1>2. a \o s \in Seq(S) /\ Len(a \o s) = Len(a) + Len(s)
  BY ConcatProperties
<1>3. \A k \in 1 .. Len(a) + Len(s) : (a \o s)[k] = IF k <= Len(a) THEN a[k] ELSE s[k - Len(a)]
  BY ConcatProperties
<1>4. (a \o s)[1] = x /\ \A k \in 2 .. 6 : (a \o s)[k] = s[k - 1]
  <2>1. \A k \in 1 .. 6 : (a \o s)[k] = IF k <= 1 THEN a[k] ELSE s[k - 1]
    BY <1>1, <1>3
  <2>2. ASSUME NEW k \in 2 .. 6 PROVE (a \o s)[k] = s[k - 1]
    <3>1. k \in 1 .. 6 /\ ~(k <= 1)
      OBVIOUS
    <3> QED
      BY <2>1, <3>1
  <2>3. (a \o s)[1] = a[1]
    BY <2>1
  <2> QED
    BY <1>1, <2>2, <2>3
<1> QED
  BY <1>1, <1>2, <1>4

(* r is e, and then the five of g.                                         *)
Vorn(r, e, g) ==
  /\ r \in Seq(Sektion) /\ Len(r) = 6 /\ r[1] = e /\ DOMAIN r = 1 .. 6
  /\ \A k \in 2 .. 6 : r[k] = g[k - 1]

LEMMA DavorSektion ==
  ASSUME NEW e \in Sektion, NEW g \in Seq(Sektion), Len(g) = 5, NEW r, r = <<e>> \o g
  PROVE  Vorn(r, e, g)
<1>1. /\ <<e>> \o g \in Seq(Sektion) /\ Len(<<e>> \o g) = 6 /\ (<<e>> \o g)[1] = e
      /\ \A k \in 2 .. 6 : (<<e>> \o g)[k] = g[k - 1]
  BY Davor
<1>2. /\ r \in Seq(Sektion) /\ Len(r) = 6 /\ r[1] = e
      /\ \A k \in 2 .. 6 : r[k] = g[k - 1]
  BY <1>1, Zenon
<1> QED
  BY <1>2, LenProperties DEF Vorn

(* The types of the result's own sections, and what they hold.             *)
EigeneArt(r, i) ==
  /\ [k \in DOMAIN r |-> r[k].typ] = <<"JFIF">> \o <<"DQT", "SOF", "DHT", "SOS", "REST">>
  /\ \A k \in DOMAIN r : r[k].typ # "JFIF" => r[k].was = i

(* The sections that are the result's own, behind their head.              *)
LEMMA EigeneDa ==
  ASSUME NEW i \in Seq(Nat), NEW e \in Sektion, e.typ = "JFIF",
         NEW r, r = <<e>> \o Eigene(i)
  PROVE  EigeneArt(r, i)
<1> DEFINE b == <<"DQT", "SOF", "DHT", "SOS", "REST">>
           g == Eigene(i)
           t == <<"JFIF">> \o b
           u == [k \in DOMAIN r |-> r[k].typ]
<1>1. /\ Len(g) = 5 /\ [k \in DOMAIN g |-> g[k].typ] = b /\ \A k \in 1 .. 5 : g[k].was = i
  BY EigeneForm
<1>2. g \in Seq(Sektion) /\ DOMAIN g = 1 .. 5
  <2>1. g \in Seq(Art(Bildteile))
    BY EigeneForm
  <2>2. g \in Seq(Sektion)
    BY <2>1, ArtGut, GutSektion
  <2> QED
    BY <1>1, <2>2, LenProperties
<1>3. b \in Seq(Typen) /\ Len(b) = 5 /\ "JFIF" \in Typen
  <2>1. \A x \in {"DQT", "SOF", "DHT", "SOS", "REST", "JFIF"} : x \in Typen
    BY DEF Typen
  <2> HIDE DEF Typen
  <2> QED
    BY <2>1
<1>4. \A k \in 1 .. 5 : g[k].typ = b[k]
  <2> HIDE DEF g, b
  <2>1. \A k \in DOMAIN g : [l \in DOMAIN g |-> g[l].typ][k] = g[k].typ
    OBVIOUS
  <2> QED
    BY <1>1, <1>2, <2>1
<1> HIDE DEF b, g
<1>5. r = <<e>> \o g
  BY DEF g
<1>6. /\ r \in Seq(Sektion) /\ Len(r) = 6 /\ r[1] = e /\ DOMAIN r = 1 .. 6
      /\ \A k \in 2 .. 6 : r[k] = g[k - 1]
  <2> HIDE DEF t, u
  <2>1. Len(g) = 5 /\ g \in Seq(Sektion) /\ e \in Sektion
    BY <1>1, <1>2
  <2>2. Vorn(r, e, g)
    BY <2>1, <1>5, DavorSektion
  <2> QED
    BY <2>2 DEF Vorn
<1>8. t \in Seq(Typen) /\ Len(t) = 6 /\ t[1] = "JFIF" /\ \A k \in 2 .. 6 : t[k] = b[k - 1]
  BY <1>3, Davor
<1> HIDE DEF t
<1>9. ASSUME NEW k \in 1 .. 6 PROVE r[k].typ = t[k] /\ (r[k].typ # "JFIF" => r[k].was = i)
  <2>1. CASE k = 1
    BY <1>6, <1>8, <2>1
  <2>2. CASE k # 1
    <3>1. k \in 2 .. 6 /\ k - 1 \in 1 .. 5
      BY <2>2
    <3> QED
      BY <1>1, <1>4, <1>6, <1>8, <3>1
  <2> QED
    BY <2>1, <2>2
<1>10. u = t
  <2>1. u = [k \in 1 .. 6 |-> t[k]]
    BY <1>6, <1>9
  <2>2. t = [k \in 1 .. 6 |-> t[k]]
    BY <1>8
  <2> QED
    BY <2>1, <2>2
<1> QED
  BY <1>6, <1>9, <1>10 DEF t, b, EigeneArt

LEMMA ErgebnisDa ==
  ASSUME IInv, Gesichert
  PROVE  Ergebnis(neu, Ziel) /\ Inhalt \in Seq(Nat) /\ ProfilPasst /\ foto # <<>>
<1>1. TypeOK /\ FotoInv /\ PassInv /\ schritt = "offen" /\ gesichert > 0
  BY DEF IInv, Gesichert
<1>2. Inhalt \in Seq(Nat)
  BY <1>1, InhaltDa
<1>3. ProfilPasst /\ foto # <<>>
  BY <1>1 DEF FotoInv
<1>4. Ordentlich(Ziel)
  BY <1>1, BasisDa DEF FotoInv
<1>5. Aufbau(neu, Ziel)
  BY <1>1 DEF PassInv
<1> QED
  BY <1>2, <1>3, <1>4, <1>5, AufbauForm

(* All of the state keeps its types.                                       *)
THEOREM TypenStimmen == Spec => []TypeOK
<1>1. Init => IInv
  BY Anfang
<1>2. IInv /\ [Next]_vars => IInv'
  BY AllesBleibt
<1>3. IInv => TypeOK
  BY DEF IInv
<1> QED
  BY <1>1, <1>2, <1>3, PTL DEF Spec

(* A profile that read_icc_profile assembled from a photo's markers is     *)
(* assembled again from those that write_icc_profile has cut it into, after*)
(* jhead has copied them from file to file (write_JPEG_file), whatever the *)
(* photo's markers hold and whichever file is opened after which save.     *)
THEOREM ProfilImmerDa == Spec => []ProfilBleibt
<1>1. IInv => ProfilBleibt
  <2> SUFFICES ASSUME IInv, Gesichert PROVE read_icc_profile(neu) = read_icc_profile(foto)
    BY DEF ProfilBleibt
  <2>1. Ergebnis(neu, Ziel) /\ ProfilPasst /\ foto # <<>>
    BY ErgebnisDa
  <2>2. icc_data = read_icc_profile(foto)
    BY <2>1 DEF IInv, FotoInv
  <2>3. Marken(neu) = write_icc_profile
    BY <2>1 DEF Ergebnis
  <2>4. Gelesen(write_icc_profile) = icc_data
    BY <2>1, ProfilRund
  <2> QED
    BY <2>2, <2>3, <2>4, ProfilGelesen
<1>2. Init => IInv
  BY Anfang
<1>3. IInv /\ [Next]_vars => IInv'
  BY AllesBleibt
<1> QED
  BY <1>1, <1>2, <1>3, PTL DEF Spec

(* The metadata of any photo arrive in its result, the first section of    *)
(* each kind, upright if the picture was turned, before nothing but the    *)
(* result's own sections (write_JPEG_file in ShiftNView.cpp, ProcessFile   *)
(* in jhead.cpp), through both rewritings and any number of reads between. *)
THEOREM AngabenImmerTreu == Spec => []AngabenTreu
<1>1. IInv => AngabenTreu
  <2> DEFINE r == Nur(neu, Typen \ (Angaben \cup {"ICC"}))
             b == <<"DQT", "SOF", "DHT", "SOS", "REST">>
             g == Eigene(Inhalt)
  <2> SUFFICES ASSUME IInv, Gesichert
               PROVE  /\ Nur(neu, Angaben) = IF exifdreh > 1 THEN Gedreht(Von) ELSE Von
                      /\ [k \in DOMAIN r |-> r[k].typ] =
                           (IF Von # <<>> /\ Von[1].typ = "EXIF" THEN <<>> ELSE <<"JFIF">>) \o b
                      /\ \A k \in DOMAIN r : r[k].typ # "JFIF" => r[k].was = Inhalt
                      /\ neu[1].typ \in {"EXIF", "JFIF"}
    BY DEF AngabenTreu, Von, Inhalt
  <2>1. Ergebnis(neu, Ziel) /\ Inhalt \in Seq(Nat)
    BY ErgebnisDa
  <2>2. Nur(neu, Angaben) = Ziel /\ neu[1].typ \in {"EXIF", "JFIF"}
    BY <2>1 DEF Ergebnis
  <2>3. PICK c \in Seq(Nat) : r = Kopf(Ziel, c) \o g
    BY <2>1 DEF Ergebnis
  <2>4. Kopf(Ziel, c) = Kopf(Von, c)
    <3>1. Ordentlich(Von)
      BY VonDa DEF IInv, FotoInv
    <3> QED
      BY <3>1, GedrehtForm DEF Ziel
  <2>5. /\ g \in Seq(Art(Bildteile)) /\ Len(g) = 5
        /\ [k \in DOMAIN g |-> g[k].typ] = b /\ \A k \in 1 .. 5 : g[k].was = Inhalt
    BY <2>1, EigeneForm
  <2> HIDE DEF r, g
  <2>6. CASE Von # <<>> /\ Von[1].typ = "EXIF"
    <3>1. Kopf(Von, c) = <<>>
      BY <2>6 DEF Kopf
    <3>2. r = g
      BY <2>3, <2>4, <2>5, <3>1, ConcatEmptySeq
    <3>3. DOMAIN g = 1 .. 5
      BY <2>5, LenProperties
    <3>4. <<>> \o b = b
      <4>1. b \in Seq({"DQT", "SOF", "DHT", "SOS", "REST"})
        OBVIOUS
      <4> HIDE DEF b
      <4> QED
        BY <4>1, ConcatEmptySeq
    <3> HIDE DEF b
    <3>5. [k \in DOMAIN r |-> r[k].typ] = b
      BY <2>5, <3>2
    <3>6. \A k \in DOMAIN r : r[k].was = Inhalt
      BY <2>5, <3>2, <3>3
    <3> QED
      BY <2>2, <2>6, <3>4, <3>5, <3>6 DEF Ziel
  <2>7. CASE ~(Von # <<>> /\ Von[1].typ = "EXIF")
    <3>1. PICK e \in Sektion : e = Neue("JFIF", c) /\ e.typ = "JFIF"
      <4>1. 0 \in 0 .. MaxNummer
        BY ZahlenAssumption
      <4>2. Neue("JFIF", c) \in Sektion
        BY <4>1 DEF Neue, Sektion, Typen
      <4>3. Neue("JFIF", c).typ = "JFIF"
        BY DEF Neue
      <4> QED
        BY <4>2, <4>3
    <3>2. r = <<e>> \o Eigene(Inhalt)
      BY <2>3, <2>4, <2>7, <3>1 DEF Kopf, g
    <3>3. EigeneArt(r, Inhalt)
      BY <2>1, <3>1, <3>2, EigeneDa
    <3>4. /\ [k \in DOMAIN r |-> r[k].typ] = <<"JFIF">> \o b
          /\ \A k \in DOMAIN r : r[k].typ # "JFIF" => r[k].was = Inhalt
      BY <3>3 DEF EigeneArt
    <3> HIDE DEF b
    <3> QED
      BY <2>2, <2>7, <3>4 DEF Ziel
  <2> QED
    BY <2>6, <2>7
<1>2. Init => IInv
  BY Anfang
<1>3. IInv /\ [Next]_vars => IInv'
  BY AllesBleibt
<1> QED
  BY <1>1, <1>2, <1>3, PTL DEF Spec

-----------------------------------------------------------------------------
(* Room for the sections.                                                  *)

(* What sections are is of no concern here, only that they are a sequence. *)
Folge(s) == \E S : s \in Seq(S)

(* The array never shrinks below its first size, so that half of it is at  *)
(* least one section.                                                      *)
PlatzInv ==
  /\ Folge(Sections)
  /\ SectionsAllocated \in Nat /\ SectionsAllocated >= 5
  /\ Len(Sections) <= SectionsAllocated
  /\ daneben = FALSE

LEMMA LenNat ==
  ASSUME NEW S, NEW s \in Seq(S)
  PROVE  Len(s) \in Nat
OBVIOUS

LEMMA Angehaengt ==
  ASSUME NEW s, Folge(s), NEW e
  PROVE  Folge(Append(s, e)) /\ Len(Append(s, e)) = Len(s) + 1 /\ Len(s) \in Nat
<1>1. PICK S : s \in Seq(S)
  BY DEF Folge
<1>2. s \in Seq(S \cup {e})
  BY <1>1
<1>3. Append(s, e) \in Seq(S \cup {e}) /\ Len(Append(s, e)) = Len(s) + 1 /\ Len(s) \in Nat
  BY <1>2
<1> QED
  BY <1>3 DEF Folge

LEMMA Verkettet ==
  ASSUME NEW S, NEW m \in Nat, NEW s \in Seq(S), NEW t \in Seq(S),
         Len(s) <= m, Len(t) <= 1
  PROVE  s \o t \in Seq(S) /\ Len(s \o t) <= m + 1
<1>1. Len(s \o t) = Len(s) + Len(t) /\ s \o t \in Seq(S)
  OBVIOUS
<1>2. Len(s) \in Nat /\ Len(t) \in Nat
  OBVIOUS
<1> QED
  BY <1>1, <1>2

(* A step that stores a section behind n others. *)
LEMMA PlatzDa ==
  ASSUME NEW n \in Nat, NEW a \in Nat, a >= 5, n <= a
  PROVE  Platz(n, a) \in Nat /\ Platz(n, a) >= 5 /\ n + 1 <= Platz(n, a) /\ a <= Platz(n, a)
BY DEF Platz

(* Of the metadata read at most four sections are kept. *)
LEMMA HoechstensVier ==
  ASSUME NEW S
  PROVE  Folge(NurExif(S)) /\ Len(NurExif(S)) \in Nat /\ Len(NurExif(S)) <= 4
<1> DEFINE erste(t) == IF Nur(S, {t}) = <<>> THEN <<>> ELSE <<Nur(S, {t})[1]>>
           E == {Nur(S, {t})[1] : t \in Angaben}
<1>1. ASSUME NEW t \in Angaben
      PROVE  erste(t) \in Seq(E) /\ Len(erste(t)) <= 1
  <2>1. Nur(S, {t})[1] \in E
    OBVIOUS
  <2> HIDE DEF E
  <2>2. erste(t) = <<>> \/ erste(t) = <<Nur(S, {t})[1]>>
    OBVIOUS
  <2> QED
    BY <2>1, <2>2
<1> HIDE DEF E, erste
<1>2. /\ erste("EXIF") \in Seq(E) /\ Len(erste("EXIF")) <= 1
      /\ erste("COM") \in Seq(E) /\ Len(erste("COM")) <= 1
      /\ erste("IPTC") \in Seq(E) /\ Len(erste("IPTC")) <= 1
      /\ erste("XMP") \in Seq(E) /\ Len(erste("XMP")) <= 1
  BY <1>1 DEF Angaben
<1> DEFINE zwei == erste("EXIF") \o erste("COM")
           drei == zwei \o erste("IPTC")
           vier == drei \o erste("XMP")
<1>3. zwei \in Seq(E) /\ Len(zwei) <= 1 + 1
  BY <1>2, Verkettet
<1> HIDE DEF zwei
<1>4. drei \in Seq(E) /\ Len(drei) <= 2 + 1
  BY <1>2, <1>3, Verkettet
<1> HIDE DEF drei
<1>5. vier \in Seq(E) /\ Len(vier) <= 3 + 1
  BY <1>2, <1>4, Verkettet
<1> HIDE DEF vier
<1>6. NurExif(S) = vier
  BY DEF NurExif, erste, zwei, drei, vier
<1>7. NurExif(S) \in Seq(E) /\ Len(NurExif(S)) <= 4
  BY <1>5, <1>6
<1>8. Folge(NurExif(S))
  BY <1>7 DEF Folge
<1> HIDE DEF NurExif
<1>9. Len(NurExif(S)) \in Nat /\ Len(NurExif(S)) <= 4
  BY <1>7, LenNat
<1> QED
  BY <1>8, <1>9

LEMMA GedrehtFolge ==
  ASSUME NEW S, Folge(S)
  PROVE  Folge(Gedreht(S)) /\ Len(Gedreht(S)) = Len(S)
<1> DEFINE G == {Gedreht(S)[k] : k \in DOMAIN S}
<1>1. Len(S) \in Nat /\ DOMAIN S = 1 .. Len(S)
  BY DEF Folge
<1>2. DOMAIN Gedreht(S) = 1 .. Len(S)
  BY <1>1 DEF Gedreht
<1>3. \A k \in 1 .. Len(S) : Gedreht(S)[k] \in G
  BY <1>1
<1>4. Gedreht(S) = [k \in 1 .. Len(S) |-> Gedreht(S)[k]]
  BY <1>1 DEF Gedreht
<1> HIDE DEF G
<1>5. Gedreht(S) \in Seq(G)
  BY <1>1, <1>3, <1>4
<1>6. Len(Gedreht(S)) = Len(S)
  BY <1>1, <1>2, <1>5
<1> QED
  BY <1>5, <1>6 DEF Folge

LEMMA LeereFolge == Folge(<<>>) /\ Len(<<>>) = 0
BY DEF Folge

LEMMA PlatzBleibt ==
  ASSUME PlatzInv, [Next]_vars
  PROVE  PlatzInv'
<1> USE DEF PlatzInv
<1>1. CASE Laden
  BY <1>1, LeereFolge DEF Laden, Rufe
<1>2. CASE LiesSektion
  <2> DEFINE n == Len(Sections)
  <2>1. n \in Nat /\ Folge(Append(Sections, datei[pos]))
        /\ Len(Append(Sections, datei[pos])) = n + 1
    BY Angehaengt
  <2>2. /\ SectionsAllocated' = Platz(n, SectionsAllocated)
        /\ Sections' = Append(Sections, datei[pos]) \/ Sections' = Sections
        /\ daneben' = (daneben \/ n >= SectionsAllocated')
    BY <1>2 DEF LiesSektion
  <2> HIDE DEF n
  <2>3. /\ SectionsAllocated' \in Nat /\ SectionsAllocated' >= 5
        /\ n + 1 <= SectionsAllocated' /\ SectionsAllocated <= SectionsAllocated'
    BY <2>1, <2>2, PlatzDa DEF n
  <2>4. ~(n >= SectionsAllocated')
    BY <2>1, <2>3
  <2>5. daneben' = FALSE
    BY <2>2, <2>4
  <2>6. Folge(Sections') /\ Len(Sections') <= SectionsAllocated'
    <3>1. CASE Sections' = Append(Sections, datei[pos])
      BY <2>1, <2>3, <3>1 DEF Folge
    <3>2. CASE Sections' = Sections
      BY <2>1, <2>3, <3>2 DEF Folge, n
    <3> QED
      BY <2>2, <3>1, <3>2
  <2> QED
    BY <2>3, <2>5, <2>6 DEF Folge
<1>3. CASE LiesSOS
  <2> DEFINE n == Len(Sections)
             a == Platz(n, SectionsAllocated)
             mit == Append(Sections, datei[pos])
             beide == Append(mit, datei[pos + 1])
  <2>1. n \in Nat /\ Folge(mit) /\ Len(mit) = n + 1
    BY Angehaengt
  <2>2. Folge(beide) /\ Len(beide) = n + 2
    BY <2>1, Angehaengt
  <2>3. /\ \/ Sections' = mit /\ SectionsAllocated' = a
           \/ Sections' = beide /\ SectionsAllocated' = Platz(n + 1, a)
        /\ daneben' = (daneben \/ Len(Sections') > SectionsAllocated')
    BY <1>3 DEF LiesSOS
  <2> HIDE DEF mit, beide
  <2>4. a \in Nat /\ a >= 5 /\ n + 1 <= a
    BY <2>1, PlatzDa
  <2> HIDE DEF a, n
  <2>5. Platz(n + 1, a) \in Nat /\ Platz(n + 1, a) >= 5 /\ n + 2 <= Platz(n + 1, a)
    <3>1. n + 1 \in Nat /\ (n + 1) + 1 = n + 2
      BY <2>1
    <3> HIDE DEF n
    <3> QED
      BY <2>4, <3>1, PlatzDa
  <2>6. /\ Folge(Sections') /\ Len(Sections') <= SectionsAllocated'
        /\ SectionsAllocated' \in Nat /\ SectionsAllocated' >= 5
        /\ Len(Sections') \in Nat
    BY <2>1, <2>2, <2>3, <2>4, <2>5
  <2>7. ~(Len(Sections') > SectionsAllocated')
    BY <2>6
  <2>8. daneben' = FALSE
    BY <2>3, <2>7
  <2> QED
    BY <2>6, <2>8 DEF Folge
<1>4. CASE Geladen
  BY <1>4, LeereFolge DEF Geladen, Entlassen
<1>5. CASE Sichern
  BY <1>5, LeereFolge DEF Sichern, Rufe
<1>6. CASE Behalte
  <2>1. /\ UNCHANGED <<SectionsAllocated, daneben>>
        /\ Sections' = NurExif(Sections) \/ Sections' = Gedreht(NurExif(Sections))
    BY <1>6 DEF Behalte
  <2>2. Folge(NurExif(Sections)) /\ Len(NurExif(Sections)) \in Nat /\ Len(NurExif(Sections)) <= 4
    BY HoechstensVier
  <2>3. Folge(Gedreht(NurExif(Sections))) /\ Len(Gedreht(NurExif(Sections))) \in Nat /\ Len(Gedreht(NurExif(Sections))) <= 4
    BY <2>2, GedrehtFolge
  <2>4. Folge(Sections') /\ Len(Sections') \in Nat /\ Len(Sections') <= 4
    BY <2>1, <2>2, <2>3 DEF Folge
  <2> QED
    <3>1. Len(Sections') <= SectionsAllocated'
      BY <2>1, <2>4
    <3>2. Folge(Sections)'
      BY <2>4 DEF Folge
    <3>3. /\ SectionsAllocated' \in Nat /\ SectionsAllocated' >= 5
          /\ daneben' = FALSE
      BY <2>1
    <3> QED
      BY <3>1, <3>2, <3>3
<1>7. CASE Schreibe
  BY <1>7, LeereFolge DEF Schreibe, Rufe, Entlassen
<1>8. CASE Nochmal
  BY <1>8, LeereFolge DEF Nochmal, Rufe, Entlassen
<1>9. CASE UNCHANGED vars
  BY <1>9 DEF vars
<1> QED
  BY <1>1, <1>2, <1>3, <1>4, <1>5, <1>6, <1>7, <1>8, <1>9 DEF Next

(* jhead never stores a section beyond its array (ProcessFile and          *)
(* ReadJpegSections, jpgfile.cpp), over any sequence of loads and saves.   *)
THEOREM SektionenPassen == Spec => []PlatzReicht
<1>1. Init => PlatzInv
  BY LeereFolge DEF Init, PlatzInv
<1>2. PlatzInv /\ [Next]_vars => PlatzInv'
  BY PlatzBleibt
<1>3. PlatzInv => PlatzReicht
  BY DEF PlatzInv, PlatzReicht
<1> QED
  BY <1>1, <1>2, <1>3, PTL DEF Spec
=============================================================================
