------------------------- MODULE FillAndFit_proofs --------------------------
(***************************************************************************)
(* The two ends of the line detection: the flood fills that find the       *)
(* regions (FloodFill), for images of any size, any colours and both       *)
(* neighbourhoods, and the search for outliers among the lines that were   *)
(* made of them (Fithomography), for every finite set of lines and all     *)
(* limits.                                                                 *)
(***************************************************************************)
EXTENDS FloodFill, Fithomography, SequenceTheorems, FiniteSetTheorems,
        WellFoundedInduction, TLAPS

-----------------------------------------------------------------------------
(* Neighbours. *)

LEMMA PixelEndlich == IsFiniteSet(Pixel) /\ Pixel \subseteq Int \X Int
<1>1. IsFiniteSet(0 .. X - 1) /\ IsFiniteSet(0 .. Y - 1)
  BY FS_Interval, GroesseAssumption
<1>2. IsFiniteSet(Pixel)
  BY <1>1, FS_Product DEF Pixel
<1> QED
  BY <1>2 DEF Pixel

LEMMA PixelAnzahl ==
  ASSUME NEW S \in SUBSET Pixel
  PROVE  IsFiniteSet(S) /\ Cardinality(S) \in Nat
BY PixelEndlich, FS_Subset, FS_CardinalityType

LEMMA NachbarnGegenseitig ==
  ASSUME NEW q \in Pixel, NEW r \in Pixel, Nachbarn(q, r)
  PROVE  Nachbarn(r, q)
BY DEF Nachbarn, Pixel

LEMMA Acht ==
  /\ Len(Versatz8) = 8 /\ Versatz8 \in Seq(Int \X Int)
  /\ Versatz8[1] = <<-1, -1>> /\ Versatz8[2] = <<-1, 0>> /\ Versatz8[3] = <<-1, 1>>
  /\ Versatz8[4] = <<1, -1>> /\ Versatz8[5] = <<1, 0>> /\ Versatz8[6] = <<1, 1>>
  /\ Versatz8[7] = <<0, -1>> /\ Versatz8[8] = <<0, 1>>
BY DEF Versatz8

LEMMA Vier ==
  /\ Len(Versatz4) = 4 /\ Versatz4 \in Seq(Int \X Int)
  /\ Versatz4[1] = <<0, -1>> /\ Versatz4[2] = <<0, 1>>
  /\ Versatz4[3] = <<-1, 0>> /\ Versatz4[4] = <<1, 0>>
BY DEF Versatz4

LEMMA AchtStellen == 1 .. Len(Versatz8) = {1, 2, 3, 4, 5, 6, 7, 8}
<1>1. 1 .. 8 = {1, 2, 3, 4, 5, 6, 7, 8}
  OBVIOUS
<1> QED
  BY <1>1, Acht

LEMMA VierStellen == 1 .. Len(Versatz4) = {1, 2, 3, 4}
<1>1. 1 .. 4 = {1, 2, 3, 4}
  OBVIOUS
<1> QED
  BY <1>1, Vier

(* Each offset once, and together the neighbourhood of <<0, 0>>.           *)
LEMMA VersatzEinmal ==
  ASSUME NEW v \in {Versatz4, Versatz8}
  PROVE  /\ v \in Seq(Int \X Int) /\ DOMAIN v = 1 .. Len(v)
         /\ \A a, b \in DOMAIN v : v[a] = v[b] => a = b
         /\ \A a \in DOMAIN v : v[a] # <<0, 0>>
<1>1. CASE v = Versatz8
  <2>1. v \in Seq(Int \X Int) /\ Len(v) = 8 /\ DOMAIN v = 1 .. 8
    BY <1>1, Acht
  <2>2. \A a \in 1 .. 8 : a \in {1, 2, 3, 4, 5, 6, 7, 8}
    OBVIOUS
  <2> DEFINE N(d) == IF d[1] = -1 THEN d[2] + 2 ELSE IF d[1] = 1 THEN d[2] + 5
                     ELSE IF d[2] = -1 THEN 7 ELSE 8
  <2>3. ASSUME NEW a \in DOMAIN v
        PROVE  a = N(v[a]) /\ v[a] # <<0, 0>>
    BY <1>1, <2>1, <2>2, Acht
  <2> HIDE DEF N
  <2>4. ASSUME NEW a \in DOMAIN v, NEW b \in DOMAIN v, v[a] = v[b]
        PROVE  a = b
    BY <2>3, <2>4
  <2> QED
    BY <2>1, <2>3, <2>4
<1>2. CASE v = Versatz4
  <2>1. v \in Seq(Int \X Int) /\ Len(v) = 4 /\ DOMAIN v = 1 .. 4
    BY <1>2, Vier
  <2>2. \A a \in 1 .. 4 : a \in {1, 2, 3, 4}
    OBVIOUS
  <2> DEFINE N(d) == IF d[1] = 0 THEN (IF d[2] = -1 THEN 1 ELSE 2)
                     ELSE IF d[1] = -1 THEN 3 ELSE 4
  <2>3. ASSUME NEW a \in DOMAIN v
        PROVE  a = N(v[a]) /\ v[a] # <<0, 0>>
    BY <1>2, <2>1, <2>2, Vier
  <2> HIDE DEF N
  <2>4. ASSUME NEW a \in DOMAIN v, NEW b \in DOMAIN v, v[a] = v[b]
        PROVE  a = b
    BY <2>3, <2>4
  <2> QED
    BY <2>1, <2>3, <2>4
<1> QED
  BY <1>1, <1>2

(* The fill looks at exactly the neighbours of a pixel, at each once.      *)
LEMMA AbfolgeNachbarn ==
  ASSUME NEW q \in Pixel, fall.nachbar \in {0, 1}
  PROVE  /\ Abfolge(q) \in Seq(Int \X Int) /\ IsInjective(Abfolge(q))
         /\ \A r \in Pixel : r \in ToSet(Abfolge(q)) <=> r # q /\ Nachbarn(r, q)
<1> DEFINE v == IF fall.nachbar = 1 THEN Versatz8 ELSE Versatz4
<1>1. /\ v \in Seq(Int \X Int) /\ DOMAIN v = 1 .. Len(v)
      /\ \A a, b \in DOMAIN v : v[a] = v[b] => a = b
      /\ \A a \in DOMAIN v : v[a] # <<0, 0>>
  BY VersatzEinmal, Zenon
<1>2. q[1] \in Int /\ q[2] \in Int
  BY DEF Pixel
<1>3. Abfolge(q) = [i \in 1 .. Len(v) |-> <<q[1] + v[i][1], q[2] + v[i][2]>>]
  BY DEF Abfolge, Plus
<1> HIDE DEF v
<1>4. ASSUME NEW i \in 1 .. Len(v)
      PROVE  v[i] \in Int \X Int /\ v[i] = <<v[i][1], v[i][2]>>
  BY <1>1
<1>5. Abfolge(q) \in Seq(Int \X Int)
  BY <1>1, <1>2, <1>3, <1>4
<1>6. IsInjective(Abfolge(q))
  <2> SUFFICES ASSUME NEW a \in 1 .. Len(v), NEW b \in 1 .. Len(v),
                      Abfolge(q)[a] = Abfolge(q)[b]
               PROVE  a = b
    BY <1>3 DEF IsInjective
  <2>1. q[1] + v[a][1] = q[1] + v[b][1] /\ q[2] + v[a][2] = q[2] + v[b][2]
    BY <1>3
  <2>2. v[a] \in Int \X Int /\ v[b] \in Int \X Int
    BY <1>4
  <2>3. v[a][1] = v[b][1] /\ v[a][2] = v[b][2]
    <3>1. /\ v[a][1] \in Int /\ v[b][1] \in Int
          /\ v[a][2] \in Int /\ v[b][2] \in Int
      BY <2>2
    <3>2. \A i, j, k \in Int : i + j = i + k => j = k
      OBVIOUS
    <3> QED
      BY <1>2, <2>1, <3>1, <3>2, Zenon
  <2>4. v[a] = v[b]
    BY <1>4, <2>3
  <2> QED
    BY <1>1, <2>4
<1>7. ASSUME NEW r \in Pixel, r \in ToSet(Abfolge(q)) PROVE r # q /\ Nachbarn(r, q)
  <2>1. PICK i \in 1 .. Len(v) : r = <<q[1] + v[i][1], q[2] + v[i][2]>>
    BY <1>3, <1>7 DEF ToSet
  <2>2. v[i][1] \in -1 .. 1 /\ v[i][2] \in -1 .. 1
        /\ (fall.nachbar = 0 => v[i][1] = 0 \/ v[i][2] = 0)
    <3>1. CASE fall.nachbar = 1
      <4>1. v = Versatz8
        BY <3>1 DEF v
      <4>2. i \in {1, 2, 3, 4, 5, 6, 7, 8}
        BY <4>1, AchtStellen
      <4> QED
        BY <3>1, <4>1, <4>2, Acht
    <3>2. CASE fall.nachbar = 0
      <4>1. v = Versatz4
        BY <3>2 DEF v
      <4>2. i \in {1, 2, 3, 4}
        BY <4>1, VierStellen
      <4> QED
        BY <4>1, <4>2, Vier
    <3> QED
      BY <3>1, <3>2
  <2>3. v[i] # <<0, 0>> /\ v[i] = <<v[i][1], v[i][2]>>
    BY <1>1, <1>4
  <2>4. r[1] = q[1] + v[i][1] /\ r[2] = q[2] + v[i][2]
    BY <2>1
  <2>5. v[i][1] # 0 \/ v[i][2] # 0
    BY <2>3
  <2> QED
    BY <1>2, <2>2, <2>4, <2>5 DEF Nachbarn
<1>8. ASSUME NEW r \in Pixel, r # q, Nachbarn(r, q) PROVE r \in ToSet(Abfolge(q))
  <2>0. r[1] \in Int /\ r[2] \in Int /\ r = <<r[1], r[2]>> /\ q = <<q[1], q[2]>>
    BY DEF Pixel
  <2> DEFINE x == r[1] - q[1]
             y == r[2] - q[2]
  <2>1. x \in -1 .. 1 /\ y \in -1 .. 1 /\ (fall.nachbar = 0 => x = 0 \/ y = 0)
        /\ (x # 0 \/ y # 0) /\ r = <<q[1] + x, q[2] + y>>
    <3>1. x \in -1 .. 1 /\ y \in -1 .. 1
      BY <1>8 DEF Nachbarn
    <3>2. fall.nachbar = 0 => x = 0 \/ y = 0
      BY <1>2, <1>8, <2>0 DEF Nachbarn
    <3>3. q[1] + x = r[1] /\ q[2] + y = r[2]
      BY <1>2, <2>0
    <3>4. x # 0 \/ y # 0
      <4> SUFFICES ASSUME x = 0, y = 0 PROVE FALSE
        OBVIOUS
      <4>1. r[1] = q[1] /\ r[2] = q[2]
        BY <1>2, <2>0
      <4> QED
        BY <1>8, <2>0, <4>1
    <3> QED
      BY <2>0, <3>1, <3>2, <3>3, <3>4
  <2> HIDE DEF x, y
  <2>2. \E i \in 1 .. Len(v) : v[i] = <<x, y>>
    <3>1. CASE fall.nachbar = 1
      <4>1. v = Versatz8
        BY <3>1 DEF v
      <4> QED
        BY <2>1, <4>1, AchtStellen, Acht
    <3>2. CASE fall.nachbar = 0
      <4>1. v = Versatz4
        BY <3>2 DEF v
      <4> QED
        BY <2>1, <3>2, <4>1, VierStellen, Vier
    <3> QED
      BY <3>1, <3>2
  <2>3. PICK i \in 1 .. Len(v) : v[i] = <<x, y>>
    BY <2>2
  <2>4. Abfolge(q)[i] = r /\ i \in DOMAIN Abfolge(q)
    BY <1>3, <2>1, <2>3
  <2> QED
    BY <2>4 DEF ToSet
<1> QED
  BY <1>5, <1>6, <1>7, <1>8

-----------------------------------------------------------------------------
(* Induction over numbers. *)

LEMMA Kleinste ==
  ASSUME NEW T, T \subseteq Nat, T # {}
  PROVE  \E x \in T : \A y \in T : x <= y
<1>1. PICK x \in T : \A y \in T : ~(<<y, x>> \in OpToRel(<, Nat))
  BY NatLessThanWellFounded, WFMin, Zenon
<1>2. ASSUME NEW y \in T PROVE x <= y
  <2>1. <<y, x>> \notin {ss \in Nat \X Nat : ss[1] < ss[2]}
    BY <1>1 DEF OpToRel
  <2> QED
    BY <2>1
<1> QED
  BY <1>2

LEMMA Schritte ==
  ASSUME NEW T, 0 \in T, \A n \in Nat : n \in T => n + 1 \in T
  PROVE  Nat \subseteq T
<1>1. ASSUME NEW n \in Nat, n \notin T PROVE FALSE
  <2> DEFINE U == Nat \ T
  <2>1. U \subseteq Nat /\ U # {}
    BY <1>1
  <2> HIDE DEF U
  <2>2. PICK x \in U : \A y \in U : x <= y
    BY <2>1, Kleinste
  <2>3. x \in Nat /\ x # 0 /\ x - 1 \in Nat /\ x \notin T
    BY <2>2 DEF U
  <2>4. x - 1 \in T
    BY <2>2, <2>3 DEF U
  <2> QED
    BY <2>3, <2>4
<1> QED
  BY <1>1

-----------------------------------------------------------------------------
(* Sequences without repetitions and their entries. *)

LEMMA AppendMenge ==
  ASSUME NEW S, NEW s \in Seq(S), NEW e \in S
  PROVE  /\ Append(s, e) \in Seq(S) /\ Append(s, e) # <<>>
         /\ ToSet(Append(s, e)) = ToSet(s) \cup {e}
         /\ IsInjective(s) /\ e \notin ToSet(s) => IsInjective(Append(s, e))
<1> DEFINE t == Append(s, e)
           n == Len(s)
<1>0. t \in Seq(S) /\ t # <<>>
  <2>1. t \in Seq(S) /\ Len(t) = n + 1 /\ n \in Nat
    OBVIOUS
  <2>2. Len(t) # 0
    BY <2>1
  <2> QED
    BY <2>1, <2>2
<1>1. /\ n \in Nat /\ DOMAIN s = 1 .. n /\ DOMAIN t = 1 .. n + 1
      /\ t[n + 1] = e /\ \A i \in 1 .. n : t[i] = s[i]
  OBVIOUS
<1> HIDE DEF t, n
<1>2. 1 .. n + 1 = (1 .. n) \cup {n + 1} /\ n + 1 \notin 1 .. n
  BY <1>1
<1>3. ToSet(t) = ToSet(s) \cup {e}
  BY <1>1, <1>2 DEF ToSet
<1>4. ASSUME IsInjective(s), e \notin ToSet(s) PROVE IsInjective(t)
  <2>1. \A i \in 1 .. n : s[i] # e
    BY <1>1, <1>4 DEF ToSet
  <2> QED
    BY <1>1, <1>2, <1>4, <2>1 DEF IsInjective
<1> QED
  BY <1>0, <1>3, <1>4 DEF t

LEMMA ReverseMenge ==
  ASSUME NEW S, NEW s \in Seq(S)
  PROVE  /\ Reverse(s) \in Seq(S) /\ ToSet(Reverse(s)) = ToSet(s)
         /\ IsInjective(s) => IsInjective(Reverse(s))
<1> DEFINE n == Len(s)
           t == Reverse(s)
<1>1. n \in Nat /\ DOMAIN s = 1 .. n /\ \A i \in 1 .. n : s[i] \in S
  OBVIOUS
<1>2. t = [i \in 1 .. n |-> s[(n - i) + 1]]
  BY DEF Reverse
<1> HIDE DEF t, n
<1>3. \A i \in 1 .. n : (n - i) + 1 \in 1 .. n /\ (n - ((n - i) + 1)) + 1 = i
  BY <1>1
<1>4. t \in Seq(S)
  <2>1. t \in [1 .. n -> S]
    BY <1>1, <1>2, <1>3
  <2> QED
    BY <1>1, <2>1
<1>5. DOMAIN t = 1 .. n /\ \A i \in 1 .. n : t[i] = s[(n - i) + 1]
  BY <1>2
<1>6. ToSet(t) = ToSet(s)
  <2>1. ASSUME NEW i \in 1 .. n PROVE s[i] \in ToSet(t)
    <3>1. t[(n - i) + 1] = s[i]
      BY <1>3, <1>5
    <3> QED
      BY <1>3, <1>5, <3>1 DEF ToSet
  <2>2. ASSUME NEW i \in 1 .. n PROVE t[i] \in ToSet(s)
    BY <1>1, <1>3, <1>5 DEF ToSet
  <2> QED
    BY <1>1, <1>5, <2>1, <2>2 DEF ToSet
<1>7. ASSUME IsInjective(s) PROVE IsInjective(t)
  <2> SUFFICES ASSUME NEW a \in 1 .. n, NEW b \in 1 .. n, t[a] = t[b] PROVE a = b
    BY <1>5 DEF IsInjective
  <2>1. (n - a) + 1 = (n - b) + 1
    BY <1>1, <1>3, <1>5, <1>7 DEF IsInjective
  <2> QED
    BY <1>1, <2>1
<1> QED
  BY <1>4, <1>6, <1>7 DEF t

LEMMA VerkettetMenge ==
  ASSUME NEW S, NEW s \in Seq(S), NEW t \in Seq(S)
  PROVE  /\ s \o t \in Seq(S) /\ ToSet(s \o t) = ToSet(s) \cup ToSet(t)
         /\ IsInjective(s) /\ IsInjective(t) /\ ToSet(s) \cap ToSet(t) = {} =>
              IsInjective(s \o t)
<1> DEFINE n == Len(s)
           m == Len(t)
           w == s \o t
<1>1. /\ n \in Nat /\ m \in Nat /\ DOMAIN s = 1 .. n /\ DOMAIN t = 1 .. m
      /\ w \in Seq(S) /\ DOMAIN w = 1 .. n + m
      /\ \A i \in 1 .. n : w[i] = s[i]
  OBVIOUS
<1>2. \A i \in 1 .. m : w[n + i] = t[i]
  OBVIOUS
<1> HIDE DEF n, m, w
<1>3. ASSUME NEW i \in 1 .. n + m
      PROVE  i \in 1 .. n \/ (i - n \in 1 .. m /\ w[i] = t[i - n])
  <2>1. CASE i \notin 1 .. n
    <3>1. i - n \in 1 .. m /\ n + (i - n) = i
      BY <1>1, <2>1
    <3> QED
      BY <1>2, <3>1
  <2> QED
    BY <2>1
<1>4. ToSet(w) = ToSet(s) \cup ToSet(t)
  <2>1. ToSet(w) \subseteq ToSet(s) \cup ToSet(t)
    BY <1>1, <1>3 DEF ToSet
  <2>2. ASSUME NEW i \in 1 .. n PROVE s[i] \in ToSet(w)
    <3>1. i \in 1 .. n + m
      BY <1>1
    <3> QED
      BY <1>1, <3>1 DEF ToSet
  <2>3. ASSUME NEW i \in 1 .. m PROVE t[i] \in ToSet(w)
    <3>1. n + i \in 1 .. n + m
      BY <1>1
    <3> QED
      BY <1>1, <1>2, <3>1 DEF ToSet
  <2>4. ToSet(s) \subseteq ToSet(w) /\ ToSet(t) \subseteq ToSet(w)
    BY <1>1, <2>2, <2>3 DEF ToSet
  <2> QED
    BY <2>1, <2>4
<1>5. ASSUME IsInjective(s), IsInjective(t), ToSet(s) \cap ToSet(t) = {}
      PROVE  IsInjective(w)
  <2> SUFFICES ASSUME NEW a \in 1 .. n + m, NEW b \in 1 .. n + m, w[a] = w[b]
               PROVE  a = b
    BY <1>1 DEF IsInjective
  <2>1. \A i \in 1 .. n : w[i] \in ToSet(s)
    BY <1>1 DEF ToSet
  <2>2. \A i \in 1 .. n + m : i - n \in 1 .. m => t[i - n] \in ToSet(t)
    BY <1>1 DEF ToSet
  <2>3. CASE a \in 1 .. n /\ b \in 1 .. n
    BY <1>1, <1>5, <2>3 DEF IsInjective
  <2>4. CASE a \notin 1 .. n /\ b \notin 1 .. n
    <3>1. a - n \in 1 .. m /\ b - n \in 1 .. m /\ t[a - n] = t[b - n]
      BY <1>3, <2>4
    <3>2. a - n = b - n
      BY <1>1, <1>5, <3>1 DEF IsInjective
    <3> QED
      BY <1>1, <3>2
  <2>5. CASE a \in 1 .. n /\ b \notin 1 .. n
    BY <1>3, <1>5, <2>1, <2>2, <2>5
  <2>6. CASE a \notin 1 .. n /\ b \in 1 .. n
    BY <1>3, <1>5, <2>1, <2>2, <2>6
  <2> QED
    BY <2>3, <2>4, <2>5, <2>6
<1> QED
  BY <1>1, <1>4, <1>5 DEF w

LEMMA RestMenge ==
  ASSUME NEW S, NEW s \in Seq(S), s # <<>>, IsInjective(s)
  PROVE  /\ Head(s) \in S /\ Tail(s) \in Seq(S) /\ IsInjective(Tail(s))
         /\ Head(s) \in ToSet(s) /\ ToSet(Tail(s)) = ToSet(s) \ {Head(s)}
<1> DEFINE n == Len(s)
           t == Tail(s)
<1>1. /\ n \in Nat /\ n > 0 /\ DOMAIN s = 1 .. n /\ Head(s) = s[1]
      /\ t \in Seq(S) /\ DOMAIN t = 1 .. n - 1 /\ \A i \in 1 .. n - 1 : t[i] = s[i + 1]
  OBVIOUS
<1> HIDE DEF t, n
<1>2. \A i \in 1 .. n - 1 : i + 1 \in 1 .. n /\ i + 1 # 1
  BY <1>1
<1>3. \A i \in 1 .. n : i = 1 \/ (i - 1 \in 1 .. n - 1 /\ (i - 1) + 1 = i)
  BY <1>1
<1>4. 1 \in 1 .. n /\ Head(s) \in S /\ Head(s) \in ToSet(s)
  BY <1>1 DEF ToSet
<1>5. IsInjective(t)
  <2> SUFFICES ASSUME NEW a \in 1 .. n - 1, NEW b \in 1 .. n - 1, t[a] = t[b] PROVE a = b
    BY <1>1 DEF IsInjective
  <2>1. a + 1 \in DOMAIN s /\ b + 1 \in DOMAIN s /\ s[a + 1] = s[b + 1]
    BY <1>1, <1>2
  <2>2. a + 1 = b + 1
    BY <2>1 DEF IsInjective
  <2> QED
    BY <1>1, <2>2
<1>6. ASSUME NEW x \in ToSet(t) PROVE x \in ToSet(s) /\ x # Head(s)
  <2>1. PICK i \in 1 .. n - 1 : x = s[i + 1]
    BY <1>1 DEF ToSet
  <2>2. s[i + 1] # s[1]
    BY <1>1, <1>2, <1>4 DEF IsInjective
  <2> QED
    BY <1>1, <1>2, <2>1, <2>2 DEF ToSet
<1>7. ASSUME NEW x \in ToSet(s), x # Head(s) PROVE x \in ToSet(t)
  <2>1. PICK i \in 1 .. n : x = s[i]
    BY <1>1 DEF ToSet
  <2>2. i - 1 \in 1 .. n - 1 /\ (i - 1) + 1 = i
    BY <1>1, <1>3, <1>7, <2>1
  <2>3. t[i - 1] = x
    BY <1>1, <2>1, <2>2
  <2> QED
    BY <1>1, <2>2, <2>3 DEF ToSet
<1> QED
  BY <1>1, <1>4, <1>5, <1>6, <1>7 DEF t

-----------------------------------------------------------------------------
(* The entries of a sequence that are in a set. *)

NurLoest(s, T, n, nur) ==
  nur = [k \in 0 .. n |->
           IF k = 0 THEN <<>>
           ELSE IF s[k] \in T THEN Append(nur[k - 1], s[k]) ELSE nur[k - 1]]

(* The recursion has a solution.                                           *)
LEMMA NurDa ==
  ASSUME NEW s, NEW T
  PROVE  \A n \in Nat : \E nur : NurLoest(s, T, n, nur)
<1> DEFINE U == {n \in Nat : \E nur : NurLoest(s, T, n, nur)}
<1>1. 0 \in U
  <2>1. NurLoest(s, T, 0, [k \in 0 .. 0 |-> <<>>])
    BY DEF NurLoest
  <2> QED
    BY <2>1
<1>2. ASSUME NEW n \in Nat, n \in U PROVE n + 1 \in U
  <2>1. PICK nur : NurLoest(s, T, n, nur)
    BY <1>2
  <2> DEFINE x == IF s[n + 1] \in T THEN Append(nur[n], s[n + 1]) ELSE nur[n]
             mehr == [k \in 0 .. n + 1 |-> IF k = n + 1 THEN x ELSE nur[k]]
  <2>2. \A k \in 0 .. n : nur[k] = IF k = 0 THEN <<>>
                                  ELSE IF s[k] \in T THEN Append(nur[k - 1], s[k])
                                       ELSE nur[k - 1]
    BY <2>1 DEF NurLoest
  <2> HIDE DEF x
  <2>3. mehr[n + 1] = x /\ \A k \in 0 .. n : mehr[k] = nur[k]
    OBVIOUS
  <2>4. DOMAIN mehr = 0 .. n + 1 /\ mehr = [k \in 0 .. n + 1 |-> mehr[k]]
    OBVIOUS
  <2> HIDE DEF mehr
  <2>5. ASSUME NEW k \in 0 .. n + 1
        PROVE  mehr[k] = IF k = 0 THEN <<>>
                         ELSE IF s[k] \in T THEN Append(mehr[k - 1], s[k])
                              ELSE mehr[k - 1]
    <3>1. CASE k = n + 1
      <4>1. k # 0 /\ k - 1 = n /\ mehr[n] = nur[n]
        BY <2>3, <3>1
      <4> QED
        BY <2>3, <3>1, <4>1 DEF x
    <3>2. CASE k \in 1 .. n
      <4>1. mehr[k] = nur[k] /\ mehr[k - 1] = nur[k - 1] /\ k # 0
        BY <2>3, <3>2
      <4> QED
        BY <2>2, <3>2, <4>1
    <3>3. CASE k = 0
      <4>1. mehr[k] = nur[k]
        BY <2>3, <3>3
      <4> QED
        BY <2>2, <3>3, <4>1
    <3> QED
      BY <3>1, <3>2, <3>3
  <2>6. NurLoest(s, T, n + 1, mehr)
    BY <2>4, <2>5 DEF NurLoest
  <2> QED
    BY <2>6
<1> HIDE DEF U
<1>3. Nat \subseteq U
  BY <1>1, <1>2, Schritte
<1> QED
  BY <1>3 DEF U

LEMMA NurRechnet ==
  ASSUME NEW s, NEW T, Len(s) \in Nat
  PROVE  \E nur : NurLoest(s, T, Len(s), nur) /\ Nur(s, T) = nur[Len(s)]
<1> DEFINE L(nur) == NurLoest(s, T, Len(s), nur)
<1>1. L(CHOOSE nur : L(nur))
  <2>1. \E nur : L(nur)
    BY NurDa
  <2> HIDE DEF L
  <2> QED
    BY <2>1
<1>2. Nur(s, T) = (CHOOSE nur : L(nur))[Len(s)]
  BY DEF Nur, NurLoest
<1> QED
  BY <1>1, <1>2

(* Nur keeps the entries that are in T, each as often as it was there.     *)
LEMMA NurMenge ==
  ASSUME NEW S, NEW s \in Seq(S), NEW T, IsInjective(s)
  PROVE  /\ Nur(s, T) \in Seq(T) /\ IsInjective(Nur(s, T))
         /\ ToSet(Nur(s, T)) = ToSet(s) \cap T
<1> DEFINE n == Len(s)
<1>1. n \in Nat /\ DOMAIN s = 1 .. n
  OBVIOUS
<1>2. PICK nur : NurLoest(s, T, n, nur) /\ Nur(s, T) = nur[n]
  BY <1>1, NurRechnet
<1> HIDE DEF n
<1>3. \A k \in 0 .. n : nur[k] = IF k = 0 THEN <<>>
                                ELSE IF s[k] \in T THEN Append(nur[k - 1], s[k])
                                     ELSE nur[k - 1]
  BY <1>2 DEF NurLoest
<1> DEFINE bis(k) == {s[i] : i \in 1 .. k}
           gut(k) == /\ nur[k] \in Seq(T) /\ IsInjective(nur[k])
                     /\ ToSet(nur[k]) = bis(k) \cap T
           U == {k \in Nat : k <= n => gut(k)}
<1>4. 0 \in U
  <2>1. nur[0] = <<>>
    BY <1>1, <1>3
  <2>2. <<>> \in Seq(T) /\ DOMAIN <<>> = {}
    OBVIOUS
  <2>3. ToSet(<<>>) = {} /\ IsInjective(<<>>)
    BY <2>2 DEF ToSet, IsInjective
  <2>4. bis(0) = {}
    OBVIOUS
  <2> HIDE DEF bis
  <2> QED
    BY <2>1, <2>2, <2>3, <2>4
<1>5. ASSUME NEW k \in Nat, k \in U PROVE k + 1 \in U
  <2> SUFFICES ASSUME k + 1 <= n PROVE gut(k + 1)
    OBVIOUS
  <2>1. gut(k)
    BY <1>1, <1>5
  <2>2. nur[k + 1] = IF s[k + 1] \in T THEN Append(nur[k], s[k + 1]) ELSE nur[k]
    <3>1. k + 1 \in 0 .. n /\ k + 1 # 0 /\ (k + 1) - 1 = k
      BY <1>1
    <3> QED
      BY <1>3, <3>1
  <2>3. bis(k + 1) = bis(k) \cup {s[k + 1]}
    <3>1. 1 .. k + 1 = (1 .. k) \cup {k + 1}
      OBVIOUS
    <3> QED
      BY <3>1
  <2>4. s[k + 1] \notin bis(k)
    <3> SUFFICES ASSUME NEW i \in 1 .. k, s[i] = s[k + 1] PROVE FALSE
      OBVIOUS
    <3>1. i \in 1 .. n /\ k + 1 \in 1 .. n /\ i # k + 1
      BY <1>1
    <3> QED
      BY <1>1, <3>1 DEF IsInjective
  <2> HIDE DEF bis
  <2>5. CASE s[k + 1] \in T
    <3>1. /\ ToSet(Append(nur[k], s[k + 1])) = ToSet(nur[k]) \cup {s[k + 1]}
          /\ IsInjective(Append(nur[k], s[k + 1]))
      <4>1. s[k + 1] \notin ToSet(nur[k])
        BY <2>1, <2>4
      <4> QED
        BY <2>1, <2>5, <4>1, AppendMenge
    <3>2. Append(nur[k], s[k + 1]) \in Seq(T)
      BY <2>1, <2>5
    <3> QED
      BY <2>1, <2>2, <2>3, <2>5, <3>1, <3>2
  <2>6. CASE s[k + 1] \notin T
    BY <2>1, <2>2, <2>3, <2>6
  <2> QED
    BY <2>5, <2>6
<1>6. n \in U
  <2> HIDE DEF U
  <2>1. Nat \subseteq U
    BY <1>4, <1>5, Schritte
  <2> QED
    BY <1>1, <2>1
<1>7. gut(n)
  BY <1>1, <1>6
<1>8. bis(n) = ToSet(s)
  BY <1>1 DEF ToSet
<1> QED
  BY <1>2, <1>7, <1>8

-----------------------------------------------------------------------------
(* Connected regions. *)

RundeLoest(q, n, runde) ==
  runde = [k \in 0 .. n |->
             IF k = 0 THEN {q} ELSE Runde(runde[k - 1], Gleich(q))]

LEMMA RundeDa ==
  ASSUME NEW q
  PROVE  \A n \in Nat : \E runde : RundeLoest(q, n, runde)
<1> DEFINE U == {n \in Nat : \E runde : RundeLoest(q, n, runde)}
<1>1. 0 \in U
  <2>1. RundeLoest(q, 0, [k \in 0 .. 0 |-> {q}])
    BY DEF RundeLoest
  <2> QED
    BY <2>1
<1>2. ASSUME NEW n \in Nat, n \in U PROVE n + 1 \in U
  <2>1. PICK runde : RundeLoest(q, n, runde)
    BY <1>2
  <2> DEFINE x == Runde(runde[n], Gleich(q))
             mehr == [k \in 0 .. n + 1 |-> IF k = n + 1 THEN x ELSE runde[k]]
  <2>2. \A k \in 0 .. n : runde[k] = IF k = 0 THEN {q}
                                    ELSE Runde(runde[k - 1], Gleich(q))
    BY <2>1 DEF RundeLoest
  <2> HIDE DEF x
  <2>3. mehr[n + 1] = x /\ \A k \in 0 .. n : mehr[k] = runde[k]
    OBVIOUS
  <2>4. DOMAIN mehr = 0 .. n + 1 /\ mehr = [k \in 0 .. n + 1 |-> mehr[k]]
    OBVIOUS
  <2> HIDE DEF mehr
  <2>5. ASSUME NEW k \in 0 .. n + 1
        PROVE  mehr[k] = IF k = 0 THEN {q} ELSE Runde(mehr[k - 1], Gleich(q))
    <3>1. CASE k = n + 1
      <4>1. k # 0 /\ k - 1 = n /\ mehr[n] = runde[n]
        BY <2>3, <3>1
      <4> QED
        BY <2>3, <3>1, <4>1 DEF x
    <3>2. CASE k \in 1 .. n
      <4>1. mehr[k] = runde[k] /\ mehr[k - 1] = runde[k - 1] /\ k # 0
        BY <2>3, <3>2
      <4> QED
        BY <2>2, <3>2, <4>1
    <3>3. CASE k = 0
      <4>1. mehr[k] = runde[k]
        BY <2>3, <3>3
      <4> QED
        BY <2>2, <3>3, <4>1
    <3> QED
      BY <3>1, <3>2, <3>3
  <2>6. RundeLoest(q, n + 1, mehr)
    BY <2>4, <2>5 DEF RundeLoest
  <2> QED
    BY <2>6
<1> HIDE DEF U
<1>3. Nat \subseteq U
  BY <1>1, <1>2, Schritte
<1> QED
  BY <1>3 DEF U

LEMMA RundeRechnet ==
  ASSUME NEW q, Cardinality(Gleich(q)) \in Nat
  PROVE  \E runde : /\ RundeLoest(q, Cardinality(Gleich(q)), runde)
                    /\ Zusammenhang(q) = runde[Cardinality(Gleich(q))]
<1> DEFINE N == Cardinality(Gleich(q))
           L(runde) == RundeLoest(q, N, runde)
<1>1. L(CHOOSE runde : L(runde))
  <2>1. \E runde : L(runde)
    BY RundeDa
  <2> HIDE DEF L
  <2> QED
    BY <2>1
<1>2. Zusammenhang(q) = (CHOOSE runde : L(runde))[N]
  BY DEF Zusammenhang, RundeLoest
<1> QED
  BY <1>1, <1>2

(* Closed under stepping to a neighbour of the same colour.                *)
Abgeschlossen(U) ==
  \A r \in U : \A t \in Pixel :
    Nachbarn(t, r) /\ fall.farben[t] = fall.farben[r] => t \in U

(* The region of q is the smallest closed set with q.                      *)
LEMMA ZusammenhangKleinste ==
  ASSUME NEW q \in Pixel, NEW U, q \in U, Abgeschlossen(U)
  PROVE  Zusammenhang(q) \subseteq U
<1> DEFINE G == Gleich(q)
           N == Cardinality(G)
<1>1. G \subseteq Pixel /\ N \in Nat
  BY PixelAnzahl DEF Gleich
<1>2. PICK runde : RundeLoest(q, N, runde) /\ Zusammenhang(q) = runde[N]
  BY <1>1, RundeRechnet
<1> HIDE DEF N
<1>3. \A k \in 0 .. N : runde[k] = IF k = 0 THEN {q} ELSE Runde(runde[k - 1], G)
  BY <1>2 DEF RundeLoest
<1> DEFINE T == {k \in Nat : k <= N => runde[k] \subseteq U \cap G}
<1>4. 0 \in T
  <2>1. runde[0] = {q}
    BY <1>1, <1>3
  <2>2. q \in G
    BY DEF Gleich
  <2> HIDE DEF G
  <2> QED
    BY <2>1, <2>2
<1>5. ASSUME NEW k \in Nat, k \in T PROVE k + 1 \in T
  <2> SUFFICES ASSUME k + 1 <= N PROVE runde[k + 1] \subseteq U \cap G
    OBVIOUS
  <2>1. runde[k] \subseteq U \cap G
    BY <1>1, <1>5
  <2>2. runde[k + 1] = Runde(runde[k], G)
    <3>1. k + 1 \in 0 .. N /\ k + 1 # 0 /\ (k + 1) - 1 = k
      BY <1>1
    <3> HIDE DEF G
    <3> QED
      BY <1>3, <3>1
  <2>3. ASSUME NEW t \in G, NEW s \in runde[k], Nachbarn(t, s) PROVE t \in U
    <3>1. fall.farben[t] = fall.farben[s] /\ t \in Pixel /\ s \in U
      BY <2>1 DEF Gleich
    <3> QED
      BY <2>3, <3>1 DEF Abgeschlossen
  <2> HIDE DEF G
  <2> QED
    BY <2>1, <2>2, <2>3 DEF Runde
<1>6. N \in T
  <2> HIDE DEF T
  <2>1. Nat \subseteq T
    BY <1>4, <1>5, Schritte
  <2> QED
    BY <1>1, <2>1
<1> QED
  BY <1>1, <1>2, <1>6

(* It is itself such a set: that many rounds are enough.                   *)
LEMMA ZusammenhangGanz ==
  ASSUME NEW q \in Pixel
  PROVE  /\ q \in Zusammenhang(q) /\ Zusammenhang(q) \subseteq Gleich(q)
         /\ Abgeschlossen(Zusammenhang(q))
<1> DEFINE G == Gleich(q)
           N == Cardinality(G)
<1>1. G \subseteq Pixel /\ N \in Nat /\ IsFiniteSet(G) /\ q \in G
  BY PixelAnzahl DEF Gleich
<1>2. PICK runde : RundeLoest(q, N, runde) /\ Zusammenhang(q) = runde[N]
  BY <1>1, RundeRechnet
<1>3. \A k \in 0 .. N : runde[k] = IF k = 0 THEN {q} ELSE Runde(runde[k - 1], G)
  BY <1>2 DEF RundeLoest
<1> HIDE DEF N, G
<1> DEFINE ruht(k) == Runde(runde[k], G) = runde[k]
           T == {k \in Nat : k <= N => /\ q \in runde[k] /\ runde[k] \subseteq G
                                       /\ ruht(k) \/ Cardinality(runde[k]) >= k + 1}
<1>4. 0 \in T
  <2>1. runde[0] = {q}
    BY <1>1, <1>3
  <2>2. Cardinality({q}) = 1
    BY FS_Singleton
  <2> QED
    BY <1>1, <2>1, <2>2
<1>5. ASSUME NEW k \in Nat, k \in T PROVE k + 1 \in T
  <2> SUFFICES ASSUME k + 1 <= N
               PROVE  /\ q \in runde[k + 1] /\ runde[k + 1] \subseteq G
                      /\ ruht(k + 1) \/ Cardinality(runde[k + 1]) >= (k + 1) + 1
    OBVIOUS
  <2>1. /\ q \in runde[k] /\ runde[k] \subseteq G
        /\ ruht(k) \/ Cardinality(runde[k]) >= k + 1
    BY <1>1, <1>5
  <2>2. runde[k + 1] = Runde(runde[k], G)
    <3>1. k + 1 \in 0 .. N /\ k + 1 # 0 /\ (k + 1) - 1 = k
      BY <1>1
    <3> QED
      BY <1>3, <3>1
  <2>3. runde[k] \subseteq runde[k + 1] /\ runde[k + 1] \subseteq G
    BY <2>1, <2>2 DEF Runde
  <2>4. CASE ruht(k)
    <3>1. runde[k + 1] = runde[k]
      BY <2>2, <2>4
    <3> QED
      BY <2>1, <2>4, <3>1
  <2>5. CASE ~ruht(k)
    <3>1. runde[k + 1] # runde[k]
      BY <2>2, <2>5
    <3>2. IsFiniteSet(runde[k + 1]) /\ Cardinality(runde[k + 1]) \in Nat
      BY <1>1, <2>3, FS_Subset, FS_CardinalityType
    <3>3. /\ Cardinality(runde[k]) <= Cardinality(runde[k + 1])
          /\ Cardinality(runde[k]) # Cardinality(runde[k + 1])
      BY <2>3, <3>1, <3>2, FS_Subset
    <3>4. Cardinality(runde[k]) \in Nat
      BY <1>1, <2>1, FS_Subset, FS_CardinalityType
    <3>5. Cardinality(runde[k]) >= k + 1
      BY <2>1, <2>5
    <3> HIDE DEF ruht
    <3>6. Cardinality(runde[k + 1]) >= (k + 1) + 1
      BY <3>2, <3>3, <3>4, <3>5
    <3> QED
      BY <2>1, <2>3, <3>6
  <2> QED
    BY <2>4, <2>5
<1>6. N \in T
  <2> HIDE DEF T
  <2>1. Nat \subseteq T
    BY <1>4, <1>5, Schritte
  <2> QED
    BY <1>1, <2>1
<1>7. q \in runde[N] /\ runde[N] \subseteq G /\ ruht(N)
  <2>1. /\ q \in runde[N] /\ runde[N] \subseteq G
        /\ ruht(N) \/ Cardinality(runde[N]) >= N + 1
    BY <1>1, <1>6
  <2>2. Cardinality(runde[N]) <= N /\ Cardinality(runde[N]) \in Nat
    <3>1. IsFiniteSet(runde[N])
      BY <1>1, <2>1, FS_Subset
    <3>2. Cardinality(runde[N]) <= Cardinality(G)
      BY <1>1, <2>1, FS_Subset
    <3> QED
      BY <3>1, <3>2, FS_CardinalityType DEF N
  <2> HIDE DEF ruht
  <2> QED
    BY <1>1, <2>1, <2>2
<1>8. ASSUME NEW r \in runde[N], NEW t \in Pixel, Nachbarn(t, r),
             fall.farben[t] = fall.farben[r]
      PROVE  t \in runde[N]
  <2>1. t \in G
    BY <1>7, <1>8 DEF G, Gleich
  <2> QED
    BY <1>7, <1>8, <2>1 DEF Runde
<1> QED
  BY <1>2, <1>7, <1>8 DEF Abgeschlossen, G

-----------------------------------------------------------------------------
(* The inductive invariant. *)

Kenn == [px : Nat, nb : Nat]
Eintrag == [kennung : Kenn, pixel : SUBSET Pixel]
Bereich == ToSet(besucht) \cup ToSet(stapel)
Arbeit == IF aktiv THEN Bereich ELSE {}
Anfangspixel == IF besucht = <<>> THEN stapel[1] ELSE besucht[1]

TypInv ==
  /\ struktur \in Seq(Eintrag)
  /\ liste \in Seq(Kenn)
  /\ (pass = 1 => struktur = <<>>) /\ (aktiv => pass \in {1, 2})

(* Outside the region being flooded the layer still has the colours of the *)
(* image, but for whole regions that are done.                             *)
EbeneInv ==
  /\ pass = 1 => schicht[2] = fall.farben
  /\ pass \in {1, 2} =>
       \A r \in Pixel \ Arbeit :
         /\ schicht[pass][r] \in {fall.farben[r], Farbe}
         /\ schicht[pass][r] = Farbe =>
              \A t \in Pixel : Nachbarn(t, r) /\ fall.farben[t] = fall.farben[r] =>
                t \notin Arbeit /\ schicht[pass][t] = Farbe

(* Inside: what was popped is background, what waits is marked, and no     *)
(* neighbour of what was popped is forgotten.                              *)
FuellInv ==
  aktiv =>
    /\ oldcolor # Farbe /\ oldcolor # Schwarz
    /\ IsInjective(besucht) /\ IsInjective(stapel)
    /\ ToSet(besucht) \cap ToSet(stapel) = {}
    /\ besucht = <<>> => Len(stapel) = 1
    /\ \A r \in Bereich : fall.farben[r] = oldcolor
    /\ \A r \in ToSet(besucht) : schicht[pass][r] = Farbe
    /\ \A r \in ToSet(stapel) :
         schicht[pass][r] = IF besucht = <<>> THEN oldcolor ELSE Schwarz
    /\ \A r \in ToSet(besucht) : \A t \in Pixel :
         Nachbarn(t, r) /\ fall.farben[t] = oldcolor => t \in Bereich

(* Nothing but what is connected to the pixel the fill began with.         *)
WegInv ==
  aktiv => \A U \in SUBSET Pixel :
             Anfangspixel \in U /\ Abgeschlossen(U) => Bereich \subseteq U

AusdehnungInv ==
  \A i \in DOMAIN struktur : \A q \in struktur[i].pixel :
    /\ l_schicht[q] = Betrquadr(struktur[i].pixel)
    /\ pass = 2 => schicht[2][q] = Farbe /\ q \notin Arbeit

(* Both passes follow the same path. One place on it: the layer, the fill  *)
(* that is under way, what was counted and its size.                       *)
Lage == [bild : [Pixel -> Nat], an : BOOLEAN, farbe : Nat, st : Seq(Pixel),
         nb : SUBSET Pixel, px : Seq(Pixel), ls : Seq(Kenn), mx : Nat]

Anfang(f) == [bild |-> f.farben, an |-> FALSE, farbe |-> 0, st |-> <<>>,
              nb |-> {}, px |-> <<>>, ls |-> <<>>, mx |-> 0]

AbfolgeIn(f, q) ==
  LET v == IF f.nachbar = 1 THEN Versatz8 ELSE Versatz4
  IN [i \in 1 .. Len(v) |-> Plus(q, v[i])]
NebenanIn(farbe, layer, q) ==
  {r \in {Plus(q, <<1, 0>>), Plus(q, <<1, 1>>), Plus(q, <<0, 1>>)} \cap Pixel :
     layer[r] # farbe}
NeueIn(f, z, q) ==
  Nur(AbfolgeIn(f, q), {r \in Pixel : [z.bild EXCEPT ![q] = Farbe][r] = z.farbe})

Bunt(z) == {q \in Pixel : z.bild[q] > 0}
Ende(z) == ~z.an /\ Bunt(z) = {}

BeginntMit(z, q, w) ==
  /\ q \in Bunt(z) /\ \A r \in Bunt(z) \ {q} : Vor(q, r)
  /\ w = [bild |-> z.bild, an |-> TRUE, farbe |-> z.bild[q], st |-> <<q>>,
          nb |-> {}, px |-> <<>>, ls |-> z.ls, mx |-> z.mx]
FuelltMit(f, z, q, w) ==
  w = [bild |-> Markiere([z.bild EXCEPT ![q] = Farbe], ToSet(NeueIn(f, z, q))),
       an |-> TRUE, farbe |-> z.farbe,
       st |-> Reverse(NeueIn(f, z, q)) \o Tail(z.st),
       nb |-> z.nb \cup NebenanIn(z.farbe, [z.bild EXCEPT ![q] = Farbe], q),
       px |-> Append(z.px, q), ls |-> z.ls, mx |-> z.mx]
FertigMit(f, z, k, w) ==
  w = [bild |-> z.bild, an |-> FALSE, farbe |-> 0, st |-> <<>>, nb |-> {}, px |-> <<>>,
       ls |-> IF k.px + k.nb >= f.minsize THEN Append(z.ls, k) ELSE z.ls,
       mx |-> IF k.px + k.nb >= f.minsize THEN z.mx + k.px + k.nb ELSE z.mx]

Folgt(f, z, w) ==
  \/ ~z.an /\ \E q \in Pixel : BeginntMit(z, q, w)
  \/ z.an /\ z.st # <<>> /\ FuelltMit(f, z, Head(z.st), w)
  \/ z.an /\ z.st = <<>>
     /\ FertigMit(f, z, [px |-> Len(z.px), nb |-> Cardinality(z.nb)], w)

Bahn(f, n, s) ==
  /\ s \in [0 .. n -> Lage] /\ s[0] = Anfang(f)
  /\ \A k \in 0 .. n - 1 : Folgt(f, s[k], s[k + 1])
Erreicht(f, z) == \E n \in Nat : \E s : Bahn(f, n, s) /\ s[n] = z

Zustand ==
  [bild |-> schicht[pass], an |-> aktiv, farbe |-> IF aktiv THEN oldcolor ELSE 0,
   st |-> IF aktiv THEN stapel ELSE <<>>, nb |-> IF aktiv THEN stapel2 ELSE {},
   px |-> IF aktiv THEN besucht ELSE <<>>,
   ls |-> IF pass = 1 THEN liste ELSE Kennungen,
   mx |-> IF pass = 1 THEN maxp ELSE kp - Headersize * Len(struktur)]

BahnInv ==
  /\ pass = 1 => countp = Len(liste)
  /\ pass \in {1, 2} => \E f \in Faelle, z \in Lage :
                          f = fall /\ z = Zustand /\ Erreicht(f, z)
  /\ pass >= 2 => \E f \in Faelle, w \in Lage :
                    /\ f = fall /\ Erreicht(f, w) /\ Ende(w)
                    /\ w.ls = liste /\ ende = Headersize * Len(liste) + w.mx
  /\ pass = 3 => Kennungen = liste /\ kp = ende

IInv == /\ TypeOK /\ TypInv /\ EbeneInv /\ FuellInv /\ WegInv /\ AusdehnungInv
        /\ BahnInv

-----------------------------------------------------------------------------
(* Types. *)

LEMMA FallTyp ==
  ASSUME TypeOK
  PROVE  /\ fall.nachbar \in {0, 1} /\ fall.minsize \in Nat
         /\ fall.farben \in [Pixel -> Nat \ {Schwarz}]
BY FaelleAssumption DEF TypeOK

LEMMA ExtremTyp ==
  ASSUME NEW S \in SUBSET Nat, S # {}, NEW n \in Nat, \A a \in S : a < n
  PROVE  Extrem(S) \in Nat
<1> DEFINE lo == CHOOSE a \in S : \A b \in S : a <= b
           hi == CHOOSE a \in S : \A b \in S : a >= b
<1>1. lo \in S
  <2>1. \E a \in S : \A b \in S : a <= b
    BY Kleinste
  <2> QED
    BY <2>1
<1>2. hi \in S /\ \A b \in S : hi >= b
  <2> DEFINE R == {n - a : a \in S}
  <2>1. R \subseteq Nat /\ R # {}
    <3>1. ASSUME NEW a \in S PROVE n - a \in Nat
      OBVIOUS
    <3> QED
      BY <3>1
  <2> HIDE DEF R
  <2>2. PICK x \in R : \A y \in R : x <= y
    BY <2>1, Kleinste
  <2>3. PICK a \in S : x = n - a
    BY DEF R
  <2>4. ASSUME NEW b \in S PROVE a >= b
    <3>1. n - b \in R
      BY DEF R
    <3>2. n - a <= n - b
      BY <2>2, <2>3, <3>1
    <3> QED
      BY <3>2
  <2>5. \E d \in S : \A b \in S : d >= b
    BY <2>4
  <2> QED
    BY <2>5
<1>3. Extrem(S) = (hi - lo) * (hi - lo)
  BY DEF Extrem
<1> HIDE DEF lo, hi
<1>4. hi - lo \in Nat
  BY <1>1, <1>2
<1> QED
  BY <1>3, <1>4

LEMMA BetrquadrTyp ==
  ASSUME NEW Q \in SUBSET Pixel, Q # {}
  PROVE  Betrquadr(Q) \in Nat
<1> DEFINE A == {q[1] : q \in Q}
           B == {q[2] : q \in Q}
<1>1. A \in SUBSET Nat /\ A # {} /\ \A a \in A : a < X
  BY GroesseAssumption DEF Pixel
<1>2. B \in SUBSET Nat /\ B # {} /\ \A a \in B : a < Y
  BY GroesseAssumption DEF Pixel
<1>3. Betrquadr(Q) = Extrem(A) + Extrem(B)
  BY DEF Betrquadr
<1> HIDE DEF A, B
<1>4. Extrem(A) \in Nat /\ Extrem(B) \in Nat
  BY <1>1, <1>2, ExtremTyp, GroesseAssumption
<1> QED
  BY <1>3, <1>4

(* The neighbours that a turn of the fill loop pushes.                     *)
Offen(q, L, c) == {r \in Pixel : r # q /\ Nachbarn(r, q) /\ L[r] = c}

LEMMA NeueRichtig ==
  ASSUME NEW q \in Pixel, NEW L \in [Pixel -> Nat], NEW c, c # Farbe,
         fall.nachbar \in {0, 1}, NEW neue,
         neue = Nur(Abfolge(q), {r \in Pixel : [L EXCEPT ![q] = Farbe][r] = c})
  PROVE  /\ neue \in Seq(Pixel) /\ IsInjective(neue)
         /\ ToSet(neue) = Offen(q, L, c)
<1> DEFINE T == {r \in Pixel : [L EXCEPT ![q] = Farbe][r] = c}
<1>1. T = {r \in Pixel : r # q /\ L[r] = c}
  OBVIOUS
<1> HIDE DEF T
<1>2. neue \in Seq(T) /\ IsInjective(neue) /\ ToSet(neue) = ToSet(Abfolge(q)) \cap T
  <2>1. Abfolge(q) \in Seq(Int \X Int) /\ IsInjective(Abfolge(q))
    BY AbfolgeNachbarn
  <2> DEFINE s == Abfolge(q)
             S == Int \X Int
  <2>2. neue = Nur(s, T)
    BY DEF T
  <2>3. s \in Seq(S) /\ IsInjective(s)
    BY <2>1
  <2> HIDE DEF s, S
  <2>4. /\ Nur(s, T) \in Seq(T) /\ IsInjective(Nur(s, T))
        /\ ToSet(Nur(s, T)) = ToSet(s) \cap T
    BY <2>3, NurMenge
  <2> QED
    BY <2>2, <2>4 DEF s
<1>3. T \subseteq Pixel
  BY <1>1
<1>4. neue \in Seq(Pixel)
  BY <1>2, <1>3
<1>5. ToSet(Abfolge(q)) \cap T = Offen(q, L, c)
  BY <1>1, AbfolgeNachbarn DEF Offen
<1> QED
  BY <1>2, <1>4, <1>5

(* What one turn of the fill loop does.                                    *)
Gefuellt(q, N) ==
  /\ q = Head(stapel) /\ q \in ToSet(stapel) /\ q \notin ToSet(besucht)
  /\ pass \in {1, 2} /\ aktiv /\ stapel # <<>>
  /\ N = Offen(q, schicht[pass], oldcolor)
  /\ besucht' \in Seq(Pixel) /\ besucht' # <<>> /\ IsInjective(besucht')
  /\ ToSet(besucht') = ToSet(besucht) \cup {q}
  /\ stapel' \in Seq(Pixel) /\ ToSet(stapel') = N \cup (ToSet(stapel) \ {q})
  /\ N \cap ToSet(stapel) = {} => IsInjective(stapel')
  /\ schicht' \in [{1, 2} -> [Pixel -> Nat]]
  /\ \A n \in {1, 2} : n # pass => schicht'[n] = schicht[n]
  /\ \A r \in Pixel : schicht'[pass][r] = IF r \in N THEN Schwarz
                                          ELSE IF r = q THEN Farbe
                                          ELSE schicht[pass][r]
  /\ Anfangspixel' = Anfangspixel
  /\ stapel2' \in SUBSET Pixel
  /\ UNCHANGED <<fall, pass, aktiv, oldcolor, zaehler, l_schicht, struktur, liste>>

LEMMA FuelleTut ==
  ASSUME TypeOK, TypInv, FuellInv, Fuelle
  PROVE  \E q \in Pixel, N \in SUBSET Pixel : Gefuellt(q, N)
<1> DEFINE q == Head(stapel)
           L == schicht[pass]
           ohne == [L EXCEPT ![q] = Farbe]
           neue == Nur(Abfolge(q), {r \in Pixel : ohne[r] = oldcolor})
           N == Offen(q, L, oldcolor)
<1>1. /\ aktiv /\ stapel # <<>>
      /\ stapel2' = stapel2 \cup Nebenan(ohne, q)
      /\ stapel' = Reverse(neue) \o Tail(stapel)
      /\ schicht' = [schicht EXCEPT ![pass] = Markiere(ohne, ToSet(neue))]
      /\ besucht' = Append(besucht, q)
      /\ UNCHANGED <<fall, pass, aktiv, oldcolor, zaehler, l_schicht, struktur, liste>>
  BY DEF Fuelle
<1>2. /\ pass \in {1, 2} /\ L \in [Pixel -> Nat] /\ schicht \in [{1, 2} -> [Pixel -> Nat]]
      /\ stapel \in Seq(Pixel) /\ besucht \in Seq(Pixel) /\ stapel2 \subseteq Pixel
  BY <1>1 DEF TypInv, TypeOK
<1>3. /\ oldcolor # Farbe /\ IsInjective(besucht) /\ IsInjective(stapel)
      /\ ToSet(besucht) \cap ToSet(stapel) = {} /\ (besucht = <<>> => Len(stapel) = 1)
  BY <1>1 DEF FuellInv
<1>4. /\ q \in Pixel /\ Tail(stapel) \in Seq(Pixel) /\ IsInjective(Tail(stapel))
      /\ q \in ToSet(stapel) /\ ToSet(Tail(stapel)) = ToSet(stapel) \ {q}
  BY <1>1, <1>2, <1>3, RestMenge
<1>5. neue \in Seq(Pixel) /\ IsInjective(neue) /\ ToSet(neue) = N
  <2>1. fall.nachbar \in {0, 1}
    BY FallTyp
  <2> HIDE DEF q, L
  <2> QED
    BY <1>2, <1>3, <1>4, <2>1, NeueRichtig
<1>6. N \subseteq Pixel
  BY DEF Offen
<1>7. Nebenan(ohne, q) \subseteq Pixel
  BY DEF Nebenan
<1>8. schicht' \in [{1, 2} -> [Pixel -> Nat]]
      /\ \A n \in {1, 2} : n # pass => schicht'[n] = schicht[n]
      /\ \A r \in Pixel : schicht'[pass][r] = IF r \in N THEN Schwarz
                                              ELSE IF r = q THEN Farbe ELSE L[r]
  <2> DEFINE M == Markiere(ohne, ToSet(neue))
  <2>1. /\ M \in [Pixel -> Nat]
        /\ \A r \in Pixel : M[r] = IF r \in N THEN Schwarz
                                   ELSE IF r = q THEN Farbe ELSE L[r]
    <3>1. ohne \in [Pixel -> Nat]
          /\ \A r \in Pixel : ohne[r] = IF r = q THEN Farbe ELSE L[r]
      BY <1>2, <1>4 DEF Farbe
    <3> HIDE DEF ohne, neue, N
    <3>2. M = [r \in Pixel |-> IF r \in N THEN Schwarz ELSE ohne[r]]
      BY <1>5 DEF Markiere
    <3> HIDE DEF M
    <3> QED
      BY <3>1, <3>2 DEF Schwarz
  <2> HIDE DEF M, N, ohne
  <2>2. schicht' = [schicht EXCEPT ![pass] = M]
    BY <1>1 DEF M
  <2> QED
    BY <1>2, <2>1, <2>2
<1> HIDE DEF N, neue, ohne, L
<1>9. /\ besucht' \in Seq(Pixel) /\ besucht' # <<>> /\ IsInjective(besucht')
      /\ ToSet(besucht') = ToSet(besucht) \cup {q} /\ q \notin ToSet(besucht)
  <2>1. q \notin ToSet(besucht)
    BY <1>3, <1>4
  <2>2. /\ ToSet(Append(besucht, q)) = ToSet(besucht) \cup {q}
        /\ IsInjective(Append(besucht, q))
    <3> HIDE DEF q
    <3> QED
      BY <1>2, <1>3, <1>4, <2>1, AppendMenge
  <2>3. besucht' \in Seq(Pixel) /\ besucht' # <<>>
    <3>1. besucht \in Seq(Pixel) /\ q \in Pixel
      BY <1>2, <1>4
    <3> HIDE DEF q
    <3>2. Append(besucht, q) \in Seq(Pixel) /\ Append(besucht, q) # <<>>
      BY <3>1, AppendMenge
    <3> QED
      BY <1>1, <3>2
  <2> QED
    BY <1>1, <2>1, <2>2, <2>3
<1>10. /\ stapel' \in Seq(Pixel) /\ ToSet(stapel') = N \cup (ToSet(stapel) \ {q})
       /\ N \cap ToSet(stapel) = {} => IsInjective(stapel')
  <2> DEFINE a == Reverse(neue)
             b == Tail(stapel)
  <2>1. a \in Seq(Pixel) /\ ToSet(a) = N /\ IsInjective(a)
    BY <1>5, ReverseMenge
  <2>2. b \in Seq(Pixel) /\ ToSet(b) = ToSet(stapel) \ {q} /\ IsInjective(b)
    BY <1>4
  <2> HIDE DEF a, b, q
  <2>3. /\ a \o b \in Seq(Pixel) /\ ToSet(a \o b) = ToSet(a) \cup ToSet(b)
        /\ ToSet(a) \cap ToSet(b) = {} => IsInjective(a \o b)
    BY <2>1, <2>2, VerkettetMenge
  <2>4. stapel' = a \o b
    BY <1>1 DEF a, b
  <2> QED
    BY <2>1, <2>2, <2>3, <2>4
<1>11. Anfangspixel' = Anfangspixel
  <2>1. CASE besucht = <<>>
    <3>1. besucht'[1] = q /\ q = stapel[1]
      BY <1>1, <1>2, <2>1
    <3> QED
      BY <1>9, <2>1, <3>1 DEF Anfangspixel
  <2>2. CASE besucht # <<>>
    <3>1. besucht'[1] = besucht[1]
      <4>1. Len(besucht) \in Nat /\ Len(besucht) # 0
        BY <1>2, <2>2
      <4> QED
        BY <1>1, <1>2, <4>1
    <3> QED
      BY <1>9, <2>2, <3>1 DEF Anfangspixel
  <2> QED
    BY <2>1, <2>2
<1>12. stapel2' \in SUBSET Pixel
  BY <1>1, <1>2, <1>7
<1>13. Gefuellt(q, N)
  <2>1. q = Head(stapel) /\ N = Offen(q, schicht[pass], oldcolor)
    BY DEF N, L
  <2>2. \A r \in Pixel : schicht'[pass][r] = IF r \in N THEN Schwarz
                                             ELSE IF r = q THEN Farbe
                                             ELSE schicht[pass][r]
    BY <1>8 DEF L
  <2> HIDE DEF q
  <2> QED
    BY <1>1, <1>2, <1>4, <1>8, <1>9, <1>10, <1>11, <1>12, <2>1, <2>2, Zenon DEF Gefuellt
<1> QED
  BY <1>4, <1>6, <1>13

(* A new fill.                                                             *)
Begonnen(q) ==
  /\ pass \in {1, 2} /\ ~aktiv /\ aktiv' = TRUE
  /\ schicht[pass][q] > 0 /\ oldcolor' = schicht[pass][q]
  /\ \A r \in Pixel : r # q /\ schicht[pass][r] > 0 => Vor(q, r)
  /\ stapel' = <<q>> /\ ToSet(stapel') = {q} /\ IsInjective(stapel')
  /\ stapel2' = {} /\ besucht' = <<>> /\ ToSet(besucht') = {}
  /\ UNCHANGED <<fall, pass, schicht, zaehler, l_schicht, struktur, liste>>

LEMMA BeginneTut ==
  ASSUME TypeOK, Beginne
  PROVE  \E q \in Pixel : Begonnen(q)
<1>1. PICK q \in Farbig : /\ \A r \in Farbig \ {q} : Vor(q, r)
                          /\ oldcolor' = schicht[pass][q] /\ stapel' = <<q>>
  BY DEF Beginne
<1>2. /\ pass \in {1, 2} /\ ~aktiv /\ aktiv' = TRUE /\ stapel2' = {} /\ besucht' = <<>>
      /\ UNCHANGED <<fall, pass, schicht, zaehler, l_schicht, struktur, liste>>
  BY DEF Beginne
<1>3. q \in Pixel /\ schicht[pass][q] > 0
  BY DEF Farbig
<1>4. \A r \in Pixel : r # q /\ schicht[pass][r] > 0 => Vor(q, r)
  BY <1>1 DEF Farbig
<1>5. ToSet(<<q>>) = {q} /\ IsInjective(<<q>>) /\ ToSet(<<>>) = {}
  <2>1. DOMAIN <<q>> = {1} /\ <<q>>[1] = q /\ DOMAIN <<>> = {}
    OBVIOUS
  <2> QED
    BY <2>1 DEF ToSet, IsInjective
<1>6. Begonnen(q)
  BY <1>1, <1>2, <1>3, <1>4, <1>5, Zenon DEF Begonnen
<1> QED
  BY <1>3, <1>6

LEMMA TypSchritt ==
  ASSUME TypeOK, TypInv, FuellInv, [Next]_vars
  PROVE  TypeOK' /\ TypInv'
<1>1. CASE Beginne
  <2>1. PICK q \in Pixel : Begonnen(q)
    BY <1>1, BeginneTut
  <2>2. schicht[pass][q] \in Nat
    BY <2>1 DEF TypeOK, Begonnen
  <2>3. /\ stapel' \in Seq(Pixel) /\ stapel2' \subseteq Pixel /\ besucht' \in Seq(Pixel)
        /\ oldcolor' \in Nat /\ aktiv' \in BOOLEAN /\ pass' \in {1, 2}
    BY <2>1, <2>2 DEF Begonnen
  <2>4. UNCHANGED <<fall, pass, schicht, zaehler, l_schicht, struktur, liste>>
    BY <2>1 DEF Begonnen
  <2> QED
    BY <2>3, <2>4 DEF TypeOK, TypInv, zaehler
<1>2. CASE Fuelle
  <2>1. PICK q \in Pixel, N \in SUBSET Pixel : Gefuellt(q, N)
    BY <1>2, FuelleTut
  <2>2. /\ stapel' \in Seq(Pixel) /\ stapel2' \subseteq Pixel /\ besucht' \in Seq(Pixel)
        /\ schicht' \in [{1, 2} -> [Pixel -> Nat]] /\ pass \in {1, 2}
        /\ UNCHANGED <<fall, pass, aktiv, oldcolor, zaehler, l_schicht, struktur, liste>>
    BY <2>1 DEF Gefuellt
  <2> QED
    BY <2>2 DEF TypeOK, TypInv, zaehler
<1>3. ASSUME aktiv, stapel = <<>>, pass \in {1, 2}
      PROVE  /\ Kennung \in Kenn /\ ToSet(besucht) \in SUBSET Pixel
             /\ Betrquadr(ToSet(besucht)) \in Nat
             /\ Len(besucht) \in Nat /\ Cardinality(stapel2) \in Nat
  <2>1. Len(besucht) \in Nat /\ Cardinality(stapel2) \in Nat
    BY PixelAnzahl DEF TypeOK
  <2>2. besucht # <<>> /\ besucht \in Seq(Pixel)
    BY <1>3 DEF FuellInv, TypeOK
  <2>3. ToSet(besucht) \in SUBSET Pixel /\ ToSet(besucht) # {}
    <3>1. Head(besucht) \in Pixel /\ 1 \in DOMAIN besucht
      BY <2>2
    <3>2. \A i \in DOMAIN besucht : besucht[i] \in Pixel
      BY <2>2
    <3> QED
      BY <3>1, <3>2 DEF ToSet
  <2>4. Betrquadr(ToSet(besucht)) \in Nat
    BY <2>3, BetrquadrTyp
  <2> QED
    BY <2>1, <2>3, <2>4 DEF Kennung, Kenn
<1>4. CASE Fertig1
  <2>1. /\ pass = 1 /\ aktiv /\ stapel = <<>> /\ aktiv' = FALSE
        /\ UNCHANGED <<fall, pass, schicht, oldcolor, stapel, stapel2, besucht,
                       kp, ende, l_schicht, struktur>>
    BY <1>4 DEF Fertig1
  <2>2. /\ Kennung \in Kenn /\ Len(besucht) \in Nat /\ Cardinality(stapel2) \in Nat
    BY <1>3, <2>1
  <2>3. countp \in Nat /\ maxp \in Nat /\ liste \in Seq(Kenn)
    BY DEF TypeOK, TypInv
  <2>4. \/ UNCHANGED <<countp, maxp, liste>>
        \/ /\ countp' = countp + 1 /\ liste' = Append(liste, Kennung)
           /\ maxp' = maxp + Len(besucht) + Cardinality(stapel2)
    BY <1>4 DEF Fertig1
  <2>5. liste' \in Seq(Kenn)
    <3> DEFINE e == Kennung
    <3>1. e \in Kenn
      BY <2>2
    <3>2. liste' = liste \/ liste' = Append(liste, e)
      BY <2>4
    <3>3. liste \in Seq(Kenn)
      BY <2>3
    <3> HIDE DEF e
    <3> QED
      BY <3>1, <3>2, <3>3
  <2>6. countp' \in Nat /\ maxp' \in Nat
    BY <2>2, <2>3, <2>4
  <2> QED
    BY <2>1, <2>5, <2>6 DEF TypeOK, TypInv
<1>5. CASE Fertig2
  <2>1. /\ pass = 2 /\ aktiv /\ stapel = <<>> /\ aktiv' = FALSE
        /\ UNCHANGED <<fall, pass, schicht, oldcolor, stapel, stapel2, besucht,
                       maxp, ende, liste>>
        /\ l_schicht' = [q \in Pixel |-> IF q \in ToSet(besucht)
                                         THEN Betrquadr(ToSet(besucht)) ELSE l_schicht[q]]
    BY <1>5 DEF Fertig2, Bewertet
  <2>2. /\ Kennung \in Kenn /\ Len(besucht) \in Nat /\ Cardinality(stapel2) \in Nat
        /\ ToSet(besucht) \in SUBSET Pixel /\ Betrquadr(ToSet(besucht)) \in Nat
    BY <1>3, <2>1
  <2>3. /\ countp \in Nat /\ kp \in Nat /\ l_schicht \in [Pixel -> Nat]
        /\ struktur \in Seq(Eintrag)
    BY DEF TypeOK, TypInv
  <2>4. \/ UNCHANGED <<kp, countp, struktur>>
        \/ /\ kp' = kp + 15 + Len(besucht) + Cardinality(stapel2)
           /\ countp' = countp + 1
           /\ struktur' = Append(struktur, [kennung |-> Kennung, pixel |-> ToSet(besucht)])
    BY <1>5 DEF Fertig2, Headersize
  <2>5. countp' \in Nat /\ kp' \in Nat
    BY <2>2, <2>3, <2>4
  <2>6. struktur' \in Seq(Eintrag)
    <3> DEFINE e == [kennung |-> Kennung, pixel |-> ToSet(besucht)]
    <3>1. e \in Eintrag
      BY <2>2 DEF Eintrag
    <3>2. struktur' = struktur \/ struktur' = Append(struktur, e)
      BY <2>4
    <3>3. struktur \in Seq(Eintrag)
      BY <2>3
    <3> HIDE DEF e
    <3> QED
      BY <3>1, <3>2, <3>3
  <2>7. l_schicht' \in [Pixel -> Nat]
    BY <2>1, <2>2, <2>3
  <2>8. pass # 1 /\ pass' = 2 /\ aktiv' = FALSE
    BY <2>1
  <2>9. TypInv'
    BY <2>1, <2>6, <2>8 DEF TypInv
  <2>10. TypeOK'
    BY <2>1, <2>5, <2>7 DEF TypeOK
  <2> QED
    BY <2>9, <2>10
<1>6. CASE PassEnde1
  <2>1. /\ pass = 1 /\ ~aktiv /\ ende' = countp * 15 + maxp /\ kp' = 0 /\ countp' = 0
        /\ UNCHANGED <<fall, schicht, fuellen, maxp, l_schicht, struktur, liste>>
        /\ pass' \in {2, 3}
    BY <1>6 DEF PassEnde1, Headersize
  <2>2. ende' \in Nat
    BY <2>1 DEF TypeOK
  <2> QED
    BY <2>1, <2>2 DEF TypeOK, TypInv, fuellen
<1>7. CASE PassEnde2
  BY <1>7 DEF PassEnde2, TypeOK, TypInv, fuellen, zaehler
<1>8. CASE UNCHANGED vars
  BY <1>8 DEF vars, TypeOK, TypInv, fuellen, zaehler
<1> QED
  BY <1>1, <1>2, <1>4, <1>5, <1>6, <1>7, <1>8 DEF Next, Geschafft

-----------------------------------------------------------------------------
(* The layer and the fill. *)

LEMMA NachbarnBleiben ==
  ASSUME fall' = fall
  PROVE  /\ \A q, r : Nachbarn(q, r)' <=> Nachbarn(q, r)
         /\ \A U : Abgeschlossen(U)' <=> Abgeschlossen(U)
<1>1. \A q, r : Nachbarn(q, r)' <=> Nachbarn(q, r)
  BY DEF Nachbarn
<1>2. ASSUME NEW U PROVE Abgeschlossen(U)' <=> Abgeschlossen(U)
  BY <1>1 DEF Abgeschlossen
<1> QED
  BY <1>1, <1>2

(* A turn of the loop pushes exactly the neighbours that belong to the     *)
(* region and were not met before.                                         *)
LEMMA OffenNeu ==
  ASSUME TypeOK, EbeneInv, FuellInv, NEW q \in Pixel, NEW N \in SUBSET Pixel,
         Gefuellt(q, N)
  PROVE  /\ N \cap Bereich = {} /\ Bereich' = Bereich \cup N
         /\ q \in Bereich /\ fall.farben[q] = oldcolor
         /\ \A r \in N : fall.farben[r] = oldcolor /\ Nachbarn(r, q)
         /\ \A t \in Pixel : Nachbarn(t, q) /\ fall.farben[t] = oldcolor =>
              t \in Bereich \cup N
<1> DEFINE L == schicht[pass]
<1>1. /\ aktiv /\ pass \in {1, 2} /\ q \in ToSet(stapel)
      /\ N = {r \in Pixel : r # q /\ Nachbarn(r, q) /\ L[r] = oldcolor}
      /\ ToSet(besucht') = ToSet(besucht) \cup {q}
      /\ ToSet(stapel') = N \cup (ToSet(stapel) \ {q})
  BY DEF Gefuellt, Offen
<1>2. /\ oldcolor # 0 /\ oldcolor # 255
      /\ \A r \in Bereich : fall.farben[r] = oldcolor
      /\ \A r \in ToSet(besucht) : L[r] = 0
      /\ \A r \in ToSet(stapel) : L[r] = IF besucht = <<>> THEN oldcolor ELSE 255
  BY <1>1 DEF FuellInv, Farbe, Schwarz
<1>3. Bereich' = Bereich \cup N
  BY <1>1 DEF Bereich
<1>4. q \in Bereich
  BY <1>1 DEF Bereich
<1>5. N \cap Bereich = {}
  <2> SUFFICES ASSUME NEW r \in N, r \in Bereich PROVE FALSE
    OBVIOUS
  <2>1. L[r] = oldcolor /\ r # q
    BY <1>1
  <2>2. r \in ToSet(stapel) /\ besucht = <<>>
    BY <1>2, <2>1 DEF Bereich
  <2>3. stapel \in Seq(Pixel) /\ Len(stapel) = 1
    BY <1>1, <2>2 DEF FuellInv, TypeOK
  <2>4. DOMAIN stapel = {1}
    BY <2>3
  <2> QED
    BY <1>1, <2>1, <2>2, <2>4 DEF ToSet
<1>6. \A r \in Pixel \ Bereich :
        /\ L[r] \in {fall.farben[r], 0}
        /\ L[r] = 0 => \A t \in Pixel : Nachbarn(t, r) /\ fall.farben[t] = fall.farben[r] =>
                         t \notin Bereich
  BY <1>1 DEF EbeneInv, Arbeit, Farbe
<1>7. \A r \in N : fall.farben[r] = oldcolor /\ Nachbarn(r, q)
  BY <1>1, <1>2, <1>5, <1>6
<1>8. ASSUME NEW t \in Pixel, Nachbarn(t, q), fall.farben[t] = oldcolor
      PROVE  t \in Bereich \cup N
  <2> SUFFICES ASSUME t \notin Bereich PROVE t \in N
    OBVIOUS
  <2>1. Nachbarn(q, t)
    BY <1>8, NachbarnGegenseitig
  <2>2. L[t] # 0
    BY <1>2, <1>4, <1>6, <1>8, <2>1
  <2>3. L[t] = oldcolor /\ t # q
    BY <1>4, <1>6, <1>8, <2>2
  <2> QED
    BY <1>1, <1>8, <2>3
<1> QED
  BY <1>2, <1>3, <1>4, <1>5, <1>7, <1>8

LEMMA EbeneSchritt ==
  ASSUME TypeOK, TypInv, EbeneInv, FuellInv, [Next]_vars
  PROVE  EbeneInv'
<1> DEFINE L == schicht[pass]
           Ruht(A, l) == \A r \in Pixel \ A :
                        /\ l[r] \in {fall.farben[r], Farbe}
                        /\ l[r] = Farbe =>
                             \A t \in Pixel :
                               Nachbarn(t, r) /\ fall.farben[t] = fall.farben[r] =>
                                 t \notin A /\ l[t] = Farbe
<1>1. ASSUME fall' = fall, pass' = pass, pass \in {1, 2},
             \A n \in {1, 2} : n # pass => schicht'[n] = schicht[n],
             Ruht(Arbeit', schicht'[pass])
      PROVE  EbeneInv'
  <2>1. pass' = 1 => schicht'[2] = fall'.farben
    BY <1>1 DEF EbeneInv
  <2>2. \A q, r : Nachbarn(q, r)' <=> Nachbarn(q, r)
    BY <1>1, NachbarnBleiben
  <2> QED
    BY <1>1, <2>1, <2>2 DEF EbeneInv
<1>2. pass \in {1, 2} => Ruht(Arbeit, L)
  BY DEF EbeneInv
<1>3. CASE Beginne
  <2>1. PICK q \in Pixel : Begonnen(q)
    BY <1>3, BeginneTut
  <2>2. /\ pass \in {1, 2} /\ Arbeit = {} /\ L[q] > 0 /\ L[q] \in Nat
        /\ fall' = fall /\ pass' = pass /\ schicht' = schicht
    BY <2>1 DEF Begonnen, Arbeit, TypeOK
  <2>3. Arbeit' = {q}
    BY <2>1 DEF Begonnen, Arbeit, Bereich
  <2>4. L[q] # Farbe
    BY <2>2 DEF Farbe
  <2>5. Ruht({q}, L)
    BY <1>2, <2>2, <2>4
  <2> HIDE DEF Ruht
  <2> QED
    BY <1>1, <2>2, <2>3, <2>5
<1>4. CASE Fuelle
  <2>1. PICK q \in Pixel, N \in SUBSET Pixel : Gefuellt(q, N)
    BY <1>4, FuelleTut
  <2>2. /\ pass \in {1, 2} /\ Arbeit = Bereich /\ Arbeit' = Bereich \cup N
        /\ fall' = fall /\ pass' = pass
        /\ \A n \in {1, 2} : n # pass => schicht'[n] = schicht[n]
        /\ \A r \in Pixel : schicht'[pass][r] = IF r \in N THEN Schwarz
                                                ELSE IF r = q THEN Farbe ELSE L[r]
        /\ \A r \in N : L[r] = oldcolor
        /\ oldcolor # Farbe /\ q \in Bereich
    <3>1. Bereich' = Bereich \cup N /\ q \in Bereich
      BY <2>1, OffenNeu
    <3>2. Arbeit = Bereich /\ Arbeit' = Bereich'
      BY <2>1 DEF Arbeit, Gefuellt
    <3>3. oldcolor # Farbe
      BY <2>1 DEF FuellInv, Gefuellt
    <3>4. \A r \in N : L[r] = oldcolor
      BY <2>1 DEF Gefuellt, Offen
    <3> QED
      BY <2>1, <3>1, <3>2, <3>3, <3>4 DEF Gefuellt
  <2>3. Ruht(Bereich \cup N, schicht'[pass])
    <3> SUFFICES ASSUME NEW r \in Pixel \ (Bereich \cup N)
                 PROVE  /\ schicht'[pass][r] \in {fall.farben[r], Farbe}
                        /\ schicht'[pass][r] = Farbe =>
                             \A t \in Pixel :
                               Nachbarn(t, r) /\ fall.farben[t] = fall.farben[r] =>
                                 t \notin Bereich \cup N /\ schicht'[pass][t] = Farbe
      OBVIOUS
    <3>1. schicht'[pass][r] = L[r] /\ r \notin Arbeit
      BY <2>2
    <3>2. ASSUME NEW t \in Pixel, t \notin Bereich, L[t] = Farbe
          PROVE  t \notin N /\ schicht'[pass][t] = Farbe
      BY <2>2, <3>2
    <3> HIDE DEF L
    <3> QED
      BY <1>2, <2>2, <3>1, <3>2
  <2> HIDE DEF Ruht
  <2> QED
    BY <1>1, <2>2, <2>3
<1>5. CASE Fertig1 \/ Fertig2
  <2>1. /\ pass \in {1, 2} /\ aktiv /\ stapel = <<>> /\ aktiv' = FALSE
        /\ fall' = fall /\ pass' = pass /\ schicht' = schicht
    BY <1>5 DEF Fertig1, Fertig2
  <2>2. ToSet(stapel) = {}
    BY <2>1 DEF ToSet
  <2>3. Arbeit = ToSet(besucht) /\ Bereich = ToSet(besucht) /\ Arbeit' = {}
    BY <2>1, <2>2 DEF Arbeit, Bereich
  <2>4. /\ \A r \in ToSet(besucht) : L[r] = Farbe /\ fall.farben[r] = oldcolor
        /\ \A r \in ToSet(besucht) : \A t \in Pixel :
             Nachbarn(t, r) /\ fall.farben[t] = oldcolor => t \in ToSet(besucht)
    BY <2>1, <2>3 DEF FuellInv
  <2>5. Ruht({}, L)
    BY <1>2, <2>1, <2>3, <2>4
  <2> HIDE DEF Ruht
  <2> QED
    BY <1>1, <2>1, <2>3, <2>5
<1>6. CASE PassEnde1
  <2>1. /\ pass = 1 /\ ~aktiv /\ fall' = fall /\ schicht' = schicht /\ aktiv' = aktiv
        /\ pass' \in {2, 3} /\ schicht[2] = fall.farben
    BY <1>6 DEF PassEnde1, fuellen, EbeneInv
  <2>2. Arbeit' = {}
    BY <2>1 DEF Arbeit
  <2>3. CASE pass' = 2
    <3>1. schicht'[pass'] = fall.farben
      BY <2>1, <2>3
    <3>2. \A q, r : Nachbarn(q, r)' <=> Nachbarn(q, r)
      BY <2>1, NachbarnBleiben
    <3> QED
      BY <2>1, <2>2, <2>3, <3>1, <3>2 DEF EbeneInv
  <2>4. CASE pass' = 3
    BY <2>4 DEF EbeneInv
  <2> QED
    BY <2>1, <2>3, <2>4
<1>7. CASE PassEnde2
  BY <1>7 DEF PassEnde2, EbeneInv
<1>8. CASE UNCHANGED vars
  <2>1. /\ fall' = fall /\ pass' = pass /\ schicht' = schicht /\ Arbeit' = Arbeit
    BY <1>8 DEF vars, fuellen, Arbeit, Bereich
  <2>2. CASE pass \in {1, 2}
    <3> HIDE DEF Ruht
    <3> QED
      BY <1>1, <1>2, <2>1, <2>2
  <2>3. CASE pass = 3
    BY <2>1, <2>3 DEF EbeneInv
  <2> QED
    BY <2>2, <2>3 DEF TypeOK
<1> QED
  BY <1>3, <1>4, <1>5, <1>6, <1>7, <1>8 DEF Next, Geschafft

LEMMA FuellSchritt ==
  ASSUME TypeOK, TypInv, EbeneInv, FuellInv, [Next]_vars
  PROVE  FuellInv'
<1> DEFINE L == schicht[pass]
<1>1. CASE Beginne
  <2>1. PICK q \in Pixel : Begonnen(q)
    BY <1>1, BeginneTut
  <2>2. /\ L[q] > 0 /\ oldcolor' = L[q] /\ pass' = pass /\ schicht' = schicht
        /\ fall' = fall /\ stapel' = <<q>> /\ ToSet(stapel') = {q} /\ IsInjective(stapel')
        /\ besucht' = <<>> /\ ToSet(besucht') = {} /\ pass \in {1, 2} /\ ~aktiv
    BY <2>1 DEF Begonnen
  <2>3. Bereich' = {q}
    BY <2>2 DEF Bereich
  <2>4. L[q] = fall.farben[q]
    BY <2>2 DEF EbeneInv, Arbeit, Farbe
  <2>5. L[q] # Schwarz /\ L[q] # Farbe
    BY <2>2, <2>4, FallTyp DEF Farbe
  <2>6. IsInjective(<<>>)
    BY DEF IsInjective
  <2> QED
    BY <2>2, <2>3, <2>4, <2>5, <2>6 DEF FuellInv
<1>2. CASE Fuelle
  <2>1. PICK q \in Pixel, N \in SUBSET Pixel : Gefuellt(q, N)
    BY <1>2, FuelleTut
  <2>2. /\ N \cap Bereich = {} /\ Bereich' = Bereich \cup N
        /\ q \in Bereich /\ fall.farben[q] = oldcolor
        /\ \A r \in N : fall.farben[r] = oldcolor /\ Nachbarn(r, q)
        /\ \A t \in Pixel : Nachbarn(t, q) /\ fall.farben[t] = oldcolor =>
             t \in Bereich \cup N
    BY <2>1, OffenNeu
  <2>3. /\ aktiv /\ q \in ToSet(stapel) /\ q \notin ToSet(besucht) /\ fall' = fall
        /\ oldcolor' = oldcolor /\ pass' = pass
        /\ besucht' # <<>> /\ IsInjective(besucht')
        /\ ToSet(besucht') = ToSet(besucht) \cup {q}
        /\ ToSet(stapel') = N \cup (ToSet(stapel) \ {q})
        /\ N \cap ToSet(stapel) = {} => IsInjective(stapel')
        /\ \A r \in Pixel : schicht'[pass][r] = IF r \in N THEN Schwarz
                                                ELSE IF r = q THEN Farbe ELSE L[r]
    BY <2>1 DEF Gefuellt
  <2>4. ToSet(besucht) \subseteq Bereich /\ ToSet(stapel) \subseteq Bereich
    BY DEF Bereich
  <2>5. ToSet(besucht) \subseteq Pixel /\ ToSet(stapel) \subseteq Pixel
    <3>1. besucht \in Seq(Pixel) /\ stapel \in Seq(Pixel)
      BY DEF TypeOK
    <3>2. /\ \A i \in DOMAIN besucht : besucht[i] \in Pixel
          /\ \A i \in DOMAIN stapel : stapel[i] \in Pixel
      BY <3>1
    <3> QED
      BY <3>2 DEF ToSet
  <2>6. /\ oldcolor # Farbe /\ oldcolor # Schwarz
        /\ ToSet(besucht) \cap ToSet(stapel) = {}
        /\ \A r \in Bereich : fall.farben[r] = oldcolor
        /\ \A r \in ToSet(besucht) : L[r] = Farbe
        /\ \A r \in ToSet(stapel) : L[r] = IF besucht = <<>> THEN oldcolor ELSE Schwarz
        /\ \A r \in ToSet(besucht) : \A t \in Pixel :
             Nachbarn(t, r) /\ fall.farben[t] = oldcolor => t \in Bereich
        /\ besucht = <<>> => Len(stapel) = 1
    BY <2>3 DEF FuellInv
  <2>7. IsInjective(stapel')
    BY <2>2, <2>3, <2>4
  <2>8. ToSet(besucht') \cap ToSet(stapel') = {}
    BY <2>2, <2>3, <2>4, <2>6
  <2>9. \A r \in Bereich \cup N : fall.farben[r] = oldcolor
    BY <2>2, <2>6
  <2>10. \A r \in ToSet(besucht') : schicht'[pass][r] = Farbe
    BY <2>2, <2>3, <2>4, <2>5, <2>6
  <2>11. ASSUME NEW r \in ToSet(stapel') PROVE schicht'[pass][r] = Schwarz
    <3>1. CASE r \in N
      BY <2>3, <3>1
    <3>2. CASE r \notin N
      <4>1. r \in ToSet(stapel) /\ r # q
        BY <2>3, <3>2
      <4>2. besucht # <<>>
        <5> SUFFICES ASSUME besucht = <<>> PROVE FALSE
          OBVIOUS
        <5>1. stapel \in Seq(Pixel) /\ Len(stapel) = 1
          BY <2>6 DEF TypeOK
        <5>2. DOMAIN stapel = {1}
          BY <5>1
        <5> QED
          BY <2>3, <4>1, <5>2 DEF ToSet
      <4> QED
        BY <2>3, <2>5, <2>6, <3>2, <4>1, <4>2
    <3> QED
      BY <3>1, <3>2
  <2>12. \A r \in ToSet(besucht') : \A t \in Pixel :
           Nachbarn(t, r) /\ fall.farben[t] = oldcolor => t \in Bereich \cup N
    BY <2>2, <2>3, <2>6
  <2>13. \A r, t : Nachbarn(t, r)' <=> Nachbarn(t, r)
    BY <2>3, NachbarnBleiben
  <2> HIDE DEF L
  <2> QED
    BY <2>2, <2>3, <2>6, <2>7, <2>8, <2>9, <2>10, <2>11, <2>12, <2>13 DEF FuellInv
<1>3. CASE Fertig1 \/ Fertig2 \/ PassEnde1 \/ PassEnde2
  BY <1>3 DEF Fertig1, Fertig2, PassEnde1, PassEnde2, FuellInv, fuellen
<1>4. CASE UNCHANGED vars
  <2>1. /\ fall' = fall /\ pass' = pass /\ schicht' = schicht /\ Bereich' = Bereich
        /\ aktiv' = aktiv /\ oldcolor' = oldcolor /\ besucht' = besucht /\ stapel' = stapel
    BY <1>4 DEF vars, fuellen, Bereich
  <2>2. \A r, t : Nachbarn(t, r)' <=> Nachbarn(t, r)
    BY <2>1, NachbarnBleiben
  <2> QED
    BY <2>1, <2>2 DEF FuellInv
<1> QED
  BY <1>1, <1>2, <1>3, <1>4 DEF Next, Geschafft

LEMMA WegSchritt ==
  ASSUME TypeOK, TypInv, EbeneInv, FuellInv, WegInv, [Next]_vars
  PROVE  WegInv'
<1>1. CASE Beginne
  <2>1. PICK q \in Pixel : Begonnen(q)
    BY <1>1, BeginneTut
  <2>2. Bereich' = {q} /\ Anfangspixel' = q
    BY <2>1 DEF Begonnen, Bereich, Anfangspixel
  <2> QED
    BY <2>2 DEF WegInv
<1>2. CASE Fuelle
  <2>1. PICK q \in Pixel, N \in SUBSET Pixel : Gefuellt(q, N)
    BY <1>2, FuelleTut
  <2>2. /\ Bereich' = Bereich \cup N /\ q \in Bereich /\ fall.farben[q] = oldcolor
        /\ \A r \in N : fall.farben[r] = oldcolor /\ Nachbarn(r, q)
    BY <2>1, OffenNeu
  <2>3. aktiv /\ fall' = fall /\ Anfangspixel' = Anfangspixel
    BY <2>1 DEF Gefuellt
  <2>4. ASSUME NEW U \in SUBSET Pixel, Anfangspixel \in U, Abgeschlossen(U)
        PROVE  Bereich \cup N \subseteq U
    <3>1. Bereich \subseteq U
      BY <2>3, <2>4 DEF WegInv
    <3>2. ASSUME NEW r \in N PROVE r \in U
      BY <2>2, <2>4, <3>1 DEF Abgeschlossen
    <3> QED
      BY <3>1, <3>2
  <2>5. \A U : Abgeschlossen(U)' <=> Abgeschlossen(U)
    BY <2>3, NachbarnBleiben
  <2> QED
    BY <2>2, <2>3, <2>4, <2>5 DEF WegInv
<1>3. CASE Fertig1 \/ Fertig2 \/ PassEnde1 \/ PassEnde2
  <2>1. aktiv' = FALSE
    BY <1>3 DEF Fertig1, Fertig2, PassEnde1, PassEnde2, fuellen, TypeOK
  <2> QED
    BY <2>1 DEF WegInv
<1>4. CASE UNCHANGED vars
  <2>1. /\ fall' = fall /\ aktiv' = aktiv /\ Bereich' = Bereich
        /\ Anfangspixel' = Anfangspixel
    BY <1>4 DEF vars, fuellen, Bereich, Anfangspixel
  <2>2. \A U : Abgeschlossen(U)' <=> Abgeschlossen(U)
    BY <2>1, NachbarnBleiben
  <2> QED
    BY <2>1, <2>2 DEF WegInv
<1> QED
  BY <1>1, <1>2, <1>3, <1>4 DEF Next, Geschafft

-----------------------------------------------------------------------------
(* What is known of the pixels of records that are kept. *)

LEMMA AusdehnungSchritt ==
  ASSUME TypeOK, TypInv, EbeneInv, FuellInv, AusdehnungInv, [Next]_vars
  PROVE  AusdehnungInv'
<1>0. /\ struktur \in Seq(Eintrag) /\ DOMAIN struktur = 1 .. Len(struktur)
      /\ Len(struktur) \in Nat
      /\ \A i \in DOMAIN struktur : struktur[i].pixel \subseteq Pixel
  <2>1. struktur \in Seq(Eintrag)
    BY DEF TypInv
  <2>2. \A i \in DOMAIN struktur : struktur[i] \in Eintrag
    BY <2>1
  <2> QED
    BY <2>1, <2>2 DEF Eintrag
<1>1. CASE Beginne
  <2>1. PICK q \in Pixel : Begonnen(q)
    BY <1>1, BeginneTut
  <2>2. /\ Arbeit' = {q} /\ schicht[pass][q] > 0 /\ schicht' = schicht
        /\ struktur' = struktur /\ l_schicht' = l_schicht /\ pass' = pass
    BY <2>1 DEF Begonnen, Arbeit, Bereich
  <2> QED
    BY <2>2 DEF AusdehnungInv, Farbe
<1>2. CASE Fuelle
  <2>1. PICK q \in Pixel, N \in SUBSET Pixel : Gefuellt(q, N)
    BY <1>2, FuelleTut
  <2>2. Bereich' = Bereich \cup N /\ q \in Bereich
    BY <2>1, OffenNeu
  <2>3. /\ Arbeit = Bereich /\ Arbeit' = Bereich \cup N
        /\ struktur' = struktur /\ l_schicht' = l_schicht /\ pass' = pass
        /\ \A r \in Pixel : schicht'[pass][r] = IF r \in N THEN Schwarz
                                                ELSE IF r = q THEN Farbe
                                                ELSE schicht[pass][r]
        /\ \A r \in N : schicht[pass][r] = oldcolor
        /\ oldcolor # Farbe
    BY <2>1, <2>2 DEF Gefuellt, Offen, Arbeit, FuellInv
  <2>4. ASSUME NEW i \in DOMAIN struktur, NEW r \in struktur[i].pixel, pass = 2
        PROVE  schicht'[2][r] = Farbe /\ r \notin Bereich \cup N
    BY <1>0, <2>2, <2>3, <2>4 DEF AusdehnungInv
  <2> QED
    BY <2>3, <2>4 DEF AusdehnungInv
<1>3. CASE Fertig1
  <2>1. /\ struktur' = struktur /\ l_schicht' = l_schicht /\ pass' = pass
        /\ pass = 1
    BY <1>3 DEF Fertig1
  <2> QED
    BY <2>1 DEF AusdehnungInv
<1>4. CASE Fertig2
  <2> DEFINE Q == ToSet(besucht)
             e == [kennung |-> Kennung, pixel |-> Q]
  <2>1. /\ pass = 2 /\ pass' = 2 /\ aktiv /\ stapel = <<>> /\ aktiv' = FALSE
        /\ schicht' = schicht
        /\ l_schicht' = [r \in Pixel |-> IF r \in Q THEN Betrquadr(Q) ELSE l_schicht[r]]
        /\ struktur' = struktur \/ struktur' = Append(struktur, e)
    BY <1>4 DEF Fertig2, Bewertet
  <2>2. Arbeit' = {} /\ Arbeit = Q \cup ToSet(stapel)
    BY <2>1 DEF Arbeit, Bereich
  <2>3. /\ \A r \in Q : r \in Pixel /\ schicht[2][r] = Farbe
    <3>1. besucht \in Seq(Pixel)
      BY DEF TypeOK
    <3>2. \A i \in DOMAIN besucht : besucht[i] \in Pixel
      BY <3>1
    <3> QED
      BY <2>1, <3>2 DEF FuellInv, ToSet
  <2>4. e.pixel = Q
    OBVIOUS
  <2> HIDE DEF Q, e
  <2>5. ASSUME NEW i \in DOMAIN struktur, NEW r \in struktur[i].pixel
        PROVE  /\ l_schicht'[r] = Betrquadr(struktur[i].pixel)
               /\ schicht'[2][r] = Farbe
    <3>1. r \in Pixel /\ r \notin Q /\ schicht[2][r] = Farbe
          /\ l_schicht[r] = Betrquadr(struktur[i].pixel)
      BY <1>0, <2>1, <2>2 DEF AusdehnungInv
    <3> QED
      BY <2>1, <3>1
  <2>6. ASSUME NEW i \in DOMAIN struktur', NEW r \in struktur'[i].pixel
        PROVE  /\ l_schicht'[r] = Betrquadr(struktur'[i].pixel)
               /\ schicht'[2][r] = Farbe
    <3>1. CASE i \in DOMAIN struktur
      <4>1. struktur'[i] = struktur[i]
        BY <1>0, <2>1, <3>1
      <4> QED
        BY <2>5, <2>6, <3>1, <4>1
    <3>2. CASE i \notin DOMAIN struktur
      <4>1. struktur'[i] = e
        BY <1>0, <2>1, <2>6, <3>2
      <4> QED
        BY <2>1, <2>3, <2>4, <2>6, <4>1
    <3> QED
      BY <3>1, <3>2
  <2> QED
    BY <2>2, <2>6 DEF AusdehnungInv
<1>5. CASE PassEnde1
  <2>1. struktur' = struktur /\ struktur = <<>>
    BY <1>5 DEF PassEnde1, TypInv
  <2> QED
    BY <2>1 DEF AusdehnungInv
<1>6. CASE PassEnde2
  BY <1>6 DEF PassEnde2, AusdehnungInv
<1>7. CASE UNCHANGED vars
  BY <1>7 DEF vars, fuellen, AusdehnungInv, Arbeit, Bereich
<1> QED
  BY <1>1, <1>2, <1>3, <1>4, <1>5, <1>6, <1>7 DEF Next, Geschafft

-----------------------------------------------------------------------------
(* The path: it does not branch, and what is counted only grows on it.     *)

LEMMA FolgtEindeutig ==
  ASSUME NEW f, NEW z, NEW w, NEW v, Folgt(f, z, w), Folgt(f, z, v)
  PROVE  w = v
<1>1. CASE ~z.an
  <2>1. PICK q \in Pixel : BeginntMit(z, q, w)
    BY <1>1 DEF Folgt
  <2>2. PICK p \in Pixel : BeginntMit(z, p, v)
    BY <1>1 DEF Folgt
  <2>3. q = p
    <3> SUFFICES ASSUME q # p PROVE FALSE
      OBVIOUS
    <3>1. Vor(q, p) /\ Vor(p, q)
      BY <2>1, <2>2 DEF BeginntMit
    <3> QED
      BY <3>1 DEF Vor, Pixel
  <2> QED
    BY <2>1, <2>2, <2>3, Zenon DEF BeginntMit
<1>2. CASE z.an /\ z.st # <<>>
  <2>1. FuelltMit(f, z, Head(z.st), w) /\ FuelltMit(f, z, Head(z.st), v)
    BY <1>2, Zenon DEF Folgt
  <2> QED
    BY <2>1, Zenon DEF FuelltMit
<1>3. CASE z.an /\ z.st = <<>>
  <2>1. /\ FertigMit(f, z, [px |-> Len(z.px), nb |-> Cardinality(z.nb)], w)
        /\ FertigMit(f, z, [px |-> Len(z.px), nb |-> Cardinality(z.nb)], v)
    BY <1>3, Zenon DEF Folgt
  <2> QED
    BY <2>1, Zenon DEF FertigMit
<1> QED
  BY <1>1, <1>2, <1>3

LEMMA FolgtNichtEnde ==
  ASSUME NEW f, NEW z, NEW w, Folgt(f, z, w)
  PROVE  ~Ende(z)
BY DEF Folgt, BeginntMit, Ende

(* An initial part.                                                        *)
Stueck(s, t) == Len(s) <= Len(t) /\ \A i \in 1 .. Len(s) : s[i] = t[i]

LEMMA StueckPrefix ==
  ASSUME NEW S, NEW s \in Seq(S), NEW t \in Seq(S), Stueck(s, t)
  PROVE  IsPrefix(s, t) /\ (Len(s) = Len(t) => s = t)
<1> DEFINE n == Len(s)
<1>1. n \in Nat /\ Len(t) \in Nat /\ n <= Len(t) /\ \A i \in 1 .. n : s[i] = t[i]
  BY DEF Stueck
<1>2. SubSeq(s, 1, n) = [i \in 1 .. n |-> s[i]]
  BY <1>1
<1>3. SubSeq(t, 1, n) = [i \in 1 .. n |-> t[i]]
  BY <1>1
<1>4. [i \in 1 .. n |-> s[i]] = [i \in 1 .. n |-> t[i]]
  BY <1>1
<1>5. IsPrefix(s, t)
  BY <1>1, <1>2, <1>3, <1>4 DEF IsPrefix
<1>6. n = Len(t) => s = t
  BY <1>1
<1> QED
  BY <1>5, <1>6

LEMMA LageTyp ==
  ASSUME NEW z \in Lage
  PROVE  /\ z.ls \in Seq(Kenn) /\ Len(z.ls) \in Nat /\ z.mx \in Nat
         /\ Len(z.px) \in Nat /\ Cardinality(z.nb) \in Nat
<1>1. z.ls \in Seq(Kenn) /\ z.mx \in Nat /\ z.px \in Seq(Pixel) /\ z.nb \in SUBSET Pixel
  BY DEF Lage
<1>2. Len(z.px) \in Nat /\ Len(z.ls) \in Nat
  BY <1>1
<1> QED
  BY <1>1, <1>2, PixelAnzahl

LEMMA FolgtWaechst ==
  ASSUME NEW f, NEW z \in Lage, NEW w \in Lage, Folgt(f, z, w)
  PROVE  Stueck(z.ls, w.ls) /\ z.mx <= w.mx
<1>1. CASE w.ls = z.ls /\ w.mx = z.mx
  BY <1>1, LageTyp DEF Stueck
<1>2. CASE ~z.an \/ z.st # <<>>
  <2>1. ASSUME NEW q, BeginntMit(z, q, w) PROVE w.ls = z.ls /\ w.mx = z.mx
    BY <2>1 DEF BeginntMit
  <2>2. ASSUME NEW q, FuelltMit(f, z, q, w) PROVE w.ls = z.ls /\ w.mx = z.mx
    BY <2>2 DEF FuelltMit
  <2>3. w.ls = z.ls /\ w.mx = z.mx
    BY <1>2, <2>1, <2>2, Zenon DEF Folgt
  <2> QED
    BY <1>1, <2>3
<1>3. CASE z.an /\ z.st = <<>>
  <2> DEFINE k == [px |-> Len(z.px), nb |-> Cardinality(z.nb)]
  <2>1. FertigMit(f, z, k, w)
    BY <1>3 DEF Folgt
  <2>2. k \in Kenn /\ k.px \in Nat /\ k.nb \in Nat
    BY LageTyp DEF Kenn
  <2> HIDE DEF k
  <2>3. \/ w.ls = z.ls /\ w.mx = z.mx
        \/ w.ls = Append(z.ls, k) /\ w.mx = z.mx + k.px + k.nb
    BY <2>1 DEF FertigMit
  <2>4. CASE w.ls = Append(z.ls, k) /\ w.mx = z.mx + k.px + k.nb
    <3>1. z.ls \in Seq(Kenn) /\ z.mx \in Nat
      BY LageTyp
    <3>2. z.mx <= w.mx
      BY <2>2, <2>4, <3>1
    <3>3. Stueck(z.ls, Append(z.ls, k))
      BY <2>2, <3>1 DEF Stueck
    <3> QED
      BY <2>4, <3>2, <3>3
  <2> QED
    BY <1>1, <2>3, <2>4
<1> QED
  BY <1>2, <1>3

LEMMA GleicherWeg ==
  ASSUME NEW f, NEW n \in Nat, NEW s, Bahn(f, n, s), NEW m \in Nat, NEW t, Bahn(f, m, t),
         NEW k \in Nat, k <= n, k <= m
  PROVE  s[k] = t[k]
<1> DEFINE T == {i \in Nat : i <= k => s[i] = t[i]}
<1>1. 0 \in T
  BY DEF Bahn
<1>2. ASSUME NEW i \in Nat, i \in T PROVE i + 1 \in T
  <2> SUFFICES ASSUME i + 1 <= k PROVE s[i + 1] = t[i + 1]
    OBVIOUS
  <2>1. i \in 0 .. n - 1 /\ i \in 0 .. m - 1 /\ s[i] = t[i]
    BY <1>2
  <2>2. Folgt(f, s[i], s[i + 1]) /\ Folgt(f, s[i], t[i + 1])
    BY <2>1 DEF Bahn
  <2> QED
    BY <2>2, FolgtEindeutig
<1> HIDE DEF T
<1>3. k \in T
  BY <1>1, <1>2, Schritte
<1> QED
  BY <1>3 DEF T

LEMMA WegWaechst ==
  ASSUME NEW f, NEW n \in Nat, NEW s, Bahn(f, n, s), NEW m \in 0 .. n
  PROVE  Stueck(s[m].ls, s[n].ls) /\ s[m].mx <= s[n].mx
<1> DEFINE gut(i) == Stueck(s[m].ls, s[m + i].ls) /\ s[m].mx <= s[m + i].mx
           T == {i \in Nat : m + i <= n => gut(i)}
<1>0. \A i \in 0 .. n : s[i] \in Lage
  BY DEF Bahn
<1>1. 0 \in T
  <2>1. m + 0 = m /\ s[m] \in Lage
    BY <1>0
  <2>2. Len(s[m].ls) \in Nat /\ s[m].mx \in Nat
    BY <2>1, LageTyp
  <2> QED
    BY <2>1, <2>2 DEF Stueck
<1>2. ASSUME NEW i \in Nat, i \in T PROVE i + 1 \in T
  <2> SUFFICES ASSUME m + (i + 1) <= n PROVE gut(i + 1)
    OBVIOUS
  <2> DEFINE a == s[m]
             b == s[m + i]
             c == s[m + (i + 1)]
  <2>1. a \in Lage /\ b \in Lage /\ c \in Lage
    BY <1>0
  <2>2. Folgt(f, b, c)
    <3>1. m + i \in 0 .. n - 1 /\ (m + i) + 1 = m + (i + 1)
      OBVIOUS
    <3>2. Folgt(f, s[m + i], s[(m + i) + 1])
      BY <3>1 DEF Bahn
    <3> QED
      BY <3>1, <3>2
  <2>3. Stueck(a.ls, b.ls) /\ a.mx <= b.mx
    BY <1>2
  <2> HIDE DEF a, b, c
  <2>4. Stueck(b.ls, c.ls) /\ b.mx <= c.mx
    BY <2>1, <2>2, FolgtWaechst
  <2>5. /\ Len(a.ls) \in Nat /\ Len(b.ls) \in Nat /\ Len(c.ls) \in Nat
        /\ a.mx \in Nat /\ b.mx \in Nat /\ c.mx \in Nat
    BY <2>1, LageTyp
  <2>6. a.mx <= c.mx
    BY <2>3, <2>4, <2>5
  <2>7. Stueck(a.ls, c.ls)
    BY <2>3, <2>4, <2>5 DEF Stueck
  <2> QED
    BY <2>6, <2>7 DEF a, c
<1>3. n - m \in T
  <2> HIDE DEF T
  <2>1. Nat \subseteq T
    BY <1>1, <1>2, Schritte
  <2> QED
    BY <2>1
<1>4. m + (n - m) = n /\ n - m \in Nat
  OBVIOUS
<1> QED
  BY <1>3, <1>4

(* Whoever is on the path of f is not beyond its end.                      *)
LEMMA VorDemEnde ==
  ASSUME NEW f, NEW z, NEW w, Erreicht(f, z), Erreicht(f, w), Ende(w)
  PROVE  /\ z \in Lage /\ w \in Lage /\ Stueck(z.ls, w.ls) /\ z.mx <= w.mx
         /\ Ende(z) => z = w
<1>1w. PICK m \in Nat : \E s : Bahn(f, m, s) /\ s[m] = z
  BY DEF Erreicht
<1>1. PICK s : Bahn(f, m, s) /\ s[m] = z
  BY <1>1w
<1>2w. PICK n \in Nat : \E t : Bahn(f, n, t) /\ t[n] = w
  BY DEF Erreicht
<1>2. PICK t : Bahn(f, n, t) /\ t[n] = w
  BY <1>2w
<1>3. m <= n
  <2> SUFFICES ASSUME n < m PROVE FALSE
    OBVIOUS
  <2>1. s[n] = t[n]
    BY <1>1, <1>2, GleicherWeg
  <2>2. Folgt(f, s[n], s[n + 1])
    BY <1>1 DEF Bahn
  <2> QED
    BY <1>2, <2>1, <2>2, FolgtNichtEnde
<1>4. s[m] = t[m]
  BY <1>1, <1>2, <1>3, GleicherWeg
<1>5. Stueck(z.ls, w.ls) /\ z.mx <= w.mx
  BY <1>1, <1>2, <1>3, <1>4, WegWaechst
<1>6. ASSUME Ende(z) PROVE z = w
  <2> SUFFICES ASSUME m < n PROVE FALSE
    BY <1>1, <1>2, <1>3, <1>4
  <2>1. Folgt(f, t[m], t[m + 1])
    BY <1>2 DEF Bahn
  <2> QED
    BY <1>1, <1>4, <1>6, <2>1, FolgtNichtEnde
<1>7. z \in Lage /\ w \in Lage
  BY <1>1, <1>2 DEF Bahn
<1> QED
  BY <1>5, <1>6, <1>7

LEMMA ErreichtAnfang ==
  ASSUME NEW f, Anfang(f) \in Lage
  PROVE  Erreicht(f, Anfang(f))
<1> DEFINE s == [k \in 0 .. 0 |-> Anfang(f)]
<1>1. s \in [0 .. 0 -> Lage] /\ s[0] = Anfang(f)
  OBVIOUS
<1>2. 0 .. 0 - 1 = {}
  OBVIOUS
<1> HIDE DEF s
<1>3. Bahn(f, 0, s)
  BY <1>1, <1>2 DEF Bahn
<1> QED
  BY <1>1, <1>3 DEF Erreicht

LEMMA ErreichtWeiter ==
  ASSUME NEW f, NEW z, NEW w \in Lage, Erreicht(f, z), Folgt(f, z, w)
  PROVE  Erreicht(f, w)
<1>1w. PICK n \in Nat : \E s : Bahn(f, n, s) /\ s[n] = z
  BY DEF Erreicht
<1>1. PICK s : Bahn(f, n, s) /\ s[n] = z
  BY <1>1w
<1> DEFINE t == [k \in 0 .. n + 1 |-> IF k = n + 1 THEN w ELSE s[k]]
<1>2. s \in [0 .. n -> Lage] /\ s[0] = Anfang(f)
      /\ \A k \in 0 .. n - 1 : Folgt(f, s[k], s[k + 1])
  BY <1>1 DEF Bahn
<1>3. t \in [0 .. n + 1 -> Lage]
  BY <1>2
<1>4. t[n + 1] = w /\ \A k \in 0 .. n : t[k] = s[k]
  OBVIOUS
<1> HIDE DEF t
<1>5. ASSUME NEW k \in 0 .. n PROVE Folgt(f, t[k], t[k + 1])
  <2>1. CASE k = n
    BY <1>1, <1>4, <2>1
  <2>2. CASE k # n
    <3>1. k \in 0 .. n - 1 /\ k + 1 \in 0 .. n
      BY <2>2
    <3>2. Folgt(f, s[k], s[k + 1]) /\ t[k] = s[k] /\ t[k + 1] = s[k + 1]
      BY <1>2, <1>4, <3>1
    <3> QED
      BY <3>2
  <2> QED
    BY <2>1, <2>2
<1>6. (n + 1) - 1 = n /\ 0 \in 0 .. n
  OBVIOUS
<1>7. Bahn(f, n + 1, t)
  BY <1>2, <1>3, <1>4, <1>5, <1>6 DEF Bahn
<1> QED
  BY <1>4, <1>7 DEF Erreicht

-----------------------------------------------------------------------------
(* Both passes stay on the path of the image. *)

Gezaehlt == IF pass = 1 THEN liste ELSE Kennungen
Groesse == IF pass = 1 THEN maxp ELSE kp - Headersize * Len(struktur)

LEMMA KennungenTyp ==
  ASSUME TypInv
  PROVE  /\ Kennungen \in Seq(Kenn) /\ Len(Kennungen) = Len(struktur)
         /\ Len(struktur) \in Nat /\ Gezaehlt \in Seq(Kenn)
<1>1. /\ struktur \in Seq(Eintrag) /\ DOMAIN struktur = 1 .. Len(struktur)
      /\ Len(struktur) \in Nat
  BY DEF TypInv
<1>2. \A i \in 1 .. Len(struktur) : struktur[i].kennung \in Kenn
  <2>1. \A i \in 1 .. Len(struktur) : struktur[i] \in Eintrag
    BY <1>1
  <2> QED
    BY <2>1 DEF Eintrag
<1>3. Kennungen = [i \in 1 .. Len(struktur) |-> struktur[i].kennung]
  BY <1>1 DEF Kennungen
<1>4. Kennungen \in [1 .. Len(struktur) -> Kenn]
  BY <1>2, <1>3
<1>5. Kennungen \in Seq(Kenn) /\ Len(Kennungen) = Len(struktur)
  BY <1>1, <1>4
<1>6. liste \in Seq(Kenn)
  BY DEF TypInv
<1> QED
  BY <1>1, <1>5, <1>6 DEF Gezaehlt

LEMMA KennungenAppend ==
  ASSUME NEW s \in Seq(Eintrag), NEW e \in Eintrag
  PROVE  [i \in DOMAIN Append(s, e) |-> Append(s, e)[i].kennung]
           = Append([i \in DOMAIN s |-> s[i].kennung], e.kennung)
<1> DEFINE n == Len(s)
           t == Append(s, e)
           a == [i \in 1 .. n |-> s[i].kennung]
           b == [i \in 1 .. n + 1 |-> t[i].kennung]
<1>1. /\ n \in Nat /\ DOMAIN s = 1 .. n /\ DOMAIN t = 1 .. n + 1
      /\ t[n + 1] = e /\ \A i \in 1 .. n : t[i] = s[i] /\ s[i] \in Eintrag
  OBVIOUS
<1> HIDE DEF n, t
<1>2. a \in Seq(Kenn) /\ Len(a) = n /\ e.kennung \in Kenn
  <2>1. \A i \in 1 .. n : s[i].kennung \in Kenn
    BY <1>1 DEF Eintrag
  <2>2. a \in [1 .. n -> Kenn]
    BY <2>1
  <2>3. e.kennung \in Kenn
    BY DEF Eintrag
  <2> QED
    BY <1>1, <2>2, <2>3
<1>3. /\ b[n + 1] = e.kennung /\ \A i \in 1 .. n : b[i] = a[i]
      /\ DOMAIN b = 1 .. n + 1 /\ b = [i \in 1 .. n + 1 |-> b[i]]
  BY <1>1
<1> DEFINE x == e.kennung
<1>4. b = Append(a, x)
  <2> HIDE DEF a, b, x
  <2>1. /\ Append(a, x) = [i \in 1 .. n + 1 |-> IF i = n + 1 THEN x ELSE a[i]]
    BY <1>2 DEF x
  <2>2. ASSUME NEW i \in 1 .. n + 1 PROVE b[i] = IF i = n + 1 THEN x ELSE a[i]
    <3>1. i = n + 1 \/ i \in 1 .. n
      BY <1>1
    <3>2. n + 1 \notin 1 .. n
      BY <1>1
    <3>3. b[n + 1] = x
      BY <1>3 DEF x
    <3> QED
      BY <1>3, <3>1, <3>2, <3>3
  <2> QED
    BY <1>3, <2>1, <2>2
<1> QED
  BY <1>1, <1>4 DEF t

LEMMA ZustandTyp ==
  TypeOK /\ TypInv /\ pass \in {1, 2} /\ Groesse \in Nat => Zustand \in Lage
<1> SUFFICES ASSUME TypeOK, TypInv, pass \in {1, 2}, Groesse \in Nat
             PROVE  Zustand \in Lage
  OBVIOUS
<1>1. schicht[pass] \in [Pixel -> Nat]
  BY DEF TypeOK
<1>2. Gezaehlt \in Seq(Kenn)
  BY KennungenTyp
<1>3. /\ aktiv \in BOOLEAN /\ (IF aktiv THEN oldcolor ELSE 0) \in Nat
      /\ (IF aktiv THEN stapel ELSE <<>>) \in Seq(Pixel)
      /\ (IF aktiv THEN stapel2 ELSE {}) \in SUBSET Pixel
      /\ (IF aktiv THEN besucht ELSE <<>>) \in Seq(Pixel)
  BY DEF TypeOK
<1>4. Zustand = [bild |-> schicht[pass], an |-> aktiv, farbe |-> IF aktiv THEN oldcolor ELSE 0,
                 st |-> IF aktiv THEN stapel ELSE <<>>, nb |-> IF aktiv THEN stapel2 ELSE {},
                 px |-> IF aktiv THEN besucht ELSE <<>>, ls |-> Gezaehlt, mx |-> Groesse]
  BY DEF Zustand, Gezaehlt, Groesse
<1> HIDE DEF Zustand
<1> QED
  BY <1>1, <1>2, <1>3, <1>4 DEF Lage

LEMMA ZustandTypDanach ==
  (TypeOK /\ TypInv /\ pass \in {1, 2} /\ Groesse \in Nat => Zustand \in Lage)'
BY ZustandTyp, PTL

LEMMA BeginneFolgt ==
  ASSUME TypeOK, TypInv, Beginne
  PROVE  Folgt(fall, Zustand, Zustand') /\ Groesse' = Groesse
<1>1. PICK q \in Pixel : Begonnen(q)
  BY BeginneTut
<1>2. /\ pass \in {1, 2} /\ ~aktiv /\ aktiv' = TRUE /\ pass' = pass /\ schicht' = schicht
      /\ oldcolor' = schicht[pass][q] /\ stapel' = <<q>> /\ stapel2' = {}
      /\ besucht' = <<>> /\ struktur' = struktur /\ liste' = liste
      /\ kp' = kp /\ maxp' = maxp /\ schicht[pass][q] > 0
      /\ \A r \in Pixel : r # q /\ schicht[pass][r] > 0 => Vor(q, r)
  BY <1>1 DEF Begonnen, zaehler
<1>3. Gezaehlt' = Gezaehlt /\ Groesse' = Groesse
  BY <1>2 DEF Gezaehlt, Groesse, Kennungen
<1>4. Zustand.bild = schicht[pass] /\ Zustand.an = FALSE /\ Zustand.ls = Gezaehlt
      /\ Zustand.mx = Groesse
  BY <1>2 DEF Zustand, Gezaehlt, Groesse
<1>5. Zustand' = [bild |-> schicht[pass], an |-> TRUE, farbe |-> schicht[pass][q],
                  st |-> <<q>>, nb |-> {}, px |-> <<>>, ls |-> Gezaehlt', mx |-> Groesse']
  BY <1>2 DEF Zustand, Gezaehlt, Groesse
<1> DEFINE z == Zustand
           w == Zustand'
<1>6. q \in Bunt(z) /\ \A r \in Bunt(z) \ {q} : Vor(q, r)
  <2>1. Bunt(z) = {r \in Pixel : schicht[pass][r] > 0}
    BY <1>4 DEF Bunt
  <2> QED
    BY <1>2, <2>1
<1>7. BeginntMit(z, q, w)
  <2>1. w = [bild |-> z.bild, an |-> TRUE, farbe |-> z.bild[q], st |-> <<q>>,
             nb |-> {}, px |-> <<>>, ls |-> z.ls, mx |-> z.mx]
    BY <1>3, <1>4, <1>5
  <2> HIDE DEF z, w
  <2> QED
    BY <1>6, <2>1, Zenon DEF BeginntMit
<1>8. ~z.an
  BY <1>4
<1> HIDE DEF z, w
<1>9. Folgt(fall, z, w)
  BY <1>7, <1>8, Zenon DEF Folgt
<1> QED
  BY <1>3, <1>9 DEF z, w

LEMMA FuelleFolgt ==
  ASSUME TypeOK, TypInv, Fuelle
  PROVE  Folgt(fall, Zustand, Zustand') /\ Groesse' = Groesse
<1> DEFINE q == Head(stapel)
           L == schicht[pass]
           ohne == [L EXCEPT ![q] = Farbe]
           neue == Nur(Abfolge(q), {r \in Pixel : ohne[r] = oldcolor})
           z == Zustand
           w == Zustand'
<1>1. /\ aktiv /\ stapel # <<>> /\ aktiv' = TRUE /\ pass' = pass /\ oldcolor' = oldcolor
      /\ stapel2' = stapel2 \cup Nebenan(ohne, q)
      /\ stapel' = Reverse(neue) \o Tail(stapel)
      /\ schicht' = [schicht EXCEPT ![pass] = Markiere(ohne, ToSet(neue))]
      /\ besucht' = Append(besucht, q)
      /\ kp' = kp /\ maxp' = maxp /\ struktur' = struktur /\ liste' = liste
  BY DEF Fuelle, zaehler
<1>2. Gezaehlt' = Gezaehlt /\ Groesse' = Groesse
  BY <1>1 DEF Gezaehlt, Groesse, Kennungen
<1>3. /\ z.bild = L /\ z.an = TRUE /\ z.farbe = oldcolor /\ z.st = stapel /\ z.nb = stapel2
      /\ z.px = besucht /\ z.ls = Gezaehlt /\ z.mx = Groesse
  BY <1>1 DEF Zustand, Gezaehlt, Groesse
<1>4. w = [bild |-> schicht'[pass], an |-> TRUE, farbe |-> oldcolor, st |-> stapel',
           nb |-> stapel2', px |-> besucht', ls |-> Gezaehlt', mx |-> Groesse']
  BY <1>1 DEF Zustand, Gezaehlt, Groesse
<1>5. schicht'[pass] = Markiere(ohne, ToSet(neue))
  <2>1. pass \in {1, 2} /\ schicht \in [{1, 2} -> [Pixel -> Nat]]
    BY <1>1 DEF TypInv, TypeOK
  <2> DEFINE M == Markiere(ohne, ToSet(neue))
  <2>2. schicht' = [schicht EXCEPT ![pass] = M]
    BY <1>1
  <2> HIDE DEF M
  <2>3. schicht'[pass] = M
    BY <2>1, <2>2
  <2> QED
    BY <2>3 DEF M
<1> HIDE DEF z, w
<1>6. [z.bild EXCEPT ![q] = Farbe] = ohne
  BY <1>3
<1>7. NeueIn(fall, z, q) = neue
  <2>1. AbfolgeIn(fall, q) = Abfolge(q)
    BY Zenon DEF AbfolgeIn, Abfolge
  <2>2. NeueIn(fall, z, q) = Nur(AbfolgeIn(fall, q), {r \in Pixel : ohne[r] = oldcolor})
    <3> HIDE DEF ohne, q
    <3> QED
      BY <1>3, <1>6, Zenon DEF NeueIn
  <2> HIDE DEF ohne, q
  <2> QED
    BY <2>1, <2>2, Zenon
<1>8. Nebenan(ohne, q) = NebenanIn(z.farbe, ohne, q)
  <2> HIDE DEF ohne, q
  <2> QED
    BY <1>3, Zenon DEF Nebenan, NebenanIn
<1> HIDE DEF ohne, neue, q, L
<1>9. FuelltMit(fall, z, q, w)
  BY <1>1, <1>2, <1>3, <1>4, <1>5, <1>6, <1>7, <1>8, Zenon DEF FuelltMit
<1>10. z.an /\ z.st # <<>> /\ q = Head(z.st)
  BY <1>1, <1>3 DEF q
<1>11. Folgt(fall, z, w)
  BY <1>9, <1>10, Zenon DEF Folgt
<1> QED
  BY <1>2, <1>11 DEF z, w

LEMMA FertigFolgt ==
  ASSUME TypeOK, TypInv, Fertig1 \/ Fertig2, Groesse \in Nat
  PROVE  Folgt(fall, Zustand, Zustand') /\ Groesse' \in Nat
<1> DEFINE z == Zustand
           w == Zustand'
           k == Kennung
           g == Len(besucht) + Cardinality(stapel2)
<1>1. /\ pass \in {1, 2} /\ aktiv /\ stapel = <<>> /\ aktiv' = FALSE /\ pass' = pass
      /\ schicht' = schicht
  BY DEF Fertig1, Fertig2
<1>2. /\ Len(besucht) \in Nat /\ Cardinality(stapel2) \in Nat /\ maxp \in Nat /\ kp \in Nat
      /\ fall.minsize \in Nat /\ g \in Nat
      /\ k = [px |-> Len(besucht), nb |-> Cardinality(stapel2)]
  <2>1. Len(besucht) \in Nat /\ Cardinality(stapel2) \in Nat
    BY PixelAnzahl DEF TypeOK
  <2> QED
    BY <2>1, FallTyp DEF TypeOK, Kennung
<1>3. /\ z.bild = schicht[pass] /\ z.an = TRUE /\ z.st = <<>> /\ z.nb = stapel2
      /\ z.px = besucht /\ z.ls = Gezaehlt /\ z.mx = Groesse
  BY <1>1 DEF Zustand, Gezaehlt, Groesse
<1>4. w = [bild |-> schicht[pass], an |-> FALSE, farbe |-> 0, st |-> <<>>, nb |-> {},
           px |-> <<>>, ls |-> Gezaehlt', mx |-> Groesse']
  BY <1>1 DEF Zustand, Gezaehlt, Groesse
<1>5. /\ Gezaehlt' = IF g >= fall.minsize THEN Append(Gezaehlt, k) ELSE Gezaehlt
      /\ Groesse' = IF g >= fall.minsize THEN Groesse + g ELSE Groesse
  <2>1. CASE Fertig1
    <3>1. pass = 1 /\ pass' = 1
      BY <1>1, <2>1 DEF Fertig1
    <3>2. Genug(maxp + Len(besucht) + Cardinality(stapel2), maxp) <=> g >= fall.minsize
      BY <1>2 DEF Genug
    <3>3. /\ liste' = IF g >= fall.minsize THEN Append(liste, k) ELSE liste
          /\ maxp' = IF g >= fall.minsize THEN maxp + Len(besucht) + Cardinality(stapel2)
                     ELSE maxp
      <4> HIDE DEF g, k
      <4>1. CASE g >= fall.minsize
        BY <2>1, <3>2, <4>1 DEF Fertig1, k
      <4>2. CASE ~(g >= fall.minsize)
        BY <2>1, <3>2, <4>2 DEF Fertig1, k
      <4> QED
        BY <4>1, <4>2
    <3>4. maxp + Len(besucht) + Cardinality(stapel2) = maxp + g
      BY <1>2
    <3> HIDE DEF g, k
    <3> QED
      BY <3>1, <3>3, <3>4 DEF Gezaehlt, Groesse
  <2>2. CASE Fertig2
    <3> DEFINE max_gp == kp + Headersize + Len(besucht) + Cardinality(stapel2)
               e == [kennung |-> Kennung, pixel |-> ToSet(besucht)]
    <3>1. pass = 2 /\ pass' = 2
      BY <1>1, <2>2 DEF Fertig2
    <3>2. Genug(max_gp, kp + Headersize) <=> g >= fall.minsize
      BY <1>2 DEF Genug, Headersize
    <3>3. /\ struktur' = IF g >= fall.minsize THEN Append(struktur, e) ELSE struktur
          /\ kp' = IF g >= fall.minsize THEN max_gp ELSE kp
      <4> HIDE DEF g
      <4>1. CASE g >= fall.minsize
        BY <2>2, <3>2, <4>1 DEF Fertig2
      <4>2. CASE ~(g >= fall.minsize)
        BY <2>2, <3>2, <4>2 DEF Fertig2
      <4> QED
        BY <4>1, <4>2
    <3>4. struktur \in Seq(Eintrag) /\ Len(struktur) \in Nat
      BY DEF TypInv
    <3>5. e \in Eintrag /\ e.kennung = k
      <4>1. ToSet(besucht) \in SUBSET Pixel
        <5>1. besucht \in Seq(Pixel)
          BY DEF TypeOK
        <5>2. \A i \in DOMAIN besucht : besucht[i] \in Pixel
          BY <5>1
        <5> QED
          BY <5>2 DEF ToSet
      <4>2. k \in Kenn
        BY <1>2 DEF Kenn
      <4> QED
        BY <4>1, <4>2 DEF Eintrag
    <3>6. max_gp = (kp + Headersize) + g
      BY <1>2 DEF Headersize
    <3> HIDE DEF g, k, e, max_gp
    <3>7. CASE g >= fall.minsize
      <4>1. struktur' = Append(struktur, e) /\ kp' = (kp + Headersize) + g
        BY <3>3, <3>6, <3>7
      <4>2. Kennungen' = Append(Kennungen, k)
        <5>1. Kennungen' = [i \in DOMAIN Append(struktur, e) |-> Append(struktur, e)[i].kennung]
          BY <4>1 DEF Kennungen
        <5> QED
          BY <3>4, <3>5, <5>1, KennungenAppend DEF Kennungen
      <4>3. Groesse' = Groesse + g
        <5>1. Len(struktur') = Len(struktur) + 1
          BY <3>4, <3>5, <4>1
        <5> QED
          BY <1>2, <3>1, <3>4, <4>1, <5>1 DEF Groesse, Headersize
      <4> QED
        BY <3>1, <3>7, <4>2, <4>3 DEF Gezaehlt
    <3>8. CASE ~(g >= fall.minsize)
      <4>1. struktur' = struktur /\ kp' = kp
        BY <3>3, <3>8
      <4> QED
        BY <3>1, <3>8, <4>1 DEF Gezaehlt, Groesse, Kennungen
    <3> QED
      BY <3>7, <3>8
  <2> QED
    BY <2>1, <2>2
<1>6. k.px + k.nb = g /\ Groesse + k.px + k.nb = Groesse + g
  BY <1>2
<1>7. k = [px |-> Len(z.px), nb |-> Cardinality(z.nb)]
  BY <1>2, <1>3
<1> HIDE DEF z, w, k, g
<1>8. FertigMit(fall, z, k, w)
  <2>1. w.ls = IF k.px + k.nb >= fall.minsize THEN Append(z.ls, k) ELSE z.ls
    BY <1>3, <1>4, <1>5, <1>6
  <2>2. w.mx = IF k.px + k.nb >= fall.minsize THEN z.mx + k.px + k.nb ELSE z.mx
    BY <1>3, <1>4, <1>5, <1>6
  <2>3. w = [bild |-> z.bild, an |-> FALSE, farbe |-> 0, st |-> <<>>, nb |-> {},
             px |-> <<>>, ls |-> w.ls, mx |-> w.mx]
    BY <1>3, <1>4
  <2> QED
    BY <2>1, <2>2, <2>3, Zenon DEF FertigMit
<1>9. Folgt(fall, z, w)
  BY <1>3, <1>7, <1>8, Zenon DEF Folgt
<1>10. Groesse' \in Nat
  BY <1>2, <1>5
<1> QED
  BY <1>9, <1>10 DEF z, w

(* The end of the second pass: it is at the end of the path, or its half   *)
(* of struktur is full, which is the case nowhere before.                  *)
LEMMA AmEndeGleich ==
  ASSUME TypeOK, TypInv, BahnInv, PassEnde2
  PROVE  Kennungen = liste /\ kp = ende
<1>1. pass = 2 /\ ~aktiv /\ NichtsMehr
  BY DEF PassEnde2
<1>2. PICK f \in Faelle, z \in Lage : f = fall /\ z = Zustand /\ Erreicht(f, z)
  BY <1>1 DEF BahnInv
<1>3. PICK e \in Faelle, w \in Lage : /\ e = fall /\ Erreicht(e, w) /\ Ende(w)
                                      /\ w.ls = liste
                                      /\ ende = Headersize * Len(liste) + w.mx
  BY <1>1 DEF BahnInv
<1>4. /\ Stueck(z.ls, w.ls) /\ z.mx <= w.mx /\ (Ende(z) => z = w)
  BY <1>2, <1>3, VorDemEnde
<1>5. /\ z.ls = Kennungen /\ z.mx = kp - 15 * Len(struktur) /\ z.an = FALSE
      /\ z.bild = schicht[pass]
  BY <1>1, <1>2 DEF Zustand, Headersize
<1>6. /\ Kennungen \in Seq(Kenn) /\ liste \in Seq(Kenn)
      /\ Len(Kennungen) = Len(struktur) /\ Len(struktur) \in Nat /\ Len(liste) \in Nat
      /\ kp \in Nat /\ ende \in Nat /\ w.mx \in Nat /\ z.mx \in Nat
  BY KennungenTyp, LageTyp DEF TypInv, TypeOK
<1>7. CASE Farbig = {}
  <2>1. Bunt(z) = Farbig
    BY <1>5 DEF Bunt, Farbig
  <2>2. z = w
    BY <1>4, <1>5, <1>7, <2>1 DEF Ende
  <2> QED
    BY <1>3, <1>5, <1>6, <2>2 DEF Headersize
<1>8. CASE ~Platz
  <2>1. kp >= ende
    BY <1>6, <1>8 DEF Platz
  <2>2. Len(Kennungen) <= Len(liste)
    BY <1>3, <1>4, <1>5 DEF Stueck
  <2>3. /\ kp = 15 * Len(Kennungen) + z.mx /\ ende = 15 * Len(liste) + w.mx
    BY <1>3, <1>5, <1>6 DEF Headersize
  <2>4. Len(Kennungen) = Len(liste) /\ kp = ende
    BY <1>4, <1>6, <2>1, <2>2, <2>3
  <2> QED
    BY <1>3, <1>4, <1>5, <1>6, <2>4, StueckPrefix
<1> QED
  BY <1>1, <1>7, <1>8 DEF NichtsMehr

LEMMA BahnSchritt ==
  ASSUME TypeOK, TypInv, EbeneInv, BahnInv, TypeOK', TypInv', [Next]_vars
  PROVE  BahnInv'
<1>1. ASSUME pass \in {1, 2}
      PROVE  /\ fall \in Faelle /\ Zustand \in Lage /\ Erreicht(fall, Zustand)
             /\ Groesse \in Nat
  <2>1. PICK f \in Faelle, z \in Lage : f = fall /\ z = Zustand /\ Erreicht(f, z)
    BY <1>1 DEF BahnInv
  <2>2. z.mx \in Nat
    BY LageTyp
  <2>3. z.mx = Groesse
    BY <1>1, <2>1 DEF Zustand, Groesse
  <2> QED
    BY <2>1, <2>2, <2>3
<1>2. ASSUME pass \in {1, 2}, pass' = pass, fall' = fall, ende' = ende,
             pass = 1 => countp' = Len(liste'), pass = 2 => liste' = liste,
             Folgt(fall, Zustand, Zustand'), Groesse' \in Nat
      PROVE  BahnInv'
  <2>1. Zustand' \in Lage
    BY <1>2, ZustandTypDanach
  <2>2. Erreicht(fall, Zustand')
    BY <1>1, <1>2, <2>1, ErreichtWeiter
  <2>3. pass' \in {1, 2} => \E f \in Faelle, z \in Lage :
                              f = fall' /\ z = Zustand' /\ Erreicht(f, z)
    BY <1>1, <1>2, <2>1, <2>2
  <2>4. pass' >= 2 => \E f \in Faelle, w \in Lage :
                        /\ f = fall' /\ Erreicht(f, w) /\ Ende(w)
                        /\ w.ls = liste' /\ ende' = Headersize * Len(liste') + w.mx
    BY <1>2 DEF BahnInv
  <2> QED
    BY <1>2, <2>3, <2>4 DEF BahnInv
<1>3. CASE Beginne
  <2>1. /\ pass \in {1, 2} /\ pass' = pass /\ fall' = fall /\ ende' = ende
        /\ countp' = countp /\ liste' = liste
    BY <1>3 DEF Beginne, zaehler
  <2>2. pass = 1 => countp' = Len(liste')
    BY <2>1 DEF BahnInv
  <2> QED
    BY <1>1, <1>2, <1>3, <2>1, <2>2, BeginneFolgt
<1>4. CASE Fuelle
  <2>1. /\ pass \in {1, 2} /\ pass' = pass /\ fall' = fall /\ ende' = ende
        /\ countp' = countp /\ liste' = liste
    BY <1>4 DEF Fuelle, zaehler, TypInv
  <2>2. pass = 1 => countp' = Len(liste')
    BY <2>1 DEF BahnInv
  <2> QED
    BY <1>1, <1>2, <1>4, <2>1, <2>2, FuelleFolgt
<1>5. CASE Fertig1 \/ Fertig2
  <2>1. /\ pass \in {1, 2} /\ pass' = pass /\ fall' = fall /\ ende' = ende
        /\ (pass = 2 => liste' = liste)
    BY <1>5 DEF Fertig1, Fertig2
  <2>2. pass = 1 => countp' = Len(liste')
    <3> SUFFICES ASSUME pass = 1 PROVE countp' = Len(liste')
      OBVIOUS
    <3>1. countp = Len(liste) /\ liste \in Seq(Kenn) /\ liste' \in Seq(Kenn)
      BY DEF BahnInv, TypInv
    <3>2. \/ countp' = countp + 1 /\ liste' = Append(liste, Kennung)
          \/ countp' = countp /\ liste' = liste
      BY <1>5 DEF Fertig1, Fertig2
    <3> HIDE DEF Kennung
    <3>3. Len(Append(liste, Kennung)) = Len(liste) + 1
      BY <3>1
    <3> QED
      BY <3>1, <3>2, <3>3
  <2> QED
    BY <1>1, <1>2, <1>5, <2>1, <2>2, FertigFolgt
<1>6. CASE PassEnde1
  <2>1. /\ pass = 1 /\ ~aktiv /\ Farbig = {} /\ ende' = countp * 15 + maxp
        /\ pass' = IF ende' > 0 THEN 2 ELSE 3
        /\ kp' = 0 /\ countp' = 0 /\ fall' = fall /\ schicht' = schicht /\ aktiv' = aktiv
        /\ struktur' = struktur /\ liste' = liste
    BY <1>6 DEF PassEnde1, fuellen, Headersize
  <2>2. /\ countp = Len(liste) /\ struktur = <<>> /\ schicht[2] = fall.farben
        /\ liste \in Seq(Kenn) /\ maxp \in Nat /\ Len(liste) \in Nat
    BY <2>1 DEF BahnInv, TypInv, EbeneInv, TypeOK
  <2>3. /\ Zustand.an = FALSE /\ Zustand.bild = schicht[pass] /\ Zustand.ls = liste
        /\ Zustand.mx = maxp
    BY <2>1 DEF Zustand
  <2>4. Ende(Zustand)
    <3>1. Bunt(Zustand) = Farbig
      BY <2>3 DEF Bunt, Farbig
    <3> QED
      BY <2>1, <2>3, <3>1 DEF Ende
  <2>5. ende' = Headersize * Len(liste) + maxp
    BY <2>1, <2>2 DEF Headersize
  <2>6. \E f \in Faelle, w \in Lage :
          /\ f = fall' /\ Erreicht(f, w) /\ Ende(w)
          /\ w.ls = liste' /\ ende' = Headersize * Len(liste') + w.mx
    BY <1>1, <2>1, <2>3, <2>4, <2>5
  <2>7. Kennungen' = <<>> /\ Len(struktur') = 0
    BY <2>1, <2>2 DEF Kennungen
  <2>8. ASSUME pass' = 2
        PROVE  \E f \in Faelle, z \in Lage : f = fall' /\ z = Zustand' /\ Erreicht(f, z)
    <3>1. Groesse' = 0
      BY <2>1, <2>7, <2>8 DEF Groesse, Headersize
    <3>2. Zustand' = Anfang(fall)
      <4>1. schicht'[pass'] = fall.farben /\ aktiv' = FALSE /\ pass' # 1
        BY <2>1, <2>2, <2>8 DEF TypeOK
      <4>2. Zustand' = [bild |-> fall.farben, an |-> FALSE, farbe |-> 0, st |-> <<>>,
                        nb |-> {}, px |-> <<>>, ls |-> Kennungen', mx |-> Groesse']
        BY <4>1 DEF Zustand, Groesse
      <4> QED
        BY <2>7, <3>1, <4>2 DEF Anfang
    <3>3. Zustand' \in Lage
      BY <2>8, <3>1, ZustandTypDanach
    <3>4. Erreicht(fall, Anfang(fall))
      BY <3>2, <3>3, ErreichtAnfang
    <3> QED
      BY <1>1, <2>1, <3>2, <3>3, <3>4
  <2>9. ASSUME pass' = 3
        PROVE  Kennungen' = liste' /\ kp' = ende'
    <3>1. ende' = 0
      BY <2>1, <2>2, <2>5, <2>9 DEF Headersize
    <3>2. Len(liste) = 0
      BY <2>2, <2>5, <3>1 DEF Headersize
    <3>3. liste = <<>>
      BY <2>2, <3>2
    <3> QED
      BY <2>1, <2>7, <3>1, <3>3
  <2>10. pass' = 2 \/ pass' = 3
    BY <2>1
  <2> QED
    BY <2>6, <2>8, <2>9, <2>10 DEF BahnInv
<1>7. CASE PassEnde2
  <2>1. /\ pass = 2 /\ pass' = 3 /\ fall' = fall /\ ende' = ende /\ kp' = kp
        /\ struktur' = struktur /\ liste' = liste
    BY <1>7 DEF PassEnde2, zaehler
  <2>2. Kennungen' = liste' /\ kp' = ende'
    BY <1>7, <2>1, AmEndeGleich DEF Kennungen
  <2>3. \E f \in Faelle, w \in Lage :
          /\ f = fall' /\ Erreicht(f, w) /\ Ende(w)
          /\ w.ls = liste' /\ ende' = Headersize * Len(liste') + w.mx
    BY <2>1 DEF BahnInv
  <2> QED
    BY <2>1, <2>2, <2>3 DEF BahnInv
<1>8. CASE UNCHANGED vars
  <2>1. /\ pass' = pass /\ fall' = fall /\ ende' = ende /\ kp' = kp /\ countp' = countp
        /\ struktur' = struktur /\ liste' = liste /\ Zustand' = Zustand
        /\ Kennungen' = Kennungen
    BY <1>8 DEF vars, fuellen, zaehler, Zustand, Kennungen
  <2> QED
    BY <2>1 DEF BahnInv
<1> QED
  BY <1>3, <1>4, <1>5, <1>6, <1>7, <1>8 DEF Next, Geschafft

-----------------------------------------------------------------------------
(* Results. *)

LEMMA AmAnfang == Init => IInv
<1> SUFFICES ASSUME Init PROVE IInv
  OBVIOUS
<1>1. /\ fall \in Faelle /\ pass = 1 /\ schicht = [n \in {1, 2} |-> fall.farben]
      /\ aktiv = FALSE /\ oldcolor = 0 /\ stapel = <<>> /\ stapel2 = {} /\ besucht = <<>>
      /\ countp = 0 /\ maxp = 0 /\ kp = 0 /\ ende = 0 /\ struktur = <<>> /\ liste = <<>>
      /\ l_schicht = [q \in Pixel |-> 0]
  BY DEF Init
<1>2. fall.farben \in [Pixel -> Nat]
  BY <1>1, FaelleAssumption
<1>3. TypeOK
  <2>1. schicht \in [{1, 2} -> [Pixel -> Nat]]
    BY <1>1, <1>2
  <2>2. l_schicht \in [Pixel -> Nat]
    BY <1>1
  <2>3. stapel \in Seq(Pixel) /\ besucht \in Seq(Pixel) /\ stapel2 \subseteq Pixel
    BY <1>1
  <2>4. fall \in Faelle /\ aktiv \in BOOLEAN
    BY <1>1, Zenon
  <2>5. pass \in 1 .. 3 /\ oldcolor \in Nat
    BY <1>1
  <2>6. countp \in Nat /\ maxp \in Nat /\ kp \in Nat /\ ende \in Nat
    BY <1>1
  <2> QED
    BY <2>1, <2>2, <2>3, <2>4, <2>5, <2>6, Zenon DEF TypeOK
<1>4. TypInv
  BY <1>1 DEF TypInv
<1>5. schicht[1] = fall.farben /\ schicht[2] = fall.farben
  BY <1>1
<1>6. EbeneInv
  BY <1>1, <1>5 DEF EbeneInv, Arbeit, Farbe
<1>7. FuellInv /\ WegInv /\ AusdehnungInv
  BY <1>1 DEF FuellInv, WegInv, AusdehnungInv
<1>8. Zustand = Anfang(fall)
  BY <1>1, <1>5 DEF Zustand, Anfang
<1>9. Zustand \in Lage
  <2>1. pass \in {1, 2} /\ Groesse \in Nat
    BY <1>1 DEF Groesse
  <2> QED
    BY <1>3, <1>4, <2>1, ZustandTyp
<1>10. Erreicht(fall, Zustand)
  BY <1>8, <1>9, ErreichtAnfang
<1>11. BahnInv
  BY <1>1, <1>9, <1>10 DEF BahnInv
<1> QED
  BY <1>3, <1>4, <1>6, <1>7, <1>11 DEF IInv

LEMMA Induktiv == IInv /\ [Next]_vars => IInv'
<1> SUFFICES ASSUME IInv, [Next]_vars PROVE IInv'
  OBVIOUS
<1>1. TypeOK /\ TypInv /\ EbeneInv /\ FuellInv /\ WegInv /\ AusdehnungInv /\ BahnInv
  BY DEF IInv
<1>2. TypeOK' /\ TypInv'
  BY <1>1, TypSchritt
<1>3. EbeneInv' /\ FuellInv' /\ WegInv' /\ AusdehnungInv'
  BY <1>1, EbeneSchritt, FuellSchritt, WegSchritt, AusdehnungSchritt
<1>4. BahnInv'
  BY <1>1, <1>2, BahnSchritt
<1> QED
  BY <1>2, <1>3, <1>4 DEF IInv

LEMMA InvGanzeRegion == IInv => GanzeRegion
<1> SUFFICES ASSUME IInv, aktiv
             PROVE  /\ IsInjective(besucht \o stapel)
                    /\ \A i \in 2 .. Len(stapel) : schicht[pass][stapel[i]] = Schwarz
                    /\ stapel = <<>> => ToSet(besucht) = Zusammenhang(besucht[1])
  BY DEF GanzeRegion
<1>1. /\ besucht \in Seq(Pixel) /\ stapel \in Seq(Pixel)
      /\ IsInjective(besucht) /\ IsInjective(stapel)
      /\ ToSet(besucht) \cap ToSet(stapel) = {} /\ (besucht = <<>> => Len(stapel) = 1)
      /\ \A r \in ToSet(stapel) :
           schicht[pass][r] = IF besucht = <<>> THEN oldcolor ELSE Schwarz
  BY DEF IInv, TypeOK, FuellInv
<1>2. IsInjective(besucht \o stapel)
  BY <1>1, VerkettetMenge
<1>3. ASSUME NEW i \in 2 .. Len(stapel) PROVE schicht[pass][stapel[i]] = Schwarz
  <2>1. Len(stapel) \in Nat /\ DOMAIN stapel = 1 .. Len(stapel)
    BY <1>1
  <2>2. i \in DOMAIN stapel /\ besucht # <<>>
    BY <1>1, <2>1
  <2>3. stapel[i] \in ToSet(stapel)
    BY <2>2 DEF ToSet
  <2> QED
    BY <1>1, <2>2, <2>3
<1>4. ASSUME stapel = <<>> PROVE ToSet(besucht) = Zusammenhang(besucht[1])
  <2> DEFINE q == besucht[1]
             B == ToSet(besucht)
  <2>1. besucht # <<>> /\ ToSet(stapel) = {}
    BY <1>1, <1>4 DEF ToSet
  <2>2. 1 \in DOMAIN besucht /\ \A i \in DOMAIN besucht : besucht[i] \in Pixel
    BY <1>1, <2>1
  <2>3. q \in B /\ q \in Pixel /\ B \subseteq Pixel /\ Bereich = B /\ Anfangspixel = q
    BY <2>1, <2>2 DEF ToSet, Bereich, Anfangspixel
  <2>4. /\ \A r \in B : fall.farben[r] = oldcolor
        /\ \A r \in B : \A t \in Pixel :
             Nachbarn(t, r) /\ fall.farben[t] = oldcolor => t \in B
    BY <2>3 DEF IInv, FuellInv
  <2> HIDE DEF q, B
  <2>5. Zusammenhang(q) \subseteq B
    <3>1. Abgeschlossen(B)
      BY <2>4 DEF Abgeschlossen
    <3> QED
      BY <2>3, <3>1, ZusammenhangKleinste
  <2>6. B \subseteq Zusammenhang(q)
    <3> DEFINE U == Zusammenhang(q)
    <3>1. q \in U /\ Abgeschlossen(U) /\ U \subseteq Gleich(q)
      BY <2>3, ZusammenhangGanz
    <3>2. U \in SUBSET Pixel
      BY <3>1 DEF Gleich
    <3> HIDE DEF U
    <3>3. B \subseteq U
      BY <2>3, <3>1, <3>2 DEF IInv, WegInv
    <3> QED
      BY <3>3 DEF U
  <2> QED
    BY <2>5, <2>6 DEF q, B
<1> QED
  BY <1>2, <1>3, <1>4

LEMMA InvBeideGleich == IInv => BeideGleich
<1> SUFFICES ASSUME IInv PROVE BeideGleich
  OBVIOUS
<1>1. TypeOK /\ TypInv /\ BahnInv
  BY DEF IInv
<1>2. Kennungen \in Seq(Kenn) /\ liste \in Seq(Kenn)
  BY <1>1, KennungenTyp DEF TypInv
<1>3. ASSUME pass = 2 PROVE IsPrefix(Kennungen, liste)
  <2>1. PICK f \in Faelle, z \in Lage : f = fall /\ z = Zustand /\ Erreicht(f, z)
    BY <1>1, <1>3 DEF BahnInv
  <2>2. PICK e \in Faelle, w \in Lage : /\ e = fall /\ Erreicht(e, w) /\ Ende(w)
                                        /\ w.ls = liste
    BY <1>1, <1>3 DEF BahnInv
  <2>3. Stueck(z.ls, w.ls)
    BY <2>1, <2>2, VorDemEnde
  <2>4. z.ls = Kennungen
    BY <1>3, <2>1 DEF Zustand
  <2> QED
    BY <1>2, <2>2, <2>3, <2>4, StueckPrefix
<1>4. ASSUME pass = 3 PROVE IsPrefix(Kennungen, liste) /\ Kennungen = liste /\ kp = ende
  <2>1. Kennungen = liste /\ kp = ende
    BY <1>1, <1>4 DEF BahnInv
  <2>2. Stueck(liste, liste)
    BY <1>2 DEF Stueck
  <2> QED
    BY <1>2, <2>1, <2>2, StueckPrefix
<1>5. pass \in 1 .. 3
  BY <1>1 DEF TypeOK
<1> QED
  BY <1>3, <1>4, <1>5 DEF BeideGleich

LEMMA InvAusdehnung == IInv => AusdehnungStimmt
BY DEF IInv, AusdehnungInv, AusdehnungStimmt

(* Every variable keeps its type: the extent written to l_schicht is a     *)
(* natural number because no fill ends without a pixel (fill2, OnGo).      *)
THEOREM FuellTypen == Spec => []TypeOK
<1>1. IInv => TypeOK
  BY DEF IInv
<1> QED
  BY <1>1, AmAnfang, Induktiv, PTL DEF Spec

(* GanzeRegion for images of any size, any number of colours and both      *)
(* neighbourhoods: fill and fill2 take the connected region of the pixel   *)
(* they start from, all of it, nothing else, and no pixel twice.           *)
THEOREM RegionImmerGanz == Spec => []GanzeRegion
BY AmAnfang, Induktiv, InvGanzeRegion, PTL DEF Spec

(* BeideGleich for all of them: fill_row2 keeps exactly the regions that   *)
(* fill_row1 counted, in its order and with its numbers of neighbours, and *)
(* stops with its half of struktur filled to the last entry.               *)
THEOREM BeideImmerGleich == Spec => []BeideGleich
BY AmAnfang, Induktiv, InvBeideGleich, PTL DEF Spec

(* AusdehnungStimmt for all of them: the extent at every pixel of a kept   *)
(* region is that region's own when the fills are done.                    *)
THEOREM AusdehnungBleibtRichtig == Spec => []AusdehnungStimmt
BY AmAnfang, Induktiv, InvAusdehnung, PTL DEF Spec

(***************************************************************************)
(* The fit: FitInv is inductive, and with it every step of the marking     *)
(* loop is a round of LineFit or a stutter.                                *)
(***************************************************************************)

-----------------------------------------------------------------------------
(* Counting.  LineFit's instance has its own Cardinality, the same one. *)

LEMMA EineAnzahl ==
  ASSUME NEW S
  PROVE  LF!Cardinality(S) = Cardinality(S)
BY DEF LF!Cardinality, Cardinality

LEMMA GenugHeisst ==
  ASSUME NEW S, NEW T
  PROVE  LF!Genug(S, T) <=> /\ Cardinality(S) > Mindest
                            /\ 100 * Cardinality(S) > Anteil * Cardinality(T)
BY EineAnzahl DEF LF!Genug

LEMMA Zahl ==
  ASSUME NEW S \in SUBSET Linien
  PROVE  IsFiniteSet(S) /\ Cardinality(S) \in Nat
<1>1. IsFiniteSet(S)
  BY FS_Subset, FitAssumption
<1>2. QED
  BY <1>1, FS_CardinalityType

(* The lines that are green, or may be again at the end of the round. *)
Bleibt(u) == {l \in Linien : u[l] \in {Gruen, Warte}}

LEMMA Farben ==
  /\ Gruen = 1 /\ Rot = -3 /\ Warte = -30
  /\ LF!Urteile = {1, -3, -1}
  /\ LF!Korrekturen = {"alt", "neu", "null"}
BY DEF Gruen, Rot, Warte, LF!Gruen, LF!Rot, LF!Warte, LF!Urteile, LF!Verworfen,
       LF!Korrekturen

(* A set of lines that is all of a set of two, or large enough, has two. *)
LEMMA ZweiBleiben ==
  ASSUME NEW S \in SUBSET Linien, NEW T \in SUBSET Linien,
         S = T \/ LF!Genug(S, T), Cardinality(T) >= 2
  PROVE  Cardinality(S) >= 2
<1>1. Cardinality(S) \in Nat
  BY Zahl
<1>2. Mindest \in Nat \ {0}
  BY FitAssumption
<1>3. CASE S = T
  BY <1>3
<1>4. CASE LF!Genug(S, T)
  <2>1. Cardinality(S) > Mindest
    BY <1>4, GenugHeisst
  <2>2. QED
    BY <2>1, <1>1, <1>2
<1>5. QED
  BY <1>3, <1>4

-----------------------------------------------------------------------------
(* The invariant. *)

LEMMA FitAmAnfang == FitInit => FitInv
<1> SUFFICES ASSUME FitInit PROVE FitInv
  OBVIOUS
<1> USE DEF FitInit
<1>1. Laeufe + 1 \in Nat /\ 1 \in 1 .. Laeufe + 1 /\ 0 \in 0 .. Stufen
  BY FitAssumption
<1>2. FitTypeOK
  <2>1. urteil \in [Linien -> LF!Urteile \cup {Warte}]
    BY Farben
  <2>2. QED
    BY <1>1, <2>1, Farben DEF FitTypeOK
<1>3. QED
  BY <1>2 DEF FitInv

LEMMA SucheErhaelt == FitInv /\ Suche => FitInv'
<1> SUFFICES ASSUME FitInv, Suche PROVE FitInv'
  OBVIOUS
<1> USE DEF Suche
<1>1. urteil \in [Linien -> LF!Urteile]
  BY DEF FitInv
<1>2. Gruene \in SUBSET Linien /\ Cardinality(Gruene) \in Nat
  BY Zahl DEF Gruene, LF!Gruene
<1>3. PICK gefunden \in BOOLEAN : /\ gefunden => Cardinality(Gruene) >= 2
                                  /\ nrind' = (nrind \/ gefunden)
  BY DEF Gesucht
<1>4. FitTypeOK'
  <2>1. nrind' \in BOOLEAN
    BY <1>3
  <2>2. stufe' \in 0 .. Stufen
    BY FitAssumption
  <2>3. QED
    BY <1>1, <1>2, <2>1, <2>2 DEF FitTypeOK, FitInv
<1>5. nrind' => Cardinality(Gruene) >= 2
  BY <1>3 DEF FitInv, Gruene, FitTypeOK
<1>6. /\ Gruene' = Gruene /\ LF!Gruene(vorher') = Gruene
      /\ LF!Gruene(vorher)' = Gruene
  BY DEF Gruene, LF!Gruene
<1>7. InDerRunde'
  <2>1. Bleibt(urteil) = Gruene
    BY <1>1, Farben DEF Bleibt, Gruene, LF!Gruene, Gruen
  <2>2. QED
    BY <2>1, <1>6 DEF InDerRunde, Bleibt
<1>8. lauf' < Laeufe /\ ort' = "pruefe"
  OBVIOUS
<1>9. (nrind => Cardinality(LF!Gruene(IF ort = "pruefe" THEN vorher ELSE urteil)) >= 2)'
  BY <1>5, <1>6
<1>10. QED
  BY <1>4, <1>7, <1>8, <1>9 DEF FitInv

LEMMA DurchgangErhaelt == FitInv /\ Durchgang => FitInv'
<1> SUFFICES ASSUME FitInv, Durchgang PROVE FitInv'
  OBVIOUS
<1> USE DEF Durchgang
<1>1. PICK drueber \in SUBSET Gruene :
        /\ urteil' = [l \in Linien |-> IF urteil[l] = Warte THEN Rot
                                       ELSE IF l \in drueber THEN Warte
                                       ELSE urteil[l]]
        /\ k_max' = Cardinality(Gruene \ drueber)
  OBVIOUS
<1>2. FitTypeOK /\ InDerRunde /\ lauf < Laeufe
  BY DEF FitInv
<1>3. Gruene \in SUBSET Linien /\ Gruene = {l \in Linien : urteil[l] = Gruen}
  BY DEF Gruene, LF!Gruene, Gruen
<1>4. Gruene' = Gruene \ drueber
  BY <1>1, <1>3, Farben DEF Gruene, LF!Gruene, Gruen
<1>5. LF!Gruene(vorher)' = LF!Gruene(vorher)
  BY DEF LF!Gruene
<1>6. FitTypeOK'
  <2>1. urteil' \in [Linien -> LF!Urteile \cup {Warte}]
    BY <1>1, <1>2, Farben DEF FitTypeOK
  <2>2. k_max' \in Nat
    <3>1. Gruene \ drueber \in SUBSET Linien
      BY <1>3
    <3>2. QED
      BY <1>1, <3>1, Zahl
  <2>3. stufe' \in 0 .. Stufen
    BY <1>2, FitAssumption DEF FitTypeOK, Weiter
  <2>4. QED
    BY <1>2, <2>1, <2>2, <2>3 DEF FitTypeOK
<1>7. InDerRunde'
  <2>1. ASSUME NEW l \in Linien
        PROVE  \/ urteil'[l] = vorher'[l]
               \/ (vorher'[l] = Gruen /\ urteil'[l] \in {Rot, Warte})
    <3>1. \/ urteil[l] = vorher[l]
          \/ (vorher[l] = Gruen /\ urteil[l] \in {Rot, Warte})
      BY <1>2 DEF InDerRunde
    <3>2. vorher[l] # Warte
      BY <1>2, Farben DEF FitTypeOK
    <3>3. CASE urteil[l] = Warte
      BY <1>1, <3>1, <3>2, <3>3
    <3>4. CASE l \in drueber
      BY <1>1, <1>3, <3>1, <3>4, Farben
    <3>5. CASE urteil[l] # Warte /\ l \notin drueber
      BY <1>1, <3>1, <3>5
    <3>6. QED
      BY <3>3, <3>4, <3>5
  <2>2. Bleibt(urteil)' = Gruene
    BY <1>1, <1>3, Farben DEF Bleibt
  <2>3. LF!Genug(Gruene, LF!Gruene(vorher))
    BY <1>2, GenugHeisst DEF Weiter, InDerRunde
  <2>4. QED
    BY <2>1, <2>2, <2>3, <1>1, <1>2, <1>4, <1>5 DEF InDerRunde, Bleibt
<1>8. (nrind => Cardinality(LF!Gruene(IF ort = "pruefe" THEN vorher ELSE urteil)) >= 2)'
  BY <1>5 DEF FitInv
<1>9. QED
  BY <1>2, <1>6, <1>7, <1>8 DEF FitInv

(* At the end of a round the green lines are those that remain. *)
LEMMA Zurueckgegeben ==
  ASSUME FitInv, RundeEnde
  PROVE  /\ urteil' \in [Linien -> LF!Urteile]
         /\ LF!Gruene(urteil') = Bleibt(urteil)
<1>1. FitTypeOK
  BY DEF FitInv
<1>2. urteil' = [l \in Linien |-> IF urteil[l] = Warte THEN Gruen ELSE urteil[l]]
  BY DEF RundeEnde
<1>3. QED
  BY <1>1, <1>2, Farben DEF FitTypeOK, LF!Gruene, Gruen, Bleibt

LEMMA RundeEndeErhaelt == FitInv /\ RundeEnde => FitInv'
<1> SUFFICES ASSUME FitInv, RundeEnde PROVE FitInv'
  OBVIOUS
<1>1. FitTypeOK /\ InDerRunde /\ lauf < Laeufe /\ ort = "pruefe"
  BY DEF FitInv, RundeEnde
<1>2. urteil' \in [Linien -> LF!Urteile] /\ LF!Gruene(urteil') = Bleibt(urteil)
  BY Zurueckgegeben
<1>3. FitTypeOK'
  <2>1. lauf' \in 1 .. Laeufe + 1
    BY <1>1, FitAssumption DEF RundeEnde, FitTypeOK
  <2>2. QED
    BY <1>1, <1>2, <2>1 DEF FitTypeOK, RundeEnde
<1>4. nrind => Cardinality(Bleibt(urteil)) >= 2
  <2>1. Bleibt(urteil) = LF!Gruene(vorher) \/ LF!Genug(Bleibt(urteil), LF!Gruene(vorher))
    BY <1>1 DEF InDerRunde, Bleibt
  <2>2. nrind => Cardinality(LF!Gruene(vorher)) >= 2
    BY <1>1 DEF FitInv
  <2>3. Bleibt(urteil) \in SUBSET Linien /\ LF!Gruene(vorher) \in SUBSET Linien
    BY DEF Bleibt, LF!Gruene
  <2>4. QED
    BY <2>1, <2>2, <2>3, ZweiBleiben
<1>5. (nrind => Cardinality(LF!Gruene(IF ort = "pruefe" THEN vorher ELSE urteil)) >= 2)'
  <2>1. ort' = "suche" /\ nrind' = nrind
    BY DEF RundeEnde
  <2>2. QED
    BY <2>1, <1>2, <1>4 DEF LF!Gruene
<1>6. QED
  BY <1>2, <1>3, <1>5 DEF FitInv, RundeEnde

LEMMA SchlussErhaelt == FitInv /\ Schluss => FitInv'
<1> SUFFICES ASSUME FitInv, Schluss PROVE FitInv'
  OBVIOUS
<1>1. FitTypeOK /\ ort = "suche" /\ urteil \in [Linien -> LF!Urteile]
  BY DEF FitInv, Schluss
<1>2. PICK gefunden \in BOOLEAN : /\ gefunden => Cardinality(Gruene) >= 2
                                  /\ nrind' = (nrind \/ gefunden)
  BY DEF Schluss, Gesucht
<1>3. nrind' => Cardinality(LF!Gruene(urteil)) >= 2
  BY <1>1, <1>2 DEF FitInv, Gruene, FitTypeOK
<1>4. FitTypeOK'
  <2>1. nrind' \in BOOLEAN
    BY <1>2
  <2>2. korrektur' \in LF!Korrekturen
    BY Farben DEF Schluss
  <2>3. lauf' \in 1 .. Laeufe + 1
    BY <1>1, FitAssumption DEF Schluss, FitTypeOK
  <2>4. QED
    BY <1>1, <2>1, <2>2, <2>3 DEF FitTypeOK, Schluss
<1>5. (nrind => Cardinality(LF!Gruene(IF ort = "pruefe" THEN vorher ELSE urteil)) >= 2)'
  <2>1. ort' = "fertig" /\ urteil' = urteil
    BY DEF Schluss
  <2>2. QED
    BY <2>1, <1>3 DEF LF!Gruene
<1>6. QED
  BY <1>1, <1>4, <1>5 DEF FitInv, Schluss

LEMMA StotternErhaelt == FitInv /\ UNCHANGED fitvars => FitInv'
BY DEF FitInv, FitTypeOK, InDerRunde, Gruene, LF!Gruene, LF!Genug, fitvars

(* The counts of the outlier loop are those of the lines, a mark never     *)
(* survives its round, and whenever a search has been possible two green   *)
(* lines are there: for any number of lines and whatever the limits.       *)
THEOREM Zaehlung == FitSpec => []FitInv
<1>1. FitInv /\ [FitNext]_fitvars => FitInv'
  BY SucheErhaelt, DurchgangErhaelt, RundeEndeErhaelt, SchlussErhaelt,
     StotternErhaelt DEF FitNext
<1>2. QED
  BY FitAmAnfang, <1>1, PTL DEF FitSpec

-----------------------------------------------------------------------------
(* The refinement. *)

LEMMA RundeIstRunde ==
  ASSUME FitInv, RundeEnde
  PROVE  LF!Runde
<1> DEFINE weg == LF!Gruene(vorher) \ Bleibt(urteil)
<1>1. FitTypeOK /\ InDerRunde /\ lauf < Laeufe /\ ort = "pruefe" /\ ort' = "suche"
  BY DEF FitInv, RundeEnde
<1>2. weg \in SUBSET LF!Gruene(vorher)
  OBVIOUS
<1>3. Bleibt(urteil) \subseteq LF!Gruene(vorher)
  <2>1. ASSUME NEW l \in Linien, urteil[l] \in {Gruen, Warte}
        PROVE  vorher[l] = Gruen
    <3>1. \/ urteil[l] = vorher[l]
          \/ (vorher[l] = Gruen /\ urteil[l] \in {Rot, Warte})
      BY <1>1 DEF InDerRunde
    <3>2. vorher[l] # Warte
      BY <1>1, Farben DEF FitTypeOK
    <3>3. QED
      BY <2>1, <3>1, <3>2
  <2>2. QED
    BY <2>1 DEF Bleibt, LF!Gruene, Gruen
<1>4. LF!Gruene(vorher) \ weg = Bleibt(urteil)
  BY <1>3
<1>5. weg # {} => LF!Genug(LF!Gruene(vorher) \ weg, LF!Gruene(vorher))
  <2>1. Bleibt(urteil) = LF!Gruene(vorher) \/ LF!Genug(Bleibt(urteil), LF!Gruene(vorher))
    BY <1>1 DEF InDerRunde, Bleibt
  <2>2. QED
    BY <2>1, <1>4
<1>6. urteil' = [l \in Linien |-> IF l \in weg THEN LF!Rot ELSE vorher[l]]
  <2>1. urteil' = [l \in Linien |-> IF urteil[l] = Warte THEN Gruen ELSE urteil[l]]
    BY DEF RundeEnde
  <2>2. ASSUME NEW l \in Linien
        PROVE  (IF urteil[l] = Warte THEN Gruen ELSE urteil[l])
               = (IF l \in weg THEN LF!Rot ELSE vorher[l])
    <3>1. \/ urteil[l] = vorher[l]
          \/ (vorher[l] = Gruen /\ urteil[l] \in {Rot, Warte})
      BY <1>1 DEF InDerRunde
    <3>2. vorher[l] # Warte
      BY <1>1, Farben DEF FitTypeOK
    <3>3. l \in weg <=> vorher[l] = Gruen /\ urteil[l] \notin {Gruen, Warte}
      BY DEF LF!Gruene, Bleibt, Gruen
    <3>4. LF!Rot = Rot
      BY DEF Rot
    <3>5. QED
      BY <3>1, <3>2, <3>3, <3>4, Farben
  <2>3. QED
    BY <2>1, <2>2
<1>7. LF!Aussortiert(vorher, urteil')
  BY <1>2, <1>5, <1>6 DEF LF!Aussortiert
<1>8. lauf' = lauf + 1 /\ korrektur' = korrektur
  BY DEF RundeEnde
<1>9. QED
  BY <1>1, <1>7, <1>8 DEF LF!Runde

LEMMA SchlussIstSchluss ==
  ASSUME FitInv, Schluss
  PROVE  LF!Schluss
<1>1. ort = "suche" /\ ort' = "fertig" /\ lauf = Laeufe /\ lauf' = lauf + 1
      /\ urteil' = urteil
  BY DEF Schluss
<1>2. PICK gefunden \in BOOLEAN : /\ gefunden => Cardinality(Gruene) >= 2
                                  /\ nrind' = (nrind \/ gefunden)
  BY DEF Schluss, Gesucht
<1>3. nrind' => LF!Cardinality(LF!Gruene(urteil)) >= 2
  BY <1>1, <1>2, EineAnzahl DEF FitInv, Gruene, FitTypeOK
<1>4. korrektur' \in {"neu", "null"} /\ (korrektur' = "neu" => nrind')
  BY DEF Schluss
<1>5. QED
  BY <1>1, <1>3, <1>4 DEF LF!Schluss

LEMMA SonstStottern ==
  ASSUME FitInv, Suche \/ Durchgang \/ UNCHANGED fitvars
  PROVE  UNCHANGED LF!vars
<1>1. CASE Suche
  BY <1>1 DEF Suche, LF!vars
<1>2. CASE Durchgang
  BY <1>2 DEF Durchgang, LF!vars
<1>3. CASE UNCHANGED fitvars
  BY <1>3 DEF fitvars, LF!vars
<1>4. QED
  BY <1>1, <1>2, <1>3

(* fithomography's marking loop implements the promise of LineFit for any  *)
(* number of lines, rounds and passes.                                     *)
THEOREM Verfeinerung == FitSpec => ErfuelltLineFit
<1>1. FitInit => LF!Init
  BY DEF FitInit, LF!Init
<1>2. FitInv /\ [FitNext]_fitvars => [LF!Next]_LF!vars
  BY RundeIstRunde, SchlussIstSchluss, SonstStottern DEF FitNext, LF!Next
<1>3. QED
  BY Zaehlung, <1>1, <1>2, PTL DEF FitSpec, ErfuelltLineFit, LF!Spec
=============================================================================
